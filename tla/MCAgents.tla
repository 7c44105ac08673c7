------------------------------ MODULE MCAgents ------------------------------
(* Small instances of Agents for TLC.                                        *)
EXTENDS Agents, TLC

CONSTANTS main, coder, r1, r2, r3, command, watcher, q1

OneName == {coder}
ThreeRuns == {r1, r2, r3}
OneCommand == {command}
OneRequest == {q1}
=============================================================================
