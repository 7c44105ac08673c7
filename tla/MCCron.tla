------------------------------- MODULE MCCron -------------------------------
(* Small instances of Cron for TLC.                                          *)
EXTENDS Cron, TLC

CONSTANTS nightly, hook, browser, early, late

OneJob == {nightly}
OneHook == {hook}
OneDep == {browser}
TwoPlans == {early, late}
AllOnBrowser == [w \in Jobs \cup Hooks |-> browser]
Symmetric == Permutations(TwoPlans)
=============================================================================
