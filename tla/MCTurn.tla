------------------------------- MODULE MCTurn -------------------------------
(* Small instances of Turn for TLC.                                          *)
EXTENDS Turn, TLC

CONSTANTS chat, main, topic, ask, next, result

OneChat == {chat}
TwoKeys == {main, topic}
BothOfChat == (main :> chat) @@ (topic :> chat)
ThreeTurns == {ask, next, result}
KeyOfThree == (ask :> topic) @@ (next :> main) @@ (result :> topic)
OnlyMain == {main}
OnlyResult == {result}
OnlyAsk == {ask}
NoGroups == {}
=============================================================================
