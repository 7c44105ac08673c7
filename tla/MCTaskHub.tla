----------------------------- MODULE MCTaskHub -----------------------------
(* Small instances of TaskHub for TLC.                                       *)
EXTENDS TaskHub, TLC

CONSTANTS a, b, chat, resume1, cancel1, cancel2

None == {}

\* One task; two tasks of one chat.
OneTask == {a}
TwoTasks == {a, b}
ChatOfOne == (a :> chat)
ChatOfTwo == ChatOfOne @@ (b :> chat)

OneResumer == {resume1}
ResumeA == (resume1 :> a)
NoResume == [q \in {} |-> a]

TwoCancellers == {cancel1, cancel2}
CancelATwice == (cancel1 :> {a}) @@ (cancel2 :> {a})
\* One of them is made by a tool in a turn of the chat, the other by a button.
OneChat == {chat}
ByTurnAndButton == (cancel1 :> OneChat) @@ (cancel2 :> {})
CancelNothing == [q \in {} |-> {}]
=============================================================================
