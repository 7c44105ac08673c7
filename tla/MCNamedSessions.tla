--------------------------- MODULE MCNamedSessions ---------------------------
(* Small instances of NamedSessions for TLC.                                 *)
EXTENDS NamedSessions, TLC

CONSTANTS redowl, calmfox, start, again, ask, reply, resume, revive, retry, renew

TwoNames == {redowl, calmfox}
EightJobs == {start, again, ask, reply, resume, revive, retry, renew}
TwoNew == {start, again}
OnlyReply == {reply}
FourResume == {resume, revive, retry, renew}
Symmetric == Permutations(TwoNames) \cup Permutations(TwoNew) \cup Permutations(FourResume)
=============================================================================
