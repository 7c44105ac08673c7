----------------------------- MODULE MCLockPool -----------------------------
(* Small instances of LockPool for TLC.                                      *)
EXTENDS LockPool, TLC

CONSTANTS k1, k2, k3, k4, k5, t1, t2, t3, t4, t5, t6

\* Five sessions, of which the first has two turns: with MaxLocks = 4 the fifth
\* get() finds up to four idle locks and evicts half of them.
FiveKeys == {k1, k2, k3, k4, k5}
SixTurns == {t1, t2, t3, t4, t5, t6}
TwoAndOneEach ==
  (t1 :> k1) @@ (t2 :> k1) @@ (t3 :> k2) @@ (t4 :> k3) @@ (t5 :> k4) @@ (t6 :> k5)
=============================================================================
