--------------------------- MODULE MCSessionQueue ---------------------------
(* Small instances of SessionQueue for TLC.                                  *)
EXTENDS SessionQueue, TLC

CONSTANTS k1, k2, m1, m2, m3, b1, c1, stop1

\* One chat with two sessions (topics): two messages and a background turn in the
\* first, one message in the second.
TwoKeys == {k1, k2}
OneChat == {c1}
InOneChat == (k1 :> c1) @@ (k2 :> c1)
OneStop == {stop1}
StopInChat == (stop1 :> c1)
ThreeMessages == {m1, m2, m3}
FourTurns == ThreeMessages \cup {b1}
SmallSessionOfTurn == (m1 :> k1) @@ (m2 :> k1) @@ (m3 :> k2) @@ (b1 :> k1)
=============================================================================
