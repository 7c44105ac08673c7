------------------------------ MODULE MCOutbox ------------------------------
(* Small instances of Outbox for TLC.                                        *)
EXTENDS Outbox, TLC

\* The first reply cannot be delivered, the second is one message, the third is
\* two messages and a file.  All but the last were left by an earlier process.
ThreeReplies == 1..3
First == {1}
Third == {3}
AllButLast == Items \ {Cardinality(Items)}
ThirdIsLong == [i \in Items |-> IF i = 3 THEN 2 ELSE 1]
=============================================================================
