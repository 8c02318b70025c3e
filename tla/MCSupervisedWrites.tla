------------------------- MODULE MCSupervisedWrites -------------------------
(* Instances of SupervisedWrites for TLC. *)
EXTENDS SupervisedWrites

CONSTANTS a1, d1, d2

OneAgent  == [t \in Tasks |-> a1]
\* The second call is the first's standby: it creates a document that the
\* first creates too.  The third only computes.
Documents == [t \in Tasks |-> CASE t = 1 -> {d1, d2} [] t = 2 -> {d2}
                                [] OTHER -> {}]
=============================================================================
