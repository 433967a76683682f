----------------------------- MODULE MCReliable -----------------------------
(* Instances of ReliableRTPS for TLC, with one or two readers. *)
EXTENDS ReliableRefinement

CONSTANTS r1, r2

NoFilter == {}
FirstForR1 == {<<r1, 1>>}       \* r1 filters sample 1 out
SecondForR1 == {<<r1, 2>>}      \* r1 filters sample 2 out

=============================================================================
