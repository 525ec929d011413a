------------------------------ MODULE MCDelivery ------------------------------
(* Instances of Delivery for TLC. *)
EXTENDS Delivery, TLC

CONSTANTS g1, g2, p1, p2

TwoGroups == {g1, g2}
TwoProcs == {p1, p2}
SameProcs == Permutations(TwoProcs)
=============================================================================
