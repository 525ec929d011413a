----------------------------- MODULE MCRateLimit -----------------------------
(* An instance of RateLimit for TLC. *)
EXTENDS RateLimit

CONSTANTS p1, p2, p3, p4

FourProcs == {p1, p2, p3, p4}
=============================================================================
