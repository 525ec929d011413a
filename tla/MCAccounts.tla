------------------------------ MODULE MCAccounts ------------------------------
(* Instances of Accounts for TLC. *)
EXTENDS Accounts, TLC

CONSTANTS a1, a2, c1, c2, p1, p2

TwoAccounts == {a1, a2}
TwoCampaigns == {c1, c2}
TwoProcs == {p1, p2}
NoHome == [g \in {} |-> a1]
Same == Permutations(TwoCampaigns) \cup Permutations(TwoProcs)
=============================================================================
