------------------------------ MODULE MCDialogs ------------------------------
(* Instances of Dialogs for TLC. *)
EXTENDS Dialogs, TLC

CONSTANTS a1, a2, c1, c2, g1, g2

TwoAccounts == {a1, a2}
TwoCampaigns == {c1, c2}
OneGroup == {g1}
OneCampaign == {c1}
SameCampaigns == Permutations(TwoCampaigns)
Home == [g \in OneGroup |-> a1]
=============================================================================
