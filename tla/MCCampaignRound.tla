--------------------------- MODULE MCCampaignRound ---------------------------
(* Instances of CampaignRound for TLC. *)
EXTENDS CampaignRound, TLC

CONSTANTS w1, w2, g1, g2

TwoWorkers == {w1, w2}
TwoGroups == {g1, g2}

\* For the runs without temporal properties; nothing chooses a worker or a group.
Symmetry == Permutations(TwoWorkers) \cup Permutations(TwoGroups)

Signalled == {"text", "groups", "stop", "rival", "start", "delete"}
LiveOps == {"text", "stop", "start", "delete"}
DeleteOps == {"delete"}
IntervalOps == {"interval"}

NoFailures == {}
AllFailures == {"redis", "commit"}
=============================================================================
