--------------------------- MODULE MCCampaignLock ---------------------------
(* Instances of CampaignLock for TLC. *)
EXTENDS CampaignLock

CONSTANTS w1, w2, w3, t1, t2, t3, t4

ThreeWorkers == {w1, w2, w3}
FourTokens == {t1, t2, t3, t4}
=============================================================================
