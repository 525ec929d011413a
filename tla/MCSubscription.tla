---------------------------- MODULE MCSubscription ----------------------------
(* Instances of Subscription for TLC. *)
EXTENDS Subscription

TwoTariffs == {4, 6}
=============================================================================
