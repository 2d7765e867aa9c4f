---------------------------- MODULE MCSubscribed ----------------------------
(* Instances of the security wallet with a subscribed client for TLC. *)
EXTENDS SubscribedWallet, MCInputs

=============================================================================
