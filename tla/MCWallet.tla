------------------------------ MODULE MCWallet ------------------------------
(* Instances of the security wallet and of its refinement for TLC. *)
EXTENDS WalletRefinement, MCInputs

=============================================================================
