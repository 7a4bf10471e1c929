------------------------------ MODULE MCWallet ------------------------------
(* Wallet for TLC. *)
EXTENDS Wallet, TLC

=============================================================================
