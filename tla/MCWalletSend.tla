---------------------------- MODULE MCWalletSend ----------------------------
(* WalletSend for TLC.                                                     *)
EXTENDS WalletSend, TLC

=============================================================================
