--------------------------- MODULE MCNonceManager ---------------------------
(* NonceManager for TLC.                                                   *)
EXTENDS NonceManager, TLC

=============================================================================
