----------------------------- MODULE MCKeystore -----------------------------
(* Keystore for TLC.                                                       *)
EXTENDS Keystore, TLC

=============================================================================
