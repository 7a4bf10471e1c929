------------------------------ MODULE MCFeeBump -----------------------------
(* FeeBump for TLC.                                                        *)
EXTENDS FeeBump, TLC

=============================================================================
