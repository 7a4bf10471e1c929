------------------------------- MODULE MCRepl -------------------------------
(* A layer sets a switch, or at most two other options; any two layers     *)
(* disagree about each option somewhere.                                   *)
EXTENDS Repl, FiniteSets

Sets(p) == {f \in DOMAIN p : p[f] \notin {Unset, FALSE}}

MCSettings ==
  {p \in Partial :
     Cardinality(Sets(p)) <= IF p.json \/ p.no_history THEN 1 ELSE 2}

=============================================================================
