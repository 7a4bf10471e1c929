----------------------------- MODULE MCSummary ------------------------------
(* Texts around zero, the display's unit, and the width 1024. *)
EXTENDS Summary

Ints == {0, 1, 9, 10, 99, 102, 103, 1023, 1024, Malformed}

Fracs ==
  UNION {[1 .. n -> {0, 1, 9, Skip}] : n \in 0 .. 3} \cup {Malformed}

MCTexts == [int : Ints, frac : Fracs]

=============================================================================
