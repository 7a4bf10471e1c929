------------------------------- MODULE Amount -------------------------------
(***************************************************************************)
(* Amounts between the keyboard and the screen: the decimal parser of      *)
(* src/types/amount.rs and the formatters of src/cli/pure.rs.              *)
(*                                                                         *)
(* U256 is 0 .. Modulus - 1.  The parser checks its product and its sum,   *)
(* but pow, and the + and * of the formatters, wrap.  A decimal text is    *)
(* the number before the point and the characters after it; ruint skips    *)
(* the character "_" wherever it stands, and the length of the fraction    *)
(* counts it.                                                              *)
(***************************************************************************)
EXTENDS Naturals, Sequences, FiniteSets

CONSTANTS
  Modulus,      \* 2^256 in the code
  Skip,         \* the character "_"
  Malformed,    \* a part with any other character that is not a digit
  Error         \* AmountParseError

Digits == 0 .. 9

\* Texts before they are looked at.
DecimalTexts ==
  [int : Nat \cup {Malformed}, frac : Seq(Digits \cup {Skip}) \cup {Malformed}]

ASSUME AmountAssumption ==
  /\ Modulus \in Nat \ {0}
  /\ Skip \notin Nat
  /\ Malformed \notin Nat
  /\ Error \notin Nat

\* 10^n, as a number without a width.
Pow[n \in Nat] == IF n = 0 THEN 1 ELSE 10 * Pow[n - 1]

\* from_str_radix(s, 10) before its overflow check.
Number(s) ==
  LET upTo[i \in 0 .. Len(s)] ==
        IF i = 0 THEN 0
        ELSE IF s[i] = Skip THEN upTo[i - 1] ELSE 10 * upTo[i - 1] + s[i]
  IN  upTo[Len(s)]

-----------------------------------------------------------------------------
(* Amount::try_from_decimal_str.  `int` is a number (0 if there is none)   *)
(* or Malformed, `frac` a sequence of characters or Malformed.             *)

\* MUTANT of Padded: the zeros go to the left of the fraction.
PaddedLeft(frac, decimals) == Number(frac)

\* The fraction, padded with zeros on the right to `decimals` characters.
Padded(frac, decimals) == Number(frac) * Pow[decimals - Len(frac)]

\* U256::from(10).pow(decimals) wraps.
Multiplier(decimals) == Pow[decimals] % Modulus

WellFormed(text, decimals) ==
  /\ text.int # Malformed /\ text.frac # Malformed
  /\ Len(text.frac) <= decimals

\* MUTANT of Parse: the product and the sum are not checked.
ParseUnchecked(text, decimals) ==
  IF WellFormed(text, decimals)
  THEN text.int * Multiplier(decimals) + Padded(text.frac, decimals)
  ELSE Error

\* Each part must fit U256, then checked_mul and checked_add.
Parse(text, decimals) ==
  IF /\ WellFormed(text, decimals)
     /\ text.int < Modulus
     /\ Padded(text.frac, decimals) < Modulus
     /\ text.int * Multiplier(decimals) + Padded(text.frac, decimals) < Modulus
  THEN text.int * Multiplier(decimals) + Padded(text.frac, decimals)
  ELSE Error

-----------------------------------------------------------------------------
(* format_eth and format_gwei: `wei` in units of 10^decimals, with the     *)
(* first `shown` digits of the fraction; the rest is cut off.              *)

\* MUTANT of Fraction: leading zeros are lost.
FractionUnpadded(n, shown) ==
  LET lengths == {k \in 1 .. shown : n < Pow[k]}
      length == CHOOSE k \in lengths : \A j \in lengths : k <= j
  IN  [i \in 1 .. length |-> (n \div Pow[length - i]) % 10]

\* n in `shown` digits, with leading zeros.
Fraction(n, shown) == [i \in 1 .. shown |-> (n \div Pow[shown - i]) % 10]

Format(wei, decimals, shown) ==
  [int |-> wei \div Pow[decimals],
   frac |-> Fraction((wei % Pow[decimals]) \div Pow[decimals - shown], shown)]

-----------------------------------------------------------------------------
(* What a decimal text means, in units of 10^-decimals and without a       *)
(* width: the digits after the point count, "_" does not.                  *)

\* The place after the point of the digit that is the i-th character.
Place(frac, i) == Cardinality({j \in 1 .. i : frac[j] # Skip})

Meant(text, decimals) ==
  LET upTo[i \in 0 .. Len(text.frac)] ==
        IF i = 0 THEN text.int * Pow[decimals]
        ELSE IF text.frac[i] = Skip THEN upTo[i - 1]
        ELSE upTo[i - 1] + text.frac[i] * Pow[decimals - Place(text.frac, i)]
  IN  upTo[Len(text.frac)]

=============================================================================
