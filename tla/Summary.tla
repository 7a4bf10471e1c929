------------------------------ MODULE Summary -------------------------------
(***************************************************************************)
(* One send-eth or send-token from the typed amount to the transaction the *)
(* user approves (src/cli/commands.rs), as far as numbers go: the amount   *)
(* is parsed, the fee is estimated, the summary of src/cli/pure.rs is      *)
(* shown, the user answers.                                                *)
(***************************************************************************)
EXTENDS Amount

CONSTANTS
  Texts,        \* what users type for an amount
  MaxDecimals,  \* bound on --decimals, 255 in the code
  EthDecimals,  \* 18
  EthDigits,    \* digits format_eth shows of them, 6
  GweiDecimals, \* 9
  GweiDigits,   \* digits format_gwei shows of them, 4
  GasLimit,     \* 21_000
  MaxFee,       \* bound: the highest max_fee_per_gas the node suggests
  None          \* nothing yet

ASSUME SummaryAssumption ==
  /\ Texts \subseteq DecimalTexts
  /\ \A d \in {MaxDecimals, GasLimit, MaxFee} : d \in Nat
  /\ EthDecimals \in 0 .. MaxDecimals /\ EthDigits \in 1 .. EthDecimals
  /\ GweiDecimals \in Nat /\ GweiDigits \in 1 .. GweiDecimals
  /\ GasLimit * MaxFee < Modulus
  /\ None \notin Nat

VARIABLES
  at,           \* where the command is
  kind,         \* "eth" or "token"
  typed,        \* the amount argument
  decimals,     \* 18, or --decimals
  value,        \* the parsed Amount
  fee,          \* max_fee_per_gas of the estimate
  shown         \* the numbers of the summary

vars == <<at, kind, typed, decimals, value, fee, shown>>

Values == 0 .. Modulus - 1

TypeInv ==
  /\ at \in {"typed", "parsed", "estimated", "shown", "approved", "ended"}
  /\ kind \in {"eth", "token"}
  /\ typed \in Texts
  /\ decimals \in 0 .. MaxDecimals
  /\ value \in Values \cup {None}
  /\ fee \in 0 .. MaxFee \cup {None}
  /\ value = None <=> at = "typed" \/ (at = "ended" /\ fee = None)
  /\ shown # None => shown.raw \in Values

Init ==
  /\ at = "typed"
  /\ kind \in {"eth", "token"}
  /\ typed \in Texts
  /\ decimals \in IF kind = "eth" THEN {EthDecimals} ELSE 0 .. MaxDecimals
  /\ value = None /\ fee = None /\ shown = None

FormatEth(wei) == Format(wei, EthDecimals, EthDigits)
FormatGwei(wei) == Format(wei, GweiDecimals, GweiDigits)

\* The gas a summary counts: none for a token transfer.
Gas == IF kind = "eth" THEN GasLimit ELSE 0

\* MUTANT of Total: the fee is counted once, not per gas.
TotalOnce(wei, gas, f) == (wei + f) % Modulus

\* `*` and `+` of U256 wrap.
Total(wei, gas, f) == (wei + ((gas * f) % Modulus)) % Modulus

ParseFails ==
  /\ at = "typed"
  /\ Parse(typed, decimals) = Error
  /\ at' = "ended"
  /\ UNCHANGED <<kind, typed, decimals, value, fee, shown>>

ParseOk ==
  /\ at = "typed"
  /\ Parse(typed, decimals) # Error
  /\ at' = "parsed"
  /\ value' = Parse(typed, decimals)
  /\ UNCHANGED <<kind, typed, decimals, fee, shown>>

EstimateFees(f) ==
  /\ at = "parsed"
  /\ at' = "estimated"
  /\ fee' = f
  /\ UNCHANGED <<kind, typed, decimals, value, shown>>

\* format_send_summary; the nonce, the hash and the destination are those of
\* module WalletSend.  A token amount is shown as if it were ETH.
Show ==
  /\ at = "estimated"
  /\ at' = "shown"
  /\ shown' = [amount |-> FormatEth(value), raw |-> value,
               fee |-> FormatGwei(fee),
               total |-> FormatEth(Total(value, Gas, fee))]
  /\ UNCHANGED <<kind, typed, decimals, value, fee>>

\* is_yes_answer: "y" or "yes" in any case, with blanks around it.
Yes(answer) == answer \in {"y", "yes"}

\* confirm(); without a yes, and in a dry run, nothing is sent.
Answer(answer) ==
  /\ at = "shown"
  /\ at' = IF Yes(answer) THEN "approved" ELSE "ended"
  /\ UNCHANGED <<kind, typed, decimals, value, fee, shown>>

Next ==
  \/ ParseFails \/ ParseOk
  \/ \E f \in 0 .. MaxFee : EstimateFees(f)
  \/ Show
  \/ \E answer \in {"y", "yes", "no", ""} : Answer(answer)

Spec == Init /\ [][Next]_vars

-----------------------------------------------------------------------------
(* What users rely on.                                                     *)

\* Below the wrap: 10^decimals fits U256.  Up to 77 decimals it does.
Fits == Pow[decimals] < Modulus

\* amount.rs: an amount that is accepted is never more than what was typed,
\* and exactly that if no "_" stands behind the point; what fits U256 is not
\* refused.  Padding, the length check, "_" and the three overflow checks
\* all bear on it.  Beyond the wrap nothing is promised.
ParsedIsTyped ==
  at # "typed" /\ Fits /\ WellFormed(typed, decimals) =>
    /\ value # None => value <= Meant(typed, decimals)
    /\ (\A i \in DOMAIN typed.frac : typed.frac[i] # Skip) =>
          value = IF Meant(typed, decimals) < Modulus
                  THEN Meant(typed, decimals) ELSE None

\* pure.rs: the amount and the fee of the summary, read as decimals, are the
\* true ones cut off after the digits that are shown; the raw amount is
\* exact.  (A lost leading zero would show ten times as much.)
ReadsAs(text, wei, d, digits) ==
  /\ Meant(text, d) <= wei
  /\ wei < Meant(text, d) + Pow[d - digits]

ShownIsRounded ==
  at \in {"shown", "approved"} =>
    /\ ReadsAs(shown.amount, value, EthDecimals, EthDigits)
    /\ ReadsAs(shown.fee, fee, GweiDecimals, GweiDigits)
    /\ shown.raw = value

\* commands.rs, P0-9: an ETH transfer that is approved costs, with all its
\* gas, less than one displayed unit more than the total the user saw.  If
\* amount and gas together pass U256 the total wraps and shows less.
ApprovedIsCovered ==
  at = "approved" /\ kind = "eth" /\ value + GasLimit * fee < Modulus =>
    value + GasLimit * fee
      < Meant(shown.total, EthDecimals) + Pow[EthDecimals - EthDigits]

=============================================================================
