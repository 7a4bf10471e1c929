------------------------------ MODULE FeeBump -------------------------------
(***************************************************************************)
(* The fees of a replacement: compute_bump (src/chain/rbf.rs) on top of    *)
(* estimate_fees (src/chain/alloy_chain.rs), and the node that takes or    *)
(* refuses what they lead to.                                              *)
(*                                                                         *)
(* One transaction is bumped or cancelled again and again while the fee    *)
(* market moves, also between the estimate and the broadcast.  The amounts *)
(* are naturals: U256 holds 110 times any u128, so nothing wraps before    *)
(* build_eth_transfer refuses what exceeds u128.                           *)
(***************************************************************************)
EXTENDS Integers

CONSTANTS
  Gwei,         \* 1_000_000_000 in the code
  Limit,        \* u128::MAX in the code
  MaxBase,      \* bound: the highest base fee of the market
  MaxPrio,      \* bound: the highest median priority fee
  MaxBumps,     \* bound: how many times the transaction is bumped
  NoEstimate    \* no estimate in hand

Fees == [cap : 0 .. Limit, tip : 0 .. Limit]

Estimates == [base : Nat, prio : Nat]

ASSUME FeeAssumption ==
  /\ Gwei \in Nat \ {0}
  /\ Limit \in Nat
  /\ MaxBase \in Nat
  /\ MaxPrio \in Nat
  /\ MaxBumps \in Nat
  /\ NoEstimate \notin Estimates

VARIABLES
  tx,           \* max_fee_per_gas and max_priority_fee_per_gas of the
                \* transaction the node has
  market,       \* what eth_feeHistory would return
  est,          \* the estimate the running command works with
  bumps,        \* bound: bumps so far
  verdict       \* what became of the last one

vars == <<tx, market, est, bumps, verdict>>

Markets == [base : 0 .. MaxBase, prio : 0 .. MaxPrio]

Verdicts == {"none", "taken", "overflow", "underpriced", "tip above cap"}

-----------------------------------------------------------------------------
(* The code.                                                               *)

Larger(a, b) == IF a >= b THEN a ELSE b

\* MUTANT of TenPercentMore: 10 percent of the fee instead of 110.
TenPercentOnly(fee) == (fee * 10) \div 100

TenPercentMore(fee) == (fee * 110) \div 100

\* MUTANT of Bumped: a bump that forgets the market.
BumpedByOriginal(fee, floor) == Larger(TenPercentMore(fee), fee + Gwei)

\* One of the two three-term maxima.
Bumped(fee, floor) ==
  Larger(Larger(TenPercentMore(fee), fee + Gwei), floor)

ComputeBump(original, e) ==
  [cap |-> Bumped(original.cap, 2 * e.base + e.prio),
   tip |-> Bumped(original.tip, e.prio)]

\* estimate_fees: 20 gwei and 1 gwei stand in for what the history lacks.
EstimateFees(baseKnown, prioKnown) ==
  [base |-> IF baseKnown THEN market.base ELSE 20 * Gwei,
   prio |-> IF prioKnown THEN market.prio ELSE Gwei]

-----------------------------------------------------------------------------
(* The node (go-ethereum's rules): the tip within the cap, and to replace  *)
(* a transaction at its nonce 10 percent more of both fees, rounded down,  *)
(* and more than before.                                                   *)

Outbids(new, old) ==
  /\ new.cap > old.cap /\ new.cap >= (110 * old.cap) \div 100
  /\ new.tip > old.tip /\ new.tip >= (110 * old.tip) \div 100

TooLarge(new) == new.cap > Limit \/ new.tip > Limit

\* MUTANT of Verdict: nothing checks that the fees fit u128.
VerdictUnchecked(new) ==
  CASE new.tip > new.cap -> "tip above cap"
    [] new.tip <= new.cap /\ ~ Outbids(new, tx) -> "underpriced"
    [] OTHER -> "taken"

\* build_eth_transfer refuses what does not fit u128; the rest is the node's.
Verdict(new) ==
  CASE TooLarge(new) -> "overflow"
    [] ~ TooLarge(new) /\ new.tip > new.cap -> "tip above cap"
    [] ~ TooLarge(new) /\ new.tip <= new.cap /\ ~ Outbids(new, tx)
         -> "underpriced"
    [] OTHER -> "taken"

-----------------------------------------------------------------------------
\* The original is any EIP-1559 transaction a node holds, from this wallet or
\* another one.
Init ==
  /\ tx \in Fees
  /\ tx.tip <= tx.cap
  /\ market = [base |-> 0, prio |-> 0]
  /\ est = NoEstimate
  /\ bumps = 0
  /\ verdict = "none"

MarketMoves(m) ==
  /\ m # market
  /\ market' = m
  /\ UNCHANGED <<tx, est, bumps, verdict>>

Estimate ==
  /\ est = NoEstimate
  /\ bumps < MaxBumps
  /\ \E b, p \in BOOLEAN : est' = EstimateFees(b, p)
  /\ UNCHANGED <<tx, market, bumps, verdict>>

\* bump_fee and cancel from the estimate on: compute, build, broadcast.
Bump ==
  /\ est # NoEstimate
  /\ LET new == ComputeBump(tx, est) IN
     /\ verdict' = Verdict(new)
     /\ tx' = IF Verdict(new) = "taken" THEN new ELSE tx
  /\ est' = NoEstimate
  /\ bumps' = bumps + 1
  /\ UNCHANGED market

Next == (\E m \in Markets : MarketMoves(m)) \/ Estimate \/ Bump

Spec == Init /\ [][Next]_vars

-----------------------------------------------------------------------------
\* Type correctness, and the pool's transaction stays a valid one.
TypeInv ==
  /\ tx \in Fees /\ tx.tip <= tx.cap
  /\ market \in Markets
  /\ est \in Estimates \cup {NoEstimate}
  /\ bumps \in 0 .. MaxBumps
  /\ verdict \in Verdicts

\* The three-term formula of ADR-0008 is enough: whatever the original's
\* fees and however the market moves, the node never refuses a bump as
\* underpriced nor for a tip above the cap, in any number of bumps.
NeverRefused == verdict \notin {"underpriced", "tip above cap"}

\* A bump that is taken pays at least a gwei more of both fees and at least
\* what estimate_fees would have a fresh transaction pay.
BumpCompetes ==
  [][tx' # tx =>
       /\ tx'.cap >= tx.cap + Gwei
       /\ tx'.tip >= tx.tip + Gwei
       /\ tx'.cap >= 2 * est.base + est.prio
       /\ tx'.tip >= est.prio]_vars

=============================================================================
