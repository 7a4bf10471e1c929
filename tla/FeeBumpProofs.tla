--------------------------- MODULE FeeBumpProofs ----------------------------
(***************************************************************************)
(* Proofs about FeeBump: the three-term formula satisfies the node's rule  *)
(* for replacements for every pair of valid fees and every estimate, and   *)
(* so no sequence of bumps is ever refused as underpriced.                 *)
(***************************************************************************)
EXTENDS FeeBump, TLAPS

\* Ten percent more, rounded down, is at least the fee and grows with it.
LEMMA TenPercentProperties ==
  ASSUME NEW f \in Nat, NEW g \in Nat, f <= g
  PROVE  /\ TenPercentMore(f) \in Nat
         /\ TenPercentMore(f) = (110 * f) \div 100
         /\ TenPercentMore(f) <= TenPercentMore(g)
BY DEF TenPercentMore

\* Bumped is at least each of its three terms.
LEMMA BumpedBounds ==
  ASSUME NEW f \in Nat, NEW m \in Nat
  PROVE  /\ Bumped(f, m) \in Nat
         /\ Bumped(f, m) >= f + Gwei
         /\ Bumped(f, m) >= TenPercentMore(f)
         /\ Bumped(f, m) >= m
BY TenPercentProperties, FeeAssumption DEF Bumped, Larger

\* Bumped grows with the fee and with the floor: this keeps the tip within
\* the cap.
LEMMA BumpedMonotone ==
  ASSUME NEW f \in Nat, NEW g \in Nat, f <= g,
         NEW m \in Nat, NEW n \in Nat, m <= n
  PROVE  Bumped(f, m) <= Bumped(g, n)
<1>1. TenPercentMore(f) <= TenPercentMore(g) /\ f + Gwei <= g + Gwei
  BY TenPercentProperties, FeeAssumption
<1>2. TenPercentMore(f) \in Nat /\ TenPercentMore(g) \in Nat
  BY TenPercentProperties
<1> QED
  BY <1>1, <1>2, FeeAssumption DEF Bumped, Larger

\* What compute_bump returns for a valid original: valid fees that outbid it,
\* and that compete with the market of the estimate.
LEMMA ComputeBumpProperties ==
  ASSUME NEW o \in Fees, o.tip <= o.cap, NEW e \in Estimates
  PROVE  LET new == ComputeBump(o, e) IN
         /\ new.cap \in Nat /\ new.tip \in Nat
         /\ new.tip <= new.cap
         /\ Outbids(new, o)
         /\ new.cap >= o.cap + Gwei /\ new.tip >= o.tip + Gwei
         /\ new.cap >= 2 * e.base + e.prio /\ new.tip >= e.prio
<1> DEFINE new == ComputeBump(o, e)
<1>1. /\ o.cap \in Nat /\ o.tip \in Nat
      /\ e.base \in Nat /\ e.prio \in Nat
      /\ 2 * e.base + e.prio \in Nat
      /\ e.prio <= 2 * e.base + e.prio
  BY FeeAssumption DEF Fees, Estimates
<1>2. /\ new.cap = Bumped(o.cap, 2 * e.base + e.prio)
      /\ new.tip = Bumped(o.tip, e.prio)
  BY DEF ComputeBump
<1>3. /\ new.cap \in Nat /\ new.cap >= o.cap + Gwei
      /\ new.cap >= TenPercentMore(o.cap) /\ new.cap >= 2 * e.base + e.prio
  BY <1>1, <1>2, BumpedBounds
<1>4. /\ new.tip \in Nat /\ new.tip >= o.tip + Gwei
      /\ new.tip >= TenPercentMore(o.tip) /\ new.tip >= e.prio
  BY <1>1, <1>2, BumpedBounds
<1>5. new.tip <= new.cap
  BY <1>1, <1>2, BumpedMonotone
<1>6. Outbids(new, o)
  <2>1. /\ TenPercentMore(o.cap) = (110 * o.cap) \div 100
        /\ TenPercentMore(o.tip) = (110 * o.tip) \div 100
    BY <1>1, TenPercentProperties
  <2>2. new.cap > o.cap /\ new.tip > o.tip
    BY <1>1, <1>3, <1>4, FeeAssumption
  <2> QED
    BY <1>3, <1>4, <2>1, <2>2 DEF Outbids
<1> QED
  BY <1>3, <1>4, <1>5, <1>6

-----------------------------------------------------------------------------
\* Only a command that may still bump holds an estimate.
EstimateCounts == est # NoEstimate => bumps < MaxBumps

IInv == TypeInv /\ EstimateCounts /\ NeverRefused

LEMMA InitInv == Init => IInv
BY FeeAssumption
   DEF Init, IInv, TypeInv, EstimateCounts, NeverRefused, Markets, Verdicts

\* A bump of a valid transaction is taken or does not fit u128.
LEMMA BumpVerdict ==
  ASSUME TypeInv, est # NoEstimate, NEW new, new = ComputeBump(tx, est)
  PROVE  /\ Verdict(new) \in {"taken", "overflow"}
         /\ Verdict(new) = "taken" => new \in Fees /\ new.tip <= new.cap
<1>1. tx \in Fees /\ tx.tip <= tx.cap /\ est \in Estimates
  BY DEF TypeInv
<1>2. /\ new.cap \in Nat /\ new.tip \in Nat
      /\ new.tip <= new.cap /\ Outbids(new, tx)
  BY <1>1, ComputeBumpProperties
<1>3. new = [cap |-> new.cap, tip |-> new.tip]
  BY DEF ComputeBump
<1>4. CASE TooLarge(new)
  <2>1. Verdict(new) = "overflow"
    BY <1>4 DEF Verdict
  <2> QED
    BY <2>1
<1>5. CASE ~ TooLarge(new)
  <2>1. Verdict(new) = "taken"
    BY <1>2, <1>5 DEF Verdict
  <2>2. new.cap \in 0 .. Limit /\ new.tip \in 0 .. Limit
    BY <1>2, <1>5, FeeAssumption DEF TooLarge
  <2>3. new \in Fees
    BY <1>3, <2>2 DEF Fees
  <2> QED
    BY <1>2, <2>1, <2>3
<1> QED
  BY <1>4, <1>5

LEMMA NextInv == IInv /\ [Next]_vars => IInv'
<1> SUFFICES ASSUME IInv, [Next]_vars PROVE IInv'
  OBVIOUS
<1> USE DEF IInv
<1>1. ASSUME NEW m \in Markets, MarketMoves(m) PROVE IInv'
  BY <1>1 DEF MarketMoves, TypeInv, EstimateCounts, NeverRefused
<1>2. CASE Estimate
  <2>1. PICK b \in BOOLEAN, p \in BOOLEAN : est' = EstimateFees(b, p)
    BY <1>2 DEF Estimate
  <2>2. market.base \in Nat /\ market.prio \in Nat
    BY FeeAssumption DEF TypeInv, Markets
  <2>3. EstimateFees(b, p) \in Estimates
    BY <2>2, FeeAssumption DEF EstimateFees, Estimates
  <2> QED
    BY <1>2, <2>1, <2>3 DEF Estimate, TypeInv, EstimateCounts, NeverRefused
<1>3. CASE Bump
  <2>0. PICK new : new = ComputeBump(tx, est)
    OBVIOUS
  <2>1. /\ Verdict(new) \in {"taken", "overflow"}
        /\ Verdict(new) = "taken" => new \in Fees /\ new.tip <= new.cap
    BY <1>3, <2>0, BumpVerdict DEF Bump
  <2>2. /\ verdict' = Verdict(new)
        /\ tx' = IF Verdict(new) = "taken" THEN new ELSE tx
    BY <1>3, <2>0 DEF Bump
  <2>3. tx' \in Fees /\ tx'.tip <= tx'.cap
    BY <2>1, <2>2 DEF TypeInv
  <2>4. bumps' \in 0 .. MaxBumps
    BY <1>3, FeeAssumption DEF Bump, TypeInv, EstimateCounts
  <2>5. verdict' \in Verdicts /\ NeverRefused'
    BY <2>1, <2>2 DEF Verdicts, NeverRefused
  <2>6. est' = NoEstimate /\ market' \in Markets
    BY <1>3 DEF Bump, TypeInv
  <2> QED
    BY <2>3, <2>4, <2>5, <2>6 DEF TypeInv, EstimateCounts
<1>4. CASE UNCHANGED vars
  BY <1>4 DEF vars, TypeInv, EstimateCounts, NeverRefused
<1> QED
  BY <1>1, <1>2, <1>3, <1>4 DEF Next

\* The transaction in the pool is always one the node accepts, for every
\* original, every market and every number of bumps.
THEOREM BumpTypes == Spec => []TypeInv
<1>1. IInv => TypeInv
  BY DEF IInv
<1> QED
  BY InitInv, NextInv, <1>1, PTL DEF Spec

\* No bump or cancel is ever refused as underpriced or for its tip (rbf.rs,
\* compute_bump).
THEOREM BumpsNeverRefused == Spec => []NeverRefused
<1>1. IInv => NeverRefused
  BY DEF IInv
<1> QED
  BY InitInv, NextInv, <1>1, PTL DEF Spec

\* Every bump that is taken raises both fees by a gwei at least and is not
\* outbid by the market of its estimate.
THEOREM BumpsCompete == Spec => BumpCompetes
<1> DEFINE Competes ==
      tx' # tx =>
        /\ tx'.cap >= tx.cap + Gwei
        /\ tx'.tip >= tx.tip + Gwei
        /\ tx'.cap >= 2 * est.base + est.prio
        /\ tx'.tip >= est.prio
<1>1. Init => IInv
  BY InitInv
<1>2. IInv /\ [Next]_vars => IInv'
  BY NextInv
<1>3. IInv /\ [Next]_vars => [Competes]_vars
  <2> SUFFICES ASSUME IInv, Next, tx' # tx PROVE Competes
    BY DEF vars
  <2>1. Bump
    BY DEF Next, MarketMoves, Estimate
  <2>2. PICK new : new = ComputeBump(tx, est)
    OBVIOUS
  <2>3. tx' = new
    BY <2>1, <2>2 DEF Bump
  <2>4. tx \in Fees /\ tx.tip <= tx.cap /\ est \in Estimates
    BY <2>1 DEF Bump, IInv, TypeInv
  <2> QED
    BY <2>2, <2>3, <2>4, ComputeBumpProperties
<1> QED
  BY <1>1, <1>2, <1>3, PTL DEF Spec, BumpCompetes

=============================================================================
