--------------------------- MODULE RpcClientProofs ---------------------------
(***************************************************************************)
(* Theorems of RpcClient, for any quota, timeout, jitter and length of a   *)
(* second: types, what wait_for_receipt answers and when it ends, and the  *)
(* rate the node sees.                                                     *)
(***************************************************************************)
EXTENDS RpcClient, SequenceTheorems, TLAPS

-----------------------------------------------------------------------------
(* The limiter's arithmetic.                                               *)

LEMMA PeriodType == rps \in Nat \ {0} => Period \in Nat
BY RpcAssumption DEF Period

LEMMA EarliestType == rps \in Nat \ {0} /\ tat \in Nat => Earliest \in Int
<1> SUFFICES ASSUME rps \in Nat \ {0}, tat \in Nat PROVE Earliest \in Int
  OBVIOUS
<1>1. Period \in Nat
  BY PeriodType
<1>2. (rps - 1) * Period \in Int
  BY <1>1
<1> QED
  BY <1>2 DEF Earliest

LEMMA Constants ==
  /\ Second \in Nat /\ Second > 0 /\ MaxRpc \in Nat /\ MaxJitter \in Nat
  /\ MaxCalls \in Nat /\ Rates \subseteq Nat /\ Timeouts \subseteq Nat
  /\ Never \notin Nat
<1>1. Second \in Nat \ {0}
  BY RpcAssumption
<1>2. Second \in Nat /\ Second > 0
  BY <1>1
<1> QED
  BY <1>2, RpcAssumption

LEMMA Typed ==
  ASSUME TypeInv
  PROVE  /\ timeout \in Nat /\ Deadline \in Nat /\ Deadline = start + timeout
         /\ now \in Nat /\ wake \in Nat /\ start \in Nat /\ issued \in Nat
         /\ rps \in Nat
<1>1. timeout \in Nat /\ rps \in Nat /\ start \in Nat
  BY Constants DEF TypeInv
<1> QED
  BY <1>1 DEF TypeInv, Deadline

-----------------------------------------------------------------------------
(* The inductive invariant: of the last poll of a wait one knows when it   *)
(* was issued, that this was before the deadline, and if it was answered   *)
(* without a receipt, that there was none then.                            *)

Asked == issued < Deadline /\ start <= issued /\ issued <= now

Denied == mined = Never \/ mined >= issued

WaitInv ==
  /\ Polling => Asked /\ wake = issued + MaxRpc
  /\ at = "nap" => /\ Asked /\ Denied
                   /\ wake <= issued + MaxRpc + Second
  /\ at = "loop" =>
       \/ start = now
       \/ Asked /\ Denied /\ now <= issued + MaxRpc + Second
  /\ outcome # "none" => at = "free"
  /\ outcome = "absent" => now >= Deadline

IInv == TypeInv /\ WaitInv /\ Verdict

LEMMA InitInv == Init => IInv
BY RpcAssumption
   DEF Init, IInv, TypeInv, WaitInv, Verdict, Places, Timed, Polling

LEMMA NextInv == IInv /\ [Next]_vars => IInv'
<1> SUFFICES ASSUME IInv, [Next]_vars PROVE IInv'
  OBVIOUS
<1>t. /\ timeout \in Nat /\ now \in Nat /\ wake \in Nat /\ start \in Nat
      /\ issued \in Nat /\ rps \in Nat
  BY Typed DEF IInv
<1> USE Constants, <1>t DEF IInv
<1>1. CASE UNCHANGED vars
  BY <1>1 DEF vars, task, TypeInv, WaitInv, Verdict, Polling, Asked, Denied, Deadline
<1>2. CASE WithRate
  BY <1>2 DEF WithRate, TypeInv, WaitInv, Verdict, Polling, Asked, Denied,
              Deadline, Places, Timed
<1>3. CASE Delayed
  <2>1. Earliest \in Int /\ now \in Nat
    BY <1>3, EarliestType DEF Delayed, TypeInv
  <2>2. wake' \in Nat /\ now <= wake'
    BY <1>3, <2>1 DEF Delayed
  <2> QED
    BY <1>3, <2>2 DEF Delayed, TypeInv, WaitInv, Verdict, Polling, Asked,
                      Denied, Deadline, Places, Timed
<1>4. CASE Look \/ Answered \/ NoChain \/ Hang
  BY <1>4 DEF Look, Answered, NoChain, Hang, TypeInv, WaitInv, Verdict,
              Polling, Asked, Denied, Deadline, Places, Timed
<1>5. CASE Request \/ Wait
  <2>1. tat' \in Nat
    BY <1>5, PeriodType DEF Request, Wait, Permit, Later, TypeInv
  <2>2. CASE Request
    BY <1>5, <2>1, <2>2, AppendProperties
       DEF Request, Permit, Ask, TypeInv, WaitInv, Verdict, Polling, Asked,
           Denied, Deadline, Places, Timed
  <2>3. CASE Wait
    BY <1>5, <2>1, <2>3
       DEF Wait, Permit, TypeInv, WaitInv, Verdict, Polling, Asked, Denied,
           Deadline, Places, Timed
  <2> QED
    BY <1>5, <2>2, <2>3
<1>6. CASE Poll
  BY <1>6, AppendProperties
     DEF Poll, Ask, TypeInv, WaitInv, Verdict, Polling, Asked, Denied,
         Deadline, Places, Timed
<1>7. CASE TimesOut
  BY <1>7 DEF TimesOut, End, TypeInv, WaitInv, Verdict, Polling, Asked,
              Denied, Deadline, Places, Timed
<1>8. CASE HasReceipt \/ PollFails
  BY <1>8 DEF HasReceipt, PollFails, End, TypeInv, WaitInv, Verdict, Polling,
              Asked, Denied, Deadline, Places, Timed
<1>9. CASE NoReceipt
  <2>1. Asked /\ Denied /\ wake' = now + Second /\ now <= issued + MaxRpc
    BY <1>9 DEF NoReceipt, TypeInv, WaitInv, Polling, Denied, Timed
  <2>2. /\ at = "answer" /\ at' = "nap"
        /\ UNCHANGED <<now, rps, tat, mined, requests, calls, method, start,
                       timeout, issued, outcome>>
    BY <1>9 DEF NoReceipt, Polling
  <2>3. wake' \in Nat /\ now <= wake'
    BY <2>1
  <2>4. TypeInv'
    BY <2>2, <2>3 DEF TypeInv, Places, Timed
  <2>5. WaitInv'
    BY <1>9, <2>1 DEF NoReceipt, WaitInv, Polling, Asked, Denied, Deadline
  <2>6. Verdict'
    BY <1>9 DEF NoReceipt, WaitInv, Verdict, Polling, Deadline
  <2> QED
    BY <2>4, <2>5, <2>6
<1>10. CASE Rise
  <2>1. TypeInv'
    BY <1>10 DEF Rise, TypeInv, Places, Timed
  <2>2. WaitInv'
    BY <1>10 DEF Rise, WaitInv, Polling, Asked, Denied, Deadline
  <2>3. Verdict'
    BY <1>10 DEF Rise, WaitInv, Verdict, Polling, Deadline
  <2> QED
    BY <2>1, <2>2, <2>3
<1>11. ASSUME NEW m \in {"once", "wait"}, NEW t \in Timeouts, Call(m, t)
       PROVE  IInv'
  BY <1>11 DEF Call, TypeInv, WaitInv, Verdict, Polling, Asked, Denied,
               Deadline, Places, Timed
<1>12. CASE Tick
  BY <1>12 DEF Tick, task, TypeInv, WaitInv, Verdict, Polling, Asked, Denied,
               Deadline, Places, Timed
<1>13. CASE Mine
  BY <1>13 DEF Mine, task, TypeInv, WaitInv, Verdict, Polling, Asked, Denied,
               Deadline, Places, Timed
<1> QED
  BY <1>1, <1>2, <1>3, <1>4, <1>5, <1>6, <1>7, <1>8, <1>9, <1>10, <1>11, <1>12,
     <1>13 DEF Next, Run

-----------------------------------------------------------------------------
\* Types, and no timer is ever found overdue.
THEOREM RpcTypes == Spec => []TypeInv
BY InitInv, NextInv, PTL DEF Spec, IInv

\* wait_for_receipt reports a receipt only if there is one, and none only if
\* there was none a second and an answer's time before the deadline
\* (alloy_chain.rs:230-254).
THEOREM WaitTellsTruth == Spec => []Verdict
BY InitInv, NextInv, PTL DEF Spec, IInv

\* A wait overruns its timeout by at most one answer and one second of sleep.
THEOREM WaitInTime == Spec => []InTime
<1>1. IInv => InTime
  BY Constants, Typed
     DEF IInv, WaitInv, InTime, TypeInv, Asked, Polling, Deadline
<1> QED
  BY <1>1, InitInv, NextInv, PTL DEF Spec

-----------------------------------------------------------------------------
(* The rate.  Of the requests since the i-th some took a permit and the    *)
(* others are the later polls of a wait.  A permit moves tat on by a       *)
(* Period, and a later poll is a Second or more after the poll before it.  *)

\* wait_for_receipt holds a permit that no poll has used.
Fresh == at = "loop" /\ start = now

\* A poll that is not the first is issued a second after the last one.
Slept ==
  /\ issued <= now
  /\ at = "nap" => wake >= issued + Second
  /\ at = "loop" => start = now \/ now >= issued + Second

\* Since requests[i], itself included: e later polls, and one permit for
\* each of the p other requests and for a wait that has not polled.
Paid(i, p, e) ==
  /\ e > 0 => issued >= requests[i] + (e - 1) * Second
  /\ p > 0 => tat >= requests[i] + p * Period
  /\ Fresh => tat >= requests[i] + (p + 1) * Period

Since(i) == Len(requests) - i + 1

AllPaid ==
  \A i \in 1 .. Len(requests) :
     /\ requests[i] <= now
     /\ \E e \in 0 .. Since(i) : Paid(i, Since(i) - e, e)

\* The bucket holds no more than the quota.
Bucket == tat <= now + Second /\ (Fresh => tat >= now + Period)

RateInv ==
  /\ Slept
  /\ rps = 0 => requests = <<>>
  /\ rps # 0 => AllPaid /\ Bucket
  /\ RequestRate

-----------------------------------------------------------------------------
(* Its arithmetic.                                                         *)

\* Rates divide the second.
LEMMA PeriodsOfASecond ==
  ASSUME rps \in Rates, rps # 0
  PROVE  Period \in Nat /\ Period > 0 /\ rps * Period = Second
<1>1. rps \in Nat \ {0} /\ Second \in Nat /\ Second > 0 /\ Second % rps = 0
  BY Constants, RpcAssumption
<1> DEFINE q == Second \div rps
<1>2. q \in Nat /\ Second = rps * q
  BY <1>1, Z3
<1>3. q > 0
  <2>1. q = 0 => rps * q = 0
    BY <1>1
  <2> QED
    BY <1>1, <1>2, <2>1
<1> QED
  BY <1>2, <1>3 DEF Period

\* What a window of w ticks may hold: p permits and e later polls.
LEMMA WindowHolds ==
  ASSUME NEW S \in Nat, NEW r \in Nat \ {0}, NEW P \in Nat, r * P = S,
         NEW p \in Nat, NEW e \in Nat, NEW w \in Nat,
         p > 0 => p * P <= w + S,
         e > 0 => (e - 1) * S <= w
  PROVE  (p + e - 1 - r) * S <= w * (r + 1)
<1>1. p * P <= w + S
  <2>1. p = 0 => p * P = 0
    BY SMT
  <2> QED
    BY <2>1
<1>2. p * S <= (w + S) * r
  <2> DEFINE x == p * P
             y == w + S
  <2>1. x \in Nat /\ y \in Nat /\ x <= y
    BY <1>1
  <2>2. x * r <= y * r
    <3> HIDE DEF x, y
    <3>1. PICK z \in Nat : y = x + z
      BY <2>1
    <3>2. y * r = x * r + z * r /\ z * r \in Nat /\ x * r \in Nat
      BY <2>1, <3>1
    <3> QED
      BY <3>2
  <2>3. x * r = p * (r * P)
    BY SMT
  <2> QED
    BY <2>2, <2>3
<1>3. (e - 1) * S <= w
  <2>1. e = 0 => (e - 1) * S = 0 - S
    BY SMT
  <2> QED
    BY <2>1
<1>4. (w + S) * r = w * r + S * r
  BY SMT
<1>5. (p + e - 1 - r) * S = p * S + (e - 1) * S - S * r
  BY SMT
<1>6. w * (r + 1) = w * r + w
  BY SMT
<1>7. p * S \in Int /\ (e - 1) * S \in Int /\ S * r \in Int /\ w * r \in Int
  BY SMT
<1> QED
  BY <1>2, <1>3, <1>4, <1>5, <1>6, <1>7

\* The window from q to n, with the bucket at t and the last poll at u.
LEMMA WindowPays ==
  ASSUME NEW S \in Nat, NEW r \in Nat \ {0}, NEW P \in Nat, r * P = S,
         NEW p \in Nat, NEW e \in Nat,
         NEW q \in Nat, NEW n \in Nat, NEW t \in Nat, NEW u \in Nat,
         q <= n, t <= n + S, u <= n,
         p > 0 => t >= q + p * P,
         e > 0 => u >= q + (e - 1) * S
  PROVE  (p + e - 1 - r) * S <= (n - q) * (r + 1)
<1> DEFINE w == n - q
<1>1. p * P \in Nat /\ (e - 1) * S \in Int /\ w \in Nat
  OBVIOUS
<1>2. /\ p > 0 => p * P <= w + S
      /\ e > 0 => (e - 1) * S <= w
  BY <1>1
<1> HIDE DEF w
<1>3. (p + e - 1 - r) * S <= w * (r + 1)
  BY <1>1, <1>2, WindowHolds
<1> QED
  BY <1>3 DEF w

LEMMA LaterStill ==
  ASSUME NEW t \in Nat, NEW n \in Nat, NEW m \in Nat, NEW S \in Nat,
         n <= m, t <= n + S
  PROVE  t <= m + S
OBVIOUS

-----------------------------------------------------------------------------
(* The steps.                                                              *)

LEMMA RateInit == Init => RateInv
<1> SUFFICES ASSUME Init PROVE RateInv
  OBVIOUS
<1>1. rps # 0 => Period \in Nat
  BY PeriodsOfASecond DEF Init
<1> QED
  BY <1>1, Constants DEF Init, RateInv, Slept, AllPaid, Bucket, Fresh, RequestRate

\* A permit is a Period of the bucket.
LEMMA PermitMoves ==
  ASSUME TypeInv, Permit, rps # 0
  PROVE  /\ tat' \in Nat /\ tat' <= now + Second
         /\ tat' >= tat + Period /\ tat' >= now + Period
<1>1. /\ Period \in Nat /\ rps * Period = Second
      /\ rps \in Nat /\ tat \in Nat /\ now \in Nat /\ Second \in Nat
  BY PeriodsOfASecond, Constants DEF TypeInv
<1>2. (rps - 1) * Period = Second - Period
  BY <1>1
<1>3. tat - (Second - Period) <= now
  BY <1>2 DEF Permit, Earliest
<1>4. tat' = Later(tat, now) + Period
  BY DEF Permit
<1> QED
  BY <1>1, <1>3, <1>4 DEF Later

\* Time may pass, and a wait may lose its permit.
LEMMA PaidStays ==
  ASSUME AllPaid, Bucket, TypeInv, TypeInv', rps # 0,
         now <= now', Fresh' => Fresh /\ now' = now,
         UNCHANGED <<rps, tat, requests, issued>>
  PROVE  AllPaid' /\ Bucket'
<1>1. Period' = Period /\ \A i : Since(i)' = Since(i)
  BY DEF Period, Since
<1>2. \A i, p, e : Paid(i, p, e) => Paid(i, p, e)'
  BY <1>1 DEF Paid
<1>3. /\ now \in Nat /\ now' \in Nat
      /\ \A i \in 1 .. Len(requests) : requests[i] \in Nat
  BY DEF TypeInv
<1>4. AllPaid'
  BY <1>1, <1>2, <1>3 DEF AllPaid
<1>5. Bucket'
  <2>1. /\ tat \in Nat /\ Second \in Nat /\ now \in Nat /\ now' \in Nat
        /\ now <= now'
    BY Constants DEF TypeInv
  <2>4. tat' = tat /\ tat <= now + Second
    BY DEF Bucket
  <2>2. tat' <= now' + Second
    BY <2>1, <2>4, LaterStill
  <2>3. Fresh' => tat' >= now' + Period'
    BY <1>1 DEF Bucket
  <2> QED
    BY <2>2, <2>3 DEF Bucket
<1> QED
  BY <1>4, <1>5

\* A wait takes its permit.
LEMMA WaitPaid ==
  ASSUME AllPaid, Bucket, TypeInv, rps # 0, Wait
  PROVE  AllPaid' /\ Bucket'
<1>1. /\ UNCHANGED <<rps, now, requests, issued>> /\ Fresh' /\ ~ Fresh
      /\ Period' = Period /\ \A i : Since(i)' = Since(i)
  BY DEF Wait, Permit, Fresh, Period, Since
<1>2. /\ tat' \in Nat /\ tat' <= now + Second
      /\ tat' >= tat + Period /\ tat' >= now + Period
  BY PermitMoves DEF Wait
<1>3. Period \in Nat /\ tat \in Nat /\ now \in Nat
  BY PeriodsOfASecond DEF TypeInv
<1>4. ASSUME NEW i \in 1 .. Len(requests), NEW e \in 0 .. Since(i),
             Paid(i, Since(i) - e, e), requests[i] <= now
      PROVE  Paid(i, Since(i) - e, e)'
  <2> DEFINE p == Since(i) - e
  <2>1. p \in Nat /\ requests[i] \in Nat
    BY DEF Since, TypeInv
  <2>2. p > 0 => tat >= requests[i] + p * Period
    BY <1>4 DEF Paid
  <2>3. p * Period \in Nat /\ (p + 1) * Period = p * Period + Period
    BY <1>3, <2>1
  <2>4. tat' >= requests[i] + (p + 1) * Period
    <3>1. CASE p = 0
      BY <1>2, <1>3, <1>4, <2>1, <3>1
    <3>2. CASE p > 0
      <4> HIDE DEF p
      <4> QED
        BY <1>2, <1>3, <2>1, <2>2, <2>3, <3>2
    <3> QED
      BY <2>1, <3>1, <3>2
  <2>5. tat' >= requests[i] + p * Period
    <3> HIDE DEF p
    <3> QED
      BY <1>2, <1>3, <2>1, <2>3, <2>4
  <2>6. e > 0 => issued >= requests[i] + (e - 1) * Second
    BY <1>4 DEF Paid
  <2> QED
    BY <1>1, <2>4, <2>5, <2>6 DEF Paid
<1>5. AllPaid'
  BY <1>1, <1>4 DEF AllPaid
<1> QED
  BY <1>1, <1>2, <1>5 DEF Bucket

\* A request at the end of the windows.
LEMMA RequestCounted ==
  ASSUME TypeInv, requests' = Append(requests, now)
  PROVE  /\ Len(requests') = Len(requests) + 1
         /\ \A i \in 1 .. Len(requests) : requests'[i] = requests[i]
         /\ requests'[Len(requests')] = now
         /\ \A i \in 1 .. Len(requests') : requests'[i] \in Nat
         /\ \A i \in 1 .. Len(requests) : Since(i)' = Since(i) + 1
         /\ Since(Len(requests))' = 1
<1>1. requests \in Seq(Nat) /\ now \in Nat
  BY DEF TypeInv
<1> QED
  BY <1>1, AppendProperties DEF Since

\* A request that pays with a permit of its own.
LEMMA RequestPaid ==
  ASSUME AllPaid, Bucket, TypeInv, rps # 0, Request
  PROVE  AllPaid' /\ Bucket'
<1>1. /\ UNCHANGED <<rps, now, issued>> /\ ~ Fresh' /\ Period' = Period
      /\ requests' = Append(requests, now)
  BY DEF Request, Ask, Permit, Fresh, Period
<1>2. /\ tat' \in Nat /\ tat' <= now + Second
      /\ tat' >= tat + Period /\ tat' >= now + Period
  BY PermitMoves DEF Request
<1>3. Period \in Nat /\ tat \in Nat /\ now \in Nat
  BY PeriodsOfASecond DEF TypeInv
<1>4. ASSUME NEW i \in 1 .. Len(requests), NEW e \in 0 .. Since(i),
             Paid(i, Since(i) - e, e), requests[i] <= now
      PROVE  Paid(i, Since(i) - e, e)'
  <2> DEFINE p == Since(i) - e
  <2>1. p \in Nat /\ requests[i] \in Nat /\ requests'[i] = requests[i]
        /\ Since(i)' - e = p + 1
    BY <1>1, RequestCounted DEF Since, TypeInv
  <2>2. p > 0 => tat >= requests[i] + p * Period
    BY <1>4 DEF Paid
  <2>3. p * Period \in Nat /\ (p + 1) * Period = p * Period + Period
    BY <1>3, <2>1
  <2>4. tat' >= requests[i] + (p + 1) * Period
    <3>1. CASE p = 0
      BY <1>2, <1>3, <1>4, <2>1, <3>1
    <3>2. CASE p > 0
      <4> HIDE DEF p
      <4> QED
        BY <1>2, <1>3, <2>1, <2>2, <2>3, <3>2
    <3> QED
      BY <2>1, <3>1, <3>2
  <2>5. e > 0 => issued >= requests[i] + (e - 1) * Second
    BY <1>4 DEF Paid
  <2> HIDE DEF p
  <2> QED
    BY <1>1, <2>1, <2>4, <2>5 DEF Paid
<1>5. Paid(Len(requests), 1, 0)'
  BY <1>1, <1>2, <1>3, RequestCounted DEF Paid
<1>6. AllPaid'
  <2>1. ASSUME NEW i \in 1 .. Len(requests)
        PROVE  /\ requests'[i] <= now
               /\ \E e \in 0 .. Since(i)' : Paid(i, Since(i) - e, e)'
    <3>1. PICK e \in 0 .. Since(i) : Paid(i, Since(i) - e, e)
      BY DEF AllPaid
    <3>2. requests[i] <= now /\ e \in 0 .. Since(i)'
      BY <1>1, RequestCounted DEF AllPaid, Since
    <3> QED
      BY <1>1, <1>4, <3>1, <3>2, RequestCounted
  <2>2. /\ requests'[Len(requests')] <= now
        /\ \E e \in 0 .. Since(Len(requests))' :
             Paid(Len(requests), Since(Len(requests)) - e, e)'
    BY <1>1, <1>3, <1>5, RequestCounted
  <2> QED
    BY <1>1, <2>1, <2>2, RequestCounted DEF AllPaid
<1> QED
  BY <1>1, <1>2, <1>6 DEF Bucket

\* A poll: the first uses the permit of its wait, a later one is a second
\* or more after the last.
LEMMA PollPaid ==
  ASSUME AllPaid, Bucket, TypeInv, Slept, rps # 0, Poll
  PROVE  AllPaid' /\ Bucket'
<1>1. /\ UNCHANGED <<rps, now, tat>> /\ ~ Fresh' /\ Period' = Period
      /\ requests' = Append(requests, now) /\ issued' = now
  BY DEF Poll, Ask, Fresh, Period
<1>2. /\ Period \in Nat /\ tat \in Nat /\ now \in Nat /\ issued \in Nat
      /\ Second \in Nat /\ issued <= now
  BY PeriodsOfASecond, Constants DEF TypeInv, Slept
<1>3. ~ Fresh => now >= issued + Second
  BY DEF Poll, Fresh, Slept
<1>4. ASSUME NEW i \in 1 .. Len(requests), NEW e \in 0 .. Since(i),
             Paid(i, Since(i) - e, e), requests[i] <= now
      PROVE  \E f \in 0 .. Since(i) + 1 :
               Paid(i, Since(i) - f, f)'
  <2> DEFINE p == Since(i) - e
  <2>1. /\ p \in Nat /\ e \in Nat /\ requests[i] \in Nat
        /\ requests'[i] = requests[i] /\ Since(i)' = p + e + 1
        /\ Since(i) = p + e
    BY <1>1, RequestCounted DEF Since, TypeInv
  <2>2. /\ e > 0 => issued >= requests[i] + (e - 1) * Second
        /\ p > 0 => tat >= requests[i] + p * Period
        /\ Fresh => tat >= requests[i] + (p + 1) * Period
    BY <1>4 DEF Paid
  <2> HIDE DEF p
  <2>3. /\ p * Period \in Nat /\ (p + 1) * Period \in Nat
        /\ e * Second \in Nat /\ (e - 1) * Second = e * Second - Second
        /\ (e + 1) - 1 = e /\ e * Second = (e - 1) * Second + Second
    BY <1>2, <2>1
  <2>4. CASE Fresh
    <3>1. e > 0 => issued' >= requests'[i] + (e - 1) * Second
      BY <1>1, <1>2, <2>1, <2>2, <2>3
    <3>2. tat' >= requests'[i] + (p + 1) * Period
      BY <1>1, <2>1, <2>2, <2>4
    <3>3. Paid(i, Since(i) - e, e)'
      <4>1. Since(i)' - e = p + 1
        BY <2>1
      <4> QED
        BY <1>1, <3>1, <3>2, <4>1 DEF Paid
    <3>4. e \in 0 .. Since(i) + 1
      BY <2>1
    <3> QED
      BY <3>3, <3>4
  <2>5. CASE ~ Fresh
    <3> DEFINE f == e + 1
    <3>1. f \in Nat /\ Since(i)' - f = p /\ f - 1 = e /\ f \in 0 .. Since(i) + 1
      BY <2>1
    <3>2. issued' >= requests'[i] + e * Second
      <4>1. CASE e = 0
        BY <1>1, <1>2, <1>4, <2>1, <4>1
      <4>2. CASE e > 0
        BY <1>1, <1>2, <1>3, <2>1, <2>2, <2>3, <2>5, <4>2
      <4> QED
        BY <2>1, <4>1, <4>2
    <3>3. p > 0 => tat' >= requests'[i] + p * Period
      BY <1>1, <2>1, <2>2
    <3> HIDE DEF f
    <3>4. Paid(i, Since(i) - f, f)'
      BY <1>1, <3>1, <3>2, <3>3 DEF Paid
    <3> QED
      BY <3>1, <3>4
  <2> QED
    BY <2>4, <2>5
<1>5. \E e \in 0 .. 1 : Paid(Len(requests), 1 - e, e)'
  <2>1. CASE Fresh
    <3>1. tat >= now + Period
      BY <2>1 DEF Bucket
    <3>2. Paid(Len(requests), 1, 0)'
      BY <1>1, <1>2, <3>1, RequestCounted DEF Paid
    <3> QED
      BY <3>2
  <2>2. Paid(Len(requests), 0, 1)'
    BY <1>1, <1>2, RequestCounted DEF Paid
  <2> QED
    BY <2>2
<1>6. AllPaid'
  <2>1. ASSUME NEW i \in 1 .. Len(requests)
        PROVE  /\ requests'[i] <= now
               /\ \E e \in 0 .. Since(i)' : Paid(i, Since(i) - e, e)'
    <3>1. PICK e \in 0 .. Since(i) : Paid(i, Since(i) - e, e)
      BY DEF AllPaid
    <3>2. requests[i] <= now /\ Since(i)' = Since(i) + 1
      BY <1>1, RequestCounted DEF AllPaid
    <3> QED
      BY <1>1, <1>4, <3>1, <3>2, RequestCounted
  <2>2. /\ requests'[Len(requests')] <= now
        /\ \E e \in 0 .. Since(Len(requests))' :
             Paid(Len(requests), Since(Len(requests)) - e, e)'
    BY <1>1, <1>2, <1>5, RequestCounted
  <2> QED
    BY <1>1, <2>1, <2>2, RequestCounted DEF AllPaid
<1> QED
  BY <1>1, <1>2, <1>6 DEF Bucket

\* In a window that is paid for there are no more requests than promised.
LEMMA RateAfterRequest ==
  ASSUME TypeInv, RequestRate, rps # 0, requests' = Append(requests, now),
         UNCHANGED <<rps, now>>, AllPaid', Bucket', issued' <= now,
         TypeInv'
  PROVE  RequestRate'
<1> DEFINE k == Len(requests')
<1>1. /\ rps \in Nat \ {0} /\ now \in Nat /\ Period' = Period
      /\ Period \in Nat /\ rps * Period = Second /\ Second \in Nat
      /\ tat' <= now + Second
  BY PeriodsOfASecond, Constants DEF TypeInv, Bucket, Period
<1>2. ASSUME NEW i \in 1 .. k
      PROVE  (k - i - rps) * Second <= (requests'[k] - requests'[i]) * (rps + 1)
  <2>1. PICK e \in 0 .. Since(i)' : Paid(i, Since(i) - e, e)'
    BY DEF AllPaid
  <2> DEFINE p == Since(i)' - e
             q == requests'[i]
  <2>2. /\ p \in Nat /\ e \in Nat /\ k \in Nat /\ i \in Nat
        /\ p + e - 1 = k - i
    BY <1>1, RequestCounted DEF Since, TypeInv
  <2>3. q \in Nat /\ q <= now /\ requests'[k] = now
    BY <1>1, RequestCounted DEF AllPaid
  <2>4. /\ e > 0 => issued' >= q + (e - 1) * Second
        /\ p > 0 => tat' >= q + p * Period
    BY <1>1, <2>1 DEF Paid
  <2>5. tat' \in Nat /\ issued' \in Nat /\ issued' <= now
    BY DEF TypeInv
  <2> HIDE DEF p, q, k
  <2>6. (p + e - 1 - rps) * Second <= (now - q) * (rps + 1)
    BY <1>1, <2>2, <2>3, <2>4, <2>5, WindowPays
  <2>7. p + e - 1 - rps = k - i - rps
    BY <1>1, <2>2
  <2>8. (k - i - rps) * Second <= (now - q) * (rps + 1)
    BY <2>6, <2>7, Zenon
  <2> QED
    BY <2>3, <2>8 DEF q
<1>3. ASSUME NEW i \in 1 .. k, NEW j \in 1 .. k, i <= j
      PROVE  (j - i - rps) * Second <= (requests'[j] - requests'[i]) * (rps + 1)
  <2>1. CASE j = k
    BY <1>2, <2>1
  <2>2. CASE j # k
    <3>1. i \in 1 .. Len(requests) /\ j \in 1 .. Len(requests)
      BY <1>3, <2>2, RequestCounted DEF TypeInv
    <3> QED
      BY <1>3, <3>1, RequestCounted DEF RequestRate
  <2> QED
    BY <2>1, <2>2
<1> QED
  BY <1>3 DEF RequestRate

LEMMA RateNext == IInv /\ IInv' /\ RateInv /\ [Next]_vars => RateInv'
<1> SUFFICES ASSUME IInv, IInv', RateInv, [Next]_vars PROVE RateInv'
  OBVIOUS
<1>1. TypeInv /\ TypeInv' /\ rps' = rps
  BY DEF IInv, Next, Run, vars, task, WithRate, Delayed, Look, Request, Answered,
         NoChain, Wait, Poll, TimesOut, HasReceipt, NoReceipt, PollFails, Rise,
         Hang, Call, Tick, Mine, End, Ask, Permit
<1>t. /\ now \in Nat /\ issued \in Nat /\ wake \in Nat /\ start \in Nat
      /\ Second \in Nat /\ Second > 0 /\ requests \in Seq(Nat)
  BY <1>1, Constants DEF TypeInv
<1>2. Slept'
  <2> USE <1>1, <1>t
  <2>1. CASE UNCHANGED vars \/ Mine
    BY <2>1 DEF vars, task, Mine, RateInv, Slept
  <2>2. CASE Tick
    <3>1. UNCHANGED task /\ at \in Timed \cup {"free"} /\ now' = now + 1
      BY <2>2 DEF Tick, task
    <3> QED
      BY <3>1 DEF task, Timed, RateInv, Slept
  <2>3. CASE Wait
    BY <2>3 DEF Wait, Permit, RateInv, Slept
  <2>4. CASE Poll \/ Request
    BY <2>4 DEF Poll, Request, Ask, Permit, RateInv, Slept
  <2>5. CASE NoReceipt
    <3>1. now' = now /\ issued' = issued /\ at' = "nap" /\ wake' = now + Second
      BY <2>5 DEF NoReceipt
    <3> QED
      BY <3>1 DEF RateInv, Slept
  <2>6. CASE Rise
    BY <2>6 DEF Rise, RateInv, Slept
  <2>7. CASE WithRate \/ Delayed \/ Look \/ Answered \/ NoChain \/ TimesOut
             \/ HasReceipt \/ PollFails \/ Hang
             \/ \E m \in {"once", "wait"}, t \in Timeouts : Call(m, t)
    BY <2>7 DEF WithRate, Delayed, Look, Answered, NoChain, TimesOut, HasReceipt,
                PollFails, Hang, Call, End, RateInv, Slept
  <2> QED
    BY <2>1, <2>2, <2>3, <2>4, <2>5, <2>6, <2>7 DEF Next, Run
<1>3. CASE rps = 0
  <2>1. at \in {"new", "failed"} /\ requests = <<>>
    BY <1>1, <1>3 DEF TypeInv, RateInv
  <2>2. UNCHANGED requests
    BY <2>1 DEF Next, Run, vars, task, WithRate, Delayed, Look, Request, Answered,
         NoChain, Wait, Poll, TimesOut, HasReceipt, NoReceipt, PollFails, Rise,
         Hang, Call, Tick, Mine, End, Permit, Polling
  <2>3. Len(requests') = 0
    BY <2>1, <2>2
  <2> QED
    BY <1>1, <1>2, <1>3, <2>1, <2>2, <2>3 DEF RateInv, RequestRate
<1>4. CASE rps # 0
  <2>1. AllPaid /\ Bucket /\ Slept /\ RequestRate
    BY <1>4 DEF RateInv
  <2>2. CASE Request
    <3>1. AllPaid' /\ Bucket'
      BY <1>1, <1>4, <2>1, <2>2, RequestPaid
    <3>2. requests' = Append(requests, now) /\ now' = now /\ issued' <= now
      BY <1>t, <2>1, <2>2 DEF Request, Ask, Slept
    <3>3. RequestRate'
      BY <1>1, <1>4, <2>1, <3>1, <3>2, RateAfterRequest
    <3> QED
      BY <1>1, <1>2, <1>4, <3>1, <3>3 DEF RateInv
  <2>3. CASE Poll
    <3>1. AllPaid' /\ Bucket'
      BY <1>1, <1>4, <2>1, <2>3, PollPaid
    <3>2. requests' = Append(requests, now) /\ now' = now /\ issued' <= now
      BY <1>t, <2>3 DEF Poll, Ask
    <3>3. RequestRate'
      BY <1>1, <1>4, <2>1, <3>1, <3>2, RateAfterRequest
    <3> QED
      BY <1>1, <1>2, <1>4, <3>1, <3>3 DEF RateInv
  <2>4. CASE Wait
    <3>1. AllPaid' /\ Bucket'
      BY <1>1, <1>4, <2>1, <2>4, WaitPaid
    <3>2. RequestRate'
      BY <1>1, <2>1, <2>4 DEF Wait, RequestRate
    <3> QED
      BY <1>1, <1>2, <1>4, <3>1, <3>2 DEF RateInv
  <2>5. CASE ~ (Request \/ Poll \/ Wait)
    <3>1. UNCHANGED <<tat, requests, issued>> /\ now <= now'
      BY <1>t, <2>5
         DEF Next, Run, vars, task, WithRate, Delayed, Look, Answered, NoChain,
             TimesOut, HasReceipt, NoReceipt, PollFails, Rise, Hang, Call, Tick,
             Mine, End
    <3>2. Fresh' => Fresh /\ now' = now
      <4>1. CASE Tick
        BY <4>1 DEF Tick, task, Timed, Fresh
      <4>2. CASE Rise
        <5>1. start <= issued /\ wake >= issued + Second /\ now = wake
          BY <2>1, <4>2 DEF Rise, Slept, IInv, WaitInv, Asked
        <5>2. start # now
          BY <1>t, <5>1
        <5> QED
          BY <4>2, <5>2 DEF Rise, Fresh
      <4>3. CASE UNCHANGED vars \/ Mine
        BY <4>3 DEF vars, task, Mine, Fresh
      <4> QED
        BY <2>5, <4>1, <4>2, <4>3
           DEF Next, Run, WithRate, Delayed, Look, Answered, NoChain, TimesOut,
               HasReceipt, NoReceipt, PollFails, Hang, Call, End, Fresh
    <3>3. AllPaid' /\ Bucket'
      BY <1>1, <1>4, <2>1, <3>1, <3>2, PaidStays
    <3>4. RequestRate'
      BY <1>1, <2>1, <3>1 DEF RequestRate
    <3> QED
      BY <1>1, <1>2, <1>4, <3>3, <3>4 DEF RateInv
  <2> QED
    BY <2>2, <2>3, <2>4, <2>5
<1> QED
  BY <1>3, <1>4

\* In every window the node sees at most the quota's burst, its permits of
\* that time, and one poll more at once and per second: the promise of
\* client.rs:86-93, as far as wait_for_receipt keeps it.
THEOREM RateIsBounded == Spec => []RequestRate
<1>1. RateInv => RequestRate
  BY DEF RateInv
<1> QED
  BY InitInv, NextInv, RateInit, RateNext, <1>1, PTL DEF Spec

=============================================================================
