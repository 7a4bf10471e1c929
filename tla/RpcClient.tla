------------------------------ MODULE RpcClient ------------------------------
(***************************************************************************)
(* The rate-limited client of src/chain/client.rs and the methods of       *)
(* AlloyChain that go through it, wait_for_receipt above all, in time.     *)
(*                                                                         *)
(* A session has one AlloyChain and calls it from one task, a method at a  *)
(* time.  Each method takes one permit and issues one request;             *)
(* wait_for_receipt takes one permit and polls until its timeout.          *)
(*                                                                         *)
(* Time is counted in ticks and passes only where the task awaits a timer  *)
(* or an answer, or while no method runs.  A timer that is due runs before *)
(* time goes on; an answer takes at most MaxRpc ticks or never comes: the  *)
(* program sets no timeout on its requests (rpc_timeout_secs is unused).   *)
(***************************************************************************)
EXTENDS Integers, Sequences

CONSTANTS
  Second,       \* ticks in a second
  MaxJitter,    \* Jitter::up_to(50 ms), in ticks
  Rates,        \* the values of rps that are tried
  Timeouts,     \* the timeouts wait_for_receipt is given
  MaxRpc,       \* bound: how long an answer takes that comes at all
  MaxCalls,     \* bound: how many methods are called
  MaxIdle,      \* bound: no time passes between methods after this
  Never         \* not a time: the transaction is not mined

ASSUME RpcAssumption ==
  /\ Second \in Nat \ {0}
  /\ MaxJitter \in Nat
  /\ Rates \subseteq Nat
  /\ \A r \in Rates \ {0} : Second % r = 0
  /\ Timeouts \subseteq Nat
  /\ MaxRpc \in Nat
  /\ MaxCalls \in Nat
  /\ MaxIdle \in Nat
  /\ Never \notin Nat

VARIABLES
  now,
  rps,          \* the quota: rps permits at once and rps per second
  tat,          \* the limiter's state: when its bucket is full again
  at,           \* where the task is
  method,       \* what it runs: a method of one request, or the wait
  wake,         \* when its timer is due, or its answer at the latest
  start,        \* Instant::now() of wait_for_receipt
  timeout,
  issued,       \* when the last poll was issued
  mined,        \* node: when it got the receipt
  outcome,      \* what the last wait_for_receipt returned
  requests,     \* history: when each request was issued
  calls         \* bound: methods called so far

task == <<at, method, wake, start, timeout, issued, outcome>>
vars == <<now, rps, tat, mined, requests, calls, task>>

-----------------------------------------------------------------------------
Places ==
  {"new", "free", "permit", "delay", "loop", "answer", "nap", "hung", "failed"}

\* Where the task waits for `wake`.
Timed == {"delay", "answer", "nap"}

TypeInv ==
  /\ now \in Nat /\ tat \in Nat /\ wake \in Nat
  /\ start \in Nat /\ issued \in Nat
  /\ rps \in Rates /\ timeout \in Timeouts \cup {0}
  /\ at \in Places /\ method \in {"once", "wait"}
  /\ mined \in Nat \cup {Never}
  /\ outcome \in {"none", "receipt", "absent", "error"}
  /\ requests \in Seq(Nat)
  /\ calls \in 0 .. MaxCalls
  /\ at \notin {"new", "failed"} => rps # 0
  /\ at \in Timed => now <= wake

Init ==
  /\ now = 0 /\ tat = 0 /\ wake = 0 /\ start = 0 /\ issued = 0
  /\ rps \in Rates /\ timeout = 0
  /\ at = "new" /\ method = "once"
  /\ mined = Never /\ outcome = "none"
  /\ requests = <<>> /\ calls = 0

-----------------------------------------------------------------------------
(* The limiter (crate governor): a cell each Period, at most rps of them.  *)

Period == Second \div rps
Later(x, y) == IF x < y THEN y ELSE x

\* The first instant at which a permit is free.
Earliest == tat - (rps - 1) * Period

\* MUTANT of WithRate: a rate of zero is let through.
WithRateUnchecked ==
  /\ at = "new"
  /\ at' = "permit"
  /\ UNCHANGED <<now, rps, tat, mined, requests, calls, method, wake, start,
                 timeout, issued, outcome>>

\* with_rate: a URL that does not parse is an error, and so is a rate of
\* zero.  Otherwise AlloyChain is built by its first request, for the chain id.
WithRate ==
  /\ at = "new"
  /\ at' \in {"permit", "failed"}
  /\ rps = 0 => at' = "failed"
  /\ UNCHANGED <<now, rps, tat, mined, requests, calls, method, wake, start,
                 timeout, issued, outcome>>

\* acquire: a permit is taken.
Permit ==
  /\ at = "permit"
  /\ Earliest <= now
  /\ tat' = Later(tat, now) + Period

\* MUTANT of Delayed: it looks again at once.
DelayedBusy ==
  /\ at = "permit"
  /\ Earliest > now
  /\ at' = "delay"
  /\ wake' = now
  /\ UNCHANGED <<now, rps, tat, mined, requests, calls, method, start, timeout,
                 issued, outcome>>

\* acquire: none is free; sleep until one is, and up to the jitter longer.
Delayed ==
  /\ at = "permit"
  /\ Earliest > now
  /\ at' = "delay"
  /\ \E j \in 0 .. MaxJitter : wake' = Earliest + j
  /\ UNCHANGED <<now, rps, tat, mined, requests, calls, method, start, timeout,
                 issued, outcome>>

\* The sleep is over; acquire looks again.
Look ==
  /\ at = "delay"
  /\ now = wake
  /\ at' = "permit"
  /\ UNCHANGED <<now, rps, tat, mined, requests, calls, method, wake, start,
                 timeout, issued, outcome>>

-----------------------------------------------------------------------------
(* The methods.                                                            *)

\* A request goes out.
Ask ==
  /\ at' = "answer"
  /\ wake' = now + MaxRpc
  /\ requests' = Append(requests, now)

Call(m, t) ==
  /\ at = "free"
  /\ m = "once" => t = 0
  /\ calls < MaxCalls
  /\ calls' = calls + 1
  /\ method' = m /\ timeout' = t
  /\ at' = "permit"
  /\ outcome' = "none"
  /\ UNCHANGED <<now, rps, tat, mined, requests, wake, start, issued>>

\* MUTANT of Request: the method does not acquire.
RequestUnlimited ==
  /\ method = "once"
  /\ at = "permit"
  /\ Ask
  /\ UNCHANGED <<now, rps, tat, mined, calls, method, start, timeout, issued,
                 outcome>>

\* fetch_chain_id, balance, pending_nonce, estimate_fees, broadcast_tx and
\* get_tx: acquire, then one request.
Request ==
  /\ method = "once"
  /\ Permit
  /\ Ask
  /\ UNCHANGED <<now, rps, mined, calls, method, start, timeout, issued,
                 outcome>>

\* Its answer or its error; either ends the method.
Answered ==
  /\ at = "answer" /\ method = "once"
  /\ at' = "free"
  /\ UNCHANGED <<now, rps, tat, mined, requests, calls, method, wake, start,
                 timeout, issued, outcome>>

\* The first request is an error: there is no AlloyChain, and no session.
NoChain ==
  /\ at = "answer" /\ calls = 0
  /\ at' = "failed"
  /\ UNCHANGED <<now, rps, tat, mined, requests, calls, method, wake, start,
                 timeout, issued, outcome>>

\* wait_for_receipt: acquire, and the clock starts.
Wait ==
  /\ method = "wait"
  /\ Permit
  /\ start' = now
  /\ at' = "loop"
  /\ UNCHANGED <<now, rps, mined, requests, calls, method, wake, timeout, issued,
                 outcome>>

\* while start.elapsed() < timeout { get_transaction_receipt ...
Poll ==
  /\ at = "loop"
  /\ now - start < timeout
  /\ Ask
  /\ issued' = now
  /\ UNCHANGED <<now, rps, tat, mined, calls, method, start, timeout, outcome>>

End(o) ==
  /\ at' = "free"
  /\ outcome' = o
  /\ UNCHANGED <<now, rps, tat, mined, requests, calls, method, wake, start,
                 timeout, issued>>

\* ... } Ok(None)
TimesOut ==
  /\ at = "loop"
  /\ now - start >= timeout
  /\ End("absent")

Polling == at = "answer" /\ method = "wait"

\* The node had the receipt at the latest now.
HasReceipt ==
  /\ Polling
  /\ mined # Never
  /\ End("receipt")

\* MUTANT of NoReceipt: it sleeps for two seconds.
NoReceiptLazy ==
  /\ Polling
  /\ mined \notin 0 .. issued - 1
  /\ at' = "nap" /\ wake' = now + 2 * Second
  /\ UNCHANGED <<now, rps, tat, mined, requests, calls, method, start, timeout,
                 issued, outcome>>

\* The node had none when it looked, after the request was issued: sleep for
\* a second.
NoReceipt ==
  /\ Polling
  /\ mined \notin 0 .. issued - 1
  /\ at' = "nap" /\ wake' = now + Second
  /\ UNCHANGED <<now, rps, tat, mined, requests, calls, method, start, timeout,
                 issued, outcome>>

\* MUTANT of PollFails: the poll is repeated, whatever the time.
PollAgain ==
  /\ Polling
  /\ Ask
  /\ issued' = now
  /\ UNCHANGED <<now, rps, tat, mined, calls, method, start, timeout, outcome>>

\* The first error of a poll ends the wait.
PollFails ==
  /\ Polling
  /\ End("error")

\* The second is over: back to the loop's condition.
Rise ==
  /\ at = "nap"
  /\ now = wake
  /\ at' = "loop"
  /\ UNCHANGED <<now, rps, tat, mined, requests, calls, method, wake, start,
                 timeout, issued, outcome>>

\* The answer never comes.
Hang ==
  /\ at = "answer"
  /\ at' = "hung"
  /\ UNCHANGED <<now, rps, tat, mined, requests, calls, method, wake, start,
                 timeout, issued, outcome>>

-----------------------------------------------------------------------------
Tick ==
  /\ \/ at \in Timed /\ now < wake
     \/ at = "free" /\ now < MaxIdle
  /\ now' = now + 1
  /\ UNCHANGED <<rps, tat, mined, requests, calls, task>>

Mine ==
  /\ mined = Never
  /\ mined' = now
  /\ UNCHANGED <<now, rps, tat, requests, calls, task>>

\* What the task does by itself, and the answers it gets.
Run ==
  \/ WithRate \/ Delayed \/ Look
  \/ Request \/ Answered \/ NoChain
  \/ Wait \/ Poll \/ TimesOut \/ HasReceipt \/ NoReceipt \/ PollFails \/ Rise
  \/ Hang

Next ==
  \/ Run
  \/ \E m \in {"once", "wait"}, t \in Timeouts : Call(m, t)
  \/ Tick \/ Mine

Spec == Init /\ [][Next]_vars

\* The runtime runs a task that can run, time passes while it waits, and a
\* request is answered, fails or hangs.  Nobody has to call a method, and
\* the transaction need not be mined.
Fairness == WF_vars(Run) /\ WF_vars(Tick)

FairSpec == Spec /\ Fairness

-----------------------------------------------------------------------------
(* What the client promises.                                               *)

\* The rate the node sees.  In any window there are no more requests than
\* the quota's burst and its permits of that time allow, but for the polls
\* of wait_for_receipt, which take no permit: one more at once and one more
\* per second (client.rs:86-93, alloy_chain.rs:235-251).
RequestRate ==
  \A i, j \in 1 .. Len(requests) :
     i <= j =>
        (j - i - rps) * Second <= (requests[j] - requests[i]) * (rps + 1)

\* What wait_for_receipt answers about the chain: a receipt only if there is
\* one, and none only if there was none a second and an answer's time before
\* the deadline (a timeout of zero asks nobody).
Deadline == start + timeout

Verdict ==
  /\ outcome = "receipt" => mined # Never
  /\ outcome = "absent" /\ timeout > 0 =>
        mined = Never \/ mined >= Deadline - (Second + MaxRpc)

\* The timeout is looked at only between two polls: a wait may overrun it,
\* by at most the answer of its last poll and the second of sleep after it.
InTime ==
  /\ at = "nap" => wake < Deadline + MaxRpc + Second
  /\ Polling => wake < Deadline + MaxRpc

\* Every method ends, permits and polls included, unless a request hangs:
\* then it never does.
Ends == at \notin {"free", "failed"} ~> at \in {"free", "failed", "hung"}

=============================================================================
