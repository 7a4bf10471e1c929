---------------------------- MODULE NonceManager ----------------------------
(***************************************************************************)
(* The nonce pool of src/chain/nonce.rs.                                   *)
(*                                                                         *)
(* Every evm-cli process owns one NonceManager: a map from address to      *)
(* AddressState behind a tokio mutex.  All processes append to one         *)
(* JSON-lines file.  A method changes memory first and then appends its    *)
(* record under an flock on the file; the mutex is held until the append   *)
(* returns, so nothing else of the process runs in between, but the steps  *)
(* of the append interleave with those of other processes, an I/O error    *)
(* can end it, and the process can be killed (panic = "abort") anywhere.   *)
(*                                                                         *)
(* The file is a sequence of tokens, each a whole record or an end of      *)
(* line: writeln! hands the record and the newline to the kernel in two    *)
(* writes.  Block numbers are left out of the records.                     *)
(***************************************************************************)
EXTENDS Naturals, Sequences, FiniteSets

CONSTANTS
  Procs,        \* the evm-cli processes
  Addrs,        \* the addresses they send from
  Hashes,       \* transaction hashes
  NoHash,       \* not a hash: this nonce is not pending
  NoProc,       \* not a process: the flock is free
  NoEntry,      \* not a record: the process appends nothing
  EOL,          \* the newline that ends a record
  MaxNonce,     \* bound: the largest nonce a caller passes
  HistoryCap,   \* HISTORY_CAP, 100 in the code
  MaxTokens,    \* bound: no append starts on a log this long
  MaxFaults     \* bound: how many appends fail or die half-way

Nonces == 0 .. MaxNonce

\* LogEntry: one record of the file.  It does not name the address.
Submitted(n, h) == [state |-> "submitted", nonce |-> n, tx_hash |-> h]
Mined(n, h) == [state |-> "mined", nonce |-> n, tx_hash |-> h]
Stale(n) == [state |-> "stale", nonce |-> n]
Replaced(n, m, h) ==
  [state |-> "replaced", old_nonce |-> n, new_nonce |-> m, new_hash |-> h]

LogEntry ==
  [state : {"submitted", "mined"}, nonce : Nonces, tx_hash : Hashes]
    \cup [state : {"stale"}, nonce : Nonces]
    \cup [state : {"replaced"}, old_nonce : Nonces, new_nonce : Nonces,
          new_hash : Hashes]

MinedEntry == [nonce : Nonces, tx_hash : Hashes]

ASSUME NonceAssumption ==
  /\ MaxNonce \in Nat
  /\ HistoryCap \in Nat
  /\ MaxTokens \in Nat
  /\ MaxFaults \in Nat
  /\ NoHash \notin Hashes
  /\ NoProc \notin Procs
  /\ NoEntry \notin LogEntry
  /\ EOL \notin LogEntry

VARIABLES
  by_addr,      \* process -> address -> AddressState (memory, dies with it)
  call,         \* process -> how far its current append is
  log,          \* the file: records and ends of line
  flock,        \* the process that holds the lock on the file
  lost,         \* history: records whose append failed before the record
  torn          \* history: positions of records whose newline never came

vars == <<by_addr, call, log, flock, lost, torn>>

-----------------------------------------------------------------------------
AddressState ==
  [next_nonce : 0 .. MaxNonce + 1,
   pending : [Nonces -> Hashes \cup {NoHash}],
   dead : SUBSET Nonces,
   history : Seq(MinedEntry)]

\* AddressState::default()
EmptyState ==
  [next_nonce |-> 0,
   pending |-> [n \in Nonces |-> NoHash],
   dead |-> {},
   history |-> <<>>]

Idle == [at |-> "idle", entry |-> NoEntry]
Down == [at |-> "down", entry |-> NoEntry]

\* at = "down": no such process; "idle": no method runs; "opening": memory is
\* changed, waiting for the flock; "locked": holds it; "written": the record
\* is in the file, its newline is not; "terminated": the newline is too.
InAppend == {"opening", "locked", "written", "terminated"}
Holding == {"locked", "written", "terminated"}

Calls ==
  {Idle, Down} \cup [at : InAppend, entry : LogEntry]

TypeOK ==
  /\ by_addr \in [Procs -> [Addrs -> AddressState]]
  /\ call \in [Procs -> Calls]
  /\ log \in Seq(LogEntry \cup {EOL})
  /\ flock \in Procs \cup {NoProc}
  /\ lost \subseteq LogEntry
  /\ torn \subseteq Nat

Init ==
  /\ by_addr = [p \in Procs |-> [a \in Addrs |-> EmptyState]]
  /\ call = [p \in Procs |-> Idle]
  /\ log = <<>>
  /\ flock = NoProc
  /\ lost = {}
  /\ torn = {}

-----------------------------------------------------------------------------
(* The methods.  Each one runs from the mutex to the start of its append.  *)

\* What next(addr) returns.  It changes nothing: the nonce is not reserved.
NextNonce(p, a) == by_addr[p][a].next_nonce

Mutate(p, a, st) == by_addr' = [by_addr EXCEPT ![p] = [@ EXCEPT ![a] = st]]

StartAppend(p, e) ==
  /\ call[p] = Idle
  /\ Len(log) < MaxTokens
  /\ call' = [call EXCEPT ![p] = [at |-> "opening", entry |-> e]]
  /\ UNCHANGED <<log, flock, lost, torn>>

Submit(p, a, n, h) ==
  LET st == by_addr[p][a] IN
  /\ StartAppend(p, Submitted(n, h))
  /\ Mutate(p, a, [st EXCEPT !.pending = [@ EXCEPT ![n] = h],
                             !.next_nonce = n + 1])

\* MUTANT of Archive: the ring keeps one entry too many.
ArchiveOffByOne(history, m) ==
  LET longer == Append(history, m)
  IN  IF Len(longer) > HistoryCap + 1 THEN Tail(longer) ELSE longer

\* push_back, then pop_front while the ring is longer than its cap.
Archive(history, m) ==
  LET longer == Append(history, m)
  IN  IF Len(longer) > HistoryCap
      THEN SubSeq(longer, Len(longer) - HistoryCap + 1, Len(longer))
      ELSE longer

\* MUTANT of Confirm: any nonce can be confirmed, pending or not.
ConfirmUnchecked(p, a, n) ==
  \E h \in Hashes :
    /\ StartAppend(p, Mined(n, h))
    /\ Mutate(p, a, [by_addr[p][a] EXCEPT !.pending = [@ EXCEPT ![n] = NoHash]])

\* confirm() of a nonce that is not pending is an error and changes nothing.
Confirm(p, a, n) ==
  LET st == by_addr[p][a]
      h == st.pending[n]
  IN
  /\ h # NoHash
  /\ StartAppend(p, Mined(n, h))
  /\ Mutate(p, a,
       [st EXCEPT !.pending = [@ EXCEPT ![n] = NoHash],
                  !.dead = @ \ {n},
                  !.history = Archive(@, [nonce |-> n, tx_hash |-> h])])

\* fail() asks nothing of the nonce: it need not be pending.
Fail(p, a, n) ==
  LET st == by_addr[p][a] IN
  /\ StartAppend(p, Stale(n))
  /\ Mutate(p, a, [st EXCEPT !.pending = [@ EXCEPT ![n] = NoHash],
                             !.dead = @ \cup {n}])

\* MUTANT of Replace: the replacement is pending without a Submitted record.
ReplacePending(p, a, old, new, h) ==
  /\ StartAppend(p, Replaced(old, new, h))
  /\ Mutate(p, a, [by_addr[p][a] EXCEPT !.pending = [@ EXCEPT ![new] = h]])

\* replaced(): the replacement's hash goes to the log, not to `pending`.
Replace(p, a, old, new, h) ==
  LET st == by_addr[p][a] IN
  /\ StartAppend(p, Replaced(old, new, h))
  /\ Mutate(p, a, [st EXCEPT !.pending = [@ EXCEPT ![old] = NoHash],
                             !.dead = @ \cup {old},
                             !.next_nonce = new + 1])

\* rebuild(): clears memory; the log is not read.
Rebuild(p) ==
  /\ call[p] = Idle
  /\ by_addr' = [by_addr EXCEPT ![p] = [a \in Addrs |-> EmptyState]]
  /\ UNCHANGED <<call, log, flock, lost, torn>>

\* rebuild_from_rpc(): c is the chain's pending nonce.
RebuildFromRpc(p, a, c) ==
  LET st == by_addr[p][a] IN
  /\ call[p] = Idle
  /\ st.next_nonce < c
  /\ Mutate(p, a, [st EXCEPT !.next_nonce = c])
  /\ UNCHANGED <<call, log, flock, lost, torn>>

-----------------------------------------------------------------------------
(* append_log and with_file_lock, and the process's death.                 *)

\* MUTANT of AcquireFlock: a shared lock.
AcquireShared(p) ==
  /\ call[p].at = "opening"
  /\ flock' = p
  /\ call' = [call EXCEPT ![p].at = "locked"]
  /\ UNCHANGED <<by_addr, log, lost, torn>>

AcquireFlock(p) ==
  /\ call[p].at = "opening"
  /\ flock = NoProc
  /\ flock' = p
  /\ call' = [call EXCEPT ![p].at = "locked"]
  /\ UNCHANGED <<by_addr, log, lost, torn>>

WriteRecord(p) ==
  /\ call[p].at = "locked"
  /\ log' = Append(log, call[p].entry)
  /\ call' = [call EXCEPT ![p].at = "written"]
  /\ UNCHANGED <<by_addr, flock, lost, torn>>

WriteNewline(p) ==
  /\ call[p].at = "written"
  /\ log' = Append(log, EOL)
  /\ call' = [call EXCEPT ![p].at = "terminated"]
  /\ UNCHANGED <<by_addr, flock, lost, torn>>

\* MUTANT of Release: the descriptor leaks and the lock stays.
ReleaseNothing(p) == flock' = flock

\* Dropping the file releases the lock, whatever the outcome.
Release(p) == flock' = IF flock = p THEN NoProc ELSE flock

\* sync_all and return: Ok, or Err with the record in the file all the same.
Finish(p) ==
  /\ call[p].at = "terminated"
  /\ call' = [call EXCEPT ![p] = Idle]
  /\ Release(p)
  /\ UNCHANGED <<by_addr, log, lost, torn>>

\* What an append that ends early leaves behind: no record, or no newline.
Abandon(p) ==
  /\ lost' = IF call[p].at \in {"opening", "locked"}
             THEN lost \cup {call[p].entry} ELSE lost
  /\ torn' = IF call[p].at = "written" THEN torn \cup {Len(log)} ELSE torn
  /\ Cardinality(lost') + Cardinality(torn') <= MaxFaults
  /\ Release(p)
  /\ UNCHANGED log

\* create_dir_all, open, flock or a write fails: `?` returns at once, and
\* the change of memory stays.
IoError(p) ==
  /\ call[p].at \in {"opening", "locked", "written"}
  /\ Abandon(p)
  /\ call' = [call EXCEPT ![p] = Idle]
  /\ UNCHANGED by_addr

\* The process is killed: memory goes, the kernel drops the lock.
Crash(p) ==
  /\ call[p].at # "down"
  /\ Abandon(p)
  /\ call' = [call EXCEPT ![p] = Down]
  /\ by_addr' = [by_addr EXCEPT ![p] = [a \in Addrs |-> EmptyState]]

\* NonceManager::new in a new process: empty memory, no rebuild.
Start(p) ==
  /\ call[p] = Down
  /\ call' = [call EXCEPT ![p] = Idle]
  /\ UNCHANGED <<by_addr, log, flock, lost, torn>>

-----------------------------------------------------------------------------
Method(p) ==
  \/ Rebuild(p)
  \/ \E a \in Addrs :
       \/ \E c \in 1 .. MaxNonce + 1 : RebuildFromRpc(p, a, c)
       \/ \E n \in Nonces :
            \/ Confirm(p, a, n)
            \/ Fail(p, a, n)
            \/ \E h \in Hashes :
                 \/ Submit(p, a, n, h)
                 \/ \E m \in Nonces : Replace(p, a, n, m, h)

AppendStep(p) ==
  \/ AcquireFlock(p) \/ WriteRecord(p) \/ WriteNewline(p) \/ Finish(p)
  \/ IoError(p)

Next == \E p \in Procs : Method(p) \/ AppendStep(p) \/ Crash(p) \/ Start(p)

Spec == Init /\ [][Next]_vars

-----------------------------------------------------------------------------
(* What the pool and its log promise.                                      *)

Logged(e) == \E i \in 1 .. Len(log) : log[i] = e

\* p's own append of e is on its way to the file.
InFlight(p, e) == call[p].at \in {"opening", "locked"} /\ call[p].entry = e

Durable(p, e) == Logged(e) \/ InFlight(p, e) \/ e \in lost

\* Type correctness, with the cap of the history ring (HISTORY_CAP).
TypeInv ==
  /\ TypeOK
  /\ \A p \in Procs, a \in Addrs : Len(by_addr[p][a].history) <= HistoryCap

\* What a process believes about a nonce, it has written down: a pending,
\* dead or mined nonce in memory has its record in the file, or on the way
\* there, unless that very append failed.  (submit, confirm, fail, replaced:
\* memory first, then the log.)
PendingIsLogged ==
  \A p \in Procs, a \in Addrs, n \in Nonces, h \in Hashes :
     by_addr[p][a].pending[n] = h => Durable(p, Submitted(n, h))

DeadIsLogged ==
  \A p \in Procs, a \in Addrs, n \in Nonces :
     n \in by_addr[p][a].dead =>
        \/ Durable(p, Stale(n))
        \/ \E m \in Nonces, h \in Hashes : Durable(p, Replaced(n, m, h))

HistoryIsLogged ==
  \A p \in Procs, a \in Addrs : \A i \in 1 .. Len(by_addr[p][a].history) :
     LET m == by_addr[p][a].history[i]
     IN  Durable(p, Mined(m.nonce, m.tx_hash))

MemoryIsLogged == PendingIsLogged /\ DeadIsLogged /\ HistoryIsLogged

\* The file tells a story in order: a Mined record comes after the Submitted
\* record of the same nonce and hash, whichever processes wrote around them,
\* unless the append of that Submitted record failed.
MinedAfterSubmitted ==
  \A i \in 1 .. Len(log), n \in Nonces, h \in Hashes :
     log[i] = Mined(n, h) =>
        \/ \E j \in 1 .. i - 1 : log[j] = Submitted(n, h)
        \/ Submitted(n, h) \in lost

\* The records of two processes never share a line: a record without its
\* newline is the last token, still being written by the process that holds
\* the flock, or its writer failed in that very place.
WholeLines ==
  \A i \in 1 .. Len(log) :
     (log[i] \in LogEntry /\ i \notin torn) =>
        \/ i < Len(log) /\ log[i + 1] = EOL
        \/ /\ i = Len(log)
           /\ \E p \in Procs : flock = p /\ call[p].at = "written"

\* The flock is held by exactly the process whose append is between flock()
\* and the drop of the file: no return, error or death keeps it.
NoLeakedLock ==
  \A p \in Procs : flock = p <=> call[p].at \in Holding

=============================================================================
