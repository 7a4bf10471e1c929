------------------------- MODULE NonceManagerProofs -------------------------
(***************************************************************************)
(* Theorems of NonceManager, for any number of processes, addresses,       *)
(* hashes and nonces and any HistoryCap.                                   *)
(***************************************************************************)
EXTENDS NonceManager, SequenceTheorems, TLAPS

(***************************************************************************)
(* Lemmas on the operators.                                                *)
(***************************************************************************)

\* The history ring: still a sequence of mined entries, never longer than its
\* cap, and every entry in it was there before or is the new one.
LEMMA ArchiveProperties ==
  ASSUME NEW s \in Seq(MinedEntry), NEW m \in MinedEntry
  PROVE  /\ Archive(s, m) \in Seq(MinedEntry)
         /\ Len(Archive(s, m)) <= HistoryCap
         /\ \A i \in 1 .. Len(Archive(s, m)) :
              \/ Archive(s, m)[i] = m
              \/ \E j \in 1 .. Len(s) : Archive(s, m)[i] = s[j]
<1> DEFINE t == Append(s, m)
<1>1. /\ t \in Seq(MinedEntry)
      /\ Len(t) \in Nat
      /\ \A i \in 1 .. Len(t) :
            t[i] \in MinedEntry /\ (t[i] = m \/ \E j \in 1 .. Len(s) : t[i] = s[j])
  BY AppendProperties
<1>2. Archive(s, m) = IF Len(t) > HistoryCap
                      THEN SubSeq(t, Len(t) - HistoryCap + 1, Len(t)) ELSE t
  BY DEF Archive
<1> HIDE DEF t
<1>3. CASE Len(t) > HistoryCap
  <2>0. Len(t) - HistoryCap + 1 \in 1 .. Len(t) + 1
    BY <1>1, <1>3, NonceAssumption
  <2>1. PICK k \in 1 .. Len(t) + 1 : k = Len(t) - HistoryCap + 1
    BY <2>0
  <2>2. Archive(s, m) = SubSeq(t, k, Len(t))
    BY <1>2, <1>3, <2>1
  <2>3. /\ Archive(s, m) \in Seq(MinedEntry)
        /\ Len(Archive(s, m)) = IF k <= Len(t) THEN Len(t) - k + 1 ELSE 0
        /\ \A i \in 1 .. Len(t) - k + 1 : Archive(s, m)[i] = t[k + i - 1]
    <3>1. \A i \in k .. Len(t) : t[i] \in MinedEntry
      BY <1>1, <2>1
    <3>2. QED
      BY <3>1, <2>1, <2>2, <1>1, SubSeqProperties
  <2>4. Len(Archive(s, m)) = HistoryCap
    BY <2>1, <2>3, <1>1, NonceAssumption
  <2>5. ASSUME NEW i \in 1 .. Len(Archive(s, m))
        PROVE  \/ Archive(s, m)[i] = m
               \/ \E j \in 1 .. Len(s) : Archive(s, m)[i] = s[j]
    <3>1. /\ i \in 1 .. Len(t) - k + 1
          /\ k + i - 1 \in 1 .. Len(t)
      BY <2>1, <2>4, <1>1, NonceAssumption
    <3>2. QED
      BY <3>1, <2>3, <1>1
  <2>6. QED
    BY <2>3, <2>4, <2>5, NonceAssumption
<1>4. CASE ~(Len(t) > HistoryCap)
  <2>1. Archive(s, m) = t
    BY <1>2, <1>4
  <2>2. QED
    BY <1>1, <1>4, <2>1, NonceAssumption
<1>5. QED
  BY <1>3, <1>4

\* Every record a method builds is a LogEntry.
LEMMA EntryTypes ==
  ASSUME NEW n \in Nonces, NEW m \in Nonces, NEW h \in Hashes
  PROVE  /\ Submitted(n, h) \in LogEntry
         /\ Mined(n, h) \in LogEntry
         /\ Stale(n) \in LogEntry
         /\ Replaced(n, m, h) \in LogEntry
BY DEF Submitted, Mined, Stale, Replaced, LogEntry

LEMMA EmptyStateType == EmptyState \in AddressState
BY NonceAssumption DEF EmptyState, AddressState, Nonces

\* Well-formed memory: typed, and the history within its cap.
StateOK(st) == st \in AddressState /\ Len(st.history) <= HistoryCap

\* The memory that each method computes is well-formed.
LEMMA NewStates ==
  ASSUME NEW st, StateOK(st), NEW n \in Nonces, NEW m \in Nonces,
         NEW h \in Hashes
  PROVE  /\ StateOK([st EXCEPT !.pending = [@ EXCEPT ![n] = h],
                               !.next_nonce = n + 1])
         /\ StateOK([st EXCEPT !.pending = [@ EXCEPT ![n] = NoHash],
                               !.dead = @ \ {n},
                               !.history = Archive(@, [nonce |-> n, tx_hash |-> h])])
         /\ StateOK([st EXCEPT !.pending = [@ EXCEPT ![n] = NoHash],
                               !.dead = @ \cup {n}])
         /\ StateOK([st EXCEPT !.pending = [@ EXCEPT ![n] = NoHash],
                               !.dead = @ \cup {n},
                               !.next_nonce = m + 1])
<1>1. /\ n + 1 \in 0 .. MaxNonce + 1
      /\ m + 1 \in 0 .. MaxNonce + 1
  BY NonceAssumption DEF Nonces
<1>2. /\ st.history \in Seq(MinedEntry)
      /\ [nonce |-> n, tx_hash |-> h] \in MinedEntry
  BY DEF StateOK, AddressState, MinedEntry
<1>3. /\ Archive(st.history, [nonce |-> n, tx_hash |-> h]) \in Seq(MinedEntry)
      /\ Len(Archive(st.history, [nonce |-> n, tx_hash |-> h])) <= HistoryCap
  BY <1>2, ArchiveProperties
<1>4. QED
  BY <1>1, <1>2, <1>3 DEF StateOK, AddressState

LEMMA EmptyStateOK == StateOK(EmptyState)
BY EmptyStateType, NonceAssumption DEF StateOK, EmptyState

\* Mutate changes one address of one process.
LEMMA MutateFrame ==
  ASSUME TypeInv, NEW p \in Procs, NEW a \in Addrs, NEW st, StateOK(st),
         Mutate(p, a, st)
  PROVE  /\ by_addr' \in [Procs -> [Addrs -> AddressState]]
         /\ by_addr'[p][a] = st
         /\ \A q \in Procs, b \in Addrs :
              q # p \/ b # a => by_addr'[q][b] = by_addr[q][b]
         /\ \A q \in Procs, b \in Addrs : Len(by_addr'[q][b].history) <= HistoryCap
<1>1. by_addr \in [Procs -> [Addrs -> AddressState]]
  BY DEF TypeInv, TypeOK
<1>2. by_addr' = [by_addr EXCEPT ![p] = [by_addr[p] EXCEPT ![a] = st]]
  BY DEF Mutate
<1>3. st \in AddressState /\ Len(st.history) <= HistoryCap
  BY DEF StateOK
<1>4. /\ by_addr' \in [Procs -> [Addrs -> AddressState]]
      /\ by_addr'[p][a] = st
      /\ \A q \in Procs, b \in Addrs :
            q # p \/ b # a => by_addr'[q][b] = by_addr[q][b]
  BY <1>1, <1>2, <1>3
<1>5. ASSUME NEW q \in Procs, NEW b \in Addrs
      PROVE  Len(by_addr'[q][b].history) <= HistoryCap
  <2>1. CASE q = p /\ b = a
    BY <2>1, <1>4, <1>3
  <2>2. CASE q # p \/ b # a
    BY <2>2, <1>4 DEF TypeInv
  <2>3. QED
    BY <2>1, <2>2
<1>6. QED
  BY <1>4, <1>5

LEMMA StateIsOK ==
  ASSUME TypeInv, NEW p \in Procs, NEW a \in Addrs
  PROVE  StateOK(by_addr[p][a])
BY DEF TypeInv, TypeOK, StateOK

LEMMA StartAppendType ==
  ASSUME TypeInv, NEW p \in Procs, NEW e \in LogEntry, StartAppend(p, e)
  PROVE  /\ call' \in [Procs -> Calls]
         /\ UNCHANGED <<log, flock, lost, torn>>
BY DEF TypeInv, TypeOK, StartAppend, Calls, InAppend

-----------------------------------------------------------------------------
(***************************************************************************)
(* Type correctness.                                                       *)
(***************************************************************************)

LEMMA InitType == Init => TypeInv
BY EmptyStateOK DEF Init, TypeInv, TypeOK, StateOK, Calls, Idle

LEMMA MethodType ==
  ASSUME TypeInv, NEW p \in Procs, Method(p)
  PROVE  TypeInv'
<1>1. CASE Rebuild(p)
  BY <1>1, EmptyStateOK DEF Rebuild, TypeInv, TypeOK, StateOK
<1>2. ASSUME NEW a \in Addrs, NEW c \in 1 .. MaxNonce + 1, RebuildFromRpc(p, a, c)
      PROVE  TypeInv'
  <2>1. StateOK([by_addr[p][a] EXCEPT !.next_nonce = c])
    <3>1. c \in 0 .. MaxNonce + 1
      BY NonceAssumption
    <3>2. QED
      BY <3>1, StateIsOK DEF StateOK, AddressState
  <2>2. QED
    BY <1>2, <2>1, MutateFrame DEF RebuildFromRpc, TypeInv, TypeOK
<1>3. ASSUME NEW a \in Addrs, NEW e \in LogEntry, NEW st, StateOK(st),
             StartAppend(p, e), Mutate(p, a, st)
      PROVE  TypeInv'
  BY <1>3, StartAppendType, MutateFrame DEF TypeInv, TypeOK
<1>4. ASSUME NEW a \in Addrs, NEW n \in Nonces, Confirm(p, a, n)
      PROVE  TypeInv'
  <2>1. by_addr[p][a].pending[n] \in Hashes
    BY <1>4, StateIsOK DEF Confirm, StateOK, AddressState
  <2> DEFINE h == by_addr[p][a].pending[n]
  <2>2. StateOK([by_addr[p][a] EXCEPT !.pending = [@ EXCEPT ![n] = NoHash],
                   !.dead = @ \ {n},
                   !.history = Archive(@, [nonce |-> n, tx_hash |-> h])])
    BY <2>1, StateIsOK, NewStates
  <2>3. Mined(n, h) \in LogEntry
    BY <2>1, EntryTypes
  <2>4. QED
    BY <1>3, <1>4, <2>2, <2>3 DEF Confirm
<1>5. ASSUME NEW a \in Addrs, NEW n \in Nonces, Fail(p, a, n)
      PROVE  TypeInv'
  <2>1. StateOK([by_addr[p][a] EXCEPT !.pending = [@ EXCEPT ![n] = NoHash],
                                      !.dead = @ \cup {n}])
    BY StateIsOK DEF StateOK, AddressState
  <2>2. Stale(n) \in LogEntry
    BY DEF Stale, LogEntry
  <2>3. QED
    BY <1>3, <1>5, <2>1, <2>2 DEF Fail
<1>6. ASSUME NEW a \in Addrs, NEW n \in Nonces, NEW h \in Hashes, Submit(p, a, n, h)
      PROVE  TypeInv'
  <2>1. StateOK([by_addr[p][a] EXCEPT !.pending = [@ EXCEPT ![n] = h],
                                      !.next_nonce = n + 1])
    BY StateIsOK, NewStates
  <2>2. Submitted(n, h) \in LogEntry
    BY EntryTypes
  <2>3. QED
    BY <1>3, <1>6, <2>1, <2>2 DEF Submit
<1>7. ASSUME NEW a \in Addrs, NEW n \in Nonces, NEW h \in Hashes, NEW m \in Nonces,
             Replace(p, a, n, m, h)
      PROVE  TypeInv'
  <2>1. StateOK([by_addr[p][a] EXCEPT !.pending = [@ EXCEPT ![n] = NoHash],
                                      !.dead = @ \cup {n},
                                      !.next_nonce = m + 1])
    BY StateIsOK, NewStates
  <2>2. Replaced(n, m, h) \in LogEntry
    BY EntryTypes
  <2>3. QED
    BY <1>3, <1>7, <2>1, <2>2 DEF Replace
<1>8. QED
  BY <1>1, <1>2, <1>4, <1>5, <1>6, <1>7 DEF Method

\* A running append carries a record, and its progress is well-typed.
LEMMA CallMoves ==
  ASSUME TypeInv, NEW p \in Procs
  PROVE  /\ call[p].at \in InAppend => call[p].entry \in LogEntry
         /\ [call EXCEPT ![p] = Idle] \in [Procs -> Calls]
         /\ [call EXCEPT ![p] = Down] \in [Procs -> Calls]
         /\ \A x \in InAppend :
              call[p].at \in InAppend =>
                 [call EXCEPT ![p].at = x] \in [Procs -> Calls]
<1>1. /\ call \in [Procs -> Calls]
      /\ Idle \in Calls
      /\ Down \in Calls
  BY DEF TypeInv, TypeOK, Calls
<1>2. call[p].at \in InAppend => call[p] \in [at : InAppend, entry : LogEntry]
  <2>1. Idle.at \notin InAppend /\ Down.at \notin InAppend
    BY DEF Idle, Down, InAppend
  <2>2. QED
    BY <1>1, <2>1 DEF Calls
<1>3. \A x \in InAppend :
         call[p].at \in InAppend => [call[p] EXCEPT !.at = x] \in Calls
  BY <1>2 DEF Calls
<1>4. QED
  BY <1>1, <1>2, <1>3

LEMMA ProcessType ==
  ASSUME TypeInv, NEW p \in Procs,
         AppendStep(p) \/ Crash(p) \/ Start(p)
  PROVE  TypeInv'
<1>1. ASSUME call' \in [Procs -> Calls],
             by_addr' \in [Procs -> [Addrs -> AddressState]],
             \A q \in Procs, a \in Addrs : Len(by_addr'[q][a].history) <= HistoryCap,
             log' \in Seq(LogEntry \cup {EOL}),
             flock' \in Procs \cup {NoProc},
             lost' \subseteq LogEntry, torn' \subseteq Nat
      PROVE  TypeInv'
  BY <1>1 DEF TypeInv, TypeOK
<1> USE CallMoves DEF TypeInv, TypeOK
<1>2. CASE AcquireFlock(p)
  BY <1>1, <1>2 DEF AcquireFlock, InAppend
<1>3. CASE WriteRecord(p)
  <2>1. call[p].entry \in LogEntry
    BY <1>3 DEF WriteRecord, InAppend
  <2>2. Append(log, call[p].entry) \in Seq(LogEntry \cup {EOL})
    BY <2>1, AppendProperties
  <2>3. QED
    BY <1>1, <1>3, <2>2 DEF WriteRecord, InAppend
<1>4. CASE WriteNewline(p)
  <2>1. Append(log, EOL) \in Seq(LogEntry \cup {EOL})
    BY AppendProperties
  <2>2. QED
    BY <1>1, <1>4, <2>1 DEF WriteNewline, InAppend
<1>5. CASE Finish(p)
  BY <1>1, <1>5 DEF Finish, Release
<1>6. ASSUME Abandon(p)
      PROVE  /\ log' \in Seq(LogEntry \cup {EOL})
             /\ flock' \in Procs \cup {NoProc}
             /\ lost' \subseteq LogEntry
             /\ torn' \subseteq Nat
  <2>1. Len(log) \in Nat
    BY LenProperties
  <2>2. call[p].at \in {"opening", "locked"} => call[p].entry \in LogEntry
    BY DEF InAppend
  <2>3. lost' \subseteq LogEntry
    BY <1>6, <2>2 DEF Abandon
  <2>4. torn' \subseteq Nat
    BY <1>6, <2>1 DEF Abandon
  <2>5. QED
    BY <1>6, <2>3, <2>4 DEF Abandon, Release
<1>7. CASE IoError(p)
  BY <1>1, <1>6, <1>7 DEF IoError
<1>8. CASE Crash(p)
  <2>1. /\ by_addr' \in [Procs -> [Addrs -> AddressState]]
        /\ \A q \in Procs, a \in Addrs : Len(by_addr'[q][a].history) <= HistoryCap
    BY <1>8, EmptyStateOK DEF Crash, StateOK
  <2>2. QED
    BY <1>1, <1>6, <1>8, <2>1 DEF Crash
<1>9. CASE Start(p)
  BY <1>1, <1>9 DEF Start
<1>10. QED
  BY <1>2, <1>3, <1>4, <1>5, <1>7, <1>8, <1>9 DEF AppendStep

LEMMA NextType == TypeInv /\ [Next]_vars => TypeInv'
<1>1. CASE UNCHANGED vars
  BY <1>1 DEF vars, TypeInv, TypeOK
<1>2. CASE Next
  BY <1>2, MethodType, ProcessType DEF Next
<1>3. QED
  BY <1>1, <1>2

\* Every reachable state is well-typed and no history outgrows HistoryCap.
THEOREM TypeCorrect == Spec => []TypeInv
BY InitType, NextType, PTL DEF Spec

-----------------------------------------------------------------------------
(***************************************************************************)
(* What a step does to the file and to the append of each process.         *)
(***************************************************************************)

\* A method leaves the file alone, and starts an append only from idle.
LEMMA MethodFrame ==
  ASSUME NEW p \in Procs, Method(p)
  PROVE  /\ UNCHANGED <<log, flock, lost, torn>>
         /\ call[p] = Idle
         /\ \/ call' = call
            \/ \E e : call' = [call EXCEPT ![p] = [at |-> "opening", entry |-> e]]
<1>1. ASSUME NEW e, StartAppend(p, e)
      PROVE  /\ UNCHANGED <<log, flock, lost, torn>>
             /\ call[p] = Idle
             /\ call' = [call EXCEPT ![p] = [at |-> "opening", entry |-> e]]
  BY <1>1 DEF StartAppend
<1>2. QED
  BY <1>1 DEF Method, Rebuild, RebuildFromRpc, Submit, Confirm, Fail, Replace

\* A record that is in the file stays there, at its place.
LEMMA LogGrows ==
  ASSUME TypeInv, [Next]_vars
  PROVE  /\ Len(log) \in Nat
         /\ Len(log') >= Len(log)
         /\ \A i \in 1 .. Len(log) : log'[i] = log[i]
         /\ lost \subseteq lost'
         /\ torn \subseteq torn'
<1>1. log \in Seq(LogEntry \cup {EOL}) /\ Len(log) \in Nat
  BY LenProperties DEF TypeInv, TypeOK
<1>2. ASSUME log' = log, lost \subseteq lost', torn \subseteq torn'
      PROVE  /\ Len(log') >= Len(log)
             /\ \A i \in 1 .. Len(log) : log'[i] = log[i]
             /\ lost \subseteq lost'
             /\ torn \subseteq torn'
  BY <1>1, <1>2
<1>3. CASE UNCHANGED vars
  BY <1>1, <1>2, <1>3 DEF vars
<1>4. ASSUME NEW p \in Procs, Method(p) \/ Start(p) \/ AcquireFlock(p) \/ Finish(p)
      PROVE  log' = log /\ lost' = lost /\ torn' = torn
  BY <1>4, MethodFrame DEF Start, AcquireFlock, Finish
<1>5. ASSUME NEW p \in Procs, IoError(p) \/ Crash(p)
      PROVE  log' = log /\ lost \subseteq lost' /\ torn \subseteq torn'
  BY <1>5 DEF IoError, Crash, Abandon
<1>6. ASSUME NEW p \in Procs, WriteRecord(p)
      PROVE  /\ Len(log') >= Len(log)
             /\ \A i \in 1 .. Len(log) : log'[i] = log[i]
             /\ lost' = lost /\ torn' = torn
  <2>1. call[p].entry \in LogEntry
    BY <1>6, CallMoves DEF WriteRecord, InAppend
  <2>2. QED
    BY <1>1, <1>6, <2>1, AppendProperties DEF WriteRecord
<1>7. ASSUME NEW p \in Procs, WriteNewline(p)
      PROVE  /\ Len(log') >= Len(log)
             /\ \A i \in 1 .. Len(log) : log'[i] = log[i]
             /\ lost' = lost /\ torn' = torn
  BY <1>1, <1>7, AppendProperties DEF WriteNewline
<1>8. QED
  BY <1>1, <1>2, <1>3, <1>4, <1>5, <1>6, <1>7 DEF Next, AppendStep

LEMMA LoggedStays ==
  ASSUME TypeInv, [Next]_vars, NEW e, Logged(e)
  PROVE  Logged(e)'
<1>1. PICK i \in 1 .. Len(log) : log[i] = e
  BY DEF Logged
<1>2. /\ Len(log) \in Nat /\ Len(log') \in Nat
      /\ Len(log') >= Len(log) /\ log'[i] = e
  BY <1>1, LogGrows, NextType, LenProperties DEF TypeInv, TypeOK
<1>3. i \in 1 .. Len(log')
  BY <1>2
<1>4. QED
  BY <1>2, <1>3 DEF Logged

\* Durable is stable: a record on its way to the file gets there or is lost.
LEMMA DurableStays ==
  ASSUME TypeInv, [Next]_vars, NEW q \in Procs, NEW e, Durable(q, e)
  PROVE  Durable(q, e)'
<1>1. CASE Logged(e)
  BY <1>1, LoggedStays DEF Durable
<1>2. CASE e \in lost
  BY <1>2, LogGrows DEF Durable
<1>3. CASE InFlight(q, e)
  <2> SUFFICES ASSUME ~ UNCHANGED vars
               PROVE  Durable(q, e)'
    BY <1>3 DEF vars, Durable, InFlight
  <2>1. PICK p \in Procs : Method(p) \/ AppendStep(p) \/ Crash(p) \/ Start(p)
    BY DEF Next
  <2>2. call \in [Procs -> Calls] /\ log \in Seq(LogEntry \cup {EOL})
    BY DEF TypeInv, TypeOK
  <2>3. ASSUME p # q, call'[q] = call[q]
        PROVE  Durable(q, e)'
    BY <1>3, <2>3 DEF Durable, InFlight
  <2>4. CASE Method(p)
    <3>1. p # q
      BY <1>3, <2>4, MethodFrame DEF InFlight, Idle
    <3>2. call'[q] = call[q]
      BY <2>2, <2>4, <3>1, MethodFrame
    <3>3. QED
      BY <2>3, <3>1, <3>2
  <2>5. CASE p # q /\ ~ Method(p)
    <3>1. call'[q] = call[q]
      BY <2>1, <2>2, <2>5 DEF AppendStep, AcquireFlock, WriteRecord, WriteNewline,
         Finish, IoError, Crash, Start
    <3>2. QED
      BY <2>3, <2>5, <3>1
  <2>6. CASE p = q /\ AcquireFlock(q)
    BY <1>3, <2>2, <2>6 DEF AcquireFlock, Durable, InFlight
  <2>7. CASE p = q /\ WriteRecord(q)
    <3>1. /\ log' = Append(log, e)
          /\ e \in LogEntry
      BY <1>3, <2>7, CallMoves DEF WriteRecord, InFlight, InAppend
    <3>2. Len(log') \in 1 .. Len(log') /\ log'[Len(log')] = e
      BY <2>2, <3>1, AppendProperties, LenProperties
    <3>3. QED
      BY <3>2 DEF Durable, Logged
  <2>8. CASE p = q /\ (IoError(q) \/ Crash(q))
    BY <1>3, <2>8 DEF IoError, Crash, Abandon, Durable, InFlight
  <2>9. ~ (WriteNewline(q) \/ Finish(q) \/ Start(q))
    BY <1>3 DEF WriteNewline, Finish, Start, Down, InFlight
  <2>10. QED
    BY <2>1, <2>4, <2>5, <2>6, <2>7, <2>8, <2>9 DEF AppendStep
<1>4. QED
  BY <1>1, <1>2, <1>3 DEF Durable

-----------------------------------------------------------------------------
(***************************************************************************)
(* Memory never runs ahead of the file.                                    *)
(***************************************************************************)

\* MemoryIsLogged, for one address of one process.
StateLogged(p, a) ==
  LET st == by_addr[p][a] IN
  /\ \A n \in Nonces, h \in Hashes :
        st.pending[n] = h => Durable(p, Submitted(n, h))
  /\ \A n \in Nonces : n \in st.dead =>
        \/ Durable(p, Stale(n))
        \/ \E m \in Nonces, h \in Hashes : Durable(p, Replaced(n, m, h))
  /\ \A i \in 1 .. Len(st.history) :
        Durable(p, Mined(st.history[i].nonce, st.history[i].tx_hash))

LEMMA MemorySplits ==
  MemoryIsLogged <=> \A p \in Procs, a \in Addrs : StateLogged(p, a)
BY DEF MemoryIsLogged, PendingIsLogged, DeadIsLogged, HistoryIsLogged, StateLogged

\* An address whose memory a step does not change, or empties, stays logged.
LEMMA UntouchedMemory ==
  ASSUME TypeInv, [Next]_vars, NEW q \in Procs, NEW b \in Addrs,
         StateLogged(q, b),
         by_addr'[q][b] = by_addr[q][b] \/ by_addr'[q][b] = EmptyState
  PROVE  StateLogged(q, b)'
<1>1. CASE by_addr'[q][b] = by_addr[q][b]
  <2>1. \A e : Durable(q, e) => Durable(q, e)'
    BY DurableStays
  <2>2. QED
    BY <1>1, <2>1 DEF StateLogged
<1>2. CASE by_addr'[q][b] = EmptyState
  <2>1. \A n \in Nonces : EmptyState.pending[n] = NoHash
    BY DEF EmptyState
  <2>2. EmptyState.dead = {} /\ Len(EmptyState.history) = 0
    BY DEF EmptyState
  <2>3. QED
    BY <1>2, <2>1, <2>2, NonceAssumption DEF StateLogged
<1>3. QED
  BY <1>1, <1>2

LEMMA InitMemory == Init => MemoryIsLogged
<1> SUFFICES ASSUME Init, NEW p \in Procs, NEW a \in Addrs
             PROVE  StateLogged(p, a)
  BY MemorySplits
<1>1. by_addr[p][a] = EmptyState
  BY DEF Init
<1>2. /\ \A n \in Nonces : EmptyState.pending[n] = NoHash
      /\ EmptyState.dead = {}
      /\ Len(EmptyState.history) = 0
  BY DEF EmptyState
<1>3. QED
  BY <1>1, <1>2, NonceAssumption DEF StateLogged

\* The state a method stores is logged: what is new in it is the record whose
\* append the method starts.
LEMMA MethodMemory ==
  ASSUME TypeInv, MemoryIsLogged, NEW p \in Procs, Method(p)
  PROVE  MemoryIsLogged'
<1>1. [Next]_vars
  BY DEF Next
<1>2. \A e : Durable(p, e) => Durable(p, e)'
  BY <1>1, DurableStays
<1>3. SUFFICES ASSUME NEW q \in Procs, NEW b \in Addrs
               PROVE  StateLogged(q, b)'
  <2>1. \A q \in Procs, b \in Addrs : StateLogged(q, b)'
    BY <1>3
  <2>2. QED
    BY <2>1 DEF MemoryIsLogged, PendingIsLogged, DeadIsLogged, HistoryIsLogged,
       StateLogged
<1>4. \A r \in Procs, c \in Addrs : StateLogged(r, c)
  BY MemorySplits
<1>5. by_addr \in [Procs -> [Addrs -> AddressState]]
  BY DEF TypeInv, TypeOK
<1>6. CASE by_addr'[q][b] = by_addr[q][b] \/ by_addr'[q][b] = EmptyState
  BY <1>1, <1>4, <1>6, UntouchedMemory
<1>7. ASSUME NEW a \in Addrs, NEW st, Mutate(p, a, st), ~ (q = p /\ b = a)
      PROVE  by_addr'[q][b] = by_addr[q][b]
  BY <1>5, <1>7 DEF Mutate
<1>8. ASSUME NEW st, Mutate(p, b, st), q = p
      PROVE  by_addr'[q][b] = st
  BY <1>5, <1>8 DEF Mutate
<1>9. ASSUME NEW e, StartAppend(p, e)
      PROVE  Durable(p, e)'
  <2>1. call \in [Procs -> Calls]
    BY DEF TypeInv, TypeOK
  <2>2. call'[p] = [at |-> "opening", entry |-> e]
    BY <1>9, <2>1 DEF StartAppend
  <2>3. QED
    BY <2>2 DEF Durable, InFlight
<1> DEFINE st == by_addr[p][b]
<1>10. /\ st \in AddressState
       /\ StateLogged(p, b)
  BY <1>4, <1>5
<1>11. CASE Rebuild(p)
  BY <1>5, <1>6, <1>11 DEF Rebuild
<1>12. ASSUME NEW a \in Addrs, NEW c \in 1 .. MaxNonce + 1, RebuildFromRpc(p, a, c)
       PROVE  StateLogged(q, b)'
  <2>1. CASE q = p /\ b = a
    <3>1. by_addr'[p][b] = [st EXCEPT !.next_nonce = c]
      BY <1>8, <1>12, <2>1 DEF RebuildFromRpc
    <3>2. QED
      BY <1>2, <1>10, <2>1, <3>1 DEF StateLogged, AddressState
  <2>2. CASE ~ (q = p /\ b = a)
    BY <1>6, <1>7, <1>12, <2>2 DEF RebuildFromRpc
  <2>3. QED
    BY <2>1, <2>2
<1>13. ASSUME NEW a \in Addrs, NEW n \in Nonces, NEW h \in Hashes, Submit(p, a, n, h)
       PROVE  StateLogged(q, b)'
  <2>1. CASE q = p /\ b = a
    <3>1. by_addr'[p][b] = [st EXCEPT !.pending = [@ EXCEPT ![n] = h],
                                      !.next_nonce = n + 1]
      BY <1>8, <1>13, <2>1 DEF Submit
    <3>2. Durable(p, Submitted(n, h))'
      BY <1>9, <1>13 DEF Submit
    <3>3. QED
      BY <1>2, <1>10, <2>1, <3>1, <3>2 DEF StateLogged, AddressState
  <2>2. CASE ~ (q = p /\ b = a)
    BY <1>6, <1>7, <1>13, <2>2 DEF Submit
  <2>3. QED
    BY <2>1, <2>2
<1>14. ASSUME NEW a \in Addrs, NEW n \in Nonces, Fail(p, a, n)
       PROVE  StateLogged(q, b)'
  <2>1. CASE q = p /\ b = a
    <3>1. by_addr'[p][b] = [st EXCEPT !.pending = [@ EXCEPT ![n] = NoHash],
                                      !.dead = @ \cup {n}]
      BY <1>8, <1>14, <2>1 DEF Fail
    <3>2. Durable(p, Stale(n))'
      BY <1>9, <1>14 DEF Fail
    <3>3. QED
      BY <1>2, <1>10, <2>1, <3>1, <3>2, NonceAssumption DEF StateLogged, AddressState
  <2>2. CASE ~ (q = p /\ b = a)
    BY <1>6, <1>7, <1>14, <2>2 DEF Fail
  <2>3. QED
    BY <2>1, <2>2
<1>15. ASSUME NEW a \in Addrs, NEW n \in Nonces, NEW m \in Nonces, NEW h \in Hashes,
              Replace(p, a, n, m, h)
       PROVE  StateLogged(q, b)'
  <2>1. CASE q = p /\ b = a
    <3>1. by_addr'[p][b] = [st EXCEPT !.pending = [@ EXCEPT ![n] = NoHash],
                                      !.dead = @ \cup {n},
                                      !.next_nonce = m + 1]
      BY <1>8, <1>15, <2>1 DEF Replace
    <3>2. Durable(p, Replaced(n, m, h))'
      BY <1>9, <1>15 DEF Replace
    <3>3. QED
      BY <1>2, <1>10, <2>1, <3>1, <3>2, NonceAssumption DEF StateLogged, AddressState
  <2>2. CASE ~ (q = p /\ b = a)
    BY <1>6, <1>7, <1>15, <2>2 DEF Replace
  <2>3. QED
    BY <2>1, <2>2
<1>16. ASSUME NEW a \in Addrs, NEW n \in Nonces, Confirm(p, a, n)
       PROVE  StateLogged(q, b)'
  <2>1. CASE q = p /\ b = a
    <3>1. PICK s \in AddressState : s = by_addr[p][b]
      BY <1>10
    <3>2. PICK h \in Hashes : h = s.pending[n]
      BY <1>16, <2>1, <3>1 DEF Confirm, AddressState
    <3>3. PICK m \in MinedEntry : m = [nonce |-> n, tx_hash |-> h]
      BY DEF MinedEntry
    <3>4. by_addr'[p][b] = [s EXCEPT !.pending = [@ EXCEPT ![n] = NoHash],
                                     !.dead = @ \ {n},
                                     !.history = Archive(@, m)]
      BY <1>8, <1>16, <2>1, <3>1, <3>2, <3>3 DEF Confirm
    <3>5. Durable(p, Mined(n, h))'
      BY <1>9, <1>16, <2>1, <3>1, <3>2 DEF Confirm
    <3>6. \A i \in 1 .. Len(Archive(s.history, m)) :
            \/ Archive(s.history, m)[i] = m
            \/ \E j \in 1 .. Len(s.history) : Archive(s.history, m)[i] = s.history[j]
      BY ArchiveProperties DEF AddressState
    <3>7. \A j \in 1 .. Len(s.history) :
            Durable(p, Mined(s.history[j].nonce, s.history[j].tx_hash))'
      BY <1>2, <1>10, <3>1 DEF StateLogged
    <3>8. \A i \in 1 .. Len(by_addr'[p][b].history) :
            Durable(p, Mined(by_addr[p][b].history[i].nonce,
                             by_addr[p][b].history[i].tx_hash))'
      <4>1. by_addr'[p][b].history = Archive(s.history, m)
        BY <3>4 DEF AddressState
      <4> SUFFICES ASSUME NEW i \in 1 .. Len(Archive(s.history, m))
                   PROVE  Durable(p, Mined(Archive(s.history, m)[i].nonce,
                                           Archive(s.history, m)[i].tx_hash))'
        BY <4>1
      <4>2. CASE Archive(s.history, m)[i] = m
        BY <3>3, <3>5, <4>2
      <4>3. CASE \E j \in 1 .. Len(s.history) :
                    Archive(s.history, m)[i] = s.history[j]
        BY <3>7, <4>3
      <4>4. QED
        BY <3>6, <4>2, <4>3
    <3>9. \A k \in Nonces, g \in Hashes :
            by_addr'[p][b].pending[k] = g => Durable(p, Submitted(k, g))'
      BY <1>2, <1>10, <3>1, <3>4, NonceAssumption DEF StateLogged, AddressState
    <3>10. \A k \in Nonces : k \in by_addr'[p][b].dead =>
            \/ Durable(p, Stale(k))'
            \/ \E l \in Nonces, g \in Hashes : Durable(p, Replaced(k, l, g))'
      BY <1>2, <1>10, <3>1, <3>4 DEF StateLogged, AddressState
    <3>11. QED
      BY <2>1, <3>8, <3>9, <3>10 DEF StateLogged
  <2>2. CASE ~ (q = p /\ b = a)
    BY <1>6, <1>7, <1>16, <2>2 DEF Confirm
  <2>3. QED
    BY <2>1, <2>2
<1>17. QED
  BY <1>11, <1>12, <1>13, <1>14, <1>15, <1>16 DEF Method

LEMMA NextMemory == TypeInv /\ MemoryIsLogged /\ [Next]_vars => MemoryIsLogged'
<1> SUFFICES ASSUME TypeInv, MemoryIsLogged, [Next]_vars
             PROVE  MemoryIsLogged'
  OBVIOUS
<1>1. CASE \E p \in Procs : Method(p)
  BY <1>1, MethodMemory
<1>2. CASE ~ \E p \in Procs : Method(p)
  <2>1. \A q \in Procs, b \in Addrs :
           by_addr'[q][b] = by_addr[q][b] \/ by_addr'[q][b] = EmptyState
    <3>1. by_addr \in [Procs -> [Addrs -> AddressState]]
      BY DEF TypeInv, TypeOK
    <3>2. CASE UNCHANGED by_addr
      BY <3>2
    <3>3. ASSUME NEW p \in Procs, Crash(p)
          PROVE  \A q \in Procs, b \in Addrs :
                   by_addr'[q][b] = by_addr[q][b] \/ by_addr'[q][b] = EmptyState
      BY <3>1, <3>3 DEF Crash
    <3>4. QED
      BY <1>2, <3>2, <3>3 DEF Next, vars, AppendStep, AcquireFlock, WriteRecord,
         WriteNewline, Finish, IoError, Start
  <2>2. \A q \in Procs, b \in Addrs : StateLogged(q, b)'
    BY <2>1, MemorySplits, UntouchedMemory
  <2>3. QED
    BY <2>2 DEF MemoryIsLogged, PendingIsLogged, DeadIsLogged, HistoryIsLogged,
       StateLogged
<1>3. QED
  BY <1>1, <1>2

\* Every pending, dead or mined nonce in a process's memory has its record in
\* the file, on its way there, or lost in a failed append.
THEOREM MemoryLogged == Spec => []MemoryIsLogged
<1>1. Init => TypeInv /\ MemoryIsLogged
  BY InitType, InitMemory
<1>2. (TypeInv /\ MemoryIsLogged) /\ [Next]_vars => (TypeInv /\ MemoryIsLogged)'
  BY NextType, NextMemory
<1>3. QED
  BY <1>1, <1>2, PTL DEF Spec

-----------------------------------------------------------------------------
(***************************************************************************)
(* The order of the records.  MinedAfterSubmitted is not inductive: when a *)
(* Mined record reaches the file, the Submitted record must be there       *)
(* already, so the invariant also speaks of the record on its way.         *)
(***************************************************************************)

Known(e) == Logged(e) \/ e \in lost

MinedInFlight ==
  \A p \in Procs, n \in Nonces, h \in Hashes :
     InFlight(p, Mined(n, h)) => Known(Submitted(n, h))

OrderInv == MemoryIsLogged /\ MinedInFlight /\ MinedAfterSubmitted

LEMMA KnownStays ==
  ASSUME TypeInv, [Next]_vars, NEW e, Known(e)
  PROVE  Known(e)'
BY LoggedStays, LogGrows DEF Known

LEMMA NextMinedInFlight ==
  TypeInv /\ OrderInv /\ [Next]_vars => MinedInFlight'
<1> SUFFICES ASSUME TypeInv, OrderInv, [Next]_vars,
                    NEW q \in Procs, NEW n \in Nonces, NEW h \in Hashes,
                    InFlight(q, Mined(n, h))'
             PROVE  Known(Submitted(n, h))'
  BY DEF MinedInFlight
<1>1. CASE InFlight(q, Mined(n, h))
  BY <1>1, KnownStays DEF OrderInv, MinedInFlight
<1>2. CASE ~ InFlight(q, Mined(n, h))
  <2>1. call \in [Procs -> Calls]
    BY DEF TypeInv, TypeOK
  <2>2. call'[q] # call[q]
    BY <1>2 DEF InFlight
  <2>3. PICK p \in Procs : Method(p) \/ AppendStep(p) \/ Crash(p) \/ Start(p)
    BY <2>2 DEF Next, vars
  <2>4. p = q
    <3>1. Method(p) => p = q
      BY <2>1, <2>2, MethodFrame
    <3>2. AppendStep(p) \/ Crash(p) \/ Start(p) => p = q
      BY <2>1, <2>2 DEF AppendStep, AcquireFlock, WriteRecord, WriteNewline, Finish,
         IoError, Crash, Start
    <3>3. QED
      BY <2>3, <3>1, <3>2
  <2>5. ~ (AppendStep(q) \/ Crash(q) \/ Start(q))
    <3>1. ASSUME AcquireFlock(q)
          PROVE  FALSE
      <4>1. call[q].at = "opening" /\ call[q].at \in InAppend
        BY <3>1 DEF AcquireFlock, InAppend
      <4>2. call[q] \in [at : InAppend, entry : LogEntry]
        BY <2>1, <4>1 DEF Calls, Idle, Down
      <4>3. call'[q].entry = call[q].entry
        BY <2>1, <3>1, <4>2 DEF AcquireFlock
      <4>4. QED
        BY <1>2, <4>1, <4>3 DEF InFlight
    <3>2. ASSUME WriteRecord(q) \/ WriteNewline(q)
          PROVE  call'[q].at \in {"written", "terminated"}
      <4>1. call[q].at \in InAppend
        BY <3>2 DEF WriteRecord, WriteNewline, InAppend
      <4>2. call[q] \in [at : InAppend, entry : LogEntry]
        BY <2>1, <4>1 DEF Calls, Idle, Down, InAppend
      <4>3. QED
        BY <2>1, <3>2, <4>2 DEF WriteRecord, WriteNewline
    <3>3. ASSUME Finish(q) \/ IoError(q) \/ Crash(q) \/ Start(q)
          PROVE  call'[q] \in {Idle, Down}
      BY <2>1, <3>3 DEF Finish, IoError, Crash, Start
    <3>4. QED
      BY <3>1, <3>2, <3>3 DEF AppendStep, InFlight, Idle, Down
  <2>6. Method(q)
    BY <2>3, <2>4, <2>5
  <2>7. PICK a \in Addrs, k \in Nonces : Confirm(q, a, k) /\ call'[q].entry = Mined(n, h)
    <3>1. ASSUME NEW e, StartAppend(q, e)
          PROVE  call'[q].entry = e
      BY <2>1, <3>1 DEF StartAppend
    <3>2. call'[q].entry = Mined(n, h)
      BY DEF InFlight
    <3>3. \A k, m \in Nonces, g \in Hashes :
             /\ Submitted(k, g) # Mined(n, h)
             /\ Stale(k) # Mined(n, h)
             /\ Replaced(k, m, g) # Mined(n, h)
      BY DEF Submitted, Stale, Replaced, Mined
    <3>4. ~ \E a \in Addrs, k \in Nonces, g \in Hashes :
             \/ Submit(q, a, k, g)
             \/ Fail(q, a, k)
             \/ \E m \in Nonces : Replace(q, a, k, m, g)
      BY <3>1, <3>2, <3>3 DEF Submit, Fail, Replace
    <3>5. ~ \E a \in Addrs, k \in Nonces : Fail(q, a, k)
      BY <3>1, <3>2, <3>3 DEF Fail
    <3>6. ~ (Rebuild(q) \/ \E a \in Addrs, c \in 1 .. MaxNonce + 1 : RebuildFromRpc(q, a, c))
      BY <2>2 DEF Rebuild, RebuildFromRpc
    <3>7. QED
      BY <2>6, <3>2, <3>4, <3>5, <3>6 DEF Method
  <2>8. by_addr[q][a].pending[n] = h
    <3>1. Mined(k, by_addr[q][a].pending[k]) = Mined(n, h)
      BY <2>1, <2>7 DEF Confirm, StartAppend
    <3>2. QED
      BY <3>1 DEF Mined
  <2>9. call[q] = Idle
    BY <2>7 DEF Confirm, StartAppend
  <2>10. Durable(q, Submitted(n, h))
    BY <2>8 DEF OrderInv, MemoryIsLogged, PendingIsLogged
  <2>11. Known(Submitted(n, h))
    BY <2>9, <2>10 DEF Durable, InFlight, Known, Idle
  <2>12. QED
    BY <2>11, KnownStays
<1>3. QED
  BY <1>1, <1>2

LEMMA NextMinedAfterSubmitted ==
  TypeInv /\ OrderInv /\ [Next]_vars => MinedAfterSubmitted'
<1> SUFFICES ASSUME TypeInv, OrderInv, [Next]_vars,
                    NEW i \in 1 .. Len(log'), NEW n \in Nonces, NEW h \in Hashes,
                    log'[i] = Mined(n, h)
             PROVE  \/ \E j \in 1 .. i - 1 : log'[j] = Submitted(n, h)
                    \/ Submitted(n, h) \in lost'
  BY DEF MinedAfterSubmitted
<1>1. /\ log \in Seq(LogEntry \cup {EOL}) /\ Len(log) \in Nat
      /\ \A j \in 1 .. Len(log) : log'[j] = log[j]
      /\ lost \subseteq lost'
  BY LogGrows DEF TypeInv, TypeOK
<1>2. CASE i \in 1 .. Len(log)
  BY <1>1, <1>2 DEF OrderInv, MinedAfterSubmitted
<1>3. CASE i \notin 1 .. Len(log)
  <2>1. log' # log
    BY <1>3
  <2>2. PICK p \in Procs : WriteRecord(p) \/ WriteNewline(p)
    <3>1. \A p \in Procs : ~ Method(p)
      BY <2>1, MethodFrame
    <3>2. QED
      BY <2>1, <3>1 DEF Next, vars, AppendStep, AcquireFlock, Finish, IoError, Crash,
         Start, Abandon
  <2>3. CASE WriteNewline(p)
    <3>1. log'[i] = EOL
      BY <1>1, <1>3, <2>3, AppendProperties DEF WriteNewline
    <3>2. QED
      BY <3>1, EntryTypes, NonceAssumption
  <2>4. CASE WriteRecord(p)
    <3>1. call[p].entry \in LogEntry
      BY <2>4, CallMoves DEF WriteRecord, InAppend
    <3>2. i = Len(log) + 1 /\ call[p].entry = Mined(n, h)
      BY <1>1, <1>3, <2>4, <3>1, AppendProperties DEF WriteRecord
    <3>3. Known(Submitted(n, h))
      BY <2>4, <3>2 DEF WriteRecord, OrderInv, MinedInFlight, InFlight
    <3>4. QED
      BY <1>1, <3>2, <3>3 DEF Known, Logged
  <2>5. QED
    BY <2>2, <2>3, <2>4
<1>4. QED
  BY <1>2, <1>3

\* In the file, a Mined record follows the Submitted record of its nonce and
\* hash, unless that record's append failed.
THEOREM LogOrder == Spec => []MinedAfterSubmitted
<1>1. Init => TypeInv /\ OrderInv
  <2>1. Init => MinedInFlight /\ MinedAfterSubmitted
    BY DEF Init, MinedInFlight, MinedAfterSubmitted, InFlight, Idle
  <2>2. QED
    BY <2>1, InitType, InitMemory DEF OrderInv
<1>2. (TypeInv /\ OrderInv) /\ [Next]_vars => (TypeInv /\ OrderInv)'
  BY NextType, NextMemory, NextMinedInFlight, NextMinedAfterSubmitted DEF OrderInv
<1>3. OrderInv => MinedAfterSubmitted
  BY DEF OrderInv
<1>4. QED
  BY <1>1, <1>2, <1>3, PTL DEF Spec

-----------------------------------------------------------------------------
(***************************************************************************)
(* The flock and the lines of the file.  Lines stay whole because only the *)
(* holder of the flock writes, and no path keeps the flock.                *)
(***************************************************************************)

LinesInv == NoLeakedLock /\ WholeLines

\* The effect of each step on the flock and on who is between flock() and
\* the drop of the file.
LEMMA NextLock == TypeInv /\ NoLeakedLock /\ [Next]_vars => NoLeakedLock'
<1> SUFFICES ASSUME TypeInv, NoLeakedLock, [Next]_vars
             PROVE  NoLeakedLock'
  OBVIOUS
<1>1. call \in [Procs -> Calls] /\ NoProc \notin Procs
  BY NonceAssumption DEF TypeInv, TypeOK
<1>2. \A p \in Procs : call[p].at \in InAppend => call[p] \in [at : InAppend, entry : LogEntry]
  BY <1>1 DEF Calls, Idle, Down, InAppend
<1>3. Idle.at \notin Holding /\ Down.at \notin Holding
  BY DEF Idle, Down, Holding
<1>4. CASE UNCHANGED vars
  BY <1>4 DEF vars, NoLeakedLock
<1>5. ASSUME NEW p \in Procs, Method(p)
      PROVE  NoLeakedLock'
  <2>1. flock' = flock /\ call[p] = Idle
    BY <1>5, MethodFrame
  <2>2. /\ call'[p].at \notin Holding
        /\ \A q \in Procs : q # p => call'[q] = call[q]
    BY <1>1, <1>3, <1>5, MethodFrame DEF Holding
  <2>3. QED
    BY <1>3, <2>1, <2>2 DEF NoLeakedLock
<1>6. ASSUME NEW p \in Procs, AcquireFlock(p)
      PROVE  NoLeakedLock'
  <2>1. call'[p].at = "locked" /\ \A q \in Procs : q # p => call'[q] = call[q]
    BY <1>1, <1>2, <1>6 DEF AcquireFlock, InAppend
  <2>2. QED
    BY <1>1, <1>6, <2>1 DEF AcquireFlock, NoLeakedLock, Holding
<1>7. ASSUME NEW p \in Procs, WriteRecord(p) \/ WriteNewline(p)
      PROVE  NoLeakedLock'
  <2>1. call[p].at \in {"locked", "written"}
    BY <1>7 DEF WriteRecord, WriteNewline
  <2>2. /\ call'[p].at \in {"written", "terminated"}
        /\ \A q \in Procs : q # p => call'[q] = call[q]
    BY <1>1, <1>2, <1>7, <2>1 DEF WriteRecord, WriteNewline, InAppend
  <2>3. QED
    BY <1>7, <2>1, <2>2 DEF WriteRecord, WriteNewline, NoLeakedLock, Holding
<1>8. ASSUME NEW p \in Procs, Finish(p) \/ IoError(p) \/ Crash(p)
      PROVE  NoLeakedLock'
  <2>1. /\ call'[p] \in {Idle, Down}
        /\ \A q \in Procs : q # p => call'[q] = call[q]
    BY <1>1, <1>8 DEF Finish, IoError, Crash
  <2>2. flock' = IF flock = p THEN NoProc ELSE flock
    BY <1>8 DEF Finish, IoError, Crash, Abandon, Release
  <2>3. QED
    BY <1>1, <1>3, <2>1, <2>2 DEF NoLeakedLock
<1>9. ASSUME NEW p \in Procs, Start(p)
      PROVE  NoLeakedLock'
  BY <1>1, <1>3, <1>9 DEF Start, NoLeakedLock
<1>10. QED
  BY <1>4, <1>5, <1>6, <1>7, <1>8, <1>9 DEF Next, AppendStep

LEMMA NextLines == TypeInv /\ LinesInv /\ [Next]_vars => WholeLines'
<1> SUFFICES ASSUME TypeInv, LinesInv, [Next]_vars
             PROVE  WholeLines'
  OBVIOUS
<1>1. /\ call \in [Procs -> Calls]
      /\ log \in Seq(LogEntry \cup {EOL})
      /\ Len(log) \in Nat
      /\ EOL \notin LogEntry
  BY NonceAssumption, LenProperties DEF TypeInv, TypeOK
<1>2. \A p \in Procs : call[p].at \in InAppend => call[p] \in [at : InAppend, entry : LogEntry]
  BY <1>1 DEF Calls, Idle, Down, InAppend
\* A step that leaves the file alone keeps lines whole if the writer stays,
\* or is marked torn.
<1>3. ASSUME log' = log, torn \subseteq torn',
             \A q \in Procs : flock = q /\ call[q].at = "written" =>
                \/ flock' = q /\ call'[q].at = "written"
                \/ Len(log) \in torn'
      PROVE  WholeLines'
  BY <1>3 DEF LinesInv, WholeLines
<1>4. CASE UNCHANGED vars
  BY <1>4 DEF vars, LinesInv, WholeLines
<1>5. ASSUME NEW p \in Procs, Method(p) \/ Start(p)
      PROVE  WholeLines'
  <2>1. /\ UNCHANGED <<log, flock, torn>>
        /\ call[p].at \in {"idle", "down"}
        /\ \A q \in Procs : q # p => call'[q] = call[q]
    BY <1>1, <1>5, MethodFrame DEF Start, Idle, Down
  <2>2. QED
    BY <1>3, <2>1
<1>6. ASSUME NEW p \in Procs, AcquireFlock(p)
      PROVE  WholeLines'
  <2>1. NoProc \notin Procs
    BY NonceAssumption
  <2>2. QED
    BY <1>3, <1>6, <2>1 DEF AcquireFlock
<1>7. ASSUME NEW p \in Procs, WriteRecord(p)
      PROVE  WholeLines'
  <2>1. flock = p /\ call[p].at = "locked" /\ flock' = p
    BY <1>7 DEF WriteRecord, LinesInv, NoLeakedLock, Holding
  <2>2. call'[p].at = "written" /\ call[p].entry \in LogEntry
    BY <1>1, <1>2, <1>7 DEF WriteRecord, InAppend
  <2>3. /\ Len(log') = Len(log) + 1
        /\ \A i \in 1 .. Len(log) : log'[i] = log[i]
    BY <1>1, <1>7, <2>2, AppendProperties DEF WriteRecord
  <2>4. torn' = torn
    BY <1>7 DEF WriteRecord
  <2>5. ASSUME NEW i \in 1 .. Len(log'), log'[i] \in LogEntry, i \notin torn'
        PROVE  \/ i < Len(log') /\ log'[i + 1] = EOL
               \/ i = Len(log') /\ \E q \in Procs : flock' = q /\ call'[q].at = "written"
    <3>1. CASE i = Len(log')
      BY <2>1, <2>2, <3>1
    <3>2. CASE i \in 1 .. Len(log)
      <4>1. i < Len(log) /\ log[i + 1] = EOL
        BY <2>1, <2>3, <2>4, <2>5, <3>2 DEF LinesInv, WholeLines
      <4>2. i + 1 \in 1 .. Len(log) /\ i < Len(log')
        BY <1>1, <2>3, <3>2, <4>1
      <4>3. QED
        BY <2>3, <4>1, <4>2
    <3>3. QED
      BY <1>1, <2>3, <3>1, <3>2
  <2>6. QED
    BY <2>5 DEF WholeLines
<1>8. ASSUME NEW p \in Procs, WriteNewline(p)
      PROVE  WholeLines'
  <2>1. /\ Len(log') = Len(log) + 1
        /\ \A i \in 1 .. Len(log) : log'[i] = log[i]
        /\ log'[Len(log) + 1] = EOL
    BY <1>1, <1>8, AppendProperties DEF WriteNewline
  <2>2. torn' = torn
    BY <1>8 DEF WriteNewline
  <2>3. ASSUME NEW i \in 1 .. Len(log'), log'[i] \in LogEntry, i \notin torn'
        PROVE  i < Len(log') /\ log'[i + 1] = EOL
    <3>1. i \in 1 .. Len(log)
      BY <1>1, <2>1, <2>3
    <3>2. i < Len(log) => i + 1 \in 1 .. Len(log)
      BY <1>1, <3>1
    <3>3. i = Len(log) \/ (i < Len(log) /\ log[i + 1] = EOL)
      BY <2>1, <2>2, <2>3, <3>1 DEF LinesInv, WholeLines
    <3>4. QED
      BY <1>1, <2>1, <3>1, <3>2, <3>3
  <2>4. QED
    BY <2>3 DEF WholeLines
<1>9. ASSUME NEW p \in Procs, Finish(p)
      PROVE  WholeLines'
  <2>1. /\ log' = log /\ torn' = torn
        /\ call[p].at = "terminated"
        /\ \A q \in Procs : q # p => call'[q] = call[q]
        /\ flock' = IF flock = p THEN NoProc ELSE flock
    BY <1>1, <1>9 DEF Finish, Release
  <2>2. QED
    BY <1>3, <2>1
<1>10. ASSUME NEW p \in Procs, IoError(p) \/ Crash(p)
       PROVE  WholeLines'
  <2>1. /\ log' = log /\ torn \subseteq torn'
        /\ call[p].at = "written" => Len(log) \in torn'
        /\ \A q \in Procs : q # p => call'[q] = call[q]
        /\ flock' = IF flock = p THEN NoProc ELSE flock
    BY <1>1, <1>10 DEF IoError, Crash, Abandon, Release
  <2>2. QED
    BY <1>3, <2>1
<1>11. QED
  BY <1>4, <1>5, <1>6, <1>7, <1>8, <1>9, <1>10 DEF Next, AppendStep

LEMMA LinesInductive ==
  /\ Init => TypeInv /\ LinesInv
  /\ (TypeInv /\ LinesInv) /\ [Next]_vars => (TypeInv /\ LinesInv)'
<1>1. Init => LinesInv
  BY NonceAssumption DEF Init, LinesInv, NoLeakedLock, WholeLines, Idle, Holding
<1>2. QED
  BY <1>1, InitType, NextType, NextLock, NextLines DEF LinesInv

\* The flock is held by the process between flock() and the drop of the file,
\* by at most one process, and by nobody else.
THEOREM LockNotLeaked == Spec => []NoLeakedLock
<1>1. LinesInv => NoLeakedLock
  BY DEF LinesInv
<1>2. QED
  BY <1>1, LinesInductive, PTL DEF Spec

\* A record is followed by its newline, is being written by the holder of the
\* flock, or is where its writer failed.
THEOREM LinesWhole == Spec => []WholeLines
<1>1. LinesInv => WholeLines
  BY DEF LinesInv
<1>2. QED
  BY <1>1, LinesInductive, PTL DEF Spec

=============================================================================
