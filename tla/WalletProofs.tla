---------------------------- MODULE WalletProofs ----------------------------
(***************************************************************************)
(* Theorems of Wallet: the processes with their commands and their pools   *)
(* implement WalletSend and NonceManager, and what the log file says of    *)
(* the chain, for any number of processes, nonces, fees and any bounds.    *)
(*                                                                         *)
(* The argument: only the shape of the memory is needed to see that every  *)
(* step is a step of WalletSend or leaves it alone.  So the invariant of   *)
(* WalletSendProofs holds of the whole, and with it every step is a step   *)
(* of NonceManager or leaves that alone, whose invariants follow in turn.  *)
(* LogTellsTruth and NothingForgotten are inductive relative to both.      *)
(***************************************************************************)
EXTENDS Wallet, SequenceTheorems, TLAPS

-----------------------------------------------------------------------------
(* The proved modules under the mapping of Wallet: SendT!F and PoolT!F are *)
(* the formulas Send!F and Pool!F, with their theorems.                    *)

SendT == INSTANCE WalletSendProofs
  WITH pending <- [s \in Sessions |-> by_addr[s][Self].pending]

PoolT == INSTANCE NonceManagerProofs
  WITH Procs <- Sessions, Addrs <- {Self}, Hashes <- Send!Tx,
       NoHash <- NoTx, NoProc <- NoSession

LEMMA SameSend == ImplementsSend => SendT!Spec
BY PTL
   DEF ImplementsSend,
           Send!Spec, SendT!Spec, Send!Init, SendT!Init, Send!Next,
           SendT!Next, Send!vars, SendT!vars, Send!node, SendT!node,
           Send!Step, SendT!Step, Send!Continue, SendT!Continue,
           Send!Environment, SendT!Environment, Send!Start, SendT!Start,
           Send!Submit, SendT!Submit, Send!Restart, SendT!Restart, Send!Go,
           SendT!Go, Send!Mine, SendT!Mine, Send!Drop, SendT!Drop,
           Send!MarketMoves, SendT!MarketMoves, Send!StartSend,
           SendT!StartSend, Send!StartRbf, SendT!StartRbf, Send!Begin,
           SendT!Begin, Send!Met, SendT!Met, Send!Lookup, SendT!Lookup,
           Send!LookupAgain, SendT!LookupAgain, Send!LookupFails,
           SendT!LookupFails, Send!Found, SendT!Found, Send!Inside,
           SendT!Inside, Send!EstimateFees, SendT!EstimateFees, Send!Bumped,
           SendT!Bumped, Send!ReadNonce, SendT!ReadNonce, Send!PendingNonce,
           SendT!PendingNonce, Send!Build, SendT!Build, Send!Signed,
           SendT!Signed, Send!Recipient, SendT!Recipient, Send!SayYes,
           SendT!SayYes, Send!SayNo, SendT!SayNo, Send!RpcError,
           SendT!RpcError, Send!Takes, SendT!Takes, Send!Accepts,
           SendT!Accepts, Send!IntrinsicGasOk, SendT!IntrinsicGasOk,
           Send!Broadcast, SendT!Broadcast, Send!BroadcastLost,
           SendT!BroadcastLost, Send!AnswerLost, SendT!AnswerLost, Send!Idle,
           SendT!Idle, Send!Nonces, SendT!Nonces, Send!Fees, SendT!Fees,
           Send!Rbf, SendT!Rbf

LEMMA SamePool == ImplementsPool => PoolT!Spec
BY PTL
   DEF ImplementsPool,
           Pool!Spec, PoolT!Spec, Pool!Init, PoolT!Init, Pool!Next,
           PoolT!Next, Pool!vars, PoolT!vars, Pool!Method, PoolT!Method,
           Pool!AppendStep, PoolT!AppendStep, Pool!Crash, PoolT!Crash,
           Pool!Start, PoolT!Start, Pool!Rebuild, PoolT!Rebuild,
           Pool!RebuildFromRpc, PoolT!RebuildFromRpc, Pool!Confirm,
           PoolT!Confirm, Pool!Fail, PoolT!Fail, Pool!Submit, PoolT!Submit,
           Pool!Replace, PoolT!Replace, Pool!Mutate, PoolT!Mutate,
           Pool!StartAppend, PoolT!StartAppend, Pool!Archive, PoolT!Archive,
           Pool!AcquireFlock, PoolT!AcquireFlock, Pool!WriteRecord,
           PoolT!WriteRecord, Pool!WriteNewline, PoolT!WriteNewline,
           Pool!Finish, PoolT!Finish, Pool!IoError, PoolT!IoError,
           Pool!Abandon, PoolT!Abandon, Pool!Release, PoolT!Release,
           Pool!EmptyState, PoolT!EmptyState, Pool!Idle, PoolT!Idle,
           Pool!Down, PoolT!Down, Pool!Nonces, PoolT!Nonces, Pool!Submitted,
           PoolT!Submitted, Pool!Mined, PoolT!Mined, Pool!Stale, PoolT!Stale,
           Pool!Replaced, PoolT!Replaced, Pool!Cardinality, PoolT!Cardinality

LEMMA Assumed == SendT!SendAssumption /\ PoolT!NonceAssumption
BY WalletAssumption
   DEF Send!SendAssumption, SendT!SendAssumption, Send!Tx, SendT!Tx,
       Send!Summaries, SendT!Summaries, Send!Nonces, SendT!Nonces, Send!Fees,
       SendT!Fees,
       Pool!NonceAssumption, PoolT!NonceAssumption, Pool!LogEntry,
       PoolT!LogEntry, Pool!Nonces, PoolT!Nonces

LEMMA SendInvariant == SendT!Spec => []SendT!IInv
BY Assumed, SendT!InitInv, SendT!NextInv, PTL DEF SendT!Spec

LEMMA PoolTyped == PoolT!Spec => []PoolT!TypeInv
BY Assumed, PoolT!TypeCorrect, PTL

-----------------------------------------------------------------------------
(* The commands: Wallet implements WalletSend.                             *)

\* The memory of a process is a record for the account.
State(n, p, d, h) ==
  [next_nonce |-> n, pending |-> p, dead |-> d, history |-> h]

Shape ==
  /\ by_addr = [s \in Sessions |-> by_addr[s]]
  /\ \A s \in Sessions :
       /\ by_addr[s] = [a \in {Self} |-> by_addr[s][a]]
       /\ \E n, p, d, h : by_addr[s][Self] = State(n, p, d, h)

LEMMA StatePending ==
  ASSUME NEW n, NEW p, NEW d, NEW h
  PROVE  State(n, p, d, h).pending = p
BY DEF State

\* What submit makes of a record.
Updated(st, q, m) == [st EXCEPT !.pending = q, !.next_nonce = m]

LEMMA StateUpdate ==
  ASSUME NEW n, NEW p, NEW d, NEW h, NEW m, NEW q
  PROVE  Updated(State(n, p, d, h), q, m) = State(m, q, d, h)
<1> DEFINE r == Updated(State(n, p, d, h), q, m)
<1>1. r \in [next_nonce : {m}, pending : {q}, dead : {d}, history : {h}]
  BY DEF State, Updated
<1> HIDE DEF r
<1>2. r = State(m, q, d, h)
  BY <1>1 DEF State
<1> QED
  BY <1>2 DEF r

LEMMA EmptyShape == Pool!EmptyState = State(0, [n \in Pool!Nonces |-> NoTx], {}, <<>>)
BY DEF Pool!EmptyState, State

LEMMA ShapeInit == Init => Shape
<1> SUFFICES ASSUME Init PROVE Shape
  OBVIOUS
<1>1. by_addr = [s \in Sessions |-> [a \in {Self} |-> Pool!EmptyState]]
  BY DEF Init, Pool!Init
<1>2. \A s \in Sessions :
        /\ by_addr[s] = [a \in {Self} |-> by_addr[s][a]]
        /\ by_addr[s][Self] = State(0, [n \in Pool!Nonces |-> NoTx], {}, <<>>)
  BY <1>1, EmptyShape
<1>3. by_addr = [s \in Sessions |-> by_addr[s]]
  BY <1>1
<1>4. \A s \in Sessions : \E n, p, d, h : by_addr[s][Self] = State(n, p, d, h)
  BY <1>2
<1> QED
  BY <1>2, <1>3, <1>4 DEF Shape

LEMMA ShapeRecord ==
  ASSUME Shape, NEW s \in Sessions, Record(s)
  PROVE  /\ Shape'
         /\ \A q \in Sessions :
              by_addr'[q][Self].pending =
                 IF q = s THEN [by_addr[s][Self].pending EXCEPT
                                  ![cmd[s].shown] = cmd[s].tx]
                 ELSE by_addr[q][Self].pending
<1> DEFINE st == by_addr[s][Self]
           pool == [st.pending EXCEPT ![cmd[s].shown] = cmd[s].tx]
           new == Updated(st, pool, cmd[s].shown + 1)
<1>1. by_addr' = [by_addr EXCEPT ![s] = [by_addr[s] EXCEPT ![Self] = new]]
  BY DEF Record, Pool!Submit, Pool!Mutate, Updated
<1>2. PICK n, p, d, h : st = State(n, p, d, h)
  BY DEF Shape
<1>3. new = State(cmd[s].shown + 1, pool, d, h)
  <2> HIDE DEF pool, st
  <2> QED
    BY <1>2, StateUpdate
<1>4. new.pending = pool
  BY <1>3, StatePending
<1> HIDE DEF new, st, pool
<1>5. by_addr'[s] = [a \in {Self} |-> by_addr'[s][a]] /\ by_addr'[s][Self] = new
  BY <1>1 DEF Shape
<1>6. \A q \in Sessions : q # s => by_addr'[q] = by_addr[q]
  BY <1>1 DEF Shape
<1>7. by_addr' = [q \in Sessions |-> by_addr'[q]]
  BY <1>1 DEF Shape
<1>8. Shape'
  BY <1>3, <1>5, <1>6, <1>7 DEF Shape
<1> QED
  BY <1>4, <1>5, <1>6, <1>8 DEF st, pool

LEMMA ShapeDie ==
  ASSUME Shape, NEW s \in Sessions, Die(s)
  PROVE  /\ Shape'
         /\ \A q \in Sessions :
              by_addr'[q][Self].pending =
                 IF q = s THEN [n \in Pool!Nonces |-> NoTx]
                 ELSE by_addr[q][Self].pending
<1>1. by_addr' = [by_addr EXCEPT ![s] = [a \in {Self} |-> Pool!EmptyState]]
  BY DEF Die, Pool!Crash
<1>2. \A q \in Sessions :
        by_addr'[q] = IF q = s THEN [a \in {Self} |-> Pool!EmptyState]
                      ELSE by_addr[q]
  BY <1>1 DEF Shape
<1>3. by_addr' = [q \in Sessions |-> by_addr'[q]]
  BY <1>1 DEF Shape
<1>4. /\ by_addr'[s] = [a \in {Self} |-> by_addr'[s][a]]
      /\ by_addr'[s][Self] = State(0, [n \in Pool!Nonces |-> NoTx], {}, <<>>)
  BY <1>2, EmptyShape
<1>5. Shape'
  BY <1>2, <1>3, <1>4 DEF Shape
<1> QED
  BY <1>2, <1>4, <1>5, StatePending

\* The other steps leave the memory alone.
LEMMA MemoryFrame ==
  ASSUME NEW s \in Sessions,
         Command(s) \/ WriteLog(s) \/ Launch(s) \/ Environment \/ UNCHANGED vars
  PROVE  UNCHANGED by_addr
BY DEF Command, WriteLog, Launch, Environment, vars, pooling, Pool!AppendStep,
       Pool!AcquireFlock, Pool!WriteRecord, Pool!WriteNewline, Pool!Finish,
       Pool!IoError, Pool!Start

LEMMA ShapeNext == Shape /\ [Next]_vars => Shape'
<1> SUFFICES ASSUME Shape, [Next]_vars PROVE Shape'
  OBVIOUS
<1>1. CASE UNCHANGED by_addr
  BY <1>1 DEF Shape
<1>2. CASE Environment \/ UNCHANGED vars
  BY <1>1, <1>2 DEF Environment, vars, pooling
<1> QED
  BY <1>1, <1>2, ShapeRecord, ShapeDie, MemoryFrame DEF Next

\* Every step is a step of WalletSend or leaves its variables alone.
LEMMA SendStep == Shape /\ [Next]_vars => [Send!Next]_(Send!vars)
<1> SUFFICES ASSUME Shape, [Next]_vars PROVE [Send!Next]_(Send!vars)
  OBVIOUS
<1>1. ASSUME NEW s \in Sessions, Command(s) PROVE Send!Next
  BY <1>1 DEF Command, Send!Next, Send!Step
<1>2. CASE Environment
  BY <1>2 DEF Environment, Send!Next
<1>3. ASSUME NEW s \in Sessions, Record(s) PROVE Send!Next
  <2>1. Send!Submit(s)
    BY <1>3, ShapeRecord DEF Record, Send!Submit, Send!Go, Send!node
  <2> QED
    BY <2>1 DEF Send!Next, Send!Step
<1>4. ASSUME NEW s \in Sessions, Die(s) PROVE Send!Next
  <2>1. Send!Restart(s)
    BY <1>4, ShapeDie
       DEF Die, Send!Restart, Send!Go, Send!node, Send!Nonces, Pool!Nonces
  <2> QED
    BY <2>1 DEF Send!Next, Send!Step
<1>5. ASSUME NEW s \in Sessions, WriteLog(s) \/ Launch(s)
      PROVE  UNCHANGED Send!vars
  BY <1>5, MemoryFrame DEF WriteLog, Launch, commanding, Send!vars, Send!node
<1>6. CASE UNCHANGED vars
  BY <1>6 DEF vars, commanding, pooling, Send!vars, Send!node
<1> QED
  BY <1>1, <1>2, <1>3, <1>4, <1>5, <1>6 DEF Next

\* The processes with their pools are the commands of WalletSend: every
\* behaviour of Wallet is one of WalletSend (commands.rs:304-550 with
\* nonce.rs:194-208 in between).
THEOREM WalletImplementsSend == Spec => ImplementsSend
<1>1. Init => Send!Init
  BY DEF Init
<1> QED
  BY <1>1, ShapeInit, ShapeNext, SendStep, PTL
     DEF Spec, ImplementsSend, Send!Spec

\* So the invariant of WalletSendProofs holds of the whole.
LEMMA CommandsKept == Spec => []SendT!IInv
BY WalletImplementsSend, SameSend, SendInvariant

-----------------------------------------------------------------------------
(* The pools: Wallet implements NonceManager.                              *)

\* What a command hands to submit.
LEMMA RecordArgs ==
  ASSUME SendT!IInv, NEW s \in Sessions, Record(s)
  PROVE  /\ cmd[s].shown \in Pool!Nonces
         /\ cmd[s].tx \in Send!Tx
         /\ <<NoTx, cmd[s].tx>> \in taken
<1>1. cmd[s] \in SendT!Command /\ cmd[s].at = "submit"
  BY DEF Record, SendT!IInv, SendT!TypeInv
<1>2. cmd[s].tx # NoTx /\ <<NoTx, cmd[s].tx>> \in taken
  BY <1>1 DEF SendT!IInv, SendT!SaneCommands, SendT!Sane, SendT!AnsweredWasTaken
<1>3. cmd[s].shown \in SendT!Nonces /\ cmd[s].tx \in SendT!Tx \cup {NoTx}
  BY <1>1 DEF SendT!Command
<1> QED
  BY <1>2, <1>3
     DEF SendT!Nonces, Pool!Nonces, SendT!Tx, Send!Tx, Send!Nonces, SendT!Fees,
         Send!Fees

\* Every step is a step of NonceManager or leaves its variables alone.
LEMMA PoolStep == SendT!IInv /\ [Next]_vars => [Pool!Next]_(Pool!vars)
<1> SUFFICES ASSUME SendT!IInv, [Next]_vars PROVE [Pool!Next]_(Pool!vars)
  OBVIOUS
<1>1. ASSUME NEW s \in Sessions, Command(s) PROVE UNCHANGED Pool!vars
  BY <1>1 DEF Command, pooling, Pool!vars
<1>2. ASSUME NEW s \in Sessions, Record(s) PROVE Pool!Next
  <2>1. Pool!Submit(s, Self, cmd[s].shown, cmd[s].tx)
    BY <1>2 DEF Record
  <2>2. Pool!Method(s)
    BY <1>2, <2>1, RecordArgs DEF Pool!Method
  <2> QED
    BY <2>2 DEF Pool!Next
<1>3. ASSUME NEW s \in Sessions, WriteLog(s) \/ Die(s) \/ Launch(s)
      PROVE  Pool!Next
  BY <1>3 DEF WriteLog, Die, Launch, Pool!Next
<1>4. CASE Environment \/ UNCHANGED vars
  BY <1>4 DEF Environment, vars, pooling, Pool!vars
<1> QED
  BY <1>1, <1>2, <1>3, <1>4 DEF Next

\* The pools under the commands are those of NonceManager: what it promises
\* of the memory and the file (records whole, in order and never under a
\* leaked lock) holds of the wallet (nonce.rs:194-208, 313-352).
THEOREM WalletImplementsPool == Spec => ImplementsPool
<1>1. Init => Pool!Init
  BY DEF Init
<1> QED
  BY <1>1, CommandsKept, PoolStep, PTL DEF Spec, ImplementsPool, Pool!Spec

LEMMA PoolsKept == Spec => []PoolT!TypeInv
BY WalletImplementsPool, SamePool, PoolTyped

-----------------------------------------------------------------------------
(* The log tells the truth.                                                *)

\* The node forgets nothing it took.
LEMMA TakenGrows == [Next]_vars => taken \subseteq taken'
BY DEF Next, Command, Record, WriteLog, Die, Launch, Environment, vars,
       commanding, Send!Start, Send!StartSend, Send!StartRbf, Send!Begin,
       Send!Continue, Send!Lookup, Send!LookupAgain, Send!LookupFails,
       Send!EstimateFees, Send!ReadNonce, Send!Build, Send!SayYes,
       Send!SayNo, Send!RpcError, Send!Broadcast, Send!BroadcastLost,
       Send!AnswerLost, Send!Takes, Send!Inside, Send!node, Send!Environment,
       Send!Mine, Send!Drop, Send!MarketMoves

\* What there is of types in the pools, in the names of Pool.
LEMMA Pools ==
  ASSUME PoolT!TypeInv
  PROVE  /\ log \in Seq(Pool!LogEntry \cup {EOL}) /\ Len(log) \in Nat
         /\ DOMAIN call = Sessions /\ call = [s \in Sessions |-> call[s]]
         /\ \A s \in Sessions :
              call[s].at \in Pool!InAppend => call[s].entry \in Pool!LogEntry
         /\ EOL \notin Pool!LogEntry
<1>1. log \in Seq(PoolT!LogEntry \cup {EOL}) /\ call \in [Sessions -> PoolT!Calls]
  BY DEF PoolT!TypeInv, PoolT!TypeOK
<1>2. PoolT!LogEntry = Pool!LogEntry
  BY DEF PoolT!LogEntry, Pool!LogEntry, PoolT!Nonces, Pool!Nonces
<1>3. Len(log) \in Nat
  BY <1>1, LenProperties
<1>4. \A s \in Sessions :
        call[s].at \in PoolT!InAppend => call[s].entry \in PoolT!LogEntry
  BY Assumed, PoolT!CallMoves
<1>5. PoolT!InAppend = Pool!InAppend
  BY DEF PoolT!InAppend, Pool!InAppend
<1>6. EOL \notin Pool!LogEntry
  BY WalletAssumption DEF Pool!NonceAssumption
<1> QED
  BY <1>1, <1>2, <1>3, <1>4, <1>5, <1>6

\* What a step of the append does to the file and to the call.
LEMMA AppendMoves ==
  ASSUME PoolT!TypeInv, NEW s \in Sessions, WriteLog(s) \/ Die(s) \/ Launch(s)
  PROVE  /\ Len(log') \in Nat /\ Len(log') >= Len(log)
         /\ \A i \in 1 .. Len(log) : log'[i] = log[i]
         /\ \A i \in 1 .. Len(log') : i \notin 1 .. Len(log) =>
              \/ log'[i] = EOL
              \/ call[s].at = "locked" /\ log'[i] = call[s].entry
         /\ \A q \in Sessions : q # s => call'[q] = call[q]
         /\ call'[s].at \in Pool!InAppend =>
              call[s].at \in Pool!InAppend /\ call'[s].entry = call[s].entry
         /\ lost \subseteq lost'
<1> USE Pools
<1>1. ASSUME log' = log
      PROVE  /\ Len(log') \in Nat /\ Len(log') >= Len(log)
             /\ \A i \in 1 .. Len(log) : log'[i] = log[i]
             /\ \A i \in 1 .. Len(log') : i \notin 1 .. Len(log) =>
                  \/ log'[i] = EOL
                  \/ call[s].at = "locked" /\ log'[i] = call[s].entry
  BY <1>1
<1>2. CASE Pool!AcquireFlock(s)
  BY <1>1, <1>2 DEF Pool!AcquireFlock, Pool!InAppend
<1>3. CASE Pool!WriteRecord(s)
  <2>1. call[s].entry \in Pool!LogEntry
    BY <1>3 DEF Pool!WriteRecord, Pool!InAppend
  <2>2. log' = Append(log, call[s].entry) /\ call[s].at = "locked"
    BY <1>3 DEF Pool!WriteRecord
  <2>3. /\ Len(log') = Len(log) + 1 /\ log'[Len(log) + 1] = call[s].entry
        /\ \A i \in 1 .. Len(log) : log'[i] = log[i]
    BY <2>1, <2>2, AppendProperties
  <2> QED
    BY <1>3, <2>2, <2>3 DEF Pool!WriteRecord, Pool!InAppend
<1>4. CASE Pool!WriteNewline(s)
  <2>1. log' = Append(log, EOL)
    BY <1>4 DEF Pool!WriteNewline
  <2>2. /\ Len(log') = Len(log) + 1 /\ log'[Len(log) + 1] = EOL
        /\ \A i \in 1 .. Len(log) : log'[i] = log[i]
    BY <2>1, AppendProperties
  <2> QED
    BY <1>4, <2>2 DEF Pool!WriteNewline, Pool!InAppend
<1>5. CASE Pool!Finish(s)
  BY <1>1, <1>5 DEF Pool!Finish, Pool!Idle, Pool!InAppend
<1>6. CASE Pool!IoError(s)
  BY <1>1, <1>6 DEF Pool!IoError, Pool!Abandon, Pool!Idle, Pool!InAppend
<1>7. CASE Pool!Crash(s)
  BY <1>1, <1>7 DEF Pool!Crash, Pool!Abandon, Pool!Down, Pool!InAppend
<1>8. CASE Pool!Start(s)
  BY <1>1, <1>8 DEF Pool!Start, Pool!Idle, Pool!InAppend
<1> QED
  BY <1>2, <1>3, <1>4, <1>5, <1>6, <1>7, <1>8
     DEF WriteLog, Die, Launch, Pool!AppendStep

\* What Record does to the calls.
LEMMA RecordMoves ==
  ASSUME PoolT!TypeInv, NEW s \in Sessions, Record(s)
  PROVE  /\ log' = log /\ lost' = lost /\ taken' = taken
         /\ unheard' = unheard
         /\ \A q \in Sessions : q # s => call'[q] = call[q]
         /\ call[s] = Pool!Idle
         /\ call'[s] = [at |-> "opening",
                        entry |-> Pool!Submitted(cmd[s].shown, cmd[s].tx)]
BY Pools DEF Record, Pool!Submit, Pool!StartAppend

LEMMA TruthInit == Init => LogTellsTruth
BY DEF Init, Pool!Init, LogTellsTruth, Pool!Idle, Pool!InAppend

LEMMA TruthNext ==
  SendT!IInv /\ PoolT!TypeInv /\ LogTellsTruth /\ [Next]_vars => LogTellsTruth'
<1> SUFFICES ASSUME SendT!IInv, PoolT!TypeInv, LogTellsTruth, [Next]_vars
             PROVE  LogTellsTruth'
  OBVIOUS
<1>1. CASE UNCHANGED <<log, call>>
  BY <1>1, TakenGrows DEF LogTellsTruth, Recorded
<1>2. ASSUME NEW s \in Sessions, Record(s) PROVE LogTellsTruth'
  <2>1. Recorded(Pool!Submitted(cmd[s].shown, cmd[s].tx))
    BY <1>2, RecordArgs DEF Recorded, Pool!Submitted
  <2>2. /\ log' = log /\ lost' = lost /\ taken' = taken
        /\ unheard' = unheard
        /\ \A q \in Sessions : q # s => call'[q] = call[q]
        /\ call[s] = Pool!Idle
        /\ call'[s] = [at |-> "opening",
                       entry |-> Pool!Submitted(cmd[s].shown, cmd[s].tx)]
    BY <1>2, RecordMoves
  <2>3. \A e : Recorded(e) <=> Recorded(e)'
    BY <2>2 DEF Recorded
  <2> QED
    BY <2>1, <2>2, <2>3 DEF LogTellsTruth
<1>3. ASSUME NEW s \in Sessions, WriteLog(s) \/ Die(s) \/ Launch(s)
      PROVE  LogTellsTruth'
  <2>1. ASSUME NEW i \in 1 .. Len(log'), log'[i] # EOL PROVE Recorded(log'[i])
    <3>1. CASE i \in 1 .. Len(log)
      BY <1>3, <2>1, <3>1, AppendMoves DEF LogTellsTruth
    <3>2. CASE i \notin 1 .. Len(log)
      BY <1>3, <2>1, <3>2, AppendMoves DEF LogTellsTruth, Pool!InAppend
    <3> QED
      BY <3>1, <3>2
  <2>2. ASSUME NEW q \in Sessions, call'[q].at \in Pool!InAppend
        PROVE  Recorded(call'[q].entry)
    BY <1>3, <2>2, AppendMoves DEF LogTellsTruth
  <2> QED
    BY <2>1, <2>2, TakenGrows DEF LogTellsTruth, Recorded
<1> QED
  BY <1>1, <1>2, <1>3 DEF Next, Command, Environment, vars, pooling

\* Each record of the shared file is of a transaction that the node took,
\* whichever process wrote it and whoever died meanwhile
\* (commands.rs:411-424, nonce.rs:313-328).
THEOREM LogIsTrue == Spec => []LogTellsTruth
BY CommandsKept, PoolsKept, TruthInit, TruthNext, PTL DEF Spec

-----------------------------------------------------------------------------
(* Nothing is forgotten.                                                   *)

Known(t) == InFile(t) \/ Waiting(t) \/ Lost(t)

\* What a command does: a transaction it gets taken for a send waits to be
\* recorded, or its answer is lost; other commands wait as before.
LEMMA CommandTakes ==
  ASSUME SendT!IInv, NEW s \in Sessions, Command(s), NEW t,
         <<NoTx, t>> \in taken', <<NoTx, t>> \notin taken
  PROVE  Waiting(t)' \/ t \in unheard'
<1>1. /\ cmd \in [Sessions -> SendT!Command]
      /\ \A q \in Sessions : SendT!Sane(cmd[q])
  BY DEF SendT!IInv, SendT!TypeInv, SendT!SaneCommands
<1>2. PICK u : /\ u = cmd[s].tx
               /\ Send!Broadcast(s) \/ Send!AnswerLost(s)
               /\ taken' = taken \cup {<<cmd[s].of, u>>}
  BY DEF Command, Send!Start, Send!StartSend, Send!StartRbf, Send!Begin,
         Send!Continue, Send!Lookup, Send!LookupAgain, Send!LookupFails,
         Send!EstimateFees, Send!ReadNonce, Send!Build, Send!SayYes,
         Send!SayNo, Send!RpcError, Send!Broadcast, Send!BroadcastLost,
         Send!AnswerLost, Send!Takes, Send!Inside, Send!node
<1>3. cmd[s].of = NoTx /\ cmd[s].tx = t
  BY <1>2
<1>4. CASE Send!AnswerLost(s)
  BY <1>3, <1>4 DEF Command
<1>5. CASE Send!Broadcast(s)
  <2>1. cmd[s].kind \notin Send!Rbf
    BY <1>1, <1>3 DEF SendT!Sane, SendT!Rbf, Send!Rbf
  <2>2. cmd'[s] = [cmd[s] EXCEPT !.at = "submit"]
    BY <1>1, <1>5, <2>1 DEF Send!Broadcast, Send!Go
  <2>3. cmd'[s].at = "submit" /\ cmd'[s].tx = t
    BY <1>1, <1>3, <2>2 DEF SendT!Command
  <2> QED
    BY <2>3 DEF Waiting
<1> QED
  BY <1>2, <1>4, <1>5

LEMMA CommandKeeps ==
  ASSUME SendT!IInv, NEW s \in Sessions, Command(s), NEW t, Known(t)
  PROVE  Known(t)'
<1>1. /\ cmd \in [Sessions -> SendT!Command]
  BY DEF SendT!IInv, SendT!TypeInv
<1>2. UNCHANGED <<log, call, lost>> /\ unheard \subseteq unheard'
  BY DEF Command, pooling
<1>3. cmd[s].at # "submit" /\ \E c : Send!Go(s, c)
  <2>1. CASE Send!Start(s)
    <3>1. PICK c : Send!Begin(s, c)
      BY <2>1 DEF Send!Start, Send!StartSend, Send!StartRbf
    <3> QED
      BY <3>1 DEF Send!Begin, Send!Idle
  <2>2. CASE Send!Lookup(s) \/ Send!LookupAgain(s) \/ Send!LookupFails(s)
    BY <2>2 DEF Send!Lookup, Send!LookupAgain, Send!LookupFails
  <2>3. CASE Send!EstimateFees(s) \/ Send!ReadNonce(s) \/ Send!Build(s)
    BY <2>3 DEF Send!EstimateFees, Send!ReadNonce, Send!Build
  <2>4. CASE Send!SayYes(s) \/ Send!SayNo(s) \/ Send!RpcError(s)
    BY <2>4 DEF Send!SayYes, Send!SayNo, Send!RpcError
  <2>5. CASE Send!Broadcast(s) \/ Send!BroadcastLost(s) \/ Send!AnswerLost(s)
    BY <2>5 DEF Send!Broadcast, Send!BroadcastLost, Send!AnswerLost
  <2> QED
    BY <2>1, <2>2, <2>3, <2>4, <2>5 DEF Command, Send!Continue
<1>4. \A q \in Sessions : q # s => cmd'[q] = cmd[q]
  BY <1>1, <1>3 DEF Send!Go
<1> QED
  BY <1>2, <1>3, <1>4 DEF Known, InFile, Waiting, Lost

\* The other steps take nothing, and hand a transaction on: from the command
\* to the append, from the append to the file, or to the lost.
LEMMA RecordKeeps ==
  ASSUME SendT!IInv, PoolT!TypeInv, NEW s \in Sessions, Record(s),
         NEW t, Known(t)
  PROVE  Known(t)'
<1>1. cmd \in [Sessions -> SendT!Command]
  BY DEF SendT!IInv, SendT!TypeInv
<1>2. \A q \in Sessions : q # s => cmd'[q] = cmd[q]
  BY <1>1 DEF Record
<1>3. /\ log' = log /\ lost' = lost /\ taken' = taken
      /\ unheard' = unheard
      /\ \A q \in Sessions : q # s => call'[q] = call[q]
      /\ call[s] = Pool!Idle
      /\ call'[s] = [at |-> "opening",
                     entry |-> Pool!Submitted(cmd[s].shown, cmd[s].tx)]
  BY RecordMoves
<1>4. call'[s].at = "opening" /\ call'[s].entry.tx_hash = cmd[s].tx
  BY <1>3 DEF Pool!Submitted
<1>5. call[s].at \notin {"opening", "locked"}
  BY <1>3 DEF Pool!Idle
<1> QED
  BY <1>2, <1>3, <1>4, <1>5 DEF Known, InFile, Waiting, Lost

LEMMA AppendKeeps ==
  ASSUME SendT!IInv, PoolT!TypeInv, NEW s \in Sessions,
         WriteLog(s) \/ Die(s) \/ Launch(s), NEW t, Known(t)
  PROVE  Known(t)'
<1>0. cmd \in [Sessions -> SendT!Command]
  BY DEF SendT!IInv, SendT!TypeInv
<1>1. CASE InFile(t)
  <2>1. PICK i \in 1 .. Len(log) : log[i] # EOL /\ log[i].tx_hash = t
    BY <1>1 DEF InFile
  <2>2. i \in 1 .. Len(log') /\ log'[i] = log[i]
    BY AppendMoves, Pools
  <2> QED
    BY <2>1, <2>2 DEF Known, InFile
<1>2. CASE Lost(t)
  BY <1>2, AppendMoves DEF Known, Lost, WriteLog, Die, Launch
<1>3. ASSUME NEW q \in Sessions, cmd[q].at = "submit", cmd[q].tx = t
      PROVE  Known(t)'
  <2>1. CASE cmd'[q] = cmd[q]
    BY <1>3, <2>1 DEF Known, Waiting
  <2>2. CASE Die(s) /\ q = s
    BY <1>3, <2>2 DEF Die, Known, Lost
  <2> QED
    BY <1>0, <2>1, <2>2 DEF WriteLog, Die, Launch, commanding
<1>4. ASSUME NEW q \in Sessions, call[q].at \in {"opening", "locked"},
             call[q].entry.tx_hash = t
      PROVE  Known(t)'
  <2>1. CASE q # s \/ call'[s].at \in {"opening", "locked"}
    <3>1. call'[q].at \in {"opening", "locked"} /\ call'[q].entry = call[q].entry
      BY <1>4, <2>1, AppendMoves DEF Pool!InAppend
    <3> QED
      BY <1>4, <3>1 DEF Known, Waiting
  <2>2. CASE q = s /\ Pool!WriteRecord(s)
    <3>1. call[s].entry \in Pool!LogEntry
      BY <1>4, <2>2, Pools DEF Pool!InAppend
    <3>2. /\ Len(log) + 1 \in 1 .. Len(log')
          /\ log'[Len(log) + 1] = call[s].entry
      BY <2>2, <3>1, Pools, AppendProperties DEF Pool!WriteRecord
    <3>3. InFile(t)'
      BY <1>4, <2>2, <3>1, <3>2, Pools DEF InFile
    <3> QED
      BY <3>3 DEF Known
  <2>3. CASE q = s /\ (Pool!IoError(s) \/ Pool!Crash(s))
    <3>1. call[s].entry \in lost'
      BY <1>4, <2>3 DEF Pool!IoError, Pool!Crash, Pool!Abandon
    <3> QED
      BY <1>4, <2>3, <3>1 DEF Known, Lost
  <2>4. CASE q = s /\ Pool!AcquireFlock(s)
    <3>1. call'[s].at = "locked"
      BY <2>4, Pools DEF Pool!AcquireFlock
    <3> QED
      BY <2>1, <3>1
  <2>5. CASE q = s /\ (Pool!WriteNewline(s) \/ Pool!Finish(s) \/ Pool!Start(s))
    BY <1>4, <2>5 DEF Pool!WriteNewline, Pool!Finish, Pool!Start, Pool!Down
  <2> QED
    BY <2>1, <2>2, <2>3, <2>4, <2>5 DEF WriteLog, Die, Launch, Pool!AppendStep
<1> QED
  BY <1>1, <1>2, <1>3, <1>4 DEF Known, Waiting

LEMMA ForgottenNext ==
  SendT!IInv /\ PoolT!TypeInv /\ NothingForgotten /\ [Next]_vars =>
     NothingForgotten'
<1> SUFFICES ASSUME SendT!IInv, PoolT!TypeInv, NothingForgotten, [Next]_vars,
                    NEW t \in Send!Tx, <<NoTx, t>> \in taken'
             PROVE  Known(t)'
  BY DEF NothingForgotten, Known, Send!Tx, Send!Nonces, Send!Fees
<1>1. CASE <<NoTx, t>> \in taken
  <2>1. Known(t)
    BY <1>1 DEF NothingForgotten, Known
  <2>2. CASE UNCHANGED <<cmd, log, call, lost, unheard>>
    BY <2>1, <2>2 DEF Known, InFile, Waiting, Lost
  <2>3. CASE Environment \/ UNCHANGED vars
    BY <2>2, <2>3
       DEF Environment, vars, commanding, pooling, Send!Environment,
           Send!Mine, Send!Drop, Send!MarketMoves
  <2> QED
    BY <2>1, <2>3, CommandKeeps, RecordKeeps, AppendKeeps DEF Next
<1>2. CASE <<NoTx, t>> \notin taken
  <2>1. PICK s \in Sessions : Command(s)
    BY <1>2
       DEF Next, Record, WriteLog, Die, Launch, Environment, vars, commanding,
           Send!Environment, Send!Mine, Send!Drop, Send!MarketMoves, Send!node
  <2> QED
    BY <1>2, <2>1, CommandTakes DEF Known, Lost
<1> QED
  BY <1>1, <1>2

\* A transaction the node took for a send is in the file or on its way, or
\* its loss has a cause: a lost answer, a killed process, a failed append
\* (commands.rs:410-424, alloy_chain.rs:219-228, nonce.rs:313-352).
THEOREM ForgetsNothing == Spec => []NothingForgotten
<1>1. Init => NothingForgotten
  BY DEF Init, Send!Init, NothingForgotten
<1> QED
  BY <1>1, CommandsKept, PoolsKept, ForgottenNext, PTL DEF Spec

-----------------------------------------------------------------------------
(* What holds of the parts holds of the whole.                             *)

\* Next to pools, log and deaths, the commands keep what they promise: a pool
\* holds what the node took, no session fights itself, and no command spends
\* twice (commands.rs, cmd_send_eth and its fellows).
THEOREM WholeCommands ==
  Spec => [](Send!RecordedWasTaken /\ Send!OwnSlotFree /\ Send!OneTxPerCommand)
<1>1. /\ SendT!Spec => []SendT!RecordedWasTaken
      /\ SendT!Spec => []SendT!OwnSlotFree
      /\ SendT!Spec => []SendT!OneTxPerCommand
  BY Assumed, SendT!RecordedTaken, SendT!NoSelfConflict, SendT!AtMostOneTx
<1>2. /\ SendT!RecordedWasTaken <=> Send!RecordedWasTaken
      /\ SendT!OwnSlotFree <=> Send!OwnSlotFree
      /\ SendT!OneTxPerCommand <=> Send!OneTxPerCommand
  BY DEF SendT!RecordedWasTaken, Send!RecordedWasTaken, SendT!OwnSlotFree,
         Send!OwnSlotFree, SendT!OneTxPerCommand, Send!OneTxPerCommand,
         SendT!Unspent, Send!Unspent, SendT!Nonces, Send!Nonces,
         SendT!Cardinality, Send!Cardinality
<1> QED
  BY WalletImplementsSend, SameSend, <1>1, <1>2, PTL

\* Under commands that start, fail and die at any place, the pools and the
\* file keep what they promise: memory is backed by the file, a record has
\* its line for itself, and the flock is never left behind (nonce.rs,
\* append_log).
THEOREM WholePools ==
  Spec => [](Pool!MemoryIsLogged /\ Pool!WholeLines /\ Pool!NoLeakedLock)
<1>1. /\ PoolT!Spec => []PoolT!MemoryIsLogged
      /\ PoolT!Spec => []PoolT!WholeLines
      /\ PoolT!Spec => []PoolT!NoLeakedLock
  BY Assumed, PoolT!MemoryLogged, PoolT!LinesWhole, PoolT!LockNotLeaked
<1>2. /\ PoolT!MemoryIsLogged <=> Pool!MemoryIsLogged
      /\ PoolT!WholeLines <=> Pool!WholeLines
      /\ PoolT!NoLeakedLock <=> Pool!NoLeakedLock
  BY DEF PoolT!MemoryIsLogged, Pool!MemoryIsLogged, PoolT!PendingIsLogged,
         Pool!PendingIsLogged, PoolT!DeadIsLogged, Pool!DeadIsLogged,
         PoolT!HistoryIsLogged, Pool!HistoryIsLogged, PoolT!Durable,
         Pool!Durable, PoolT!Logged, Pool!Logged, PoolT!InFlight,
         Pool!InFlight, PoolT!Submitted, Pool!Submitted, PoolT!Stale,
         Pool!Stale, PoolT!Replaced, Pool!Replaced, PoolT!Mined,
         Pool!Mined, PoolT!Nonces, Pool!Nonces, PoolT!LogEntry,
         Pool!LogEntry, PoolT!Holding, Pool!Holding, PoolT!WholeLines,
         Pool!WholeLines, PoolT!NoLeakedLock, Pool!NoLeakedLock
<1> QED
  BY WalletImplementsPool, SamePool, <1>1, <1>2, PTL

=============================================================================
