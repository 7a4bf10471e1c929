------------------------------- MODULE Wallet -------------------------------
(***************************************************************************)
(* The whole of a payment: the commands of module WalletSend with the      *)
(* nonce pool and the log file of module NonceManager, in several evm-cli  *)
(* processes at once (src/cli/commands.rs, src/chain/nonce.rs).            *)
(*                                                                         *)
(* What WalletSend calls `pending` is the pool in the memory of the        *)
(* process.  The command holds the mutex of its NonceManager until the     *)
(* append has returned, whatever it returned (`let _ =`), and only then    *)
(* reports success; other processes go on meanwhile.  Of the methods of    *)
(* the pool the commands call submit alone.                                *)
(***************************************************************************)
EXTENDS Naturals, Sequences, FiniteSets

CONSTANTS
  Sessions,     \* the evm-cli processes
  Dests,        \* destinations of payments
  Self,         \* the account
  NoTx,         \* not a transaction, nor the hash of one
  NoSession,    \* not a session: the flock is free
  NoSummary,    \* the user has approved nothing yet
  NoEntry,      \* not a record of the log
  EOL,          \* the newline that ends a record
  MaxNonce,     \* bound: the largest nonce that is signed
  MaxFee,       \* bound: the highest fee level
  MaxCommands,  \* bound: how many commands are given
  MaxDrops,     \* bound: how many transactions the node evicts
  HistoryCap,   \* HISTORY_CAP
  MaxFaults     \* bound: how many appends fail or die half-way

VARIABLES
  cmd, slot, height, market, via, taken, commands, drops,   \* WalletSend
  by_addr, call, log, flock, lost, torn,                    \* NonceManager
  unheard       \* history: transactions the node took whose command never
                \* heard of it, or died before it could record it

\* No append finds the file too long: a command writes two tokens.
MaxTokens == 2 * MaxCommands

Send == INSTANCE WalletSend
  WITH pending <- [s \in Sessions |-> by_addr[s][Self].pending]

Pool == INSTANCE NonceManager
  WITH Procs <- Sessions, Addrs <- {Self}, Hashes <- Send!Tx,
       NoHash <- NoTx, NoProc <- NoSession

ASSUME WalletAssumption == Send!SendAssumption /\ Pool!NonceAssumption

commanding == <<cmd, slot, height, market, via, taken, commands, drops>>
pooling == <<by_addr, call, log, flock, lost, torn>>
vars == <<commanding, pooling, unheard>>

-----------------------------------------------------------------------------
Init ==
  /\ Pool!Init
  /\ Send!Init
  /\ unheard = {}

\* The process runs and waits for no append.
Ready(s) == call[s] = Pool!Idle

\* A command starts or goes on; AnswerLost is the one step after which the
\* node has a transaction that nobody will record.
Command(s) ==
  /\ Ready(s)
  /\ UNCHANGED pooling
  /\ Send!Start(s) \/ Send!Continue(s)
  /\ unheard' = IF Send!AnswerLost(s) /\ cmd[s].of = NoTx
                THEN unheard \cup {cmd[s].tx} ELSE unheard

\* MUTANT of Record: the signed nonce is recorded, not the one shown.
RecordSigned(s) ==
  /\ cmd[s].at = "submit"
  /\ Pool!Submit(s, Self, cmd[s].tx.nonce, cmd[s].tx)
  /\ cmd' = [cmd EXCEPT ![s] = Send!Idle]
  /\ UNCHANGED <<slot, height, market, via, taken, commands, drops, unheard>>

\* MUTANT of Record: the pool is left alone.
RecordNothing(s) ==
  /\ cmd[s].at = "submit"
  /\ cmd' = [cmd EXCEPT ![s] = Send!Idle]
  /\ UNCHANGED <<slot, height, market, via, taken, commands, drops, pooling, unheard>>

\* nonce_manager.lock(), then submit; its result is thrown away.
Record(s) ==
  /\ cmd[s].at = "submit"
  /\ Pool!Submit(s, Self, cmd[s].shown, cmd[s].tx)
  /\ cmd' = [cmd EXCEPT ![s] = Send!Idle]
  /\ UNCHANGED <<slot, height, market, via, taken, commands, drops, unheard>>

\* MUTANT of WriteLog: a record that cannot be written is tried again.
WriteLogRetry(s) ==
  /\ \/ Pool!AcquireFlock(s) \/ Pool!WriteRecord(s) \/ Pool!WriteNewline(s)
     \/ Pool!Finish(s)
     \/ call[s].at = "locked" /\ call' = [call EXCEPT ![s].at = "opening"]
        /\ flock' = NoSession /\ UNCHANGED <<by_addr, log, lost, torn>>
  /\ UNCHANGED <<commanding, unheard>>

\* append_log goes on or fails.
WriteLog(s) ==
  /\ Pool!AppendStep(s)
  /\ UNCHANGED <<commanding, unheard>>

\* MUTANT of Die: the process dies and the pool stays.
DieRemembering(s) ==
  /\ call[s].at # "down"
  /\ call' = [call EXCEPT ![s] = Pool!Down]
  /\ cmd' = [cmd EXCEPT ![s] = Send!Idle]
  /\ UNCHANGED <<by_addr, log, flock, lost, torn, slot, height, market, via,
                 taken, commands, drops, unheard>>

\* The process is killed wherever it is.
Die(s) ==
  /\ Pool!Crash(s)
  /\ cmd' = [cmd EXCEPT ![s] = Send!Idle]
  /\ unheard' = IF cmd[s].at = "submit" THEN unheard \cup {cmd[s].tx} ELSE unheard
  /\ UNCHANGED <<slot, height, market, via, taken, commands, drops>>

\* A new process; its pool is empty.
Launch(s) ==
  /\ Pool!Start(s)
  /\ UNCHANGED <<commanding, unheard>>

Environment ==
  /\ UNCHANGED pooling
  /\ Send!Environment
  /\ UNCHANGED unheard

Next ==
  \/ \E s \in Sessions :
       Command(s) \/ Record(s) \/ WriteLog(s) \/ Die(s) \/ Launch(s)
  \/ Environment

Spec == Init /\ [][Next]_vars

\* A command that was answered goes on by itself, and so does an append; a
\* process that waits for the flock gets it if it is free again and again
\* (the kernel wakes the waiters in their order).  Nothing makes the user,
\* the node or an error happen.
Fairness ==
  \A s \in Sessions :
     /\ WF_vars(Record(s))
     /\ SF_vars(WriteLog(s) /\ Pool!AcquireFlock(s))
     /\ WF_vars(WriteLog(s) /\ call[s].at \in Pool!Holding)

FairSpec == Spec /\ Fairness

-----------------------------------------------------------------------------
(* What the parts promise together.                                        *)

\* The processes with their pools are the commands of WalletSend, and the
\* pools under the commands are those of NonceManager: whatever was checked
\* and proved of either holds of the whole.
ImplementsSend == Send!Spec
ImplementsPool == Pool!Spec

Recorded(e) == e.state = "submitted" /\ <<NoTx, e.tx_hash>> \in taken

\* The file tells the truth about the chain: each record, written or on its
\* way, is of a transaction that the node took for a send, whichever process
\* wrote it and whoever died meanwhile.
LogTellsTruth ==
  /\ \A i \in 1 .. Len(log) : log[i] # EOL => Recorded(log[i])
  /\ \A s \in Sessions : call[s].at \in Pool!InAppend => Recorded(call[s].entry)

\* And the whole truth but for what is lost by accident: a transaction that
\* the node took for a send is in the file or on its way there, unless its
\* answer was lost, its process was killed, or its append failed.  (The
\* replacements of cmd_rbf are never recorded.)
Waiting(t) ==
  \E s \in Sessions :
     \/ cmd[s].at = "submit" /\ cmd[s].tx = t
     \/ call[s].at \in {"opening", "locked"} /\ call[s].entry.tx_hash = t

InFile(t) == \E i \in 1 .. Len(log) : log[i] # EOL /\ log[i].tx_hash = t
Lost(t) == t \in unheard \/ \E e \in lost : e.tx_hash = t

NothingForgotten ==
  \A t \in Send!Tx :
     <<NoTx, t>> \in taken => InFile(t) \/ Waiting(t) \/ Lost(t)

\* A payment that was answered is settled in the end: its command and its
\* append are over, however the processes compete for the flock, so that by
\* NothingForgotten it is in the file or its loss has a cause.
Settles ==
  \A s \in Sessions :
     cmd[s].at = "submit" ~> cmd[s].at # "submit" /\ call[s].at \notin Pool!InAppend

=============================================================================
