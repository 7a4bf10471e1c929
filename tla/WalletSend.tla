----------------------------- MODULE WalletSend -----------------------------
(***************************************************************************)
(* The signing commands of src/cli/commands.rs against an Ethereum node:   *)
(* send-eth, send-token, and send-eth --bump-fee / --cancel (rbf.rs), each *)
(* with and without --dry-run, run by evm-cli processes that have the same *)
(* account unlocked.                                                       *)
(*                                                                         *)
(* A command is a chain of awaits.  Between two of them the other sessions *)
(* run, the node mines or drops transactions and the fee market moves; an  *)
(* RPC can fail, the answer to a broadcast can be lost after the node took *)
(* the transaction, and the user can kill the process.                     *)
(*                                                                         *)
(* A transaction is its own hash: signatures are deterministic (RFC 6979), *)
(* so equal fields give equal bytes.  Fees are levels one minimal bump     *)
(* apart (module FeeBump has the amounts).                                 *)
(***************************************************************************)
EXTENDS Naturals, FiniteSets

CONSTANTS
  Sessions,     \* the evm-cli processes that sign for the account
  Dests,        \* destinations of payments
  Self,         \* the account itself, destination of a cancel
  NoTx,         \* not a transaction
  NoSession,    \* not a session
  NoSummary,    \* the user has approved nothing yet
  MaxNonce,     \* bound: the largest nonce that is signed
  MaxFee,       \* bound: the highest fee level
  MaxCommands,  \* bound: how many commands are given
  MaxDrops      \* bound: how many transactions the node evicts

Nonces == 0 .. MaxNonce
Fees == 1 .. MaxFee

\* TxEip1559, as far as the commands tell transactions apart.
Tx == [nonce : Nonces, to : Dests \cup {Self}, data : BOOLEAN, fee : Fees]

\* What print_send_summary shows of a transaction besides its nonce.
Summary(t) == [to |-> t.to, data |-> t.data, fee |-> t.fee]
Summaries == [to : Dests \cup {Self}, data : BOOLEAN, fee : Fees]

ASSUME SendAssumption ==
  /\ MaxNonce \in Nat
  /\ MaxFee \in Nat \ {0}
  /\ MaxCommands \in Nat
  /\ MaxDrops \in Nat
  /\ Self \notin Dests
  /\ NoTx \notin Tx
  /\ NoSession \notin Sessions
  /\ NoSummary \notin Summaries

VARIABLES
  cmd,          \* session -> the command it runs
  pending,      \* session -> nonce -> hash: its NonceManager's pool
  slot,         \* node: nonce -> the transaction mined or pooled there
  height,       \* node: nonces below it are mined
  market,       \* node: the fee level estimate_fees returns
  via,          \* history: nonce -> session that put slot[nonce] there
  taken,        \* history: <<original or NoTx, transaction>> the node took
  commands,     \* bound: commands given so far
  drops         \* bound: transactions evicted so far

node == <<slot, height, via, taken, drops>>
vars == <<cmd, pending, market, commands, node>>

-----------------------------------------------------------------------------
(* Commands.  `shown` is the nonce of the summary, `of` the original of an *)
(* RBF command, `seen` what the user said yes to.                          *)

Kinds == {"eth", "token", "bump", "cancel"}
Rbf == {"bump", "cancel"}

Places ==
  {"idle", "lookup", "estimate", "nonce", "build", "confirm", "again",
   "broadcast", "submit"}

Command ==
  [at : Places, kind : Kinds, to : Dests \cup {Self}, dry : BOOLEAN,
   of : Tx \cup {NoTx}, fee : Fees, shown : Nonces, tx : Tx \cup {NoTx},
   seen : Summaries \cup {NoSummary}]

Idle ==
  [at |-> "idle", kind |-> "eth", to |-> Self, dry |-> FALSE, of |-> NoTx,
   fee |-> 1, shown |-> 0, tx |-> NoTx, seen |-> NoSummary]

TypeInv ==
  /\ cmd \in [Sessions -> Command]
  /\ pending \in [Sessions -> [Nonces -> Tx \cup {NoTx}]]
  /\ slot \in [Nonces -> Tx \cup {NoTx}]
  /\ \A n \in Nonces : slot[n] # NoTx => slot[n].nonce = n
  /\ height \in 0 .. MaxNonce + 1
  /\ market \in Fees
  /\ via \in [Nonces -> Sessions \cup {NoSession}]
  /\ taken \subseteq (Tx \cup {NoTx}) \X Tx
  /\ commands \in 0 .. MaxCommands
  /\ drops \in 0 .. MaxDrops

Init ==
  /\ cmd = [s \in Sessions |-> Idle]
  /\ pending = [s \in Sessions |-> [n \in Nonces |-> NoTx]]
  /\ slot = [n \in Nonces |-> NoTx]
  /\ height = 0
  /\ market = 1
  /\ via = [n \in Nonces |-> NoSession]
  /\ taken = {}
  /\ commands = 0
  /\ drops = 0

-----------------------------------------------------------------------------
(* The node.                                                               *)

\* eth_getTransactionByHash: pooled and mined transactions alike.
Found(t) == \E n \in Nonces : slot[n] = t

\* MUTANT of PendingNonce: the "latest" tag, which ignores the pool.
LatestNonce(n) == n = height

\* eth_getTransactionCount(.., pending): the first nonce neither mined nor
\* pooled.
PendingNonce(n) ==
  /\ n \in Nonces /\ height <= n /\ slot[n] = NoTx
  /\ \A m \in Nonces : height <= m /\ m < n => slot[m] # NoTx

\* The transfer of tokens needs more gas than build_eth_transfer's 21_000,
\* which covers a transaction without calldata and no more.
IntrinsicGasOk(t) == ~ t.data

\* eth_sendRawTransaction takes t: enough gas, nonce not too low, and no
\* transaction at its nonce but one it outbids.
Accepts(t) ==
  /\ IntrinsicGasOk(t)
  /\ height <= t.nonce
  /\ slot[t.nonce] # NoTx => slot[t.nonce].fee < t.fee

Mine ==
  /\ height \in Nonces
  /\ slot[height] # NoTx
  /\ height' = height + 1
  /\ UNCHANGED <<cmd, pending, slot, market, via, taken, commands, drops>>

\* The pool evicts a transaction (lifetime, price or restart).
Drop(n) ==
  /\ drops < MaxDrops
  /\ height <= n /\ slot[n] # NoTx
  /\ slot' = [slot EXCEPT ![n] = NoTx]
  /\ via' = [via EXCEPT ![n] = NoSession]
  /\ drops' = drops + 1
  /\ UNCHANGED <<cmd, pending, height, market, taken, commands>>

MarketMoves(f) ==
  /\ f # market
  /\ market' = f
  /\ UNCHANGED <<cmd, pending, commands, node>>

-----------------------------------------------------------------------------
(* The commands.  Go(s, c): session s goes on with c.                      *)

Go(s, c) == cmd' = [cmd EXCEPT ![s] = c]

Begin(s, c) ==
  /\ cmd[s] = Idle
  /\ commands < MaxCommands
  /\ commands' = commands + 1
  /\ Go(s, c)
  /\ UNCHANGED <<pending, market, node>>

Inside(s) == UNCHANGED <<pending, market, commands, node>>

\* cmd_send_eth / cmd_send_token with an unlocked signer and arguments that
\* parse.
StartSend(s, kind, to, dry) ==
  Begin(s, [Idle EXCEPT !.at = "estimate", !.kind = kind, !.to = to,
                        !.dry = dry])

\* --bump-fee / --cancel: the hash is one the user has met.
StartRbf(s, kind, t, dry) ==
  Begin(s, [Idle EXCEPT !.at = "lookup", !.kind = kind, !.of = t,
                        !.dry = dry])

\* cmd_rbf: get_tx, then the y/N prompt unless --dry-run.
Lookup(s) ==
  /\ cmd[s].at = "lookup"
  /\ Found(cmd[s].of)
  /\ Go(s, [cmd[s] EXCEPT !.at = IF cmd[s].dry THEN "again" ELSE "confirm"])
  /\ Inside(s)

\* rbf.rs looks the original up a second time.
LookupAgain(s) ==
  /\ cmd[s].at = "again"
  /\ Found(cmd[s].of)
  /\ Go(s, [cmd[s] EXCEPT !.at = "estimate"])
  /\ Inside(s)

\* TxNotFound.
LookupFails(s) ==
  /\ cmd[s].at \in {"lookup", "again"}
  /\ ~ Found(cmd[s].of)
  /\ Go(s, Idle)
  /\ Inside(s)

\* What compute_bump does to fee levels: one level up, or the market's.
Bumped(f) == IF f + 1 > market THEN f + 1 ELSE market

\* estimate_fees; in rbf.rs followed by compute_bump.
EstimateFees(s) ==
  /\ cmd[s].at = "estimate"
  /\ \/ /\ cmd[s].kind \in Rbf
        /\ Bumped(cmd[s].of.fee) \in Fees
        /\ Go(s, [cmd[s] EXCEPT !.at = "build", !.fee = Bumped(cmd[s].of.fee)])
     \/ /\ cmd[s].kind \notin Rbf
        /\ Go(s, [cmd[s] EXCEPT !.at = "nonce", !.fee = market])
  /\ Inside(s)

\* MUTANT of ReadNonce: the summary's nonce is read with the "latest" tag.
ReadNonceLatest(s) ==
  /\ cmd[s].at = "nonce"
  /\ height \in Nonces
  /\ Go(s, [cmd[s] EXCEPT !.at = "build", !.shown = height])
  /\ Inside(s)

\* MUTANT of ReadNonce: the nonce after the first free one.
ReadNonceNext(s) ==
  /\ cmd[s].at = "nonce"
  /\ \E n \in Nonces :
       /\ PendingNonce(n)
       /\ Go(s, [cmd[s] EXCEPT !.at = "build", !.shown = n + 1])
  /\ Inside(s)

\* The nonce of the summary, and of the NonceManager's record.
ReadNonce(s) ==
  /\ cmd[s].at = "nonce"
  /\ \E n \in Nonces :
       /\ PendingNonce(n)
       /\ Go(s, [cmd[s] EXCEPT !.at = "build", !.shown = n])
  /\ Inside(s)

\* Of an RBF command rbf.rs keeps the original's destination (bump) or
\* none of it (cancel), and its calldata never.
Recipient(c) ==
  CASE c.kind = "bump" -> c.of.to
    [] c.kind = "cancel" -> Self
    [] OTHER -> c.to

Signed(c, n) ==
  [nonce |-> n, to |-> Recipient(c), data |-> c.kind = "token", fee |-> c.fee]

\* MUTANT of Build: the builder estimates the fees again.
BuildReestimating(s) ==
  /\ cmd[s].at = "build"
  /\ \E n \in Nonces :
       /\ PendingNonce(n)
       /\ Go(s, [cmd[s] EXCEPT
                   !.tx = Signed([cmd[s] EXCEPT !.fee = market], n),
                   !.at = IF cmd[s].kind \in Rbf THEN "broadcast" ELSE "confirm"])
  /\ Inside(s)

\* build_eth_transfer: reads the nonce itself, takes the fees given to it,
\* signs.  The send path then prints the summary; a dry run ends here.
Build(s) ==
  /\ cmd[s].at = "build"
  /\ \E n \in Nonces :
       /\ PendingNonce(n)
       /\ LET c == [cmd[s] EXCEPT !.tx = Signed(cmd[s], n)] IN
          \/ c.kind \in Rbf /\ Go(s, [c EXCEPT !.at = "broadcast"])
          \/ c.kind \notin Rbf /\ c.dry /\ Go(s, Idle)
          \/ c.kind \notin Rbf /\ ~ c.dry /\ Go(s, [c EXCEPT !.at = "confirm"])
  /\ Inside(s)

\* The user says yes to the summary just printed; of an RBF command it shows
\* the original, never the replacement.
SayYes(s) ==
  /\ cmd[s].at = "confirm"
  /\ Go(s, IF cmd[s].kind \in Rbf
           THEN [cmd[s] EXCEPT !.at = "again"]
           ELSE [cmd[s] EXCEPT !.at = "broadcast",
                   !.seen = [to |-> cmd[s].to, data |-> cmd[s].kind = "token",
                             fee |-> cmd[s].fee]])
  /\ Inside(s)

SayNo(s) ==
  /\ cmd[s].at = "confirm"
  /\ Go(s, Idle)
  /\ Inside(s)

\* An RPC that only reads fails: the error is reported and the command ends.
RpcError(s) ==
  /\ cmd[s].at \in {"lookup", "again", "estimate", "nonce", "build"}
  /\ Go(s, Idle)
  /\ Inside(s)

\* The node takes the transaction.
Takes(s) ==
  LET t == cmd[s].tx IN
  /\ Accepts(t)
  /\ slot' = [slot EXCEPT ![t.nonce] = t]
  /\ via' = [via EXCEPT ![t.nonce] = s]
  /\ taken' = taken \cup {<<cmd[s].of, t>>}
  /\ UNCHANGED <<height, drops>>

\* broadcast_tx is answered with the hash.  cmd_rbf ends; the send path goes
\* on to NonceManager::submit.
Broadcast(s) ==
  /\ cmd[s].at = "broadcast"
  /\ Takes(s)
  /\ Go(s, IF cmd[s].kind \in Rbf THEN Idle
           ELSE [cmd[s] EXCEPT !.at = "submit"])
  /\ UNCHANGED <<pending, market, commands>>

\* MUTANT of BroadcastLost: the error of broadcast_tx is ignored.
BroadcastErrorIgnored(s) ==
  /\ cmd[s].at = "broadcast"
  /\ Go(s, [cmd[s] EXCEPT !.at = "submit"])
  /\ UNCHANGED <<pending, market, commands, node>>

\* broadcast_tx is an error: the request never arrived, or the node refused.
BroadcastLost(s) ==
  /\ cmd[s].at = "broadcast"
  /\ Go(s, Idle)
  /\ UNCHANGED <<pending, market, commands, node>>

\* MUTANT of AnswerLost: on an error the transaction is built again.
AnswerLostRetry(s) ==
  /\ cmd[s].at = "broadcast"
  /\ Takes(s)
  /\ Go(s, [cmd[s] EXCEPT !.at = "build"])
  /\ UNCHANGED <<pending, market, commands>>

\* The node took it and the answer was lost: an error all the same.
AnswerLost(s) ==
  /\ cmd[s].at = "broadcast"
  /\ Takes(s)
  /\ Go(s, Idle)
  /\ UNCHANGED <<pending, market, commands>>

\* NonceManager::submit(signer, nonce of the summary, hash).
Submit(s) ==
  /\ cmd[s].at = "submit"
  /\ pending' = [pending EXCEPT ![s] = [@ EXCEPT ![cmd[s].shown] = cmd[s].tx]]
  /\ Go(s, Idle)
  /\ UNCHANGED <<market, commands, node>>

\* The process dies, in a command or between two, and a new one starts with
\* an empty pool.
Restart(s) ==
  /\ Go(s, Idle)
  /\ pending' = [pending EXCEPT ![s] = [n \in Nonces |-> NoTx]]
  /\ UNCHANGED <<market, commands, node>>

-----------------------------------------------------------------------------
\* Hashes the user may pass: shown by pending-tx, or by a block explorer.
Met(s) ==
  ({pending[s][n] : n \in Nonces} \cup {slot[n] : n \in Nonces}) \ {NoTx}

Start(s) ==
  \E dry \in BOOLEAN :
     \/ \E kind \in {"eth", "token"}, to \in Dests : StartSend(s, kind, to, dry)
     \/ \E kind \in Rbf, t \in Met(s) : StartRbf(s, kind, t, dry)

\* A command goes on: an RPC is answered or fails, the user answers.
Continue(s) ==
  \/ Lookup(s) \/ LookupAgain(s) \/ LookupFails(s)
  \/ EstimateFees(s) \/ ReadNonce(s) \/ Build(s)
  \/ SayYes(s) \/ SayNo(s) \/ RpcError(s)
  \/ Broadcast(s) \/ BroadcastLost(s) \/ AnswerLost(s)

Step(s) == Continue(s) \/ Submit(s) \/ Restart(s)

Environment ==
  \/ Mine
  \/ \E n \in Nonces : Drop(n)
  \/ \E f \in Fees : MarketMoves(f)

Next ==
  \/ \E s \in Sessions : Start(s) \/ Step(s)
  \/ Environment

Spec == Init /\ [][Next]_vars

-----------------------------------------------------------------------------
(* What the commands promise.                                              *)

\* P0-9, mis-sign prevention: a transaction of send-eth or send-token that
\* reaches the node is one the user said yes to: the destination, the kind
\* and the fees of the summary are those of the signed bytes, however the
\* market moved meanwhile.  (The nonce is not: the builder reads its own.)
Arrives(n) == slot'[n] \notin {NoTx, slot[n]}

ShownIsSent ==
  [][\A n \in Nonces, s \in Sessions :
       (Arrives(n) /\ via'[n] = s /\ cmd[s].kind \notin Rbf) =>
          cmd[s].seen = Summary(slot'[n])]_vars

\* One session never fights itself: as long as a transaction is waiting to
\* be confirmed or broadcast, its nonce is not taken by an earlier
\* transaction of the same session, so the node refuses it or lets it
\* replace something only because of another session.  (build_eth_transfer
\* asks for the *pending* count.)
OwnSlotFree ==
  \A s \in Sessions :
     cmd[s].at \in {"confirm", "broadcast"} /\ cmd[s].tx # NoTx =>
        via[cmd[s].tx.nonce] # s

\* The nonce of the summary and the one that is signed are read one RPC
\* apart, and only other sessions come between them: as long as the node
\* evicts nothing, the signed nonce is never below the one shown, and every
\* nonce it skipped was filled by another session (commands.rs:358,
\* alloy_chain.rs:156).
Signing(c) == c.kind \notin Rbf /\ c.at \in {"confirm", "broadcast"}

DriftFromOthers ==
  drops = 0 =>
    \A s \in Sessions : Signing(cmd[s]) =>
      /\ cmd[s].shown <= cmd[s].tx.nonce
      /\ \A m \in cmd[s].shown .. cmd[s].tx.nonce - 1 :
           slot[m] # NoTx /\ via[m] # s

\* The pool that pending-tx lists holds no transaction the node did not
\* take: an error of broadcast_tx skips NonceManager::submit.
RecordedWasTaken ==
  \A s \in Sessions, n \in Nonces :
     pending[s][n] # NoTx => <<NoTx, pending[s][n]>> \in taken

\* No command spends twice: whatever answers are lost and whatever the node
\* evicts, it took at most one transaction per command given, and none of a
\* command that still waits to broadcast.  (Nothing is retried.)
Unspent(s) == cmd[s].at \notin {"idle", "submit"}

OneTxPerCommand ==
  Cardinality(taken) + Cardinality({s \in Sessions : Unspent(s)}) <= commands

-----------------------------------------------------------------------------
(* What the documents say and the code does not do.                        *)

\* rbf.rs:74, ADR-0008:54, troubleshooting.md: the replacement has the nonce
\* of the original, so that only one of the two can be mined.
Mined(t) == \E n \in Nonces : n < height /\ slot[n] = t

NotBothMined ==
  \A r \in taken : r[1] # NoTx => ~ (Mined(r[1]) /\ Mined(r[2]))

\* commands.md:143 and the help text of --dry-run: do not sign or broadcast.
DryRunSilent ==
  [][\A n \in Nonces, s \in Sessions :
       Arrives(n) /\ via'[n] = s => ~ cmd[s].dry]_vars

=============================================================================
