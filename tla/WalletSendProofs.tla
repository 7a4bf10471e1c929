-------------------------- MODULE WalletSendProofs --------------------------
(***************************************************************************)
(* Theorems of WalletSend, for any number of sessions, destinations and    *)
(* nonces and any bounds.                                                  *)
(***************************************************************************)
EXTENDS WalletSend, FiniteSetTheorems, TLAPS

-----------------------------------------------------------------------------
(* The inductive invariant.                                                *)

\* What the command shows of the transaction it is going to sign.
ShownSummary(c) == [to |-> c.to, data |-> c.kind = "token", fee |-> c.fee]

\* The locals of a command fit the place where it is: it has an original
\* exactly if it is a bump or cancel, it has signed only after Build, what
\* it shows is what it signed, and what it broadcasts was said yes to.
Sane(c) ==
  /\ c.kind \in Rbf <=> c.of # NoTx
  /\ c.at \in {"idle", "lookup", "again", "estimate", "nonce", "build"} =>
        c.tx = NoTx
  /\ c.at \in {"lookup", "again"} => c.kind \in Rbf
  /\ c.at = "confirm" /\ c.kind \in Rbf => c.tx = NoTx
  /\ c.at \in {"broadcast", "submit"} => c.tx # NoTx
  /\ c.kind \notin Rbf /\ c.at \in {"confirm", "broadcast"} =>
        c.tx # NoTx /\ Summary(c.tx) = ShownSummary(c)
  /\ c.kind \notin Rbf /\ c.at = "broadcast" => c.seen = ShownSummary(c)
  /\ c.at = "submit" => c.kind \notin Rbf

SaneCommands == \A s \in Sessions : Sane(cmd[s])

\* Nobody put a transaction where there is none.
EmptySlots == \A n \in Nonces : slot[n] = NoTx => via[n] = NoSession

\* A command on its way to the pool was answered by the node.
AnsweredWasTaken ==
  \A s \in Sessions : cmd[s].at = "submit" => <<NoTx, cmd[s].tx>> \in taken

\* OneTxPerCommand, with the finiteness that its cardinalities need.
Waiting == {s \in Sessions : Unspent(s)}
Accounts ==
  /\ IsFiniteSet(taken)
  /\ IsFiniteSet(Waiting)
  /\ OneTxPerCommand

IInv ==
  /\ TypeInv
  /\ SaneCommands
  /\ EmptySlots
  /\ AnsweredWasTaken
  /\ RecordedWasTaken
  /\ OwnSlotFree
  /\ Accounts

LEMMA InitInv == Init => IInv
<1> SUFFICES ASSUME Init PROVE IInv
  OBVIOUS
<1>1. /\ Idle \in Command /\ Sane(Idle) /\ Idle.at = "idle"
      /\ 0 \in 0 .. MaxNonce + 1 /\ 0 \in 0 .. MaxCommands
      /\ 0 \in 0 .. MaxDrops /\ 1 \in Fees
  BY SendAssumption
     DEF Idle, Command, Places, Kinds, Sane, Rbf, Nonces, Fees, ShownSummary
<1>2. \A s \in Sessions : cmd[s] = Idle
  BY DEF Init
<1>3. TypeInv
  BY <1>1 DEF Init, TypeInv
<1>4. SaneCommands /\ EmptySlots /\ AnsweredWasTaken /\ RecordedWasTaken /\ OwnSlotFree
  BY <1>1, <1>2
     DEF Init, SaneCommands, EmptySlots, AnsweredWasTaken, RecordedWasTaken,
         OwnSlotFree
<1>5. Waiting = {} /\ taken = {} /\ commands = 0
  BY <1>1, <1>2 DEF Init, Waiting, Unspent
<1>6. Accounts
  BY <1>5, FS_EmptySet DEF Accounts, OneTxPerCommand, Waiting
<1> QED
  BY <1>3, <1>4, <1>6 DEF IInv

-----------------------------------------------------------------------------
(* What a step does to the command of its session.                         *)

\* What a session is going to broadcast it has just signed for a free nonce,
\* or had already.
FreshOrSame(s, c) ==
  c.at \in {"confirm", "broadcast"} /\ c.tx # NoTx =>
     \/ cmd[s].at = "confirm" /\ c.tx = cmd[s].tx
     \/ c.tx \in Tx /\ slot[c.tx.nonce] = NoTx

Continues(s, c) ==
  /\ c \in Command
  /\ Go(s, c)
  /\ Sane(c)
  /\ FreshOrSame(s, c)
  /\ c.at = "submit" => c.tx = cmd[s].tx /\ <<NoTx, c.tx>> \in taken'

LEMMA IdleSane == Idle \in Command /\ Sane(Idle) /\ Idle.at = "idle"
BY SendAssumption
   DEF Idle, Command, Places, Kinds, Sane, Rbf, Nonces, Fees, ShownSummary

LEMMA IdleContinues ==
  ASSUME NEW s \in Sessions, Go(s, Idle) PROVE Continues(s, Idle)
BY IdleSane DEF Continues, FreshOrSame

LEMMA StartContinues ==
  ASSUME TypeInv, NEW s \in Sessions, Start(s)
  PROVE  \E c : Continues(s, c)
<1>1. ASSUME NEW dry \in BOOLEAN, NEW kind \in {"eth", "token"}, NEW to \in Dests,
             StartSend(s, kind, to, dry)
      PROVE  \E c : Continues(s, c)
  <2> DEFINE c == [Idle EXCEPT !.at = "estimate", !.kind = kind, !.to = to,
                               !.dry = dry]
  <2>1. c \in Command /\ c.at = "estimate"
    BY IdleSane DEF Command, Places, Kinds
  <2>2. Sane(c)
    BY DEF Idle, Sane, Rbf, ShownSummary
  <2>3. Go(s, c)
    BY <1>1 DEF StartSend, Begin
  <2> QED
    BY <2>1, <2>2, <2>3 DEF Continues, FreshOrSame
<1>2. ASSUME NEW dry \in BOOLEAN, NEW kind \in Rbf, NEW t \in Met(s),
             StartRbf(s, kind, t, dry)
      PROVE  \E c : Continues(s, c)
  <2> DEFINE c == [Idle EXCEPT !.at = "lookup", !.kind = kind, !.of = t,
                               !.dry = dry]
  <2>0. t \in Tx /\ t # NoTx
    BY SendAssumption DEF Met, TypeInv
  <2>1. c \in Command /\ c.at = "lookup"
    BY <2>0, IdleSane DEF Command, Places, Kinds, Rbf
  <2>2. Sane(c)
    BY <2>0 DEF Idle, Sane, Rbf, ShownSummary
  <2>3. Go(s, c)
    BY <1>2 DEF StartRbf, Begin
  <2> QED
    BY <2>1, <2>2, <2>3 DEF Continues, FreshOrSame
<1> QED
  BY <1>1, <1>2 DEF Start

\* The fields of a command that is already running.
LEMMA CommandFields ==
  ASSUME TypeInv, NEW s \in Sessions
  PROVE  /\ cmd[s] \in Command
         /\ cmd[s].kind \in Kinds /\ cmd[s].fee \in Fees
         /\ cmd[s].to \in Dests \cup {Self}
         /\ cmd[s].of \in Tx \cup {NoTx} /\ cmd[s].tx \in Tx \cup {NoTx}
BY DEF TypeInv, Command

\* A step that only moves on to a place before the signature.
LEMMA MoveContinues ==
  ASSUME TypeInv, SaneCommands, NEW s \in Sessions,
         cmd[s].tx = NoTx,
         NEW a \in {"again", "estimate", "nonce", "build", "confirm"},
         a \in {"again", "confirm"} => cmd[s].kind \in Rbf,
         NEW f \in Fees, NEW n \in Nonces,
         Go(s, [cmd[s] EXCEPT !.at = a, !.fee = f, !.shown = n])
  PROVE  \E c : Continues(s, c)
<1> DEFINE c == [cmd[s] EXCEPT !.at = a, !.fee = f, !.shown = n]
<1>1. c \in Command /\ c.at = a /\ c.tx = NoTx
  BY CommandFields DEF Command, Places
<1>2. Sane(c)
  BY CommandFields DEF SaneCommands, Sane, Command
<1> QED
  BY <1>1, <1>2 DEF Continues, FreshOrSame

\* The same for a step that changes the place only.
LEMMA PlaceContinues ==
  ASSUME TypeInv, SaneCommands, NEW s \in Sessions,
         cmd[s].tx = NoTx,
         NEW a \in {"again", "estimate", "nonce", "build", "confirm"},
         a \in {"again", "confirm"} => cmd[s].kind \in Rbf,
         Go(s, [cmd[s] EXCEPT !.at = a])
  PROVE  \E c : Continues(s, c)
<1>1. cmd[s].fee \in Fees /\ cmd[s].shown \in Nonces
  BY CommandFields DEF Command
<1>2. [cmd[s] EXCEPT !.at = a]
        = [cmd[s] EXCEPT !.at = a, !.fee = cmd[s].fee, !.shown = cmd[s].shown]
  BY CommandFields DEF Command
<1> QED
  BY <1>1, <1>2, MoveContinues

LEMMA SignedType ==
  ASSUME TypeInv, SaneCommands, NEW s \in Sessions, NEW n \in Nonces
  PROVE  /\ Signed(cmd[s], n) \in Tx
         /\ Signed(cmd[s], n) # NoTx
         /\ Signed(cmd[s], n).nonce = n
         /\ cmd[s].kind \notin Rbf =>
               Summary(Signed(cmd[s], n)) = ShownSummary(cmd[s])
<1>1. Recipient(cmd[s]) \in Dests \cup {Self}
  <2>1. CASE cmd[s].kind = "bump"
    <3>1. cmd[s].of \in Tx
      BY <2>1, CommandFields DEF SaneCommands, Sane, Rbf
    <3> QED
      BY <2>1, <3>1 DEF Recipient, Tx
  <2>2. CASE cmd[s].kind = "cancel"
    BY <2>2 DEF Recipient
  <2>3. CASE cmd[s].kind \notin Rbf
    BY <2>3, CommandFields DEF Recipient, Rbf
  <2> QED
    BY <2>1, <2>2, <2>3 DEF Rbf
<1>2. Signed(cmd[s], n) \in Tx
  BY <1>1, CommandFields DEF Signed, Tx
<1>3. cmd[s].kind \notin Rbf => Recipient(cmd[s]) = cmd[s].to
  BY DEF Recipient, Rbf
<1> QED
  BY <1>2, <1>3, SendAssumption DEF Signed, Summary, ShownSummary

LEMMA BuildContinues ==
  ASSUME TypeInv, SaneCommands, NEW s \in Sessions, Build(s)
  PROVE  \E c : Continues(s, c)
<1>1. PICK n \in Nonces :
        /\ PendingNonce(n)
        /\ LET c == [cmd[s] EXCEPT !.tx = Signed(cmd[s], n)] IN
           \/ c.kind \in Rbf /\ Go(s, [c EXCEPT !.at = "broadcast"])
           \/ c.kind \notin Rbf /\ c.dry /\ Go(s, Idle)
           \/ c.kind \notin Rbf /\ ~ c.dry /\ Go(s, [c EXCEPT !.at = "confirm"])
  BY DEF Build
<1> DEFINE t == Signed(cmd[s], n)
           built == [cmd[s] EXCEPT !.tx = t]
<1>2. /\ t \in Tx /\ t # NoTx /\ t.nonce = n /\ slot[n] = NoTx
      /\ cmd[s].kind \notin Rbf => Summary(t) = ShownSummary(cmd[s])
  BY <1>1, SignedType DEF PendingNonce
<1>3. \/ built.kind \in Rbf /\ Go(s, [built EXCEPT !.at = "broadcast"])
      \/ Go(s, Idle)
      \/ built.kind \notin Rbf /\ Go(s, [built EXCEPT !.at = "confirm"])
  BY <1>1
<1> HIDE DEF t
<1>4. built \in Command /\ built.kind = cmd[s].kind /\ built.tx = t
  BY <1>2, CommandFields DEF Command
<1>5. CASE Go(s, Idle)
  BY <1>5, IdleContinues
<1>6. ASSUME NEW a \in {"broadcast", "confirm"},
             a = "broadcast" <=> cmd[s].kind \in Rbf,
             Go(s, [built EXCEPT !.at = a])
      PROVE  \E c : Continues(s, c)
  <2> DEFINE c == [built EXCEPT !.at = a]
  <2>1. c \in Command /\ c.at = a /\ c.tx = t
    BY <1>4 DEF Command, Places
  <2>2. Sane(c)
    BY <1>2, <1>4, <1>6, CommandFields
       DEF SaneCommands, Sane, Command, ShownSummary
  <2> QED
    BY <1>2, <1>6, <2>1, <2>2 DEF Continues, FreshOrSame
<1> QED
  BY <1>3, <1>4, <1>5, <1>6

LEMMA SayYesContinues ==
  ASSUME TypeInv, SaneCommands, NEW s \in Sessions, SayYes(s)
  PROVE  \E c : Continues(s, c)
<1>1. CASE cmd[s].kind \in Rbf
  <2>1. cmd[s].tx = NoTx /\ Go(s, [cmd[s] EXCEPT !.at = "again"])
    BY <1>1 DEF SayYes, SaneCommands, Sane
  <2> QED
    BY <1>1, <2>1, PlaceContinues
<1>2. CASE cmd[s].kind \notin Rbf
  <2> DEFINE said == ShownSummary(cmd[s])
             c == [cmd[s] EXCEPT !.at = "broadcast", !.seen = said]
  <2>1. Go(s, c)
    BY <1>2 DEF SayYes, ShownSummary
  <2>2. said \in Summaries
    BY CommandFields DEF ShownSummary, Summaries
  <2>3. /\ c \in Command /\ c.at = "broadcast" /\ c.tx = cmd[s].tx
        /\ c.kind = cmd[s].kind /\ c.seen = said /\ c.of = cmd[s].of
        /\ ShownSummary(c) = said
    BY <2>2, CommandFields DEF Command, Places, ShownSummary
  <2>4. cmd[s].at = "confirm"
    BY DEF SayYes
  <2>5. Sane(c)
    BY <1>2, <2>3, <2>4 DEF SaneCommands, Sane
  <2> QED
    BY <2>1, <2>3, <2>4, <2>5 DEF Continues, FreshOrSame
<1> QED
  BY <1>1, <1>2

LEMMA BroadcastContinues ==
  ASSUME TypeInv, SaneCommands, NEW s \in Sessions, Broadcast(s)
  PROVE  \E c : Continues(s, c)
<1>1. CASE cmd[s].kind \in Rbf
  BY <1>1, IdleContinues DEF Broadcast
<1>2. CASE cmd[s].kind \notin Rbf
  <2> DEFINE c == [cmd[s] EXCEPT !.at = "submit"]
  <2>1. Go(s, c) /\ cmd[s].at = "broadcast"
    BY <1>2 DEF Broadcast
  <2>2. /\ c \in Command /\ c.at = "submit" /\ c.tx = cmd[s].tx
        /\ c.kind = cmd[s].kind /\ c.of = cmd[s].of
    BY CommandFields DEF Command, Places
  <2>3. cmd[s].of = NoTx /\ Sane(c)
    BY <1>2, <2>1, <2>2 DEF SaneCommands, Sane
  <2>4. <<NoTx, cmd[s].tx>> \in taken'
    BY <2>3 DEF Broadcast, Takes
  <2> QED
    BY <2>1, <2>2, <2>3, <2>4 DEF Continues, FreshOrSame
<1> QED
  BY <1>1, <1>2

LEMMA StepContinues ==
  ASSUME TypeInv, SaneCommands, NEW s \in Sessions, Step(s)
  PROVE  \E c : Continues(s, c)
<1>1. cmd[s].at \in {"lookup", "again", "estimate", "nonce", "build"} =>
        cmd[s].tx = NoTx
  BY DEF SaneCommands, Sane
<1>2. CASE Lookup(s)
  <2> DEFINE a == IF cmd[s].dry THEN "again" ELSE "confirm"
  <2>1. cmd[s].kind \in Rbf
    BY <1>2 DEF Lookup, SaneCommands, Sane
  <2> QED
    BY <1>1, <1>2, <2>1, PlaceContinues DEF Lookup
<1>3. CASE LookupAgain(s)
  BY <1>1, <1>3, PlaceContinues DEF LookupAgain
<1>4. CASE EstimateFees(s)
  <2>1. PICK a \in {"build", "nonce"}, f \in Fees :
          Go(s, [cmd[s] EXCEPT !.at = a, !.fee = f])
    BY <1>4 DEF EstimateFees, TypeInv
  <2>2. [cmd[s] EXCEPT !.at = a, !.fee = f]
          = [cmd[s] EXCEPT !.at = a, !.fee = f, !.shown = cmd[s].shown]
    BY CommandFields DEF Command
  <2>3. cmd[s].tx = NoTx /\ cmd[s].shown \in Nonces
    BY <1>1, <1>4, CommandFields DEF EstimateFees, Command
  <2> QED
    BY <2>1, <2>2, <2>3, MoveContinues
<1>5. CASE ReadNonce(s)
  <2>1. PICK n \in Nonces : Go(s, [cmd[s] EXCEPT !.at = "build", !.shown = n])
    BY <1>5 DEF ReadNonce
  <2>2. [cmd[s] EXCEPT !.at = "build", !.shown = n]
          = [cmd[s] EXCEPT !.at = "build", !.fee = cmd[s].fee, !.shown = n]
    BY CommandFields DEF Command
  <2>3. cmd[s].tx = NoTx /\ cmd[s].fee \in Fees
    BY <1>1, <1>5, CommandFields DEF ReadNonce
  <2> QED
    BY <2>1, <2>2, <2>3, MoveContinues
<1>6. CASE Build(s)
  BY <1>6, BuildContinues
<1>7. CASE SayYes(s)
  BY <1>7, SayYesContinues
<1>8. CASE Broadcast(s)
  BY <1>8, BroadcastContinues
<1>9. CASE LookupFails(s) \/ SayNo(s) \/ RpcError(s) \/ BroadcastLost(s)
             \/ AnswerLost(s) \/ Submit(s) \/ Restart(s)
  <2>1. Go(s, Idle)
    BY <1>9
       DEF LookupFails, SayNo, RpcError, BroadcastLost, AnswerLost, Submit, Restart
  <2> QED
    BY <2>1, IdleContinues
<1> QED
  BY <1>2, <1>3, <1>4, <1>5, <1>6, <1>7, <1>8, <1>9 DEF Step, Continue

-----------------------------------------------------------------------------
(* What a step does to everything else.                                    *)

\* Only the command of session s changes.
LEMMA CommandFrame ==
  ASSUME TypeInv, SaneCommands, NEW s \in Sessions, NEW c, Continues(s, c)
  PROVE  /\ cmd' \in [Sessions -> Command]
         /\ SaneCommands'
         /\ cmd'[s] = c
         /\ \A q \in Sessions : q # s => cmd'[q] = cmd[q]
<1>1. cmd \in [Sessions -> Command] /\ c \in Command /\ Sane(c)
  BY DEF TypeInv, Continues
<1>2. cmd' = [cmd EXCEPT ![s] = c]
  BY DEF Continues, Go
<1> QED
  BY <1>1, <1>2 DEF SaneCommands

\* Adding an element adds at most one to the size.
LEMMA AddOne ==
  ASSUME NEW S, NEW x, IsFiniteSet(S)
  PROVE  /\ IsFiniteSet(S \cup {x})
         /\ Cardinality(S) \in Nat /\ Cardinality(S \cup {x}) \in Nat
         /\ Cardinality(S \cup {x}) <= Cardinality(S) + 1
<1>1. /\ IsFiniteSet(S \cup {x})
      /\ Cardinality(S \cup {x}) =
           IF x \in S THEN Cardinality(S) ELSE Cardinality(S) + 1
  BY FS_AddElement
<1>2. Cardinality(S) \in Nat
  BY FS_CardinalityType
<1> QED
  BY <1>1, <1>2

\* The books after a step that spends nothing, that begins a command, and
\* that spends one.
LEMMA BooksKept ==
  ASSUME Accounts, TypeInv,
         taken' = taken, commands' = commands, Waiting' \subseteq Waiting
  PROVE  Accounts'
<1>1. /\ IsFiniteSet(Waiting') /\ Cardinality(Waiting') <= Cardinality(Waiting)
      /\ Cardinality(Waiting') \in Nat /\ Cardinality(Waiting) \in Nat
      /\ Cardinality(taken) \in Nat
  BY FS_Subset, FS_CardinalityType DEF Accounts
<1>2. Cardinality(taken) + Cardinality(Waiting) <= commands
  BY DEF Accounts, OneTxPerCommand, Waiting
<1>3. Cardinality(taken') + Cardinality(Waiting') <= commands' /\ IsFiniteSet(taken')
  BY <1>1, <1>2, SendAssumption DEF TypeInv, Accounts
<1> QED
  BY <1>1, <1>3 DEF Accounts, OneTxPerCommand, Waiting

LEMMA BooksBegin ==
  ASSUME Accounts, TypeInv, NEW s \in Sessions,
         taken' = taken, commands' = commands + 1,
         Waiting' \subseteq Waiting \cup {s}
  PROVE  Accounts'
<1>1. /\ IsFiniteSet(Waiting \cup {s})
      /\ Cardinality(Waiting \cup {s}) <= Cardinality(Waiting) + 1
      /\ Cardinality(Waiting \cup {s}) \in Nat /\ Cardinality(Waiting) \in Nat
      /\ Cardinality(taken) \in Nat
  BY AddOne, FS_CardinalityType DEF Accounts
<1>2. /\ IsFiniteSet(Waiting') /\ Cardinality(Waiting') \in Nat
      /\ Cardinality(Waiting') <= Cardinality(Waiting \cup {s})
  BY <1>1, FS_Subset, FS_CardinalityType
<1>3. Cardinality(taken) + Cardinality(Waiting) <= commands
  BY DEF Accounts, OneTxPerCommand, Waiting
<1>4. Cardinality(taken') + Cardinality(Waiting') <= commands' /\ IsFiniteSet(taken')
  BY <1>1, <1>2, <1>3, SendAssumption DEF TypeInv, Accounts
<1> QED
  BY <1>2, <1>4 DEF Accounts, OneTxPerCommand, Waiting

LEMMA BooksSpend ==
  ASSUME Accounts, TypeInv, NEW s \in Waiting, NEW x,
         taken' = taken \cup {x}, commands' = commands,
         Waiting' \subseteq Waiting \ {s}
  PROVE  Accounts'
<1>1. /\ IsFiniteSet(Waiting \ {s})
      /\ Cardinality(Waiting \ {s}) = Cardinality(Waiting) - 1
      /\ Cardinality(Waiting \ {s}) \in Nat /\ Cardinality(Waiting) \in Nat
  BY FS_RemoveElement, FS_CardinalityType DEF Accounts
<1>2. /\ IsFiniteSet(Waiting') /\ Cardinality(Waiting') \in Nat
      /\ Cardinality(Waiting') <= Cardinality(Waiting \ {s})
  BY <1>1, FS_Subset, FS_CardinalityType
<1>3. /\ IsFiniteSet(taken') /\ Cardinality(taken') \in Nat
      /\ Cardinality(taken) \in Nat
      /\ Cardinality(taken') <= Cardinality(taken) + 1
  BY AddOne DEF Accounts
<1>4. Cardinality(taken) + Cardinality(Waiting) <= commands
  BY DEF Accounts, OneTxPerCommand, Waiting
<1>5. Cardinality(taken') + Cardinality(Waiting') <= commands'
  BY <1>1, <1>2, <1>3, <1>4, SendAssumption DEF TypeInv
<1> QED
  BY <1>2, <1>3, <1>5 DEF Accounts, OneTxPerCommand, Waiting

\* A step of a command that leaves the pools and the node alone.
LEMMA InsideInv ==
  ASSUME IInv, NEW s \in Sessions, NEW c, Continues(s, c),
         UNCHANGED <<pending, market, node>>,
         \/ commands' = commands /\ Unspent(s)
         \/ commands' = commands + 1 /\ commands < MaxCommands
  PROVE  IInv'
<1>1. /\ cmd' \in [Sessions -> Command] /\ SaneCommands' /\ cmd'[s] = c
      /\ \A q \in Sessions : q # s => cmd'[q] = cmd[q]
  BY CommandFrame DEF IInv
<1>2. TypeInv'
  BY <1>1, SendAssumption DEF IInv, TypeInv, node
<1>3. EmptySlots' /\ RecordedWasTaken'
  BY DEF IInv, EmptySlots, RecordedWasTaken, node
<1>4. AnsweredWasTaken'
  BY <1>1 DEF IInv, AnsweredWasTaken, Continues, node
<1>5. OwnSlotFree'
  <2> SUFFICES ASSUME NEW q \in Sessions,
                      cmd'[q].at \in {"confirm", "broadcast"}, cmd'[q].tx # NoTx
               PROVE  via[cmd'[q].tx.nonce] # q
    BY DEF OwnSlotFree, node
  <2>1. CASE q # s \/ (cmd[s].at = "confirm" /\ c.tx = cmd[s].tx)
    BY <1>1, <2>1 DEF IInv, OwnSlotFree
  <2>2. CASE q = s /\ c.tx \in Tx /\ slot[c.tx.nonce] = NoTx
    <3>1. c.tx.nonce \in Nonces
      BY <2>2 DEF Tx
    <3> QED
      BY <1>1, <2>2, <3>1, SendAssumption DEF IInv, EmptySlots
  <2> QED
    BY <1>1, <2>1, <2>2 DEF Continues, FreshOrSame
<1>6. Accounts'
  <2>1. taken' = taken
    BY DEF node
  <2>2. CASE commands' = commands /\ Unspent(s)
    <3>1. Waiting' \subseteq Waiting
      BY <1>1, <2>2 DEF Waiting, Unspent
    <3> QED
      BY <2>1, <2>2, <3>1, BooksKept DEF IInv
  <2>3. CASE commands' = commands + 1
    <3>1. Waiting' \subseteq Waiting \cup {s}
      BY <1>1 DEF Waiting, Unspent
    <3> QED
      BY <2>1, <2>3, <3>1, BooksBegin DEF IInv
  <2> QED
    BY <2>2, <2>3
<1> QED
  BY <1>1, <1>2, <1>3, <1>4, <1>5, <1>6 DEF IInv

\* The node takes the transaction of session s.
LEMMA TakesInv ==
  ASSUME IInv, NEW s \in Sessions, NEW c, Continues(s, c),
         Takes(s), cmd[s].at = "broadcast", c.at \in {"idle", "submit"},
         UNCHANGED <<pending, market, commands>>
  PROVE  IInv'
<1> DEFINE t == cmd[s].tx
<1>1. /\ cmd' \in [Sessions -> Command] /\ SaneCommands' /\ cmd'[s] = c
      /\ \A q \in Sessions : q # s => cmd'[q] = cmd[q]
  BY CommandFrame DEF IInv
<1>2. t \in Tx /\ t # NoTx /\ t.nonce \in Nonces /\ cmd[s].of \in Tx \cup {NoTx}
  BY CommandFields, SendAssumption DEF IInv, SaneCommands, Sane, Tx
<1>3. /\ slot' = [slot EXCEPT ![t.nonce] = t]
      /\ via' = [via EXCEPT ![t.nonce] = s]
      /\ taken' = taken \cup {<<cmd[s].of, t>>}
      /\ height' = height /\ drops' = drops
      /\ pending' = pending /\ market' = market /\ commands' = commands
  BY DEF Takes
<1> HIDE DEF t
<1>4. TypeInv'
  <2>1. /\ slot' \in [Nonces -> Tx \cup {NoTx}]
        /\ \A n \in Nonces : slot'[n] # NoTx => slot'[n].nonce = n
        /\ via' \in [Nonces -> Sessions \cup {NoSession}]
    BY <1>2, <1>3 DEF IInv, TypeInv
  <2>2. taken' \subseteq (Tx \cup {NoTx}) \X Tx
    BY <1>2, <1>3 DEF IInv, TypeInv
  <2> QED
    BY <1>1, <1>3, <2>1, <2>2 DEF IInv, TypeInv
<1>5. EmptySlots'
  BY <1>2, <1>3 DEF IInv, TypeInv, EmptySlots
<1>6. AnsweredWasTaken' /\ RecordedWasTaken'
  BY <1>1, <1>3 DEF IInv, AnsweredWasTaken, RecordedWasTaken, Continues
<1>7. OwnSlotFree'
  <2> SUFFICES ASSUME NEW q \in Sessions,
                      cmd'[q].at \in {"confirm", "broadcast"}, cmd'[q].tx # NoTx
               PROVE  via'[cmd'[q].tx.nonce] # q
    BY DEF OwnSlotFree
  <2>1. q # s /\ cmd'[q] = cmd[q]
    BY <1>1
  <2>2. cmd[q].tx.nonce \in Nonces
    BY <2>1, CommandFields DEF IInv, Tx
  <2>3. via[cmd[q].tx.nonce] # q
    BY <2>1 DEF IInv, OwnSlotFree
  <2> QED
    BY <1>2, <1>3, <2>1, <2>2, <2>3 DEF IInv, TypeInv
<1>8. Accounts'
  <2>1. s \in Waiting
    BY DEF Waiting, Unspent
  <2>2. Waiting' \subseteq Waiting \ {s}
    BY <1>1 DEF Waiting, Unspent
  <2> QED
    BY <1>3, <2>1, <2>2, BooksSpend DEF IInv
<1> QED
  BY <1>1, <1>4, <1>5, <1>6, <1>7, <1>8 DEF IInv

\* Submit and Restart: the command is over, and the session's pool has the
\* transaction that was answered or is empty.
LEMMA PoolInv ==
  ASSUME IInv, NEW s \in Sessions, Submit(s) \/ Restart(s)
  PROVE  IInv'
<1>1. /\ Continues(s, Idle) /\ UNCHANGED <<market, commands, node>>
  BY IdleContinues DEF Submit, Restart
<1>2. /\ cmd' \in [Sessions -> Command] /\ SaneCommands' /\ cmd'[s] = Idle
      /\ \A q \in Sessions : q # s => cmd'[q] = cmd[q]
  BY <1>1, CommandFrame DEF IInv
<1>3. /\ cmd[s].shown \in Nonces /\ cmd[s].tx \in Tx \cup {NoTx}
      /\ pending \in [Sessions -> [Nonces -> Tx \cup {NoTx}]]
  BY CommandFields DEF IInv, TypeInv, Command
<1>4. /\ pending' \in [Sessions -> [Nonces -> Tx \cup {NoTx}]]
      /\ RecordedWasTaken'
  <2>1. CASE Submit(s)
    <3>1. <<NoTx, cmd[s].tx>> \in taken
      BY <2>1 DEF Submit, IInv, AnsweredWasTaken
    <3>2. pending' = [pending EXCEPT ![s] = [pending[s] EXCEPT
                                               ![cmd[s].shown] = cmd[s].tx]]
      BY <2>1 DEF Submit
    <3> QED
      BY <1>1, <1>3, <3>1, <3>2 DEF IInv, RecordedWasTaken, node
  <2>2. CASE Restart(s)
    <3>1. pending' = [pending EXCEPT ![s] = [n \in Nonces |-> NoTx]]
      BY <2>2 DEF Restart
    <3> QED
      BY <1>1, <1>3, <3>1 DEF IInv, RecordedWasTaken, node
  <2> QED
    BY <2>1, <2>2
<1>5. TypeInv'
  BY <1>1, <1>2, <1>4 DEF IInv, TypeInv, node
<1>6. EmptySlots'
  BY <1>1 DEF IInv, EmptySlots, node
<1>7. AnsweredWasTaken' /\ OwnSlotFree'
  BY <1>1, <1>2, IdleSane DEF IInv, AnsweredWasTaken, OwnSlotFree, node
<1>8. Accounts'
  <2>1. Waiting' \subseteq Waiting
    BY <1>2, IdleSane DEF Waiting, Unspent
  <2> QED
    BY <1>1, <2>1, BooksKept DEF IInv, node
<1> QED
  BY <1>2, <1>4, <1>5, <1>6, <1>7, <1>8 DEF IInv

LEMMA StepInv ==
  ASSUME IInv, NEW s \in Sessions, Start(s) \/ Step(s)
  PROVE  IInv'
<1>1. CASE Start(s)
  <2>1. PICK c : Continues(s, c)
    BY <1>1, StartContinues DEF IInv
  <2>2. /\ UNCHANGED <<pending, market, node>>
        /\ commands' = commands + 1 /\ commands < MaxCommands
    BY <1>1 DEF Start, StartSend, StartRbf, Begin
  <2> QED
    BY <2>1, <2>2, InsideInv
<1>2. CASE Step(s) /\ Inside(s) /\ Unspent(s)
  <2>1. PICK c : Continues(s, c)
    BY <1>2, StepContinues DEF IInv
  <2> QED
    BY <1>2, <2>1, InsideInv DEF Inside
<1>3. CASE Broadcast(s) \/ AnswerLost(s)
  <2>1. PICK c : Continues(s, c)
    BY <1>3, StepContinues DEF IInv, Step, Continue
  <2>2. c.at \in {"idle", "submit"}
    <3>1. cmd'[s] = c
      BY <2>1, CommandFrame DEF IInv
    <3>2. cmd'[s] = Idle \/ cmd'[s] = [cmd[s] EXCEPT !.at = "submit"]
      BY <1>3 DEF Broadcast, AnswerLost, Go, IInv, TypeInv
    <3>3. [cmd[s] EXCEPT !.at = "submit"].at = "submit"
      BY CommandFields DEF IInv, Command
    <3> QED
      BY <3>1, <3>2, <3>3, IdleSane
  <2> QED
    BY <1>3, <2>1, <2>2, TakesInv DEF Broadcast, AnswerLost
<1>4. CASE Submit(s) \/ Restart(s)
  BY <1>4, PoolInv
<1>5. Step(s) => \/ Inside(s) /\ Unspent(s)
                 \/ Broadcast(s) \/ AnswerLost(s) \/ Submit(s) \/ Restart(s)
  BY DEF Step, Continue, Lookup, LookupAgain, LookupFails, EstimateFees,
         ReadNonce, Build, SayYes, SayNo, RpcError, BroadcastLost, Inside, Unspent
<1> QED
  BY <1>1, <1>2, <1>3, <1>4, <1>5

LEMMA NextInv == IInv /\ [Next]_vars => IInv'
<1> SUFFICES ASSUME IInv, [Next]_vars PROVE IInv'
  OBVIOUS
<1>1. ASSUME NEW s \in Sessions, Start(s) \/ Step(s) PROVE IInv'
  BY <1>1, StepInv
<1>2. ASSUME UNCHANGED <<cmd, pending, taken, commands>>,
             TypeInv', EmptySlots', OwnSlotFree'
      PROVE  IInv'
  <2>1. SaneCommands' /\ AnsweredWasTaken' /\ RecordedWasTaken'
    BY <1>2 DEF IInv, SaneCommands, AnsweredWasTaken, RecordedWasTaken
  <2>2. Waiting' \subseteq Waiting
    BY <1>2 DEF Waiting, Unspent
  <2>3. Accounts'
    BY <1>2, <2>2, BooksKept DEF IInv
  <2> QED
    BY <1>2, <2>1, <2>3 DEF IInv
<1>3. CASE Mine
  <2>1. TypeInv' /\ EmptySlots' /\ OwnSlotFree'
    BY <1>3, SendAssumption
       DEF Mine, IInv, TypeInv, EmptySlots, OwnSlotFree, Nonces
  <2> QED
    BY <1>2, <1>3, <2>1 DEF Mine
<1>4. ASSUME NEW n \in Nonces, Drop(n) PROVE IInv'
  <2>1. TypeInv' /\ EmptySlots'
    BY <1>4, SendAssumption DEF Drop, IInv, TypeInv, EmptySlots
  <2>2. OwnSlotFree'
    <3>1. \A q \in Sessions, m \in Nonces : via[m] # q => via'[m] # q
      BY <1>4, SendAssumption DEF Drop, IInv, TypeInv
    <3>2. \A q \in Sessions : cmd[q].tx # NoTx => cmd[q].tx.nonce \in Nonces
      BY CommandFields DEF IInv, Tx
    <3> QED
      BY <1>4, <3>1, <3>2 DEF Drop, IInv, OwnSlotFree
  <2> QED
    BY <1>2, <1>4, <2>1, <2>2 DEF Drop
<1>5. ASSUME NEW f \in Fees, MarketMoves(f) PROVE IInv'
  <2>1. TypeInv' /\ EmptySlots' /\ OwnSlotFree'
    BY <1>5 DEF MarketMoves, IInv, TypeInv, EmptySlots, OwnSlotFree, node
  <2> QED
    BY <1>2, <1>5, <2>1 DEF MarketMoves, node
<1>6. CASE UNCHANGED vars
  <2>1. TypeInv' /\ EmptySlots' /\ OwnSlotFree'
    BY <1>6 DEF vars, IInv, TypeInv, EmptySlots, OwnSlotFree, node
  <2> QED
    BY <1>2, <1>6, <2>1 DEF vars, node
<1> QED
  BY <1>1, <1>3, <1>4, <1>5, <1>6 DEF Next, Environment

-----------------------------------------------------------------------------
(* DriftFromOthers.  Without evictions the nonces fill up from below; a    *)
(* command that has read a nonce finds nothing of its own from there on.   *)

Filled(n) == \A m \in Nonces : m < n => slot[m] # NoTx

\* The command has read the nonce of its summary and has not signed.
Reading(c) == c.kind \notin Rbf /\ c.at = "build"

Foreseen(s, c) ==
  /\ c.tx # NoTx => Filled(c.tx.nonce)
  /\ Reading(c) =>
       /\ Filled(c.shown)
       /\ \A m \in Nonces : c.shown <= m => via[m] # s
  /\ Signing(c) =>
       /\ c.shown <= c.tx.nonce
       /\ \A m \in c.shown .. c.tx.nonce - 1 : slot[m] # NoTx /\ via[m] # s

DriftInv ==
  drops = 0 =>
    /\ Filled(height)
    /\ \A n \in Nonces : slot[n] # NoTx => Filled(n)
    /\ \A s \in Sessions : Foreseen(s, cmd[s])

LEMMA NoncesAreNat == /\ Nonces \subseteq Nat
                      /\ \A n \in Nonces, m \in Nat : m < n => m \in Nonces
BY SendAssumption DEF Nonces

LEMMA DriftInit == Init => DriftInv
BY IdleSane, SendAssumption
   DEF Init, DriftInv, Filled, Foreseen, Reading, Signing, Idle, Nonces

\* The command goes on and the node stays as it is.
LEMMA DriftInside ==
  ASSUME IInv, DriftInv, NEW s \in Sessions, NEW c, Go(s, c), UNCHANGED node,
         drops = 0 => Foreseen(s, c)
  PROVE  DriftInv'
<1> SUFFICES ASSUME drops' = 0 PROVE
      /\ Filled(height)'
      /\ (\A n \in Nonces : slot[n] # NoTx => Filled(n))'
      /\ \A q \in Sessions : Foreseen(q, cmd[q])'
  BY DEF DriftInv
<1>1. drops = 0 /\ slot' = slot /\ via' = via /\ height' = height
  BY DEF node
<1>2. \A q \in Sessions : Foreseen(q, cmd'[q])
  <2>1. \A q \in Sessions : cmd'[q] = IF q = s THEN c ELSE cmd[q]
    BY DEF Go, IInv, TypeInv
  <2> QED
    BY <1>1, <2>1 DEF DriftInv
<1>3. \A q \in Sessions : Foreseen(q, cmd[q])'
  BY <1>1, <1>2 DEF Foreseen, Filled
<1> QED
  BY <1>1, <1>3 DEF DriftInv, Filled

\* What the pending count of the node means when nothing is evicted.
LEMMA PendingMeans ==
  ASSUME IInv, DriftInv, drops = 0, NEW n \in Nonces, PendingNonce(n)
  PROVE  /\ Filled(n)
         /\ \A m \in Nonces : n <= m => slot[m] = NoTx /\ via[m] = NoSession
<1>1. Filled(n)
  <2> SUFFICES ASSUME NEW m \in Nonces, m < n PROVE slot[m] # NoTx
    BY DEF Filled
  <2>1. CASE m < height
    BY <2>1 DEF DriftInv, Filled
  <2>2. CASE ~ (m < height)
    <3>1. height <= m
      BY <2>2, NoncesAreNat, SendAssumption DEF IInv, TypeInv
    <3> QED
      BY <3>1 DEF PendingNonce
  <2> QED
    BY <2>1, <2>2
<1>2. ASSUME NEW m \in Nonces, n <= m PROVE slot[m] = NoTx
  <2>1. slot[n] = NoTx
    BY DEF PendingNonce
  <2>2. n < m => ~ Filled(m)
    BY <2>1 DEF Filled
  <2> QED
    BY <1>2, <2>1, <2>2, NoncesAreNat DEF DriftInv
<1> QED
  BY <1>1, <1>2 DEF IInv, EmptySlots

LEMMA DriftBuild ==
  ASSUME IInv, DriftInv, NEW s \in Sessions, Build(s)
  PROVE  DriftInv'
<1>1. PICK n \in Nonces :
        /\ PendingNonce(n)
        /\ LET c == [cmd[s] EXCEPT !.tx = Signed(cmd[s], n)] IN
           \/ c.kind \in Rbf /\ Go(s, [c EXCEPT !.at = "broadcast"])
           \/ c.kind \notin Rbf /\ c.dry /\ Go(s, Idle)
           \/ c.kind \notin Rbf /\ ~ c.dry /\ Go(s, [c EXCEPT !.at = "confirm"])
  BY DEF Build
<1>2. cmd[s].at = "build" /\ UNCHANGED node /\ cmd[s] \in Command
  BY CommandFields DEF Build, Inside, IInv
<1>3. Signed(cmd[s], n) # NoTx /\ Signed(cmd[s], n).nonce = n
  BY <1>2, SignedType, SendAssumption DEF Signed, IInv
<1>4. PICK c : /\ Go(s, c)
               /\ \/ c = Idle
                  \/ /\ c.tx = Signed(cmd[s], n) /\ c.kind = cmd[s].kind
                     /\ c.shown = cmd[s].shown
                     /\ c.at \in {"broadcast", "confirm"}
                     /\ c.kind \in Rbf \/ c.at = "confirm"
  <2> DEFINE d(a) == [cmd[s] EXCEPT !.tx = Signed(cmd[s], n), !.at = a]
  <2>1. \A a \in Places :
          /\ d(a).tx = Signed(cmd[s], n) /\ d(a).kind = cmd[s].kind
          /\ d(a).shown = cmd[s].shown /\ d(a).at = a
    BY <1>2 DEF Command
  <2>2. "broadcast" \in Places /\ "confirm" \in Places
    BY DEF Places
  <2>3. [cmd[s] EXCEPT !.tx = Signed(cmd[s], n)].kind = cmd[s].kind
    BY <1>2 DEF Command
  <2>4. \/ cmd[s].kind \in Rbf /\ Go(s, d("broadcast"))
        \/ Go(s, Idle)
        \/ Go(s, d("confirm"))
    BY <1>1, <2>3
  <2> HIDE DEF d
  <2>5. CASE cmd[s].kind \in Rbf /\ Go(s, d("broadcast"))
    BY <2>1, <2>2, <2>5
  <2>6. CASE Go(s, d("confirm"))
    BY <2>1, <2>2, <2>6
  <2> QED
    BY <2>4, <2>5, <2>6
<1>5. drops = 0 => Foreseen(s, c)
  <2> SUFFICES ASSUME drops = 0, c # Idle PROVE Foreseen(s, c)
    BY IdleSane DEF Foreseen, Reading, Signing, Idle
  <2>1. Filled(n) /\ slot[n] = NoTx
    BY <1>1, PendingMeans, NoncesAreNat
  <2>2. ~ Reading(c) /\ c.tx.nonce = n
    BY <1>3, <1>4 DEF Reading
  <2>3. ASSUME Signing(c)
        PROVE  /\ c.shown <= n
               /\ \A m \in c.shown .. n - 1 : slot[m] # NoTx /\ via[m] # s
    <3>1. Reading(cmd[s]) /\ Foreseen(s, cmd[s])
      BY <1>2, <1>4, <2>3 DEF Signing, Reading, DriftInv
    <3>2. /\ Filled(c.shown) /\ \A m \in Nonces : c.shown <= m => via[m] # s
          /\ c.shown \in Nonces
      BY <1>2, <1>4, <3>1 DEF Foreseen, Command
    <3>3. c.shown \in Nat /\ n \in Nat
      BY <3>2, NoncesAreNat
    <3>4. ~ (n < c.shown)
      BY <2>1, <3>2 DEF Filled
    <3>5. \A m \in c.shown .. n - 1 : m \in Nat /\ m < n /\ c.shown <= m
      BY <3>3
    <3>6. \A m \in c.shown .. n - 1 : m \in Nonces
      BY <3>5, NoncesAreNat
    <3>7. c.shown <= n
      BY <3>3, <3>4
    <3> QED
      BY <2>1, <3>2, <3>5, <3>6, <3>7 DEF Filled
  <2> QED
    BY <2>1, <2>2, <2>3 DEF Foreseen
<1> QED
  BY <1>2, <1>4, <1>5, DriftInside

LEMMA DriftReadNonce ==
  ASSUME IInv, DriftInv, NEW s \in Sessions, ReadNonce(s)
  PROVE  DriftInv'
<1>1. PICK n \in Nonces :
        PendingNonce(n) /\ Go(s, [cmd[s] EXCEPT !.at = "build", !.shown = n])
  BY DEF ReadNonce
<1> DEFINE c == [cmd[s] EXCEPT !.at = "build", !.shown = n]
<1>2. c.tx = NoTx /\ c.at = "build" /\ c.shown = n
  BY CommandFields DEF ReadNonce, IInv, SaneCommands, Sane, Command
<1>3. NoSession # s
  BY SendAssumption
<1>4. drops = 0 => Foreseen(s, c)
  BY <1>1, <1>2, <1>3, PendingMeans DEF Foreseen, Reading, Signing
<1> QED
  BY <1>1, <1>4, DriftInside DEF ReadNonce, Inside

\* The node takes the transaction of s, whose command is over for it.
LEMMA DriftTakes ==
  ASSUME IInv, DriftInv, NEW s \in Sessions, cmd[s].at = "broadcast", Takes(s),
         NEW c, Go(s, c),
         c = Idle \/ (c.at = "submit" /\ c.tx = cmd[s].tx)
  PROVE  DriftInv'
<1> SUFFICES ASSUME drops' = 0 PROVE
      /\ Filled(height)'
      /\ (\A n \in Nonces : slot[n] # NoTx => Filled(n))'
      /\ \A q \in Sessions : Foreseen(q, cmd[q])'
  BY DEF DriftInv
<1> DEFINE t == cmd[s].tx
<1>1. t \in Tx /\ t # NoTx /\ t.nonce \in Nonces
  BY CommandFields DEF IInv, SaneCommands, Sane, Tx
<1>2. /\ drops = 0 /\ height' = height
      /\ slot' = [slot EXCEPT ![t.nonce] = t]
      /\ via' = [via EXCEPT ![t.nonce] = s]
      /\ slot \in [Nonces -> Tx \cup {NoTx}] /\ via \in [Nonces -> Sessions \cup {NoSession}]
  BY DEF Takes, IInv, TypeInv
<1> HIDE DEF t
<1>3. \A n \in Nonces : /\ slot[n] # NoTx => slot'[n] # NoTx
                        /\ slot'[n] # NoTx => slot[n] # NoTx \/ n = t.nonce
                        /\ \A q \in Sessions : q # s /\ via[n] # q => via'[n] # q
  BY <1>1, <1>2
<1>4. Filled(t.nonce)
  BY <1>1, <1>2 DEF DriftInv, Foreseen, t
<1> DEFINE FilledNow(n) == \A m \in Nonces : m < n => slot'[m] # NoTx
<1>5. \A n : Filled(n) => FilledNow(n)
  BY <1>3 DEF Filled
<1>6. FilledNow(height) /\ \A n \in Nonces : slot'[n] # NoTx => FilledNow(n)
  BY <1>2, <1>3, <1>4, <1>5 DEF DriftInv
<1>7. ASSUME NEW q \in Sessions PROVE Foreseen(q, cmd[q])'
  <2>1. CASE q = s
    <3>1. cmd'[q] = c /\ cmd[s] \in Command
      BY <2>1, CommandFields DEF Go, IInv, TypeInv
    <3>2. /\ c.tx # NoTx => c.tx = t
          /\ c.at # "build" /\ c.at \notin {"confirm", "broadcast"}
      BY IdleSane DEF t, Idle
    <3>3. c.tx # NoTx => FilledNow(c.tx.nonce)
      BY <1>4, <1>5, <3>2
    <3> QED
      BY <3>1, <3>2, <3>3 DEF Foreseen, Filled, Reading, Signing
  <2>2. CASE q # s
    <3>1. cmd'[q] = cmd[q] /\ Foreseen(q, cmd[q]) /\ cmd[q] \in Command
      BY <1>2, <2>2, CommandFields DEF Go, IInv, TypeInv, DriftInv
    <3>2. cmd[q].tx # NoTx => FilledNow(cmd[q].tx.nonce)
      BY <1>5, <3>1 DEF Foreseen
    <3>3. Reading(cmd[q]) =>
            /\ FilledNow(cmd[q].shown)
            /\ \A m \in Nonces : cmd[q].shown <= m => via'[m] # q
      BY <1>3, <1>5, <2>2, <3>1 DEF Foreseen
    <3>4. Signing(cmd[q]) =>
            /\ cmd[q].shown <= cmd[q].tx.nonce
            /\ \A m \in cmd[q].shown .. cmd[q].tx.nonce - 1 :
                 slot'[m] # NoTx /\ via'[m] # q
      <4> SUFFICES ASSUME Signing(cmd[q]), NEW m \in cmd[q].shown .. cmd[q].tx.nonce - 1
                   PROVE  slot'[m] # NoTx /\ via'[m] # q
        BY <3>1 DEF Foreseen
      <4>1. cmd[q].tx # NoTx
        BY DEF Signing, IInv, SaneCommands, Sane
      <4>2. cmd[q].shown \in Nat /\ cmd[q].tx.nonce \in Nonces /\ cmd[q].tx.nonce \in Nat
        BY <3>1, <4>1, NoncesAreNat DEF Command, Tx
      <4>3. m \in Nat /\ m < cmd[q].tx.nonce
        BY <4>2
      <4>4. m \in Nonces
        BY <4>2, <4>3, NoncesAreNat
      <4> QED
        BY <1>3, <2>2, <3>1, <4>4 DEF Foreseen
    <3> QED
      BY <3>1, <3>2, <3>3, <3>4 DEF Foreseen, Filled, Reading, Signing
  <2> QED
    BY <2>1, <2>2
<1> QED
  BY <1>2, <1>6, <1>7 DEF Filled

\* A command that has neither signed nor read its nonce is foreseen anyhow.
LEMMA BlankForeseen ==
  ASSUME NEW s, NEW c, c.tx = NoTx, ~ Reading(c), ~ Signing(c)
  PROVE  Foreseen(s, c)
BY DEF Foreseen

LEMMA DriftStart ==
  ASSUME IInv, DriftInv, NEW s \in Sessions, Start(s)
  PROVE  DriftInv'
<1>1. ASSUME NEW dry \in BOOLEAN, NEW kind \in {"eth", "token"}, NEW to \in Dests,
             StartSend(s, kind, to, dry)
      PROVE  DriftInv'
  <2> DEFINE c == [Idle EXCEPT !.at = "estimate", !.kind = kind, !.to = to,
                               !.dry = dry]
  <2>1. c.tx = NoTx /\ c.at = "estimate"
    BY DEF Idle
  <2>2. Foreseen(s, c)
    BY <2>1, BlankForeseen DEF Reading, Signing
  <2> QED
    BY <1>1, <2>2, DriftInside DEF StartSend, Begin
<1>2. ASSUME NEW dry \in BOOLEAN, NEW kind \in Rbf, NEW t, StartRbf(s, kind, t, dry)
      PROVE  DriftInv'
  <2> DEFINE c == [Idle EXCEPT !.at = "lookup", !.kind = kind, !.of = t,
                               !.dry = dry]
  <2>1. c.tx = NoTx /\ c.at = "lookup"
    BY DEF Idle
  <2>2. Foreseen(s, c)
    BY <2>1, BlankForeseen DEF Reading, Signing
  <2> QED
    BY <1>2, <2>2, DriftInside DEF StartRbf, Begin
<1> QED
  BY <1>1, <1>2 DEF Start

\* Lookup, LookupAgain and EstimateFees.
LEMMA DriftMoves ==
  ASSUME IInv, DriftInv, NEW s \in Sessions,
         Lookup(s) \/ LookupAgain(s) \/ EstimateFees(s)
  PROVE  DriftInv'
<1>1. cmd[s] \in Command /\ cmd[s].tx = NoTx /\ UNCHANGED node
  BY CommandFields
     DEF Lookup, LookupAgain, EstimateFees, Inside, IInv, SaneCommands, Sane
<1>2. PICK a \in {"again", "confirm", "estimate", "build", "nonce"}, f \in Fees :
        /\ Go(s, [cmd[s] EXCEPT !.at = a, !.fee = f])
        /\ a \in {"again", "confirm", "build"} => cmd[s].kind \in Rbf
  <2>1. cmd[s] = [cmd[s] EXCEPT !.fee = cmd[s].fee] /\ cmd[s].fee \in Fees
    BY <1>1 DEF Command
  <2>2. \A a : [cmd[s] EXCEPT !.at = a]
                 = [cmd[s] EXCEPT !.at = a, !.fee = cmd[s].fee]
    BY <1>1 DEF Command
  <2>3. CASE Lookup(s)
    <3>1. cmd[s].kind \in Rbf
      BY <2>3 DEF Lookup, IInv, SaneCommands, Sane
    <3> DEFINE a == IF cmd[s].dry THEN "again" ELSE "confirm"
    <3>2. a \in {"again", "confirm"} /\ Go(s, [cmd[s] EXCEPT !.at = a])
      BY <2>3 DEF Lookup
    <3> HIDE DEF a
    <3> QED
      BY <2>1, <2>2, <3>1, <3>2
  <2>4. CASE LookupAgain(s)
    BY <2>1, <2>2, <2>4 DEF LookupAgain
  <2>5. CASE EstimateFees(s)
    BY <2>5 DEF EstimateFees, IInv, TypeInv
  <2> QED
    BY <2>3, <2>4, <2>5
<1> DEFINE c == [cmd[s] EXCEPT !.at = a, !.fee = f]
<1>3. c.tx = NoTx /\ c.at = a /\ c.kind = cmd[s].kind
  BY <1>1 DEF Command
<1>4. Foreseen(s, c)
  BY <1>2, <1>3, BlankForeseen DEF Reading, Signing
<1> QED
  BY <1>1, <1>2, <1>4, DriftInside

LEMMA DriftSayYes ==
  ASSUME IInv, DriftInv, NEW s \in Sessions, SayYes(s)
  PROVE  DriftInv'
<1>1. /\ cmd[s] \in Command /\ cmd[s].at = "confirm" /\ UNCHANGED node
      /\ cmd[s].kind \in Rbf => cmd[s].tx = NoTx
  BY CommandFields DEF SayYes, Inside, IInv, SaneCommands, Sane
<1>2. CASE cmd[s].kind \in Rbf
  <2> DEFINE c == [cmd[s] EXCEPT !.at = "again"]
  <2>1. Go(s, c) /\ Foreseen(s, c)
    BY <1>1, <1>2, BlankForeseen DEF SayYes, Reading, Signing, Command
  <2> QED
    BY <1>1, <2>1, DriftInside
<1>3. CASE cmd[s].kind \notin Rbf
  <2> DEFINE c == [cmd[s] EXCEPT !.at = "broadcast",
                     !.seen = [to |-> cmd[s].to, data |-> cmd[s].kind = "token",
                               fee |-> cmd[s].fee]]
  <2>1. /\ Go(s, c) /\ c.at = "broadcast" /\ c.tx = cmd[s].tx
        /\ c.shown = cmd[s].shown
    BY <1>1, <1>3 DEF SayYes, Command
  <2>2. Signing(cmd[s])
    BY <1>1, <1>3 DEF Signing
  <2> HIDE DEF c
  <2>3. drops = 0 => Foreseen(s, c)
    BY <2>1, <2>2 DEF DriftInv, Foreseen, Reading
  <2> QED
    BY <1>1, <2>1, <2>3, DriftInside
<1> QED
  BY <1>2, <1>3

\* The steps after which the session is idle and the node as it was.
LEMMA DriftEnds ==
  ASSUME IInv, DriftInv, NEW s \in Sessions, Go(s, Idle), UNCHANGED node
  PROVE  DriftInv'
BY IdleSane, BlankForeseen, DriftInside DEF Idle, Reading, Signing

LEMMA DriftStep ==
  ASSUME IInv, DriftInv, NEW s \in Sessions, Step(s)
  PROVE  DriftInv'
<1>1. CASE Lookup(s) \/ LookupAgain(s) \/ EstimateFees(s)
  BY <1>1, DriftMoves
<1>2. CASE LookupFails(s) \/ SayNo(s) \/ RpcError(s) \/ BroadcastLost(s)
             \/ Submit(s) \/ Restart(s)
  BY <1>2, DriftEnds
     DEF LookupFails, SayNo, RpcError, BroadcastLost, Submit, Restart, Inside
<1>3. CASE Broadcast(s) \/ AnswerLost(s)
  <2>1. cmd[s].at = "broadcast" /\ Takes(s)
    BY <1>3 DEF Broadcast, AnswerLost
  <2>2. CASE Go(s, Idle)
    BY <2>1, <2>2, DriftTakes
  <2>3. CASE Go(s, [cmd[s] EXCEPT !.at = "submit"])
    <3> DEFINE c == [cmd[s] EXCEPT !.at = "submit"]
    <3>1. c.at = "submit" /\ c.tx = cmd[s].tx
      BY CommandFields DEF IInv, Command
    <3> QED
      BY <2>1, <2>3, <3>1, DriftTakes
  <2> QED
    BY <1>3, <2>2, <2>3 DEF Broadcast, AnswerLost
<1> QED
  BY <1>1, <1>2, <1>3, DriftReadNonce, DriftBuild, DriftSayYes
     DEF Step, Continue

LEMMA DriftNext == IInv /\ DriftInv /\ [Next]_vars => DriftInv'
<1> SUFFICES ASSUME IInv, DriftInv, [Next]_vars PROVE DriftInv'
  OBVIOUS
<1>1. ASSUME NEW s \in Sessions, Start(s) \/ Step(s) PROVE DriftInv'
  BY <1>1, DriftStart, DriftStep
<1>2. CASE Mine
  <2>1. /\ UNCHANGED <<cmd, slot, via, drops>> /\ height' = height + 1
        /\ slot[height] # NoTx /\ height \in Nonces
    BY <1>2 DEF Mine
  <2>2. Filled(height) => Filled(height + 1)
    <3>1. \A m \in Nonces : m < height + 1 => m < height \/ m = height
      BY <2>1, NoncesAreNat
    <3> QED
      BY <2>1, <3>1 DEF Filled
  <2>3. \A s \in Sessions : Foreseen(s, cmd[s]) => Foreseen(s, cmd[s])'
    BY <2>1 DEF Foreseen, Filled
  <2> QED
    BY <2>1, <2>2, <2>3 DEF DriftInv, Filled
<1>3. ASSUME NEW n \in Nonces, Drop(n) PROVE DriftInv'
  BY <1>3, SendAssumption DEF Drop, DriftInv, IInv, TypeInv
<1>4. CASE (\E f \in Fees : MarketMoves(f)) \/ UNCHANGED vars
  <2>1. UNCHANGED <<cmd, slot, height, via, drops>>
    BY <1>4 DEF MarketMoves, vars, node
  <2>2. \A s \in Sessions : Foreseen(s, cmd[s]) => Foreseen(s, cmd[s])'
    BY <2>1 DEF Foreseen, Filled
  <2> QED
    BY <2>1, <2>2 DEF DriftInv, Filled
<1> QED
  BY <1>1, <1>2, <1>3, <1>4 DEF Next, Environment

-----------------------------------------------------------------------------
(* The theorems.                                                           *)

\* Every state is well typed, whatever the bounds.
THEOREM TypeCorrect == Spec => []TypeInv
<1>1. IInv => TypeInv
  BY DEF IInv
<1> QED
  BY InitInv, NextInv, <1>1, PTL DEF Spec

\* The pool of a session holds only transactions that the node took
\* (commands.rs, the `?` of broadcast_tx before NonceManager::submit).
THEOREM RecordedTaken == Spec => []RecordedWasTaken
<1>1. IInv => RecordedWasTaken
  BY DEF IInv
<1> QED
  BY InitInv, NextInv, <1>1, PTL DEF Spec

\* A session never signs for a nonce that it holds in the pool itself.
THEOREM NoSelfConflict == Spec => []OwnSlotFree
<1>1. IInv => OwnSlotFree
  BY DEF IInv
<1> QED
  BY InitInv, NextInv, <1>1, PTL DEF Spec

\* The summary's nonce differs from the signed one only because of others.
THEOREM OnlyOthersDrift == Spec => []DriftFromOthers
<1>1. DriftInv => DriftFromOthers
  BY DEF DriftInv, DriftFromOthers, Foreseen
<1> QED
  BY InitInv, NextInv, DriftInit, DriftNext, <1>1, PTL DEF Spec

\* The node takes at most one transaction per command: nothing is retried.
THEOREM AtMostOneTx == Spec => []OneTxPerCommand
<1>1. IInv => OneTxPerCommand
  BY DEF IInv, Accounts
<1> QED
  BY InitInv, NextInv, <1>1, PTL DEF Spec

\* P0-9: what a send puts on the chain is what the user said yes to.
THEOREM WhatIsShownIsSent == Spec => ShownIsSent
<1> DEFINE Shown ==
      \A n \in Nonces, s \in Sessions :
        (Arrives(n) /\ via'[n] = s /\ cmd[s].kind \notin Rbf) =>
           cmd[s].seen = Summary(slot'[n])
<1>1. IInv /\ [Next]_vars => [Shown]_vars
  <2> SUFFICES ASSUME IInv, Next, NEW n \in Nonces, NEW s \in Sessions,
                      Arrives(n), via'[n] = s, cmd[s].kind \notin Rbf
               PROVE  cmd[s].seen = Summary(slot'[n])
    OBVIOUS
  <2>1. PICK q \in Sessions : Takes(q) /\ cmd[q].at = "broadcast"
    <3>1. slot' # slot /\ slot'[n] # NoTx /\ slot'[n] # slot[n]
      BY DEF Arrives
    <3>2. ~ \E m \in Nonces : Drop(m)
      BY <3>1 DEF Drop, IInv, TypeInv
    <3>3. PICK q \in Sessions : Start(q) \/ Step(q)
      BY <3>1, <3>2 DEF Next, Environment, Mine, MarketMoves, node
    <3>4. ~ Start(q) /\ ~ Inside(q) /\ ~ Submit(q) /\ ~ Restart(q)
          /\ ~ BroadcastLost(q)
      BY <3>1 DEF Start, StartSend, StartRbf, Begin, Inside, Submit, Restart,
                  BroadcastLost, node
    <3>5. Broadcast(q) \/ AnswerLost(q)
      BY <3>3, <3>4 DEF Step, Continue, Lookup, LookupAgain, LookupFails, EstimateFees,
                        ReadNonce, Build, SayYes, SayNo, RpcError
    <3> QED
      BY <3>5 DEF Broadcast, AnswerLost
  <2>2. /\ slot' = [slot EXCEPT ![cmd[q].tx.nonce] = cmd[q].tx]
        /\ via' = [via EXCEPT ![cmd[q].tx.nonce] = q]
    BY <2>1 DEF Takes
  <2>3. slot'[n] = cmd[q].tx /\ via'[n] = q
    BY <2>2 DEF Arrives, IInv, TypeInv
  <2>4. q = s
    BY <2>3
  <2> QED
    BY <2>1, <2>3, <2>4 DEF IInv, SaneCommands, Sane
<1> QED
  BY InitInv, NextInv, <1>1, PTL DEF Spec, ShownIsSent

=============================================================================
