------------------------------ MODULE Session -------------------------------
(***************************************************************************)
(* The wallet side of a Session (src/cli/session.rs): create-wallet,       *)
(* import-mnemonic, use, unlock and the signing commands of                *)
(* src/cli/commands.rs, on top of the keystore that all sessions share.    *)
(*                                                                         *)
(* active_alias and unlocked_signer live in the process; the commands of   *)
(* one session run one after the other, but the password prompt and the    *)
(* key derivation of `unlock` take long, and other processes create,       *)
(* rename and delete wallets meanwhile.                                    *)
(***************************************************************************)
EXTENDS Keystore

CONSTANTS
  Users,        \* the processes that are evm-cli sessions
  NoAlias,      \* no active wallet
  NoSigner      \* locked

ASSUME SessionAssumption ==
  /\ Users \subseteq Procs
  /\ NoAlias \notin Aliases
  /\ NoSigner \notin Keys

VARIABLES
  active,       \* process -> active_alias
  signer,       \* process -> key of unlocked_signer
  prompt,       \* process -> is `unlock` past its prompt?
  everStored    \* history: alias -> keys that were ever complete under it

session == <<active, signer, prompt, everStored>>
vars == <<dir, data, op, faults, active, signer, prompt, everStored>>

SessionTypeInv ==
  /\ TypeOK
  /\ active \in [Users -> Aliases \cup {NoAlias}]
  /\ signer \in [Users -> Keys \cup {NoSigner}]
  /\ prompt \in [Users -> BOOLEAN]
  /\ everStored \in [Aliases -> SUBSET Keys]

Init ==
  /\ StoreInit
  /\ active = [p \in Users |-> NoAlias]
  /\ signer = [p \in Users |-> NoSigner]
  /\ prompt = [p \in Users |-> FALSE]
  /\ everStored = [a \in Aliases |-> {}]

\* The command loop: one command at a time.
AtPrompt(p) == op[p] = None /\ ~ prompt[p]

\* The history after a step of the store.
Remember ==
  everStored' =
    [a \in Aliases |-> everStored[a] \cup ({wallets'[a]} \cap Keys)]

-----------------------------------------------------------------------------
\* MUTANT of Use: the signer of the previous wallet stays.
UseKeepsSigner(p, a) ==
  /\ AtPrompt(p)
  /\ a \in Listed
  /\ active' = [active EXCEPT ![p] = a]
  /\ UNCHANGED <<store, signer, prompt, everStored>>

\* cmd_use: the alias must be listed; the signer is dropped, even when the
\* alias was active before.
Use(p, a) ==
  /\ AtPrompt(p)
  /\ a \in Listed
  /\ active' = [active EXCEPT ![p] = a]
  /\ signer' = [signer EXCEPT ![p] = NoSigner]
  /\ UNCHANGED <<store, prompt, everStored>>

\* cmd_unlock: an active wallet, then the password prompt.
Unlock(p) ==
  /\ AtPrompt(p)
  /\ active[p] # NoAlias
  /\ prompt' = [prompt EXCEPT ![p] = TRUE]
  /\ UNCHANGED <<store, active, signer, everStored>>

\* load() with the right password.
LoadOk(p) ==
  /\ prompt[p]
  /\ wallets[active[p]] \in Keys
  /\ signer' = [signer EXCEPT ![p] = wallets[active[p]]]
  /\ prompt' = [prompt EXCEPT ![p] = FALSE]
  /\ UNCHANGED <<store, active, everStored>>

\* MUTANT of LoadFails: the error leaves an undefined signer behind.
LoadFailsOpen(p) ==
  /\ prompt[p]
  /\ signer' = [signer EXCEPT ![p] = Torn]
  /\ prompt' = [prompt EXCEPT ![p] = FALSE]
  /\ UNCHANGED <<store, active, everStored>>

\* load() with a wrong password, no file, or a torn one: InvalidPassword in
\* each case, and a signer unlocked before stays.
LoadFails(p) ==
  /\ prompt[p]
  /\ prompt' = [prompt EXCEPT ![p] = FALSE]
  /\ UNCHANGED <<store, active, signer, everStored>>

\* create-wallet and import-mnemonic touch neither active_alias nor the signer.
Wallet(p) ==
  /\ ~ prompt[p]
  /\ CreateSteps(p)
  /\ Remember
  /\ UNCHANGED <<active, signer, prompt>>

\* A command of a session fails half-way; what ends the process is Quit.
Fail(p) ==
  /\ GiveUp(p)
  /\ UNCHANGED session

\* Another process, in any method of the keystore; `delete` and `rename`
\* have no command of evm-cli.
Other(p) ==
  /\ StoreStep(p)
  /\ Remember
  /\ UNCHANGED <<active, signer, prompt>>

\* exit, Ctrl-D, or a kill at the prompt, and a new session.
Quit(p) ==
  /\ op[p] = None
  /\ active' = [active EXCEPT ![p] = NoAlias]
  /\ signer' = [signer EXCEPT ![p] = NoSigner]
  /\ prompt' = [prompt EXCEPT ![p] = FALSE]
  /\ UNCHANGED <<store, everStored>>

Next ==
  \/ \E p \in Users :
       \/ \E a \in Aliases : Use(p, a)
       \/ Unlock(p) \/ LoadOk(p) \/ LoadFails(p)
       \/ Wallet(p) \/ Fail(p) \/ Quit(p)
  \/ \E p \in Procs \ Users : Other(p)

Spec == Init /\ [][Next]_vars

-----------------------------------------------------------------------------
\* can_sign.
CanSign(p) == active[p] # NoAlias /\ signer[p] # NoSigner

\* Whoever signs signs with the wallet the session says is active: the key
\* in memory was stored under the active alias, whatever other processes
\* did to the directory since (cmd_use drops the signer; cmd_unlock loads
\* the active alias).  A signer without an active wallet does not exist.
SignsAsActive ==
  \A p \in Users :
     signer[p] # NoSigner =>
        /\ CanSign(p)
        /\ signer[p] \in everStored[active[p]]

=============================================================================
