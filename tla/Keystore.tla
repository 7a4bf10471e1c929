------------------------------ MODULE Keystore ------------------------------
(***************************************************************************)
(* KeystoreStore of src/keystore/mod.rs: one file per wallet, named after  *)
(* its alias, in a directory that all evm-cli processes share.             *)
(*                                                                         *)
(* Every method checks that a file exists and acts later, in system calls  *)
(* of its own, with no lock.  persist() is eth-keystore's encrypt_key: it  *)
(* creates or truncates the file and then writes it, in place.  A file is  *)
(* an inode: a writer keeps writing to what it opened, wherever a rename   *)
(* or a delete has put it.                                                 *)
(***************************************************************************)
EXTENDS Naturals, FiniteSets

CONSTANTS
  Procs,        \* processes that use the directory
  Aliases,      \* names that list() does not hide (no leading dot)
  Keys,         \* private keys
  Inodes,
  NoFile,       \* not an inode: no file has this name
  Torn,         \* not a key: a file without its contents
  MaxFaults     \* bound: how many operations are killed or fail

\* What an alias holds, to the abstract store, when it holds no key.
Absent == "absent"
Broken == "broken"

ASSUME KeystoreAssumption ==
  /\ NoFile \notin Inodes
  /\ Torn \notin Keys
  /\ Absent \notin Keys /\ Broken \notin Keys
  /\ MaxFaults \in Nat

VARIABLES
  dir,          \* alias -> inode
  data,         \* inode -> its contents
  op,           \* process -> the method it runs
  faults        \* history and bound: operations killed or failed half-way

store == <<dir, data, op, faults>>

-----------------------------------------------------------------------------
\* The method a process is in, past its checks.
None == [at |-> "none"]

Ops ==
  {None}
    \cup [at : {"encrypting"}, alias : Aliases, key : Keys]
    \cup [at : {"writing"}, alias : Aliases, key : Keys, file : Inodes]
    \cup [at : {"deleting"}, alias : Aliases]
    \cup [at : {"renaming"}, alias : Aliases, to : Aliases]

\* Type correctness.
TypeOK ==
  /\ dir \in [Aliases -> Inodes \cup {NoFile}]
  /\ data \in [Inodes -> Keys \cup {Torn}]
  /\ op \in [Procs -> Ops]
  /\ faults \in 0 .. MaxFaults

StoreInit ==
  /\ dir = [a \in Aliases |-> NoFile]
  /\ data = [i \in Inodes |-> Torn]
  /\ op = [p \in Procs |-> None]
  /\ faults = 0

Become(p, o) == op' = [op EXCEPT ![p] = o]

Exists(a) == dir[a] # NoFile

Writing(p, i) == op[p].at = "writing" /\ op[p].file = i

\* Inodes the file system can hand out.
Free ==
  {i \in Inodes : (\A a \in Aliases : dir[a] # i) /\ \A p \in Procs : ~ Writing(p, i)}

\* list(): torn files are listed too, nothing is decrypted.
Listed == {a \in Aliases : Exists(a)}

-----------------------------------------------------------------------------
(* The methods.                                                            *)

\* MUTANT of Create: the check for the alias is missing.
CreateUnchecked(p, a, k) ==
  /\ op[p] = None
  /\ Become(p, [at |-> "encrypting", alias |-> a, key |-> k])
  /\ UNCHANGED <<dir, data, faults>>

\* create() and import(): AliasExists, or derive and encrypt the key (the
\* scrypt of the encryption takes seconds).  The two differ in where the key
\* comes from.
Create(p, a, k) ==
  /\ op[p] = None
  /\ ~ Exists(a)
  /\ Become(p, [at |-> "encrypting", alias |-> a, key |-> k])
  /\ UNCHANGED <<dir, data, faults>>

\* persist(): File::create, which truncates a file that is there by now.
OpenFile(p) ==
  /\ op[p].at = "encrypting"
  /\ \E i \in IF Exists(op[p].alias) THEN {dir[op[p].alias]} ELSE Free :
       /\ dir' = [dir EXCEPT ![op[p].alias] = i]
       /\ data' = [data EXCEPT ![i] = Torn]
       /\ Become(p, [at |-> "writing", alias |-> op[p].alias,
                     key |-> op[p].key, file |-> i])
  /\ UNCHANGED faults

\* MUTANT of WriteFile: the contents are never flushed.
WriteNothing(p) ==
  /\ op[p].at = "writing"
  /\ Become(p, None)
  /\ UNCHANGED <<dir, data, faults>>

\* persist(): write_all.  The method returns Ok.
WriteFile(p) ==
  /\ op[p].at = "writing"
  /\ data' = [data EXCEPT ![op[p].file] = op[p].key]
  /\ Become(p, None)
  /\ UNCHANGED <<dir, faults>>

Delete(p, a) ==
  /\ op[p] = None
  /\ Exists(a)
  /\ Become(p, [at |-> "deleting", alias |-> a])
  /\ UNCHANGED <<dir, data, faults>>

\* remove_file; if the file is gone by now the method ends with an Io error.
Unlink(p) ==
  /\ op[p].at = "deleting"
  /\ dir' = [dir EXCEPT ![op[p].alias] = NoFile]
  /\ Become(p, None)
  /\ UNCHANGED <<data, faults>>

Rename(p, a, b) ==
  /\ op[p] = None
  /\ a # b
  /\ Exists(a)
  /\ ~ Exists(b)
  /\ Become(p, [at |-> "renaming", alias |-> a, to |-> b])
  /\ UNCHANGED <<dir, data, faults>>

\* MUTANT of MoveFile: a hard link that is never removed.
MoveFileLink(p) ==
  /\ op[p].at = "renaming"
  /\ dir' = [dir EXCEPT ![op[p].to] = dir[op[p].alias]]
  /\ Become(p, None)
  /\ UNCHANGED <<data, faults>>

\* fs::rename replaces what is at the new name by now; if nothing is at the
\* old one it fails and changes nothing.
MoveFile(p) ==
  /\ op[p].at = "renaming"
  /\ dir' = IF Exists(op[p].alias)
            THEN [dir EXCEPT ![op[p].alias] = NoFile,
                             ![op[p].to] = dir[op[p].alias]]
            ELSE dir
  /\ Become(p, None)
  /\ UNCHANGED <<data, faults>>

\* An I/O error or the death of the process: nothing is cleaned up.
GiveUp(p) ==
  /\ op[p] # None
  /\ faults < MaxFaults
  /\ faults' = faults + 1
  /\ Become(p, None)
  /\ UNCHANGED <<dir, data>>

-----------------------------------------------------------------------------
CreateSteps(p) ==
  \/ \E a \in Aliases, k \in Keys : Create(p, a, k)
  \/ OpenFile(p) \/ WriteFile(p)

StoreStep(p) ==
  \/ CreateSteps(p)
  \/ \E a \in Aliases : Delete(p, a) \/ \E b \in Aliases : Rename(p, a, b)
  \/ Unlink(p) \/ MoveFile(p) \/ GiveUp(p)

StoreNext == \E p \in Procs : StoreStep(p)

StoreSpec == StoreInit /\ [][StoreNext]_store

-----------------------------------------------------------------------------
\* No two aliases name the same file, so that no wallet is two wallets
\* (rename moves, create makes a new file or reuses the alias's own).
OneNamePerFile ==
  \A a, b \in Aliases : Exists(a) /\ dir[a] = dir[b] => a = b

\* A file without its contents is one somebody is still writing, or the
\* remains of an operation that was cut short (persist writes in place).
TornHasWriter ==
  \A a \in Aliases :
     Exists(a) /\ data[dir[a]] = Torn =>
        (\E p \in Procs : Writing(p, dir[a])) \/ faults > 0

\* The directory as the abstract store sees it.
wallets ==
  [a \in Aliases |->
     IF ~ Exists(a) THEN Absent
     ELSE IF data[dir[a]] = Torn THEN Broken ELSE data[dir[a]]]

Abstract == INSTANCE WalletStore WITH wallets <- wallets

\* A single process keeps every promise of the abstract store, also when it
\* is killed or fails half-way: create never overwrites, rename never
\* replaces, and a key that was stored stays until it is deleted.
KeepsWallets == Abstract!Spec

\* keystore/mod.rs:69, code_allocation.md:50: create ends with AliasExists when
\* the alias is in use, so that it never destroys a wallet.
CreateKeepsWallets ==
  [][\A p \in Procs :
       OpenFile(p) => wallets[op[p].alias] \notin Keys]_store

=============================================================================
