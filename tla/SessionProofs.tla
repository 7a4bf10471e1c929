--------------------------- MODULE SessionProofs ----------------------------
(***************************************************************************)
(* Theorems of Keystore and of Session, which extends it: what any number  *)
(* of processes keep in the directory, that a single one implements        *)
(* WalletStore, and what a session signs with next to all the others.      *)
(***************************************************************************)
EXTENDS Session, TLAPS

-----------------------------------------------------------------------------
(* The keystore.                                                           *)

\* The fields of a running method.
LEMMA OpFields ==
  ASSUME TypeOK, NEW p \in Procs
  PROVE  /\ op[p].at \in {"none", "encrypting", "writing", "deleting", "renaming"}
         /\ op[p].at = "none" <=> op[p] = None
         /\ op[p].at \in {"encrypting", "writing", "deleting", "renaming"} =>
               op[p].alias \in Aliases
         /\ op[p].at \in {"encrypting", "writing"} => op[p].key \in Keys
         /\ op[p].at = "writing" => op[p].file \in Inodes
         /\ op[p].at = "renaming" => op[p].to \in Aliases
BY DEF TypeOK, Ops, None

-----------------------------------------------------------------------------
(* Any number of processes.                                                *)

KInv == TypeOK /\ OneNamePerFile /\ TornHasWriter

LEMMA KInit == StoreInit => KInv
BY KeystoreAssumption
   DEF StoreInit, KInv, TypeOK, Ops, OneNamePerFile, TornHasWriter, Exists

\* Every method is a typed one.
LEMMA BecomeTypes ==
  ASSUME TypeOK, NEW p \in Procs, NEW o \in Ops, Become(p, o)
  PROVE  /\ op' \in [Procs -> Ops] /\ op'[p] = o
         /\ \A q \in Procs : q # p => op'[q] = op[q]
BY DEF TypeOK, Become

LEMMA NoneType == None \in Ops
BY DEF Ops

\* A method that passes its checks, before its first system call.
LEMMA BeginInv ==
  ASSUME KInv, NEW p \in Procs, NEW o \in Ops,
         op[p] = None, Become(p, o), UNCHANGED <<dir, data, faults>>
  PROVE  KInv'
<1>1. /\ op' \in [Procs -> Ops]
      /\ \A q \in Procs : q # p => op'[q] = op[q]
  BY BecomeTypes DEF KInv
<1>2. \A q \in Procs : \A i : Writing(q, i) => Writing(q, i)'
  BY <1>1 DEF Writing, None
<1> QED
  BY <1>1, <1>2 DEF KInv, TypeOK, OneNamePerFile, TornHasWriter, Exists

\* A method that ends and leaves every file as it is.
LEMMA EndInv ==
  ASSUME KInv, NEW p \in Procs, op[p].at # "writing" \/ faults' > 0,
         Become(p, None), data' = data, faults' \in 0 .. MaxFaults,
         faults' >= faults,
         dir' \in [Aliases -> Inodes \cup {NoFile}],
         \A a \in Aliases : dir'[a] # NoFile =>
            \E b \in Aliases : dir[b] = dir'[a],
         OneNamePerFile'
  PROVE  KInv'
<1>1. /\ op' \in [Procs -> Ops]
      /\ \A q \in Procs : q # p => op'[q] = op[q]
  BY BecomeTypes, NoneType DEF KInv
<1>2. TypeOK'
  BY <1>1 DEF KInv, TypeOK
<1>3. TornHasWriter'
  <2> SUFFICES ASSUME NEW a \in Aliases, dir'[a] # NoFile,
                      data[dir'[a]] = Torn, ~ faults' > 0
               PROVE  \E q \in Procs : Writing(q, dir[a])'
    BY DEF TornHasWriter, Exists
  <2>1. PICK b \in Aliases : dir[b] = dir'[a]
    OBVIOUS
  <2>2. ~ faults > 0
    BY KeystoreAssumption DEF KInv, TypeOK
  <2>3. PICK q \in Procs : Writing(q, dir[b])
    BY <2>1, <2>2 DEF KInv, TornHasWriter, Exists
  <2> QED
    BY <1>1, <2>1, <2>3 DEF Writing
<1> QED
  BY <1>2, <1>3 DEF KInv

LEMMA OpenFileInv ==
  ASSUME KInv, NEW p \in Procs, OpenFile(p)
  PROVE  KInv'
<1> DEFINE a == op[p].alias
<1>1. a \in Aliases /\ op[p].key \in Keys /\ op[p].at = "encrypting"
  BY OpFields DEF OpenFile, KInv
<1>2. PICK i \in IF Exists(a) THEN {dir[a]} ELSE Free :
        /\ dir' = [dir EXCEPT ![a] = i]
        /\ data' = [data EXCEPT ![i] = Torn]
        /\ Become(p, [at |-> "writing", alias |-> a, key |-> op[p].key, file |-> i])
  BY DEF OpenFile
<1> HIDE DEF a
<1>3. i \in Inodes /\ \A b \in Aliases : b # a => dir[b] # i
  <2>1. CASE Exists(a)
    BY <1>1, <1>2, <2>1 DEF KInv, TypeOK, OneNamePerFile, Exists
  <2>2. CASE ~ Exists(a)
    BY <1>2, <2>2 DEF Free
  <2> QED
    BY <2>1, <2>2
<1>4. [at |-> "writing", alias |-> a, key |-> op[p].key, file |-> i] \in Ops
  BY <1>1, <1>3 DEF Ops
<1>5. /\ op' \in [Procs -> Ops]
      /\ op'[p] = [at |-> "writing", alias |-> a, key |-> op[p].key, file |-> i]
      /\ \A q \in Procs : q # p => op'[q] = op[q]
  BY <1>2, <1>4, BecomeTypes DEF KInv
<1>6. TypeOK'
  BY <1>1, <1>2, <1>3, <1>5 DEF KInv, TypeOK, OpenFile
<1>7. OneNamePerFile'
  BY <1>1, <1>2, <1>3 DEF KInv, TypeOK, OneNamePerFile, Exists
<1>8. TornHasWriter'
  <2> SUFFICES ASSUME NEW b \in Aliases, dir'[b] # NoFile,
                      data'[dir'[b]] = Torn, ~ faults > 0
               PROVE  \E q \in Procs : Writing(q, dir[b])'
    BY DEF TornHasWriter, Exists, OpenFile
  <2>1. CASE b = a
    BY <1>1, <1>2, <1>5, <2>1 DEF KInv, TypeOK, Writing
  <2>2. CASE b # a
    <3>1. dir'[b] = dir[b] /\ data[dir[b]] = Torn
      BY <1>1, <1>2, <1>3, <2>2 DEF KInv, TypeOK
    <3>2. PICK q \in Procs : Writing(q, dir[b])
      BY <3>1 DEF KInv, TornHasWriter, Exists
    <3>3. q # p
      BY <1>1, <3>2 DEF Writing
    <3> QED
      BY <1>5, <3>1, <3>2, <3>3 DEF Writing
  <2> QED
    BY <2>1, <2>2
<1> QED
  BY <1>6, <1>7, <1>8 DEF KInv

LEMMA WriteFileInv ==
  ASSUME KInv, NEW p \in Procs, WriteFile(p)
  PROVE  KInv'
<1>1. op[p].file \in Inodes /\ op[p].key \in Keys
  BY OpFields DEF WriteFile, KInv
<1>2. /\ op' \in [Procs -> Ops]
      /\ \A q \in Procs : q # p => op'[q] = op[q]
  BY BecomeTypes, NoneType DEF WriteFile, KInv
<1>3. /\ dir' = dir /\ faults' = faults
      /\ data' = [data EXCEPT ![op[p].file] = op[p].key]
  BY DEF WriteFile
<1>4. TypeOK' /\ OneNamePerFile'
  BY <1>1, <1>2, <1>3 DEF KInv, TypeOK, OneNamePerFile, Exists
<1>5. TornHasWriter'
  <2> SUFFICES ASSUME NEW b \in Aliases, dir[b] # NoFile,
                      data'[dir[b]] = Torn, ~ faults > 0
               PROVE  \E q \in Procs : Writing(q, dir[b])'
    BY <1>3 DEF TornHasWriter, Exists
  <2>1. dir[b] # op[p].file /\ data[dir[b]] = Torn
    BY <1>1, <1>3, KeystoreAssumption DEF KInv, TypeOK
  <2>2. PICK q \in Procs : Writing(q, dir[b])
    BY <2>1 DEF KInv, TornHasWriter, Exists
  <2>3. q # p
    BY <2>1, <2>2 DEF Writing
  <2> QED
    BY <1>2, <1>3, <2>2, <2>3 DEF Writing
<1> QED
  BY <1>4, <1>5 DEF KInv

LEMMA StoreStepInv ==
  ASSUME KInv, NEW p \in Procs, StoreStep(p)
  PROVE  KInv'
<1>1. ASSUME NEW a \in Aliases, NEW k \in Keys, Create(p, a, k) PROVE KInv'
  <2>1. [at |-> "encrypting", alias |-> a, key |-> k] \in Ops
    BY DEF Ops
  <2> QED
    BY <1>1, <2>1, BeginInv DEF Create
<1>2. ASSUME NEW a \in Aliases, Delete(p, a) PROVE KInv'
  <2>1. [at |-> "deleting", alias |-> a] \in Ops
    BY DEF Ops
  <2> QED
    BY <1>2, <2>1, BeginInv DEF Delete
<1>3. ASSUME NEW a \in Aliases, NEW b \in Aliases, Rename(p, a, b) PROVE KInv'
  <2>1. [at |-> "renaming", alias |-> a, to |-> b] \in Ops
    BY DEF Ops
  <2> QED
    BY <1>3, <2>1, BeginInv DEF Rename
<1>4. CASE Unlink(p)
  <2>1. op[p].alias \in Aliases
    BY <1>4, OpFields DEF Unlink, KInv
  <2>2. dir' = [dir EXCEPT ![op[p].alias] = NoFile] /\ faults' = faults
    BY <1>4 DEF Unlink
  <2>3. /\ dir' \in [Aliases -> Inodes \cup {NoFile}]
        /\ \A a \in Aliases : dir'[a] # NoFile => dir[a] = dir'[a]
        /\ OneNamePerFile'
    BY <2>1, <2>2 DEF KInv, TypeOK, OneNamePerFile, Exists
  <2>4. faults' \in 0 .. MaxFaults /\ faults' >= faults
    BY <2>2, KeystoreAssumption DEF KInv, TypeOK
  <2> QED
    BY <1>4, <2>3, <2>4, EndInv DEF Unlink
<1>5. CASE MoveFile(p)
  <2>1. op[p].alias \in Aliases /\ op[p].to \in Aliases
    BY <1>5, OpFields DEF MoveFile, KInv
  <2>2. /\ dir' = IF Exists(op[p].alias)
                  THEN [dir EXCEPT ![op[p].alias] = NoFile,
                                   ![op[p].to] = dir[op[p].alias]]
                  ELSE dir
        /\ faults' = faults
    BY <1>5 DEF MoveFile
  <2>3. /\ dir' \in [Aliases -> Inodes \cup {NoFile}]
        /\ \A a \in Aliases : dir'[a] # NoFile =>
              \E b \in Aliases : dir[b] = dir'[a]
    BY <2>1, <2>2 DEF KInv, TypeOK
  <2>4. OneNamePerFile'
    BY <2>1, <2>2 DEF KInv, TypeOK, OneNamePerFile, Exists
  <2>5. faults' \in 0 .. MaxFaults /\ faults' >= faults
    BY <2>2, KeystoreAssumption DEF KInv, TypeOK
  <2> QED
    BY <1>5, <2>3, <2>4, <2>5, EndInv DEF MoveFile
<1>6. CASE GiveUp(p)
  <2>1. faults' \in 0 .. MaxFaults /\ faults' >= faults /\ faults' > 0
    BY <1>6, KeystoreAssumption DEF GiveUp, KInv, TypeOK
  <2>2. /\ dir' \in [Aliases -> Inodes \cup {NoFile}]
        /\ \A a \in Aliases : dir[a] = dir'[a]
        /\ OneNamePerFile'
    BY <1>6 DEF GiveUp, KInv, TypeOK, OneNamePerFile, Exists
  <2> QED
    BY <1>6, <2>1, <2>2, EndInv DEF GiveUp
<1> QED
  BY <1>1, <1>2, <1>3, <1>4, <1>5, <1>6, OpenFileInv, WriteFileInv
     DEF StoreStep, CreateSteps

LEMMA KNext == KInv /\ [StoreNext]_store => KInv'
<1> SUFFICES ASSUME KInv, [StoreNext]_store PROVE KInv'
  OBVIOUS
<1>1. CASE StoreNext
  BY <1>1, StoreStepInv DEF StoreNext
<1>2. CASE UNCHANGED store
  BY <1>2 DEF store, KInv, TypeOK, OneNamePerFile, TornHasWriter, Exists, Writing
<1> QED
  BY <1>1, <1>2

\* However many processes create, rename and delete wallets, no file has two
\* names, and a file without its contents has a writer or a fault behind it.
THEOREM FilesKept == StoreSpec => []OneNamePerFile /\ []TornHasWriter
<1>1. KInv => OneNamePerFile /\ TornHasWriter
  BY DEF KInv
<1> QED
  BY KInit, KNext, <1>1, PTL DEF StoreSpec

-----------------------------------------------------------------------------
(* Methods that keep apart.  Where no two processes have methods under way *)
(* on the same alias, nobody comes between the checks of a method and its  *)
(* system calls, so what a check found still holds.                        *)

\* The aliases that a running method is about.
Names(o) ==
  IF o.at = "none" THEN {}
  ELSE IF o.at = "renaming" THEN {o.alias, o.to} ELSE {o.alias}

MethodsApart ==
  \A p, q \in Procs : p # q => Names(op[p]) \cap Names(op[q]) = {}

Checked(o) ==
  /\ o.at = "encrypting" => ~ Exists(o.alias)
  /\ o.at = "writing" => dir[o.alias] = o.file /\ data[o.file] = Torn
  /\ o.at = "deleting" => Exists(o.alias)
  /\ o.at = "renaming" =>
        Exists(o.alias) /\ ~ Exists(o.to) /\ o.alias # o.to

ActsInv == KInv /\ \A p \in Procs : Checked(op[p])

LEMMA ActsInit == StoreInit => ActsInv
BY KInit DEF StoreInit, ActsInv, Checked, None

\* The abstract contents of an alias.
Contents(a) ==
  IF ~ Exists(a) THEN Absent
  ELSE IF data[dir[a]] = Torn THEN Broken ELSE data[dir[a]]

LEMMA WalletsOf ==
  /\ wallets = [a \in Aliases |-> Contents(a)]
  /\ wallets' = [a \in Aliases |-> Contents(a)']
BY DEF wallets, Contents, Exists

\* A step that leaves the files alone is a stutter of the abstract store.
LEMMA FilesSame ==
  ASSUME UNCHANGED <<dir, data>> PROVE wallets' = wallets
BY DEF wallets, Exists

LEMMA OpenFileReserves ==
  ASSUME ActsInv, NEW p \in Procs, OpenFile(p)
  PROVE  /\ Abstract!Reserve(op[p].alias)
         /\ op[p].alias \in Aliases
         /\ Checked(op[p])'
<1>1. PICK a \in Aliases : a = op[p].alias /\ ~ Exists(a) /\ op[p].key \in Keys
  BY OpFields DEF OpenFile, ActsInv, KInv, Checked
<1>2. PICK i \in Free :
        /\ dir' = [dir EXCEPT ![a] = i]
        /\ data' = [data EXCEPT ![i] = Torn]
        /\ Become(p, [at |-> "writing", alias |-> a, key |-> op[p].key, file |-> i])
  BY <1>1 DEF OpenFile
<1>3. /\ i \in Inodes /\ i # NoFile
      /\ dir \in [Aliases -> Inodes \cup {NoFile}]
      /\ data \in [Inodes -> Keys \cup {Torn}]
      /\ op \in [Procs -> Ops]
      /\ \A b \in Aliases : dir[b] # i
  BY <1>2, KeystoreAssumption DEF Free, ActsInv, KInv, TypeOK
<1>4. op'[p] = [at |-> "writing", alias |-> a, key |-> op[p].key, file |-> i]
  BY <1>2, <1>3 DEF Become
<1>5. Checked(op[p])'
  BY <1>1, <1>2, <1>3, <1>4 DEF Checked
<1>6. /\ Contents(a) = Absent /\ Contents(a)' = Broken
      /\ \A b \in Aliases : b # a => Contents(b)' = Contents(b)
  BY <1>1, <1>2, <1>3 DEF Contents, Exists
<1>7. /\ wallets[a] = Absent
      /\ wallets' = [wallets EXCEPT ![a] = Broken]
  BY <1>1, <1>6, WalletsOf
<1> QED
  BY <1>1, <1>5, <1>7 DEF Abstract!Reserve

LEMMA WriteFileCompletes ==
  ASSUME ActsInv, NEW p \in Procs, WriteFile(p)
  PROVE  /\ Abstract!Complete(op[p].alias, op[p].key)
         /\ op[p].alias \in Aliases /\ op[p].key \in Keys
<1>1. PICK a \in Aliases, i \in Inodes, k \in Keys :
        /\ a = op[p].alias /\ i = op[p].file /\ k = op[p].key
        /\ dir[a] = i /\ data[i] = Torn
  BY OpFields DEF WriteFile, ActsInv, KInv, Checked
<1>2. dir' = dir /\ data' = [data EXCEPT ![i] = k]
  BY <1>1 DEF WriteFile
<1>3. /\ data \in [Inodes -> Keys \cup {Torn}] /\ i # NoFile /\ k # Torn
      /\ \A b \in Aliases : b # a => dir[b] # i
  BY <1>1, KeystoreAssumption DEF ActsInv, KInv, TypeOK, OneNamePerFile, Exists
<1>4. \A b \in Aliases : dir[b] \in Inodes \cup {NoFile}
  BY DEF ActsInv, KInv, TypeOK
<1>5. /\ Contents(a) = Broken /\ Contents(a)' = k
      /\ \A b \in Aliases : b # a => Contents(b)' = Contents(b)
  BY <1>1, <1>2, <1>3, <1>4 DEF Contents, Exists
<1>6. /\ wallets[a] = Broken
      /\ wallets' = [wallets EXCEPT ![a] = k]
  BY <1>1, <1>5, WalletsOf
<1> QED
  BY <1>1, <1>6 DEF Abstract!Complete

LEMMA UnlinkRemoves ==
  ASSUME ActsInv, NEW p \in Procs, Unlink(p)
  PROVE  Abstract!Remove(op[p].alias) /\ op[p].alias \in Aliases
<1>1. PICK a \in Aliases : a = op[p].alias /\ Exists(a)
  BY OpFields DEF Unlink, ActsInv, KInv, Checked
<1>2. dir' = [dir EXCEPT ![a] = NoFile] /\ data' = data
  BY <1>1 DEF Unlink
<1>3. /\ dir \in [Aliases -> Inodes \cup {NoFile}]
      /\ data \in [Inodes -> Keys \cup {Torn}]
  BY DEF ActsInv, KInv, TypeOK
<1>4. /\ Contents(a) # Absent /\ Contents(a)' = Absent
      /\ \A b \in Aliases : b # a => Contents(b)' = Contents(b)
  BY <1>1, <1>2, <1>3, KeystoreAssumption DEF Contents, Exists, Absent, Broken
<1>5. wallets[a] # Absent /\ wallets' = [wallets EXCEPT ![a] = Absent]
  BY <1>1, <1>4, WalletsOf
<1> QED
  BY <1>1, <1>5 DEF Abstract!Remove

LEMMA MoveFileMoves ==
  ASSUME ActsInv, NEW p \in Procs, MoveFile(p)
  PROVE  /\ Abstract!Move(op[p].alias, op[p].to)
         /\ op[p].alias \in Aliases /\ op[p].to \in Aliases
<1>1. PICK a \in Aliases, b \in Aliases :
        /\ a = op[p].alias /\ b = op[p].to
        /\ Exists(a) /\ ~ Exists(b) /\ a # b
  BY OpFields DEF MoveFile, ActsInv, KInv, Checked
<1>2. dir' = [dir EXCEPT ![a] = NoFile, ![b] = dir[a]] /\ data' = data
  BY <1>1 DEF MoveFile
<1>3. /\ dir \in [Aliases -> Inodes \cup {NoFile}]
      /\ data \in [Inodes -> Keys \cup {Torn}]
  BY DEF ActsInv, KInv, TypeOK
<1>4. /\ Contents(a) # Absent /\ Contents(b) = Absent
      /\ Contents(a)' = Absent /\ Contents(b)' = Contents(a)
      /\ \A c \in Aliases : c # a /\ c # b => Contents(c)' = Contents(c)
  BY <1>1, <1>2, <1>3, KeystoreAssumption DEF Contents, Exists, Absent, Broken
<1>5. /\ wallets[a] # Absent /\ wallets[b] = Absent
      /\ wallets' = [wallets EXCEPT ![a] = Absent, ![b] = wallets[a]]
  BY <1>1, <1>4, WalletsOf
<1> QED
  BY <1>1, <1>5 DEF Abstract!Move

\* One step of a process: what its checks found holds until it acts, and
\* what it does is a step of the abstract store or none.
LEMMA OwnStep ==
  ASSUME ActsInv, NEW p \in Procs, StoreStep(p)
  PROVE  Checked(op[p])' /\ (Abstract!Next \/ wallets' = wallets)
<1>1. op \in [Procs -> Ops]
  BY DEF ActsInv, KInv, TypeOK
<1>2. ASSUME NEW o, Become(p, o), UNCHANGED <<dir, data>>,
             Checked(o)
      PROVE  Checked(op[p])' /\ wallets' = wallets
  <2>1. op'[p] = o
    BY <1>1, <1>2 DEF Become
  <2> QED
    BY <1>2, <2>1, FilesSame DEF Checked, Exists
<1>3. ASSUME Become(p, None) PROVE Checked(op[p])'
  <2>1. op'[p] = None
    BY <1>1, <1>3 DEF Become
  <2> QED
    BY <2>1 DEF Checked, None
<1>4. ASSUME NEW a \in Aliases, NEW k \in Keys, Create(p, a, k)
      PROVE  Checked(op[p])' /\ wallets' = wallets
  <2>1. Checked([at |-> "encrypting", alias |-> a, key |-> k])
    BY <1>4 DEF Create, Checked
  <2> QED
    BY <1>2, <1>4, <2>1 DEF Create
<1>5. ASSUME NEW a \in Aliases, Delete(p, a)
      PROVE  Checked(op[p])' /\ wallets' = wallets
  <2>1. Checked([at |-> "deleting", alias |-> a])
    BY <1>5 DEF Delete, Checked
  <2> QED
    BY <1>2, <1>5, <2>1 DEF Delete
<1>6. ASSUME NEW a \in Aliases, NEW b \in Aliases, Rename(p, a, b)
      PROVE  Checked(op[p])' /\ wallets' = wallets
  <2>1. Checked([at |-> "renaming", alias |-> a, to |-> b])
    BY <1>6 DEF Rename, Checked
  <2> QED
    BY <1>2, <1>6, <2>1 DEF Rename
<1>7. CASE OpenFile(p)
  BY <1>7, OpenFileReserves DEF Abstract!Next
<1>8. CASE WriteFile(p)
  BY <1>3, <1>8, WriteFileCompletes DEF Abstract!Next, WriteFile
<1>9. CASE Unlink(p)
  BY <1>3, <1>9, UnlinkRemoves DEF Abstract!Next, Unlink
<1>10. CASE MoveFile(p)
  BY <1>3, <1>10, MoveFileMoves DEF Abstract!Next, MoveFile
<1>11. CASE GiveUp(p)
  BY <1>3, <1>11, FilesSame DEF GiveUp
<1> QED
  BY <1>4, <1>5, <1>6, <1>7, <1>8, <1>9, <1>10, <1>11 DEF StoreStep, CreateSteps

\* A step leaves the files of every alias alone that its method is not about.
LEMMA StepFrame ==
  ASSUME ActsInv, NEW p \in Procs, StoreStep(p),
         NEW b \in Aliases, b \notin Names(op[p])
  PROVE  dir'[b] = dir[b] /\ (Exists(b) => data'[dir[b]] = data[dir[b]])
<1>1. /\ dir \in [Aliases -> Inodes \cup {NoFile}]
      /\ data \in [Inodes -> Keys \cup {Torn}]
  BY DEF ActsInv, KInv, TypeOK
<1>2. CASE UNCHANGED <<dir, data>>
  BY <1>2
<1>3. CASE OpenFile(p)
  <2>1. PICK a \in Aliases : a = op[p].alias /\ ~ Exists(a) /\ a # b
    BY <1>3, OpFields DEF OpenFile, ActsInv, KInv, Checked, Names
  <2>2. PICK i \in Free : /\ dir' = [dir EXCEPT ![a] = i]
                          /\ data' = [data EXCEPT ![i] = Torn]
    BY <1>3, <2>1 DEF OpenFile
  <2>3. dir[b] # i
    BY <2>2 DEF Free
  <2> QED
    BY <1>1, <2>1, <2>2, <2>3
<1>4. CASE WriteFile(p)
  <2>1. PICK a \in Aliases : a = op[p].alias /\ dir[a] = op[p].file /\ a # b
                             /\ op[p].file \in Inodes
    BY <1>4, OpFields DEF WriteFile, ActsInv, KInv, Checked, Names
  <2>2. Exists(b) => dir[b] # op[p].file
    BY <2>1 DEF ActsInv, KInv, OneNamePerFile
  <2> QED
    BY <1>1, <1>4, <2>2 DEF WriteFile
<1>5. CASE Unlink(p)
  <2>1. op[p].alias # b
    BY <1>5, OpFields DEF Unlink, Names
  <2> QED
    BY <1>1, <1>5, <2>1 DEF Unlink
<1>6. CASE MoveFile(p)
  <2>1. op[p].alias # b /\ op[p].to # b
    BY <1>6, OpFields DEF MoveFile, Names
  <2> QED
    BY <1>1, <1>6, <2>1 DEF MoveFile
<1> QED
  BY <1>2, <1>3, <1>4, <1>5, <1>6
     DEF StoreStep, CreateSteps, Create, Delete, Rename, GiveUp

\* What the checks of the others found stays.
LEMMA OthersStep ==
  ASSUME ActsInv, MethodsApart, NEW p \in Procs, StoreStep(p),
         NEW q \in Procs, q # p
  PROVE  Checked(op[q])'
<1>1. op'[q] = op[q]
  <2>1. \E o : Become(p, o)
    BY DEF StoreStep, CreateSteps, Create, OpenFile, WriteFile, Delete, Unlink,
           Rename, MoveFile, GiveUp
  <2> QED
    BY <2>1 DEF Become, ActsInv, KInv, TypeOK
<1>2. Names(op[q]) \cap Names(op[p]) = {} /\ Checked(op[q])
  BY DEF MethodsApart, ActsInv
<1>3. \A b \in Aliases : b \in Names(op[q]) =>
         dir'[b] = dir[b] /\ (Exists(b) => data'[dir[b]] = data[dir[b]])
  BY <1>2, StepFrame
<1>4. CASE op[q].at = "none"
  BY <1>1, <1>4 DEF Checked
<1>5. CASE op[q].at \in {"encrypting", "deleting"}
  <2>1. op[q].alias \in Aliases /\ op[q].alias \in Names(op[q])
    BY <1>5, OpFields DEF ActsInv, KInv, Names
  <2> QED
    BY <1>1, <1>2, <1>3, <1>5, <2>1 DEF Checked, Exists
<1>6. CASE op[q].at = "writing"
  <2>1. /\ op[q].alias \in Aliases /\ op[q].alias \in Names(op[q])
        /\ op[q].file \in Inodes
    BY <1>6, OpFields DEF ActsInv, KInv, Names
  <2>2. dir[op[q].alias] = op[q].file /\ data[op[q].file] = Torn
    BY <1>2, <1>6 DEF Checked
  <2>3. Exists(op[q].alias)
    BY <2>1, <2>2, KeystoreAssumption DEF Exists
  <2> QED
    BY <1>1, <1>3, <1>6, <2>1, <2>2, <2>3 DEF Checked
<1>7. CASE op[q].at = "renaming"
  <2>1. /\ op[q].alias \in Aliases /\ op[q].to \in Aliases
        /\ op[q].alias \in Names(op[q]) /\ op[q].to \in Names(op[q])
    BY <1>7, OpFields DEF ActsInv, KInv, Names
  <2> QED
    BY <1>1, <1>2, <1>3, <1>7, <2>1 DEF Checked, Exists
<1> QED
  BY <1>4, <1>5, <1>6, <1>7, OpFields DEF ActsInv, KInv

\* Any number of processes implement WalletStore, whatever they are told to
\* do and wherever they are cut short, as long as no two of them are at work
\* on the same alias: a stored key stays until it is deleted.  One is lost
\* only where two methods overlap on an alias (CreateKeepsWallets).
THEOREM ApartKeepsWallets == StoreSpec /\ []MethodsApart => KeepsWallets
<1>1. StoreInit => Abstract!Init
  BY KeystoreAssumption DEF StoreInit, wallets, Exists, Abstract!Init
<1>2. ActsInv /\ MethodsApart /\ [StoreNext]_store
        => ActsInv' /\ [Abstract!Next]_wallets
  <2> SUFFICES ASSUME ActsInv, MethodsApart, [StoreNext]_store
               PROVE  ActsInv' /\ [Abstract!Next]_wallets
    OBVIOUS
  <2>1. KInv'
    BY KNext DEF ActsInv
  <2>2. ASSUME NEW p \in Procs, StoreStep(p)
        PROVE  /\ \A q \in Procs : Checked(op[q])'
               /\ [Abstract!Next]_wallets
    BY <2>2, OwnStep, OthersStep
  <2>3. CASE UNCHANGED store
    <3>1. wallets' = wallets
      BY <2>3, FilesSame DEF store
    <3>2. \A q \in Procs : Checked(op[q])'
      BY <2>3 DEF store, ActsInv, Checked, Exists
    <3> QED
      BY <2>1, <3>1, <3>2 DEF ActsInv
  <2> QED
    BY <2>1, <2>2, <2>3 DEF StoreNext, ActsInv
<1> QED
  BY ActsInit, <1>1, <1>2, PTL DEF StoreSpec, KeepsWallets, Abstract!Spec

\* In particular a single process does.
THEOREM OneProcessKeepsWallets ==
  ASSUME NEW p, Procs = {p}
  PROVE  StoreSpec => KeepsWallets
<1>1. MethodsApart
  BY DEF MethodsApart
<1> QED
  BY <1>1, ApartKeepsWallets, PTL

-----------------------------------------------------------------------------
(* Sessions.                                                               *)

\* Every key that lies under an alias is in the history of that alias.
StoredRemembered ==
  \A a \in Aliases : wallets[a] \in Keys => wallets[a] \in everStored[a]

\* Only a session with an active wallet asks for a password.
PromptsActive == \A p \in Users : prompt[p] => active[p] # NoAlias

IInv ==
  /\ KInv
  /\ SessionTypeInv
  /\ StoredRemembered
  /\ PromptsActive
  /\ SignsAsActive

LEMMA InitInv == Init => IInv
<1> SUFFICES ASSUME Init PROVE IInv
  OBVIOUS
<1>1. KInv
  BY KInit DEF Init
<1>2. SessionTypeInv /\ PromptsActive /\ SignsAsActive
  BY <1>1 DEF Init, KInv, SessionTypeInv, PromptsActive, SignsAsActive
<1>3. \A a \in Aliases : wallets[a] = Absent
  BY DEF Init, StoreInit, wallets, Exists
<1>4. StoredRemembered
  BY <1>3, KeystoreAssumption DEF StoredRemembered
<1> QED
  BY <1>1, <1>2, <1>4 DEF IInv

\* A step of the store, with the history brought up to date.
LEMMA StoreInv ==
  ASSUME IInv, NEW p \in Procs, StoreStep(p), Remember,
         UNCHANGED <<active, signer, prompt>>
  PROVE  IInv'
<1>1. KInv'
  BY StoreStepInv DEF IInv
<1>2. \A a \in Aliases :
        /\ everStored'[a] = everStored[a] \cup ({wallets'[a]} \cap Keys)
        /\ everStored[a] \subseteq everStored'[a]
  BY DEF Remember
<1>3. StoredRemembered'
  BY <1>2 DEF StoredRemembered
<1>4. everStored' \in [Aliases -> SUBSET Keys]
  BY DEF Remember, IInv, SessionTypeInv
<1>5. SessionTypeInv'
  BY <1>1, <1>4 DEF IInv, KInv, SessionTypeInv
<1>6. SignsAsActive' /\ PromptsActive'
  BY <1>2 DEF IInv, SessionTypeInv, SignsAsActive, CanSign, PromptsActive
<1> QED
  BY <1>1, <1>3, <1>5, <1>6 DEF IInv

\* A step that leaves the files alone, of the session p or of the methods.
LEMMA FilesKeptInv ==
  ASSUME IInv, KInv', UNCHANGED <<dir, data, everStored>>,
         active' \in [Users -> Aliases \cup {NoAlias}],
         signer' \in [Users -> Keys \cup {NoSigner}],
         prompt' \in [Users -> BOOLEAN],
         PromptsActive', SignsAsActive'
  PROVE  IInv'
<1>1. StoredRemembered'
  BY FilesSame DEF IInv, StoredRemembered
<1>2. SessionTypeInv'
  BY DEF IInv, KInv, SessionTypeInv
<1> QED
  BY <1>1, <1>2 DEF IInv

LEMMA StoreSame == ASSUME KInv, UNCHANGED store PROVE KInv'
BY KNext

LEMMA NextInv == IInv /\ [Next]_vars => IInv'
<1> SUFFICES ASSUME IInv, [Next]_vars PROVE IInv'
  OBVIOUS
<1>0. /\ active \in [Users -> Aliases \cup {NoAlias}]
      /\ signer \in [Users -> Keys \cup {NoSigner}]
      /\ prompt \in [Users -> BOOLEAN]
      /\ PromptsActive /\ SignsAsActive /\ KInv
  BY DEF IInv, SessionTypeInv
<1>1. ASSUME NEW p \in Users, NEW a \in Aliases, Use(p, a) PROVE IInv'
  <2>1. KInv' /\ UNCHANGED <<dir, data, everStored>>
    BY <1>0, <1>1, StoreSame DEF Use, store
  <2>2. PromptsActive' /\ SignsAsActive'
    BY <1>0, <1>1, SessionAssumption
       DEF Use, PromptsActive, SignsAsActive, CanSign
  <2> QED
    BY <1>0, <1>1, <2>1, <2>2, FilesKeptInv DEF Use
<1>2. ASSUME NEW p \in Users, Unlock(p) PROVE IInv'
  <2>1. KInv' /\ UNCHANGED <<dir, data, everStored>>
    BY <1>0, <1>2, StoreSame DEF Unlock, store
  <2>2. PromptsActive' /\ SignsAsActive'
    BY <1>0, <1>2 DEF Unlock, PromptsActive, SignsAsActive, CanSign
  <2> QED
    BY <1>0, <1>2, <2>1, <2>2, FilesKeptInv DEF Unlock
<1>3. ASSUME NEW p \in Users, LoadOk(p) PROVE IInv'
  <2>1. KInv' /\ UNCHANGED <<dir, data, everStored>>
    BY <1>0, <1>3, StoreSame DEF LoadOk, store
  <2>2. /\ active[p] \in Aliases
        /\ wallets[active[p]] \in Keys
        /\ wallets[active[p]] \in everStored[active[p]]
    BY <1>0, <1>3 DEF LoadOk, PromptsActive, IInv, StoredRemembered
  <2>3. PromptsActive' /\ SignsAsActive'
    BY <1>0, <1>3, <2>2, SessionAssumption
       DEF LoadOk, PromptsActive, SignsAsActive, CanSign
  <2> QED
    BY <1>0, <1>3, <2>1, <2>2, <2>3, FilesKeptInv DEF LoadOk
<1>4. ASSUME NEW p \in Users, LoadFails(p) PROVE IInv'
  <2>1. KInv' /\ UNCHANGED <<dir, data, everStored>>
    BY <1>0, <1>4, StoreSame DEF LoadFails, store
  <2>2. PromptsActive' /\ SignsAsActive'
    BY <1>0, <1>4 DEF LoadFails, PromptsActive, SignsAsActive, CanSign
  <2> QED
    BY <1>0, <1>4, <2>1, <2>2, FilesKeptInv DEF LoadFails
<1>5. ASSUME NEW p \in Users, Wallet(p) PROVE IInv'
  <2>1. p \in Procs /\ StoreStep(p)
    BY <1>5, SessionAssumption DEF Wallet, StoreStep
  <2> QED
    BY <1>5, <2>1, StoreInv DEF Wallet
<1>6. ASSUME NEW p \in Users, Fail(p) PROVE IInv'
  <2>1. KInv'
    BY <1>0, <1>6, StoreStepInv, SessionAssumption DEF Fail, StoreStep
  <2>2. PromptsActive' /\ SignsAsActive'
    BY <1>0, <1>6 DEF Fail, session, PromptsActive, SignsAsActive, CanSign
  <2> QED
    BY <1>0, <1>6, <2>1, <2>2, FilesKeptInv DEF Fail, GiveUp, session
<1>7. ASSUME NEW p \in Users, Quit(p) PROVE IInv'
  <2>1. KInv' /\ UNCHANGED <<dir, data, everStored>>
    BY <1>0, <1>7, StoreSame DEF Quit, store
  <2>2. PromptsActive' /\ SignsAsActive'
    BY <1>0, <1>7 DEF Quit, PromptsActive, SignsAsActive, CanSign
  <2> QED
    BY <1>0, <1>7, <2>1, <2>2, FilesKeptInv DEF Quit
<1>8. ASSUME NEW p \in Procs \ Users, Other(p) PROVE IInv'
  BY <1>8, StoreInv DEF Other
<1>9. CASE UNCHANGED vars
  <2>1. KInv' /\ UNCHANGED <<dir, data, everStored, active, signer, prompt>>
    BY <1>0, <1>9, StoreSame DEF vars, store
  <2>2. PromptsActive' /\ SignsAsActive'
    BY <1>0, <2>1 DEF PromptsActive, SignsAsActive, CanSign
  <2> QED
    BY <1>0, <2>1, <2>2, FilesKeptInv
<1> QED
  BY <1>1, <1>2, <1>3, <1>4, <1>5, <1>6, <1>7, <1>8, <1>9 DEF Next

\* Sessions and files are well typed and no two aliases name one file, next
\* to any other processes.
THEOREM SessionTypeCorrect == Spec => []SessionTypeInv /\ []OneNamePerFile
<1>1. IInv => SessionTypeInv /\ OneNamePerFile
  BY DEF IInv, KInv
<1> QED
  BY InitInv, NextInv, <1>1, PTL DEF Spec

\* A wallet file without its contents has a writer that is still at work, or
\* a fault behind it (keystore/mod.rs, create and import).
THEOREM TornFilesExplained == Spec => []TornHasWriter
<1>1. IInv => TornHasWriter
  BY DEF IInv, KInv
<1> QED
  BY InitInv, NextInv, <1>1, PTL DEF Spec

\* The key a session signs with was stored under the alias it shows as
\* active, whatever other processes did to the directory
\* (commands.rs, cmd_use and cmd_unlock).
THEOREM SignsAsShown == Spec => []SignsAsActive
<1>1. IInv => SignsAsActive
  BY DEF IInv
<1> QED
  BY InitInv, NextInv, <1>1, PTL DEF Spec

\* Sessions use the store in no other way than its processes do, ...
THEOREM SessionsUseStore == Spec => StoreSpec
<1>1. Init => StoreInit
  BY DEF Init
<1>2. [Next]_vars => [StoreNext]_store
  BY SessionAssumption
     DEF Next, vars, store, Use, Unlock, LoadOk, LoadFails, Wallet, Fail, Quit,
         Other, StoreNext, StoreStep
<1> QED
  BY <1>1, <1>2, PTL DEF Spec, StoreSpec

\* ... so that their wallets are kept under the same condition.
THEOREM SessionsKeepWallets == Spec /\ []MethodsApart => KeepsWallets
BY SessionsUseStore, ApartKeepsWallets, PTL

=============================================================================
