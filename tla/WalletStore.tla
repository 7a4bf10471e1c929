---------------------------- MODULE WalletStore -----------------------------
(***************************************************************************)
(* What the keystore of src/keystore/mod.rs promises its user: a map from  *)
(* alias to key.  A wallet is stored under an alias that was free, and     *)
(* from then on only a delete or a rename of that alias takes it away.     *)
(* Storing takes two steps; between them, and for good if the writer dies, *)
(* the alias is taken and holds nothing.                                   *)
(***************************************************************************)
CONSTANTS
  Aliases,
  Keys,
  Absent,       \* not a key: the alias is free
  Broken        \* not a key: the alias is taken, its file is incomplete

VARIABLE wallets

Init == wallets = [a \in Aliases |-> Absent]

\* A free alias is taken.
Reserve(a) ==
  /\ wallets[a] = Absent
  /\ wallets' = [wallets EXCEPT ![a] = Broken]

\* The key arrives.
Complete(a, k) ==
  /\ wallets[a] = Broken
  /\ wallets' = [wallets EXCEPT ![a] = k]

Remove(a) ==
  /\ wallets[a] # Absent
  /\ wallets' = [wallets EXCEPT ![a] = Absent]

\* A rename moves the wallet as it is, onto a free alias.
Move(a, b) ==
  /\ wallets[a] # Absent
  /\ wallets[b] = Absent
  /\ wallets' = [wallets EXCEPT ![a] = Absent, ![b] = wallets[a]]

Next ==
  \/ \E a \in Aliases :
       Reserve(a) \/ Remove(a) \/ \E k \in Keys : Complete(a, k)
  \/ \E a, b \in Aliases : Move(a, b)

Spec == Init /\ [][Next]_wallets

=============================================================================
