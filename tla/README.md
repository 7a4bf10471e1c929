# evm-cli in TLA+

`evm-cli` is an Ethereum wallet for the command line: keystore files, a REPL,
transactions over one JSON-RPC endpoint, replacement ("bump") and cancellation
of pending transactions, and a local log of nonces. These modules model what
the program does between the system calls and RPCs it makes, check it with TLC
on small instances, and prove part of it with TLAPS for all of them.

Every definition is written from the source; `PROJECT.json` maps it to its lines.

## Inventory

| Part | Source | State it keeps | Operations |
|---|---|---|---|
| Nonce pool and log | `chain/nonce.rs` | per address `next_nonce`, `pending`, `dead`, `history`; the file `nonce.json` and its flock | `next`, `submit`, `confirm`, `fail`, `replaced`, `rebuild`, `rebuild_from_rpc`, `append_log` |
| Signing commands | `cli/commands.rs`, `chain/rbf.rs`, `chain/alloy_chain.rs` | locals of one command between its awaits | `send-eth`, `send-token`, `--bump-fee`, `--cancel`, `--dry-run`, `sign-message` |
| Fee arithmetic | `chain/rbf.rs`, `alloy_chain.rs` | none | `compute_bump`, `estimate_fees`, the conversion to `u128` |
| Keystore | `keystore/mod.rs` | one file per alias | `create`, `import`, `load`, `list`, `delete`, `rename`, `persist` |
| Session | `cli/session.rs` | `active_alias`, `unlocked_signer` | `build`, `can_sign`; `use`, `unlock`, `create-wallet`, `import-mnemonic` |
| Configuration | `cli/config.rs` | the resolved `Config` | `from_file`, `from_env`, `merge_partial`, `load` |
| Process and REPL | `cli/mod.rs`, `cli/history.rs`, `main.rs` | the line editor's history and its file, the exit code | `run`, `dispatch_one_shot`, `run_repl`, `should_skip_history` |
| RPC client | `chain/client.rs`, `alloy_chain.rs` | a rate limiter | `with_rate`, `acquire`, the methods of one request, `wait_for_receipt` (no caller) |
| Amounts and summary | `types/amount.rs`, `cli/pure.rs`, `cli/commands.rs` | locals of a command | `try_from_decimal_str`, `format_eth`, `format_gwei`, `format_send_summary`, `is_yes_answer` |
| Output | `cli/output.rs`, prints elsewhere | none | `success`, `info`, `error`, prompts, banner, trace |
| Other pure helpers | `cli/pure.rs`, `types/`, `chain/erc20.rs` | none | parsing of hashes and addresses, encoding |
| Cryptography, secrets | `crypto/`, `types/secret.rs` | none | keccak, signing, mnemonics, zeroization |
| Errors, release | `error.rs`, `release.rs` | none | codes, checksums |

How they interact. `run` merges the configuration layers and builds a `Session`,
which opens the keystore directory, asks the endpoint for its chain id and
creates an empty nonce manager. One command, or the REPL's commands one after
the other, then work on that session. A signing command asks the node for fees
and a nonce, has `build_eth_transfer` ask for a nonce again and sign, shows a
summary, waits for an answer, broadcasts, and records the hash in the nonce
manager, which appends to `nonce.json`. A bump or cancel looks its original up
twice, computes fees from it, and goes through the same builder. Every request
first takes a permit of the session's rate limiter. Questions are printed to
stderr and answered on stdin, the stream the loop also reads its lines from.

What is hard here:

- **Between two awaits the world moves.** Other sessions of the same account
  broadcast, the node mines or evicts, the fee market changes, the user thinks.
- **A broadcast may have happened although its answer is an error.**
- **Files are shared.** The keystore has no lock at all; the nonce log has one
  around each append and none around memory and log together.
- **Processes die** between two system calls: a record without its newline, a
  keystore file without its contents, memory that is gone.
- **Time**: permits come at a rate, a wait for a receipt has a deadline, and a
  request may never be answered.
- **Numbers have a width**: amounts are parsed, multiplied and added in 256 bits,
  and shown with their last digits cut off.
- **Layers and modes**: four configuration layers, one-shot against REPL, a
  history that must not remember some lines.

What makes each part correct:

- nonce pool: memory never claims what was not written; records stay whole and
  in order; no path keeps the lock; a restart finds what was pending (it does
  not);
- signing commands: what is sent is what was shown, at most once per command;
  the pool holds only what the node took; a session does not fight itself; a
  replacement replaces (it does not); a dry run is silent (it is not);
- a payment as a whole: the log holds what the node took and was heard of, no
  more and no less, and the recording ends however the processes compete;
- RPC client: the node's request rate has a bound, a wait for a receipt answers
  the truth and in time, and only a hung request keeps a method from ending;
- amounts: what is accepted is what was typed, what is shown is what is paid;
- fees: a bump is never refused as too cheap and keeps up with the market;
- keystore: only a delete or rename takes a stored key away (as long as no two
  processes are at work on the same alias);
- session: the signer in memory belongs to the alias the prompt names;
- configuration and process: the highest layer that sets an option wins (not for
  `data_dir`), nothing is signed for another chain or by a locked session, the history is clean, and
  exit code and streams tell a script what happened.

## Modules

| Module | What it is |
|---|---|
| `NonceManager` | the nonce pool of several processes and their common log |
| `NonceManagerProofs` | its theorems |
| `WalletSend` | the signing commands of several sessions against a node |
| `WalletSendProofs` | its theorems |
| `Wallet` | the composition of `WalletSend` and `NonceManager`: payments with their record |
| `WalletProofs` | its theorems: it implements both parts, and what the log says |
| `RpcClient` | the rate-limited client and `wait_for_receipt`, in time |
| `RpcClientProofs` | its theorems |
| `Amount` | operators: the parser and the formatters of amounts, and what a decimal text means |
| `Summary` | extends `Amount`: one payment from the typed amount to the approval |
| `SummaryProofs` | their theorems, with induction for recursive functions |
| `FeeBump` | the amounts behind a bump, and the node's replacement rule |
| `FeeBumpProofs` | its theorems |
| `WalletStore` | abstract: what a keystore promises, a map from alias to key |
| `Keystore` | the files and system calls that implement it |
| `Session` | extends `Keystore`: the session's wallet commands next to other processes |
| `SessionProofs` | theorems of `Keystore` and `Session` |
| `Config` | operators: the layers, `merge_partial` and `load` |
| `Output` | operators: which line goes to which stream |
| `Repl` | extends `Config`, `Output`: one process from its layers to its exit code |
| `ReplProofs` | its theorems |
| `MC*` | the instances for TLC |

### NonceManager

`by_addr[p][a]` is a process's `AddressState`; a `pending` map is a function
with `NoHash` where there is no entry. Methods take `&self` and hold the tokio
mutex to their end, so that a method is one action up to its append. The append
is four actions, because other processes run between them: `AcquireFlock`,
`WriteRecord` and `WriteNewline` (`writeln!` on an unbuffered file issues the
text and the newline as separate writes), `Finish`. `IoError` is the `?` at any
of them; it leaves memory changed. `Crash` is a kill, or a panic, which aborts
under the release profile. `lost` and `torn` are history: records whose append
failed, and places where a record has no newline. `next` changes nothing and is
the operator `NextNonce`. Block numbers are left out. `Crash` and `Start` also
stand for the restarts of a session.

### WalletSend

`cmd[s]` is the command session `s` runs: where it is (`at`) and the locals that
matter (`of` the original, `fee`, `shown` the nonce of the summary, `tx` the
signed bytes, `seen` the summary the user said yes to). The node is `slot`
(nonce to transaction), `height` (nonces below it are mined) and `market`.
Commands whose arguments do not parse, or without an unlocked signer, end before
they do anything and are not modelled; `sign-message` touches neither node nor
pool. A transaction is its own hash: signing is deterministic. Fees are levels
one minimal bump apart. A request that fails was either processed by then or is
lost; it is not delivered later. The pool of a session is cleared by `Restart`.

The actions follow the awaits: `Lookup`, `LookupAgain`, `EstimateFees`,
`ReadNonce`, `Build`, `SayYes`/`SayNo`, `Broadcast`/`BroadcastLost`/`AnswerLost`,
`Submit`. The path of a token transfer is the same code with calldata.

### Wallet

`Send` is an instance of `WalletSend` whose `pending` is the `pending` map of the
session's `AddressState`, `Pool` an instance of `NonceManager` whose processes
are the sessions and whose hashes are the transactions. A step is

- `Command`: a step of `WalletSend` of a process that waits for no append;
- `Record`: `submit` of the pool with the nonce of the summary; the command is
  over for `WalletSend`, the process busy until its append ends;
- `WriteLog`: a step of `append_log`, or its failure, which the command ignores;
- `Die`, `Launch`: a kill, which takes the command, the pool and the flock with
  it, and the next process;
- `Environment`: blocks, evictions, the fee market.

`unheard` is history: what the node took and no command could record, because
the answer was lost or the process killed. `ImplementsSend` and `ImplementsPool`
are the specifications of the parts as properties of the whole, so that what
holds of them holds here.

### RpcClient

Time is counted in ticks. `tat` is the state of governor's GCRA (the instant at
which the bucket is full again); `Permit`, `Delayed` and `Look` are `acquire`
with its jitter. A session calls one method at a time: `Call`, then `Request` and
`Answered` for the methods of one request, `Wait`, `Poll`, `NoReceipt`, `Rise`
and one of `HasReceipt`, `TimesOut`, `PollFails` for `wait_for_receipt`. The
first call is the chain id of `AlloyChain::new` (`NoChain` is its failure). An
answer takes at most `MaxRpc` ticks or never comes (`Hang`): no timeout is set
on requests. governor and the node are external. `wait_for_receipt` has no
caller; it is modelled as its documentation offers it.

### Amount, Summary

A text is the number before the point and the characters after it, one of which
may be `_`, which ruint skips. `Parse` is the parser with every check it makes
and the power of ten that wraps; `Format` cuts off. `Meant` is the reference: what
a decimal text means, without a width. `Summary` is a command between its
argument and the user's answer, for numbers only; the nonce, hash and destination
are `WalletSend`'s. A token amount is shown with 18 decimals and without gas, as
the code does.

### FeeBump

Exact natural-number arithmetic: `U256` cannot overflow before the `u128`
conversion refuses. `Gwei` and `Limit` are parameters, 10^9 and 2^128-1 in the
code, 1 and 50 in the run. The node's rule (`Outbids`) is go-ethereum's: both
fees strictly higher and at least 110 percent, rounded down.

### Keystore, WalletStore

`dir` maps an alias to an inode and `data` an inode to its contents, so that a
writer keeps writing to the file it opened when somebody renames it. Each method
is its checks and then its system calls: `Create` then `OpenFile` (create or
truncate) then `WriteFile`; `Delete` then `Unlink`; `Rename` then `MoveFile`.
The two existence checks of `rename` are one step. `GiveUp` is a failure or kill
in the middle. Files of one writer after the other have the same length, so that
the last one to write wins. `wallets` is the refinement mapping: an alias is
absent, broken, or holds a key.

### Session

Adds `active`, `signer` and `prompt` (inside `unlock`, the password is being
typed). `Users` are sessions, the other processes of `Procs` do anything the
keystore can, including `delete` and `rename`, which have no command.
`everStored` is history: which keys were ever complete under an alias.

### Config, Output, Repl

A layer sets a field or leaves it `Unset`; flags are FALSE when not set.
`rpc_timeout_secs` behaves like the chain id and is left out. `Resolved` is the
three merges of `load`; clap fills a flag that is not given from the environment
(`FromFlags`). `Repl` loads the configuration (`Load`), builds the session, and
runs one command or the loop. `layers` is history: what the file, the environment
and the command line set, each by itself and before clap or a merge has touched
it. `LayersKept` compares the configuration with them, layer by layer and without
merging. They are forgotten when the session is built, since nothing changes the
configuration after that. Commands are
classes by what they need, ask and leave; lines are classes by how the loop
treats them. A command runs (`doing`), may ask (`Ask`), and reads its answer from
the stream of the lines: `ahead` is what the user typed ahead, which becomes the
next line (`Stray`) if the command ends before it asks; `early` is history and
says that this happened. `wrote` is what was written since the command began, as
kinds of lines on streams (`Output`). Saving or loading the history may fail silently. `signed` is history:
the chains something was signed for.

## Runs

| Run | Expected | Properties | What it shows |
|---|---|---|---|
| `nonce` | pass | `TypeInv`, `MemoryIsLogged`, `MinedAfterSubmitted`, `WholeLines`, `NoLeakedLock` | memory agrees with the log, records stay whole and in order |
| `send` | pass | `TypeInv`, `ShownIsSent`, `OwnSlotFree`, `DriftFromOthers`, `RecordedWasTaken`, `OneTxPerCommand` | what was shown is sent, at most once; the nonce shown is off only because of others |
| `wallet` | pass | `ImplementsSend`, `ImplementsPool`, `LogTellsTruth`, `NothingForgotten`, `Settles` | the whole implements its parts; the log is complete and true; recording ends |
| `fees` | pass | `TypeInv`, `NeverRefused`, `BumpCompetes` | a bump is never underpriced and follows the market |
| `rpc` | pass | `TypeInv`, `RequestRate`, `Verdict`, `InTime`, `Ends` | the rate the node sees, and what a wait for a receipt answers and when |
| `amounts` | pass | `TypeInv`, `ParsedIsTyped`, `ShownIsRounded`, `ApprovedIsCovered` | amounts survive parser, formatter and total |
| `keystore` | pass | `KeepsWallets` | a single process implements `WalletStore` |
| `session` | pass | `SessionTypeInv`, `SignsAsActive`, `OneNamePerFile`, `TornHasWriter` | the signer belongs to the active alias |
| `repl` | pass | `TypeInv`, `LayersKept`, `SignsOnlyExpected`, `HistoryFiltered`, `HistoryOff`, `ExitTold` | precedence, what can be signed, what is remembered, what a script sees |
| `rbf` | violation | `NotBothMined` | original and replacement are both mined |
| `dry_run` | violation | `DryRunSilent` | a dry run of a bump broadcasts |
| `keystore_race` | violation | `CreateKeepsWallets` | two creates of one alias |

A property that is checked has a mutant in `PROJECT.json`: a change of one
definition, as a bug in that code would make it, that breaks the property.

### Bounds

- `nonce`: two processes, one address, one hash, nonces 0 and 1, three tokens in
  the file before a new append may start (up to two appends overlap, so the file
  grows to seven), a history ring of one, one fault. Two processes are what an
  interleaved line needs, a record and its successor what order needs; one hash
  is enough because the properties compare hashes for equality only, and reuse
  of a hash makes them weaker nowhere. The proofs cover all values.
- `send`: two sessions, three commands, nonces 0 to 2, two fee levels, one
  eviction: enough for two sessions to race for a nonce and for a third command
  to meet an original that was mined, replaced or evicted. A nonce or fee
  beyond the bound ends in an error of the model's RPC, not in a wrong answer.
- `wallet`: two processes, two commands, nonces 0 and 1, two fee levels, one
  eviction, one fault: two payments whose appends overlap, one of which fails or
  dies half-way (119 608 states). The log needs no bound of its own, since a
  command appends one record. The theorems cover all values.
- `rpc`: a second is four ticks and the jitter one; rates of 0 (refused), 1, 2
  and 4 per second, timeouts of 0, 4 and 6 ticks, answers within one tick, three
  calls. A second must be a multiple of the rate's period, and long enough that
  a poll, its answer and the deadline fall in any order; three calls exhaust
  every bucket but the largest, which the chain id and the polls exhaust with
  them.
- `amounts`: a `U256` of width 1024 with at most four decimals, so that 10^4
  wraps as 10^78 does; ether has three decimals of which two are shown, gwei two
  and one; a transfer takes seven gas at a fee of at most 21. Numbers before the
  point lie around zero, the tens, the wrap of the product and the width itself,
  with every fraction of up to three of the characters 0, 1, 9 and `_`.
- `fees`: all valid fees up to 50 units where a unit is a gwei, every base fee up
  to 3 and priority fee up to 2 (and the fallbacks 20 and 1), two bumps. Ten
  percent of 50 exceeds the one-gwei floor and rounds, so that each of the three
  terms decides somewhere. The proofs cover all values.
- `keystore`: three aliases so that a rename chain exists, two keys, two faults.
- `session`: a session and another process, two aliases and keys, one fault.
- `repl`: two endpoints, two directories of which one has no parent, two chain
  ids. Each of the three layers sets a switch or at most two other options
  (`MCSettings`), in all combinations: two options are what `data_dir` and
  `keystore_dir` of one layer need, and any two layers disagree about each option
  somewhere, so that an exchange of two merges shows. One line may be typed
  ahead. The theorems cover layers that set anything.

The deadlock check is off in `repl` (the process exits), `amounts` (the command
ends), `rpc` (a request hangs, or the calls are used up) and `wallet` (the
commands are used up and nothing is on its way).

### Fairness

Two specifications assume fairness, each no more than the code's scheduling:

- `Wallet!Fairness`: a command whose broadcast was answered goes on (`Record`)
  and so does an append that holds the flock, weakly fair: between these steps
  the process awaits only its own mutex and the disk. A process that waits for the
  flock gets it if it is free again and again (strong fairness): the kernel
  wakes the waiters of a flock in their order. `Settles` follows: a recorded
  payment's command ends. A kill or an error may still end it early; neither is
  assumed to happen. The user, the node and the market are not fair.
- `RpcClient!Fairness`: the runtime runs a task that can run, and time passes
  while it waits. A request is answered, fails or hangs, so that `Ends` says
  that a method ends or hangs for ever. That it can hang is the code's choice:
  `rpc_timeout_secs` is read by nothing.

Nothing else is promised: an RPC may fail for ever, the user may never answer,
and nothing retries.

## Proofs

`NonceManagerProofs` (any number of processes, addresses, hashes, nonces, log
records and faults; `NonceAssumption` states that the sentinels are distinct and
the bounds natural numbers):

- `TypeCorrect`: `TypeInv` is inductive, with `ArchiveProperties` for the ring.
- `MemoryLogged`: `TypeInv /\ MemoryIsLogged` is inductive. Per method, the only
  new claim of memory is about the record it starts to append; per append step,
  a record goes from in flight to logged or lost (`DurableStays`), and the log
  only grows (`LogGrows`).
- `LogOrder`: order in the file is not inductive by itself. A `Mined` record is
  on its way while its `Submitted` record is only known from memory, so
  `OrderInv` adds `MinedInFlight` (the `Submitted` record of a `Mined` record on
  its way is logged or lost) and rests on `MemoryIsLogged`.
- `LockNotLeaked`, `LinesWhole`: `LinesInv` is the two together. Lines are whole
  because only the holder of the flock writes, and the flock is held exactly by
  a process between `flock()` and the drop of the file.

`FeeBumpProofs` (any `Gwei` above zero, any `Limit`, any market):

- `BumpsNeverRefused`: a bump of a valid transaction satisfies the node's rule
  (`ComputeBumpProperties`): each of the three terms is monotone, so the tip
  stays within the cap, and the one-gwei floor makes both fees strictly higher.
- `BumpsCompete`: the action property follows from the same invariant.

`WalletSendProofs` (any number of sessions, destinations, nonces, fee levels,
commands and evictions; `SendAssumption`):

- Five of the properties of the run `send` follow from one inductive `IInv`.
  `SaneCommands` says that the locals of a command fit the place where it is (it
  has signed only after `Build`, what it shows is what it signed, it broadcasts
  only what was approved); `AnsweredWasTaken` that a command on its way to the
  pool was answered; `EmptySlots` that the history of the node is consistent;
  `Accounts` adds to `OneTxPerCommand` that its two sets are finite, so that the
  number of sessions itself may be infinite.
- `OnlyOthersDrift`: `DriftInv` adds to `DriftFromOthers` that, as long as nothing
  is evicted, the nonces below any transaction are taken (`Filled`), and that a
  command between its two readings of a nonce meets no nonce of its own.
- `StepContinues` says once what a step makes of its own command; each group of
  steps (`InsideInv`, `TakesInv`, `PoolInv`) then keeps the invariant.

`SessionProofs`, the keystore (any aliases, keys, inodes, faults, processes;
`KeystoreAssumption`):

- `FilesKept`: `OneNamePerFile` and `TornHasWriter` are inductive with the types.
- `ApartKeepsWallets`: `StoreSpec /\ []MethodsApart => KeepsWallets`, where
  `MethodsApart` says that no two processes have methods under way that name the
  same alias. Each system call is then a step of `WalletStore` and everything
  else a stutter. `Checked` carries what a method's checks found to its system
  call; a step of another process leaves the files of an alias alone that it does
  not name (`StepFrame`), also what a writer has open, because no two names share
  a file. The hypothesis is what two creates of one alias break (run
  `keystore_race`), and the theorem says that nothing else does.
- `OneProcessKeepsWallets`: with one process the hypothesis is trivial. The run
  `keystore` checks this instance.

`SessionProofs`, the sessions (any number of them and of other processes):
`SignsAsShown` rests on `StoredRemembered` (what lies under an alias is in its
history) and `PromptsActive`; `SessionTypeCorrect` carries the store's invariants
over. `SessionsUseStore` is that sessions implement `StoreSpec`, and with it
`SessionsKeepWallets`.

`WalletProofs` (any number of sessions, destinations, nonces, fee levels and
bounds; `WalletAssumption` is the assumptions of the two parts):

- `WalletImplementsSend`: every step of the whole is a step of `WalletSend` or
  leaves it alone (`SendStep`). All it needs is `Shape`, that a session's pool is
  a record for the account. `SendT` instantiates `WalletSendProofs` under the same
  mapping, `SameSend` identifies the two, and so `IInv` of `WalletSend` holds of
  the whole (`CommandsKept`).
- `WalletImplementsPool`: with that, what `Record` passes to `submit` is well
  typed (`RecordArgs`), and every step is a step of `NonceManager` or leaves it
  alone. `PoolsKept` carries its type invariant over.
- `LogIsTrue`, `ForgetsNothing` are inductive relative to those two: `taken`
  only grows, an append moves its record from on its way to the file or to `lost`
  (`AppendKeeps`), and a command moves a transaction to `submit` or to `unheard`
  (`CommandTakes`, `CommandKeeps`).
- `WholeCommands`, `WholePools`: the theorems of the two parts, carried to the
  whole along the two refinements.

`RpcClientProofs` (any rates that divide the second, timeouts, jitter, answer
times): `WaitTellsTruth` and `WaitInTime` from `WaitInv`, which says for each place
of `wait_for_receipt` when its last poll was issued relative to the deadline, and
that the node had no receipt when it looked. The clock does not pass a timer that
is due (`TypeInv`), so that the two times of the loop are bounded by them.

`RateIsBounded` is `RequestRate`. It speaks of pairs of requests and says nothing
of the limiter, so `RateInv` adds why it holds: the requests since any request
are paid for (`AllPaid`). `Paid(i, p, e)` splits them into `p` that took a permit,
each of which moved `tat` on by a `Period`, and `e` later polls of a wait, each a
second or more after the poll before it (`Slept`). A wait that holds a permit no
poll has used (`Fresh`) is one permit ahead. Since `tat` is never more than a
second ahead of the clock (`Bucket`), both kinds are bounded by the time that
has passed (`WindowHolds`, `WindowPays`), and at a new request the bound for
every window that ends with it follows (`RateAfterRequest`).

`ReplProofs` (any endpoints, directories and chains, any layers; `ConfigAssumption`,
`ReplAssumption`):

- `ReplTypes`: `Loaded` says that the configuration is what `load` makes of three
  layers; `Bound` that there is no wallet, history or output of a command before
  the loop or a command.
- `LayersAreKept`: `ResolvedFields` is what the three merges and clap make of each
  field, `GivenIsHighest` that this is the value of the highest layer that sets
  it. `DataDirIsKept` goes through the cases of `data_dir`: set by the environment
  or the command line, moved by a keystore of theirs, or left to the file.
- `SignsForExpectedChain`: `Locked` adds that unlocking needs a selected wallet
  and that a one-shot process has nobody to select it.
- `HistoryIsFiltered`: `HInv` adds that nothing is ahead on stdin outside a
  command unless one did not ask; `HistoryIsOff` that the editor runs only with a
  history.
- `ExitCodeIsTold`: `Silent` says that in JSON mode only the start's log line and
  questions are written before a one-shot command returns.

`SummaryProofs` (any width of `U256`, any texts, any number of decimals, of digits
shown, any gas limit; `AmountAssumption`, `SummaryAssumption`):

- `Pow`, `Number` and `Meant` are recursive functions, and what they compute needs
  induction. The library's induction theorems take an operator, which the
  provers cannot instantiate; here induction is over sets (`SetInduction`), from
  the library's facts that `<` is well founded on the naturals and that a nonempty
  set then has a minimal element, neither of which has an operator parameter.
  From it, recursive functions exist on intervals (`RecExists`), are unique
  (`RecUnique`), and exist on all naturals (`RecNat`); a step is a function
  `[1 .. n -> [V -> V]]`, not an operator.
- `PowIs`, `PowAdds`, `PowGrows`: powers of ten. `NumberReads`, `MeantCounts`: the
  two readings of a text satisfy their equations.
- `ReadIsMeant`: up to every character, the number read, times the zeros still to
  be padded, is at most what is meant so far, and the same if nothing was
  skipped: a skipped character puts each later digit one place too low. With it
  `ParseIsMeant`, and `AmountIsTyped` of the command.
- `DigitsCount`: up to every digit shown, the text means the amount without the
  rest (`DivideTwice`). With it `FormatReads`, and `ShowsTheTruth` and
  `CostIsApproved` of the command.
- `Carried`, with the types, is the inductive invariant of the command: its value
  is what the parser made of the text, and its screen is made of both numbers.

Model-checked only: liveness (`Settles`, `Ends`), because fairness is about
`ENABLED`, which is out of the prover's reach. Every other property of a passing
run is a theorem. The violations are TLC's, by their nature.

The sentinels (`NoTx`, `Torn`, `Absent` and so on) are assumed to differ from the
values they stand beside, the bounds to be natural numbers, and the rates to
divide the second; nothing else is assumed.

## Where documents and code differ

Three runs show one each (above; `PROJECT.json` quotes the lines). Others, seen
while modelling and without a run of their own:

- `rebuild()` reads nothing of the log, although its documentation promises
  that; `NonceManager!Rebuild` models what it does, and
  in `Wallet` a restarted process starts with an empty pool;
- a token transfer is signed with the gas of a plain one (21 000), which no node
  accepts for a transaction with calldata (`WalletSend!IntrinsicGasOk`); its
  summary shows the amount with 18 decimals as ETH, and no gas;
- a `keystore_dir` in the environment or on the command line replaces the file's
  `data_dir` by its own parent (`Repl!MovedAway`), although `config.rs:11-13`
  documents a cascade per field and `config.rs:113` says "if data_dir wasn't set
  separately". `LayersKept` states the cascade with this exception. A
  `--keystore-dir` does not replace the environment's `data_dir`, but only because
  clap passes that on as if it were a flag;
- one-shot `send-eth`, `send-token` and `sign-message` can never succeed, because
  every process starts locked and unlocks nothing before its one command;
  `commands.md:146` and `:201` show them working from the shell. `SignsOnlyExpected`
  states what the code does: a one-shot command signs nothing;
- `commands.md:20-21` documents the flags `--chain-id` and `--rpc-timeout`, which
  do not exist (`mod.rs:50-80`; the environment and the file can set both), and
  gives a default timeout of 30 where the code has 10;
- the parser's `10.pow(decimals)` wraps for 78 and more decimals; ruint skips
  `_`, which counts as a digit of the fraction all the same (`0.5_` is 0.05); `.`
  and the empty text are zero; the total of a summary wraps; a doc comment in
  `pure.rs` shows 9.9999 where the code shows 0.9999;
- in JSON mode the trace's start line and the prompt of a loop without an editor
  are on stdout, where `output.rs` promises results only; `--help` in the loop
  too. The comment on the start's banner says "even in JSON mode", the code the
  opposite;
- a quota of 25 per second admits almost twice as many in some seconds (GCRA
  starts with a full bucket and refills it meanwhile), and polls take no permit;
- `wait_for_receipt` with a timeout of zero asks nobody; `rpc_timeout_secs` is
  read by nothing;
- several error codes are never produced (`CryptoError` has no variants);
- no error says that an original is already mined (ADR-0008 names
  `TxAlreadyMined`): `get_tx` finds mined transactions too and the bump goes on;
- a bump drops the original's calldata and does not compare its sender with the
  signer; `cancel` reports the original's fees as the new ones;
- `NonceManager::replaced` is never called by a bump or cancel;
- the nonce recorded after a send is the summary's, which need not be the signed
  one; a failed append to the log is ignored (`let _ =`);
- `nonce.rs` says that every method takes the flock before it reads or writes;
  only appends do, and memory is per process;
- records name no address, so that a log of two accounts cannot be read back;
- `next()` may return a dead nonce and reserves nothing (no command calls it);
- the 60-second idle timeout of `unlock` does not exist;
- one-shot `use` and `unlock` end with their process and have no effect;
- the REPL splits lines at blanks and knows no quotes, so that a mnemonic of
  several words cannot be imported there;
- the history file ignores a configured `data_dir`; history is not saved when
  reading a line fails.

## Not modelled

- Encryption, signatures, mnemonics: wrappers of library primitives. Signing
  enters as a deterministic function of the transaction, a complete keystore file
  as its key.
- Memory hardening, zeroization, `main.rs`'s panic hook: below the level of steps.
- Error codes: a `match` per enum; nothing in the program branches on a code.
- Parsers of hashes and addresses, ABI encoding, the value types: they hand their
  text to library decoders and have no state.
- clap's own exits on the command line (before anything is loaded), the parsing
  of configuration values, `write_history` and `rpc_timeout_secs`, which nothing
  reads: this is why configuration and process are listed as partly modelled.
- Originals of other programs: a bump of a contract creation is an error
  (`rbf.rs:101-103`), which `LookupFails` leaves out because no command makes one.
- A short write inside a record of the nonce log: a record is written whole or
  not at all, only its newline may be missing.
- Balances: a node refuses a payment that the account cannot afford, which looks
  like any refusal.
- `release.rs`: text for the release workflow.

## Plan

1. Done: all modules above, the composition `Wallet` with its two refinements,
   liveness of `Wallet` and `RpcClient`, and the proofs above.
2. Done: every safety property of a passing run proved, `KeepsWallets` for several
   processes, the parts' theorems carried to `Wallet`. Left to prove: that
   `NothingForgotten` together with `LogTellsTruth` makes the file and the accidents
   an exact account of `taken`.
3. Extend, if the code gains it: a nonce passed to the builder would turn `rbf`
   into a passing run, and a rebuild from the log would add `Launch` to what
   `NothingForgotten` promises.
