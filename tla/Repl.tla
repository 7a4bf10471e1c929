-------------------------------- MODULE Repl --------------------------------
(***************************************************************************)
(* One evm-cli process from start to exit code: run, dispatch_one_shot and *)
(* run_repl of src/cli/mod.rs, over the layers of Config, Session::build   *)
(* (src/cli/session.rs) and the history filter of src/cli/history.rs.      *)
(*                                                                         *)
(* Commands are classes: what they need and what they leave in the session *)
(* (modules Session and WalletSend have the commands themselves).  A line  *)
(* is a class of input too.                                                *)
(***************************************************************************)
EXTENDS Config, Output, Naturals

CONSTANTS
  Settings,     \* what a layer may set: the PartialConfigs that are tried
  NoConfig      \* before the configuration is loaded

ASSUME ReplAssumption == Settings \subseteq Partial

\* create-wallet and import-mnemonic; use; unlock; send-eth and send-token;
\* sign-message; list, balance and pending-tx; exit.
Commands == {"create", "use", "unlock", "pay", "message", "read", "exit"}

\* What the user can type: a command, one that names a secret (such as
\* import-mnemonic), what clap refuses or answers itself, a line of flags
\* without a subcommand.
Lines == Commands \cup {"secret", "malformed", "usage", "flags", "help", "blank",
  "interrupt"}

\* What a command asks for while it runs, and reads from stdin, the stream
\* the lines come from.
Answers == {"password", "yes", "other"}
Asks(c) ==
  IF c \in {"create", "unlock"} THEN "password"
  ELSE IF c = "pay" THEN "yes" ELSE "nothing"

\* should_skip_history: the line names a mnemonic, a password or a key.  A
\* password does not say that it is one.
Sensitive(line) == line = "secret"

\* What the history tells apart.
Remembered == {"secret", "password", "plain"}
AsRemembered(line) == IF line \in {"secret", "password"} THEN line ELSE "plain"

VARIABLES
  at,           \* where the process is
  cfg,          \* the configuration, or NoConfig
  layers,       \* history: what the file, the environment and the command
                \* line set, each by itself, until the session is built
  oneShot,      \* the subcommand of the command line, or "none"
  chain,        \* the chain id the RPC endpoint answered
  active,       \* session.active_alias.is_some()
  unlocked,     \* session.unlocked_signer.is_some()
  doing,        \* the command that runs, or "none"
  ahead,        \* stdin: the answer that was typed ahead with the command
  editor,       \* rustyline runs
  mem,          \* the editor's history
  file,         \* the history file
  wrote,        \* what was written since the command began
  signed,       \* history: chain ids that something was signed for
  early,        \* history: a command did not ask for what was typed ahead
  code          \* the exit code: success 0, failure 1, misconfigured 2

config == <<cfg, layers>>
wallet == <<active, unlocked, signed>>
history == <<editor, mem, file>>
stdin == <<ahead, early>>
vars == <<at, cfg, layers, oneShot, chain, active, unlocked, doing, ahead,
          editor, mem, file, wrote, signed, early, code>>

Places ==
  {"load", "build", "welcome", "loop", "running", "asking", "exited"}

TypeInv ==
  /\ at \in Places
  /\ cfg \in Configs \cup {NoConfig}
  /\ layers \in {<<>>} \cup (Settings \X Settings \X Settings)
  /\ oneShot \in Commands \cup {"none"}
  /\ chain \in Chains \cup {Unset}
  /\ active \in BOOLEAN /\ unlocked \in BOOLEAN /\ editor \in BOOLEAN
  /\ doing \in Commands \cup {"none"}
  /\ ahead \in Answers \cup {"nothing"}
  /\ mem \subseteq Remembered /\ file \subseteq Remembered
  /\ wrote \subseteq Writes
  /\ signed \subseteq Chains
  /\ early \in BOOLEAN
  /\ code \in {"running", "success", "failure", "misconfigured"}
  /\ at = "exited" <=> code # "running"
  /\ at \in {"running", "asking"} => doing # "none"

\* An earlier session may have left a history file.
Init ==
  /\ at = "load"
  /\ cfg = NoConfig
  /\ layers = <<>>
  /\ oneShot \in Commands \cup {"none"}
  /\ chain = Unset
  /\ active = FALSE /\ unlocked = FALSE
  /\ doing = "none" /\ ahead = "nothing" /\ early = FALSE
  /\ editor = FALSE /\ mem = {} /\ file \in {{}, {"plain"}}
  /\ wrote = StartLog
  /\ signed = {}
  /\ code = "running"

\* MUTANT of Exit: the outcome is known and the process goes on.
ExitLate(c) == at' = at /\ code' = c

Exit(c) == at' = "exited" /\ code' = c

-----------------------------------------------------------------------------
(* Start-up.                                                               *)

\* Config::load, after Cli::parse.  The command line has no flag for the
\* chain id.
Load ==
  /\ at = "load"
  /\ at' = "build"
  /\ \E toml, env, flags \in Settings :
       /\ flags.expected_chain_id = Unset
       /\ layers' = <<toml, env, flags>>
       /\ cfg' = Resolved(toml, env, FromFlags(flags, env))
  /\ UNCHANGED <<oneShot, chain, wallet, doing, stdin, history, wrote, code>>

\* A file that cannot be read or parsed ends the process with code 2, and in
\* prose: whether JSON is wanted is not known yet.
ConfigError ==
  /\ at = "load"
  /\ Exit("misconfigured")
  /\ wrote' = wrote \cup Plain
  /\ UNCHANGED <<config, oneShot, chain, wallet, doing, stdin, history>>

\* MUTANT of Build: the chain id is not compared.
BuildUnchecked(c) ==
  /\ at = "build"
  /\ chain' = c
  /\ at' = IF oneShot = "none" THEN "welcome" ELSE "running"
  /\ doing' = oneShot
  /\ wrote' = wrote \cup Banner(cfg.json)
  /\ layers' = <<>>
  /\ UNCHANGED <<code, cfg, oneShot, wallet, stdin, history>>

\* Session::build: the keystore directory is writable, the endpoint answers,
\* and its chain is the expected one; else code 1.  A one-shot command runs.
Build(c) ==
  /\ at = "build"
  /\ chain' = c
  /\ \/ /\ c = cfg.expected_chain_id
        /\ at' = IF oneShot = "none" THEN "welcome" ELSE "running"
        /\ doing' = oneShot
        /\ wrote' = wrote \cup Banner(cfg.json)
        /\ UNCHANGED code
     \/ /\ c # cfg.expected_chain_id
        /\ Exit("failure")
        /\ wrote' = wrote \cup Banner(cfg.json) \cup Error(cfg.json)
        /\ UNCHANGED doing
  /\ layers' = <<>>
  /\ UNCHANGED <<cfg, oneShot, wallet, stdin, history>>

BuildFails ==
  /\ at = "build"
  /\ Exit("failure")
  /\ wrote' = wrote \cup Banner(cfg.json) \cup Error(cfg.json)
  /\ layers' = <<>>
  /\ UNCHANGED <<cfg, oneShot, chain, wallet, doing, stdin, history>>

-----------------------------------------------------------------------------
(* A command, one-shot or of the loop.                                     *)

\* require_unlocked_signer, and the active wallet that `unlock` asks for.
CanBegin ==
  /\ doing \in {"pay", "message"} => active /\ unlocked
  /\ doing = "unlock" => active

\* What the command leaves in the session when it returns Ok.
Done ==
  /\ active' = (active \/ doing = "use")
  /\ unlocked' = IF doing = "use" THEN FALSE ELSE unlocked \/ doing = "unlock"
  /\ signed' = IF doing \in {"pay", "message"} THEN signed \cup {chain} ELSE signed

\* The command returns; a one-shot command ends the process.
Return(written, failed) ==
  /\ wrote' = wrote \cup written
  /\ IF oneShot = "none" THEN at' = "loop" /\ UNCHANGED code
     ELSE Exit(IF failed THEN "failure" ELSE "success")
  /\ doing' = "none"
  /\ early' = (early \/ ahead' # "nothing")
  /\ UNCHANGED <<config, oneShot, chain, history>>

\* A command that fails leaves the session as it was, but a payment may have
\* been signed by then.
Tried ==
  /\ UNCHANGED <<active, unlocked>>
  /\ signed' \in IF doing = "pay" /\ CanBegin THEN {signed, signed \cup {chain}}
                 ELSE {signed}

\* An error before a question: RPC, keystore, arguments, nothing unlocked.
Refused ==
  /\ at = "running"
  /\ doing # "exit"
  /\ Tried
  /\ UNCHANGED ahead
  /\ Return(Error(cfg.json), TRUE)

\* A command that asks nothing, and a dry run: of send-eth it ends with the
\* summary, of --bump-fee and --cancel the replacement is sent all the same.
\* Some only have something to tell (no wallets, nothing pending).
Completed ==
  /\ at = "running"
  /\ CanBegin
  /\ Asks(doing) = "nothing" \/ doing = "pay"
  /\ Done
  /\ UNCHANGED ahead
  /\ \E w \in {Success(cfg.json), Info(cfg.json)} :
       Return(IF doing = "exit" THEN {} ELSE w, FALSE)

\* prompt_password and confirm.  Before it asks, send-eth has signed and
\* prints the summary; cmd_rbf signs later.
Ask ==
  /\ at = "running"
  /\ CanBegin
  /\ Asks(doing) # "nothing"
  /\ at' = "asking"
  /\ wrote' = wrote \cup Question \cup IF doing = "pay" THEN Info(cfg.json) ELSE {}
  /\ signed' \in IF doing = "pay" THEN {signed, signed \cup {chain}} ELSE {signed}
  /\ UNCHANGED <<config, oneShot, chain, active, unlocked, doing, stdin, history,
                 code>>

\* The answer is the next line of stdin, the one typed ahead if there is one.
Read(a) ==
  /\ at = "asking"
  /\ ahead # "nothing" => a = ahead
  /\ ahead' = "nothing"

\* MUTANT of Answer: the question is asked by the editor, which remembers.
AnswerRemembered(a) ==
  /\ Read(a)
  /\ a \in {Asks(doing), "other"}
  /\ Done
  /\ wrote' = wrote \cup Success(cfg.json)
  /\ IF oneShot = "none" THEN at' = "loop" /\ UNCHANGED code ELSE Exit("success")
  /\ doing' = "none"
  /\ mem' = IF editor THEN mem \cup {AsRemembered(a)} ELSE mem
  /\ UNCHANGED <<config, oneShot, chain, editor, file, early>>

\* The right answer, and the command goes on to its end.
Answer(a) ==
  /\ Read(a)
  /\ a = Asks(doing) \/ doing = "create"
  /\ Done
  /\ Return(Success(cfg.json), FALSE)

\* A wrong one, or an error after it.  Not to confirm is no error: the
\* command is cancelled.
AnswerFails(a) ==
  /\ Read(a)
  /\ \/ /\ doing = "pay" /\ a # "yes"
        /\ UNCHANGED wallet
        /\ Return(Info(cfg.json), FALSE)
     \/ /\ doing = "pay" => a = "yes"
        /\ Tried
        /\ Return(Error(cfg.json), TRUE)

-----------------------------------------------------------------------------
(* The loop.                                                               *)

\* The editor is used unless history is off or it cannot be set up; without
\* it lines come from plain stdin.  A history that cannot be read is empty.
Welcome(works) ==
  /\ at = "welcome"
  /\ at' = "loop"
  /\ editor' = (works /\ ~ cfg.no_history)
  /\ mem' \in IF works /\ ~ cfg.no_history THEN {file, {}} ELSE {{}}
  /\ wrote' = wrote \cup Info(cfg.json) \cup Banner(cfg.json)
  /\ UNCHANGED <<config, oneShot, chain, wallet, doing, stdin, file, code>>

\* add_history_entry, before clap has seen the line.
Enter(line) ==
  mem' = IF editor /\ ~ Sensitive(line) THEN mem \cup {AsRemembered(line)} ELSE mem

\* A line is read: at the prompt, and nothing was typed ahead.
Prompt == IF editor THEN {} ELSE LoopPrompt
AtPrompt == at = "loop" /\ ahead = "nothing"

\* Blank lines, `help` and Ctrl-C are answered before the history filter.
\* Without the editor Ctrl-C ends the process.
Skip(line) ==
  /\ AtPrompt
  /\ line \in {"blank", "help", "interrupt"}
  /\ line = "interrupt" => editor
  /\ wrote' = Prompt \cup (IF line = "help" THEN Info(cfg.json)
                           ELSE IF line = "interrupt" THEN Plain ELSE {})
  /\ UNCHANGED <<at, config, oneShot, chain, wallet, doing, stdin, history, code>>

\* What clap refuses or answers itself, and flags without a subcommand.
NoCommand(line) ==
  /\ AtPrompt
  /\ line \in {"malformed", "usage", "flags"}
  /\ Enter(line)
  /\ wrote' = Prompt \cup (IF line = "usage" THEN Usage
                          ELSE IF line = "flags" THEN Info(cfg.json) ELSE Plain)
  /\ UNCHANGED <<at, config, oneShot, chain, wallet, doing, stdin, editor, file,
                 code>>

\* What was typed ahead for a command that did not ask is read as a line, and
\* clap refuses it.
Stray ==
  /\ at = "loop"
  /\ ahead # "nothing"
  /\ Enter(ahead)
  /\ ahead' = "nothing"
  /\ wrote' = Prompt \cup Plain
  /\ UNCHANGED <<at, config, oneShot, chain, wallet, doing, early, editor, file,
                 code>>

\* What a line runs: one that names a secret can be any command, since an
\* alias or a message may contain the word.
Parsed(line) == IF line = "secret" THEN Commands \ {"exit"} ELSE {line}

\* A command begins, and its answer may be on stdin behind it.
Run(line) ==
  /\ AtPrompt
  /\ line \in (Commands \ {"exit"}) \cup {"secret"}
  /\ \E c \in Parsed(line) :
       /\ doing' = c
       /\ ahead' \in {"nothing", Asks(c)}
  /\ at' = "running"
  /\ Enter(line)
  /\ wrote' = Prompt
  /\ UNCHANGED <<config, oneShot, chain, wallet, early, editor, file, code>>

\* MUTANT of Leave: the history is saved whether it is wanted or not.
LeaveSaving(line) ==
  /\ AtPrompt
  /\ line = "exit"
  /\ file' = mem
  /\ Exit("success")
  /\ UNCHANGED <<config, oneShot, chain, wallet, doing, stdin, editor, mem, wrote>>

\* `exit`, Ctrl-D or the end of stdin: the history is saved if it can be,
\* code 0 whatever failed before.
Leave(line) ==
  /\ AtPrompt
  /\ line = "exit"
  /\ file' \in IF editor THEN {mem, file} ELSE {file}
  /\ Exit("success")
  /\ wrote' = Prompt
  /\ UNCHANGED <<config, oneShot, chain, wallet, doing, stdin, editor, mem>>

\* The terminal fails: code 1, the history of the session is not saved.
ReadlineError ==
  /\ at = "loop"
  /\ Exit("failure")
  /\ wrote' = Prompt \cup Error(cfg.json)
  /\ UNCHANGED <<config, oneShot, chain, wallet, doing, stdin, history>>

Next ==
  \/ Load \/ ConfigError
  \/ \E c \in Chains : Build(c)
  \/ BuildFails
  \/ Refused \/ Completed \/ Ask
  \/ \E a \in Answers : Answer(a) \/ AnswerFails(a)
  \/ \E works \in BOOLEAN : Welcome(works)
  \/ \E line \in Lines : Skip(line) \/ NoCommand(line) \/ Run(line) \/ Leave(line)
  \/ Stray \/ ReadlineError

Spec == Init /\ [][Next]_vars

-----------------------------------------------------------------------------
\* The layers that set a field: 1 the file, 2 the environment, 3 the command
\* line as it was typed.
Setting(f) == {i \in 1 .. 3 : layers[i][f] # Unset}

FromHighest(f) ==
  \/ Setting(f) = {} /\ cfg[f] = Defaults[f]
  \/ \E i \in Setting(f) :
       /\ \A j \in Setting(f) : j <= i
       /\ cfg[f] = layers[i][f]

\* Only the file sets data_dir, and a layer above it sets a keystore_dir.
MovedAway ==
  /\ Setting("data_dir") = {1}
  /\ \E i \in {2, 3} : layers[i].keystore_dir \notin {Unset, Root}

ParentIsDataDir ==
  \/ cfg.keystore_dir = Below(cfg.data_dir)
  \/ cfg.data_dir = ParentOf(cfg.keystore_dir)

\* When the session is built, every option has the value of the highest layer
\* that sets it, or its default (config.rs:5-13), and a switch is on if any
\* layer switches it on.  data_dir is the parent of keystore_dir unless it is
\* set (config.rs:26).  The file's data_dir is the exception the code makes to
\* config.rs:11-13: a keystore_dir of a higher layer moves it away, while one
\* on the command line leaves the environment's data_dir alone.
LayersKept ==
  at = "build" =>
    /\ \A f \in {"rpc_url", "keystore_dir", "expected_chain_id"} : FromHighest(f)
    /\ \A f \in {"json", "no_history"} : cfg[f] <=> \E i \in 1 .. 3 : layers[i][f]
    /\ IF Setting("data_dir") = {} \/ MovedAway
       THEN cfg.keystore_dir # Root => ParentIsDataDir
       ELSE FromHighest("data_dir")

\* Nothing is ever signed for a chain other than the configured one, nor
\* outside a loop in which a wallet was selected and unlocked: a one-shot
\* command starts locked and signs nothing (session.rs, step 3;
\* require_unlocked_signer), though commands.md:146 and :201 show it signing.
SignsOnlyExpected ==
  /\ \A c \in signed : c = cfg.expected_chain_id
  /\ signed # {} => oneShot = "none" /\ active

\* A line that names a secret never reaches the history, in memory or in the
\* file, whichever way the loop ends; and a password does only as a line of
\* its own, typed ahead for a command that then failed before it asked
\* (history.rs, commands.rs:678-689).
HistoryFiltered ==
  /\ "secret" \notin mem \cup file
  /\ "password" \in mem \cup file => early

\* With no_history the file is neither read nor written.
HistoryOff ==
  [][(file' # file \/ mem' # mem) => ~ cfg.no_history]_vars

\* A script can trust the exit code of a one-shot command: code 1 comes with
\* an error on stderr and no result on stdout, code 0 without an error.  And
\* in JSON mode no prose of a command is on stdout (--help apart, which clap
\* prints in the loop), so that in particular a payment is confirmed without
\* its summary (output.rs:135-141, commands.rs:739).
Reported(stream) == <<stream, "object">> \in wrote \/ <<stream, "text">> \in wrote

ExitTold ==
  /\ oneShot # "none" /\ at = "exited" /\ cfg # NoConfig /\ cfg.json =>
        /\ code = "failure" <=> Reported("stderr")
        /\ code = "failure" => ~ Reported("stdout")
        /\ <<"stdout", "text">> \notin wrote
  /\ code = "misconfigured" => Reported("stderr") /\ cfg = NoConfig

=============================================================================
