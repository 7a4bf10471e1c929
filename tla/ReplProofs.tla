----------------------------- MODULE ReplProofs -----------------------------
(* Proofs about module Repl: types, the layers of the configuration, what  *)
(* can be signed, and what the history and the streams hold.               *)
EXTENDS Repl, TLAPS

-----------------------------------------------------------------------------
(* Start-up: what the configuration is while it is read.                   *)

\* The places of the start-up, and those with a session.
Starting == {"load", "build"}
Started == {"welcome", "loop", "running", "asking"}

\* There is a configuration from `load` on, and until the session is built it
\* is known what it is made of.
Loaded ==
  /\ at \in {"build"} \cup Started => cfg \in Configs
  /\ at = "load" => cfg = NoConfig
  /\ at = "build" =>
       \E toml, env, flags \in Partial :
         /\ flags.expected_chain_id = Unset
         /\ layers = <<toml, env, flags>>
         /\ cfg = Resolved(toml, env, FromFlags(flags, env))

\* Only a session that was built, on the expected chain, has a wallet.
Bound ==
  /\ at \in Started => chain = cfg.expected_chain_id
  /\ at \in Starting =>
       ~ active /\ ~ unlocked /\ signed = {} /\ wrote = StartLog
  /\ at \in Starting \cup {"welcome"} => ~ editor /\ mem = {}

TInv == TypeInv /\ Loaded /\ Bound

-----------------------------------------------------------------------------
(* A layer.                                                                *)

LEMMA DefaultsTyped == Defaults \in Configs
BY ConfigAssumption DEF Defaults, Configs, DefaultDir, DataDirs, Below

LEMMA MergeTyped ==
  ASSUME NEW base \in Configs, NEW p \in Partial
  PROVE  MergePartial(base, p) \in Configs
<1>1. DataDirOf(base, p) \in DataDirs
  BY DEF Configs, Partial, DataDirOf, DataDirs
<1>2. /\ Given(p.rpc_url, base.rpc_url) \in Urls \cup {DefaultUrl}
      /\ Given(p.keystore_dir, base.keystore_dir) \in Dirs \cup {Below(DefaultDir)}
      /\ Given(p.expected_chain_id, base.expected_chain_id) \in Chains
  BY DEF Configs, Partial, Given
<1>3. (base.json \/ p.json) \in BOOLEAN /\ (base.no_history \/ p.no_history) \in BOOLEAN
  OBVIOUS
<1> QED BY <1>1, <1>2 DEF MergePartial, Configs

LEMMA FlagsTyped ==
  ASSUME NEW flags \in Partial, NEW env \in Partial
  PROVE  FromFlags(flags, env) \in Partial
BY DEF FromFlags, Partial, Given

LEMMA ResolvedTyped ==
  ASSUME NEW toml \in Partial, NEW env \in Partial, NEW cli \in Partial
  PROVE  Resolved(toml, env, cli) \in Configs
BY DefaultsTyped, MergeTyped DEF Resolved

-----------------------------------------------------------------------------
(* The pieces every step is made of.                                       *)

LEMMA OutputTyped ==
  ASSUME NEW json
  PROVE  /\ Info(json) \subseteq Writes /\ Success(json) \subseteq Writes
         /\ Error(json) \subseteq Writes /\ Banner(json) \subseteq Writes
         /\ Question \subseteq Writes /\ Plain \subseteq Writes
         /\ Usage \subseteq Writes /\ StartLog \subseteq Writes
         /\ LoopPrompt \subseteq Writes
BY DEF Info, Success, Error, Banner, Question, Plain, Usage, StartLog,
   LoopPrompt, Writes, Streams, Kinds

LEMMA RememberedTyped ==
  ASSUME NEW line
  PROVE  AsRemembered(line) \in Remembered
BY DEF AsRemembered, Remembered

LEMMA InitTyped == Init => TInv
<1> SUFFICES ASSUME Init PROVE TInv
  OBVIOUS
<1>1. TypeInv
  BY OutputTyped DEF Init, TypeInv, Places, Commands, Remembered, StartLog,
     Answers
<1>2. Loaded
  BY DEF Init, Loaded, Starting, Started
<1>3. Bound
  BY DEF Init, Bound, Starting, Started
<1> QED BY <1>1, <1>2, <1>3 DEF TInv

LEMMA ReturnTyped ==
  ASSUME TInv, NEW w, w \subseteq Writes, NEW failed, at \in {"running", "asking"},
         Return(w, failed)
  PROVE  /\ at' \in {"loop", "exited"} /\ (at' = "exited" <=> code' # "running")
         /\ code' \in {"running", "success", "failure"}
         /\ wrote' \subseteq Writes /\ doing' = "none" /\ early' \in BOOLEAN
         /\ UNCHANGED <<config, oneShot, chain, history>>
BY DEF TInv, TypeInv, Return, Exit

LEMMA DoneTyped ==
  ASSUME TInv, at \in Started, Done \/ Tried \/ UNCHANGED wallet
  PROVE  active' \in BOOLEAN /\ unlocked' \in BOOLEAN /\ signed' \subseteq Chains
<1>1. chain \in Chains
  BY DEF TInv, Loaded, Bound, Configs, Started
<1> QED BY <1>1 DEF TInv, TypeInv, Done, Tried, wallet

LEMMA CommandReturns ==
  ASSUME TInv, at \in {"running", "asking"},
         NEW w, w \subseteq Writes, NEW failed, Return(w, failed),
         Done \/ Tried \/ UNCHANGED wallet,
         ahead' \in Answers \cup {"nothing"}
  PROVE  TInv'
<1>1. /\ at' \in {"loop", "exited"} /\ (at' = "exited" <=> code' # "running")
      /\ code' \in {"running", "success", "failure"}
      /\ wrote' \subseteq Writes /\ doing' = "none" /\ early' \in BOOLEAN
      /\ UNCHANGED <<config, oneShot, chain, history>>
  BY ReturnTyped
<1>2. active' \in BOOLEAN /\ unlocked' \in BOOLEAN /\ signed' \subseteq Chains
  BY DoneTyped DEF Started
<1>3. TypeInv'
  BY <1>1, <1>2 DEF TInv, TypeInv, Places, config, history
<1>4. Loaded' /\ Bound'
  BY <1>1 DEF TInv, Loaded, Bound, Starting, Started, config, history
<1> QED BY <1>3, <1>4 DEF TInv

LEMMA StepTyped == TInv /\ [Next]_vars => TInv'
<1> SUFFICES ASSUME TInv, [Next]_vars PROVE TInv'
  OBVIOUS
<1> USE DEF TInv
<1>1. CASE Load
  <2>1. PICK toml \in Settings, env \in Settings, flags \in Settings :
          /\ flags.expected_chain_id = Unset
          /\ layers' = <<toml, env, flags>>
          /\ cfg' = Resolved(toml, env, FromFlags(flags, env))
    BY <1>1 DEF Load
  <2>2. toml \in Partial /\ env \in Partial /\ flags \in Partial
    BY ReplAssumption
  <2>3. cfg' \in Configs
    BY <2>1, <2>2, FlagsTyped, ResolvedTyped
  <2>4. TypeInv'
    BY <1>1, <2>1, <2>3 DEF TypeInv, Bound, Places, Starting, wallet, history,
       stdin, Load
  <2>5. Loaded' /\ Bound'
    BY <1>1, <2>1, <2>2, <2>3 DEF TypeInv, Loaded, Bound, Starting, Started,
       wallet, history, stdin, Load
  <2> QED BY <2>4, <2>5
<1>2. CASE ConfigError
  BY <1>2, OutputTyped DEF TypeInv, Loaded, Bound, Places, Starting, Started,
     config, wallet, history, stdin, vars, ConfigError, Exit
<1>3. ASSUME NEW c \in Chains, Build(c) PROVE TInv'
  <2>1. wrote' \subseteq Writes
    BY <1>3, OutputTyped DEF TypeInv, Build
  <2>2. cfg.expected_chain_id \in Chains
    BY <1>3 DEF Build, Loaded, Starting, Configs
  <2>3. TypeInv'
    BY <1>3, <2>1 DEF TypeInv, Loaded, Bound, Places, Starting, Started, config,
       wallet, history, stdin, vars, Build, Exit
  <2>4. Loaded' /\ Bound'
    BY <1>3 DEF TypeInv, Loaded, Bound, Places, Starting, Started, config,
       wallet, history, stdin, vars, Build, Exit
  <2> QED BY <2>3, <2>4
<1>4. CASE BuildFails
  BY <1>4, OutputTyped DEF TypeInv, Loaded, Bound, Places, Starting, Started,
     config, wallet, history, stdin, vars, BuildFails, Exit
<1>5. CASE Refused
  BY <1>5, OutputTyped, CommandReturns DEF Refused, TypeInv
<1>6. CASE Completed
  <2>1. PICK w : w \subseteq Writes /\ Return(w, FALSE)
    BY <1>6, OutputTyped DEF Completed
  <2> QED BY <1>6, <2>1, CommandReturns DEF Completed, TypeInv
<1>7. CASE Ask
  BY <1>7, OutputTyped DEF TypeInv, Loaded, Bound, Places, Starting, Started,
     config, wallet, history, stdin, vars, Ask, Configs
<1>8. ASSUME NEW a \in Answers, Answer(a) PROVE TInv'
  BY <1>8, OutputTyped, CommandReturns DEF Answer, Read
<1>9. ASSUME NEW a \in Answers, AnswerFails(a) PROVE TInv'
  <2>1. at = "asking" /\ ahead' = "nothing" /\ (Tried \/ UNCHANGED wallet)
    BY <1>9 DEF AnswerFails, Read
  <2>2. PICK w, f : w \subseteq Writes /\ Return(w, f)
    BY <1>9, OutputTyped DEF AnswerFails
  <2> QED BY <2>1, <2>2, CommandReturns
<1>10. ASSUME NEW works \in BOOLEAN, Welcome(works) PROVE TInv'
  BY <1>10, OutputTyped DEF TypeInv, Loaded, Bound, Places, Starting, Started,
     config, wallet, history, stdin, vars, Welcome
<1>11. ASSUME NEW line \in Lines, Skip(line) PROVE TInv'
  BY <1>11, OutputTyped DEF TypeInv, Loaded, Bound, Places, Starting, Started,
     config, wallet, history, stdin, vars, Skip, AtPrompt, Prompt
<1>12. ASSUME NEW line \in Lines, NoCommand(line) PROVE TInv'
  BY <1>12, OutputTyped, RememberedTyped DEF TypeInv, Loaded, Bound, Places,
     Starting, Started, config, wallet, history, stdin, vars, NoCommand,
     AtPrompt, Prompt, Enter
<1>13. ASSUME NEW line \in Lines, Run(line) PROVE TInv'
  <2>1. doing' \in Commands /\ ahead' \in Answers \cup {"nothing"}
    BY <1>13 DEF Run, Parsed, Asks, Answers, Commands
  <2> QED BY <1>13, <2>1, OutputTyped, RememberedTyped DEF TypeInv, Loaded,
         Bound, Places, Starting, Started, config, wallet, history, stdin, vars,
         Run, AtPrompt, Prompt, Enter, Commands
<1>14. ASSUME NEW line \in Lines, Leave(line) PROVE TInv'
  BY <1>14, OutputTyped DEF TypeInv, Loaded, Bound, Places, Starting, Started,
     config, wallet, history, stdin, vars, Leave, AtPrompt, Prompt, Exit
<1>15. CASE Stray
  BY <1>15, OutputTyped, RememberedTyped DEF TypeInv, Loaded, Bound, Places,
     Starting, Started, config, wallet, history, stdin, vars, Stray, Prompt,
     Enter
<1>16. CASE ReadlineError
  BY <1>16, OutputTyped DEF TypeInv, Loaded, Bound, Places, Starting, Started,
     config, wallet, history, stdin, vars, ReadlineError, Prompt, Exit
<1>17. CASE UNCHANGED vars
  BY <1>17 DEF TypeInv, Loaded, Bound, Places, Starting, Started, config, wallet,
     history, stdin, vars
<1> QED BY <1>1, <1>2, <1>3, <1>4, <1>5, <1>6, <1>7, <1>8, <1>9,
       <1>10,
           <1>11, <1>12, <1>13, <1>14, <1>15, <1>16, <1>17 DEF Next

\* Every variable keeps its type: the places, the streams, and what is
\* remembered are the ones the code has (src/cli/mod.rs).
THEOREM ReplTypes == Spec => []TypeInv
<1>1. TInv => TypeInv
  BY DEF TInv
<1> QED BY InitTyped, StepTyped, <1>1, PTL DEF Spec

-----------------------------------------------------------------------------
(* The layers decide.                                                      *)

\* What three merges make of each field.  clap passes the environment's value
\* of a flag a second time, which changes nothing but data_dir.
LEMMA ResolvedFields ==
  ASSUME NEW toml \in Partial, NEW env \in Partial, NEW flags \in Partial,
         flags.expected_chain_id = Unset
  PROVE  LET c == Resolved(toml, env, FromFlags(flags, env))
             Merged(f) == Given(flags[f], Given(env[f], Given(toml[f], Defaults[f])))
         IN  /\ c.rpc_url = Merged("rpc_url")
             /\ c.keystore_dir = Merged("keystore_dir")
             /\ c.expected_chain_id = Merged("expected_chain_id")
             /\ c.json = (toml.json \/ env.json \/ flags.json)
             /\ c.no_history = (toml.no_history \/ env.no_history \/ flags.no_history)
             /\ c.data_dir =
                  DataDirOf([data_dir |->
                    DataDirOf([data_dir |-> DataDirOf(Defaults, toml)], env)],
                    FromFlags(flags, env))
<1> DEFINE m1 == MergePartial(Defaults, toml)
           m2 == MergePartial(m1, env)
           cli == FromFlags(flags, env)
<1>1. /\ m1.rpc_url = Given(toml.rpc_url, Defaults.rpc_url)
      /\ m1.keystore_dir = Given(toml.keystore_dir, Defaults.keystore_dir)
      /\ m1.expected_chain_id = Given(toml.expected_chain_id, Defaults.expected_chain_id)
      /\ m1.json = toml.json /\ m1.no_history = toml.no_history
      /\ m1.data_dir = DataDirOf(Defaults, toml)
  BY DEF MergePartial, Defaults, Partial
<1>2. /\ m2.rpc_url = Given(env.rpc_url, m1.rpc_url)
      /\ m2.keystore_dir = Given(env.keystore_dir, m1.keystore_dir)
      /\ m2.expected_chain_id = Given(env.expected_chain_id, m1.expected_chain_id)
      /\ m2.json = (m1.json \/ env.json)
      /\ m2.no_history = (m1.no_history \/ env.no_history)
      /\ m2.data_dir = DataDirOf(m1, env)
  BY DEF MergePartial
<1>3. /\ cli.rpc_url = Given(flags.rpc_url, env.rpc_url)
      /\ cli.keystore_dir = Given(flags.keystore_dir, env.keystore_dir)
      /\ cli.expected_chain_id = Unset
      /\ cli.json = flags.json /\ cli.no_history = flags.no_history
  BY DEF FromFlags, Partial
<1>4. Resolved(toml, env, cli) = MergePartial(m2, cli)
  BY DEF Resolved
<1> HIDE DEF m1, m2, cli
<1>5. /\ MergePartial(m2, cli).rpc_url = Given(cli.rpc_url, m2.rpc_url)
      /\ MergePartial(m2, cli).keystore_dir = Given(cli.keystore_dir, m2.keystore_dir)
      /\ MergePartial(m2, cli).expected_chain_id =
           Given(cli.expected_chain_id, m2.expected_chain_id)
      /\ MergePartial(m2, cli).json = (m2.json \/ cli.json)
      /\ MergePartial(m2, cli).no_history = (m2.no_history \/ cli.no_history)
      /\ MergePartial(m2, cli).data_dir = DataDirOf(m2, cli)
  BY DEF MergePartial
<1>6. DataDirOf(m1, env) = DataDirOf([data_dir |-> DataDirOf(Defaults, toml)], env)
  BY <1>1 DEF DataDirOf
<1>7. DataDirOf(m2, cli) = DataDirOf([data_dir |-> DataDirOf(m1, env)], cli)
  BY <1>2 DEF DataDirOf
<1>8. \A u, v, w : Given(Given(u, v), Given(v, w)) = Given(u, Given(v, w))
  BY DEF Given
<1>9. \A w : Given(Unset, w) = w
  BY DEF Given
<1>10. MergePartial(m2, cli).json = (toml.json \/ env.json \/ flags.json)
  BY <1>1, <1>2, <1>3, <1>5, Zenon
<1>11. MergePartial(m2, cli).no_history
         = (toml.no_history \/ env.no_history \/ flags.no_history)
  BY <1>1, <1>2, <1>3, <1>5, Zenon
<1>12. cli = FromFlags(flags, env)
  BY DEF cli
<1> QED BY <1>1, <1>2, <1>3, <1>4, <1>5, <1>6, <1>7, <1>8, <1>9, <1>10, <1>11,
           <1>12

\* To take each field from the layer above if that sets it is to take it from
\* the highest layer that does.
LEMMA GivenIsHighest ==
  ASSUME NEW toml, NEW env, NEW flags, NEW f, layers = <<toml, env, flags>>,
         cfg[f] = Given(flags[f], Given(env[f], Given(toml[f], Defaults[f])))
  PROVE  FromHighest(f)
<1>1. layers[1] = toml /\ layers[2] = env /\ layers[3] = flags
  OBVIOUS
<1>2. CASE flags[f] # Unset
  BY <1>1, <1>2 DEF FromHighest, Setting, Given
<1>3. CASE flags[f] = Unset /\ env[f] # Unset
  BY <1>1, <1>3 DEF FromHighest, Setting, Given
<1>4. CASE flags[f] = Unset /\ env[f] = Unset /\ toml[f] # Unset
  BY <1>1, <1>4 DEF FromHighest, Setting, Given
<1>5. CASE flags[f] = Unset /\ env[f] = Unset /\ toml[f] = Unset
  BY <1>1, <1>5 DEF FromHighest, Setting, Given
<1> QED BY <1>2, <1>3, <1>4, <1>5

\* data_dir is decided from the top: by what sets it, or by a keystore_dir
\* that has a parent, but the environment's data_dir comes before the command
\* line's keystore_dir.
LEMMA DataDirIsKept ==
  ASSUME NEW toml \in Partial, NEW env \in Partial, NEW flags \in Partial,
         layers = <<toml, env, flags>>,
         cfg.keystore_dir =
           Given(flags.keystore_dir, Given(env.keystore_dir,
             Given(toml.keystore_dir, Defaults.keystore_dir))),
         cfg.data_dir =
           DataDirOf([data_dir |->
             DataDirOf([data_dir |-> DataDirOf(Defaults, toml)], env)],
             FromFlags(flags, env))
  PROVE  IF Setting("data_dir") = {} \/ MovedAway
         THEN cfg.keystore_dir # Root => ParentIsDataDir
         ELSE FromHighest("data_dir")
<1>1. layers[1] = toml /\ layers[2] = env /\ layers[3] = flags
  OBVIOUS
<1>2. /\ FromFlags(flags, env).data_dir = Given(flags.data_dir, env.data_dir)
      /\ FromFlags(flags, env).keystore_dir =
           Given(flags.keystore_dir, env.keystore_dir)
  BY DEF FromFlags, Partial
<1>3. Defaults.data_dir = DefaultDir /\ Defaults.keystore_dir = Below(DefaultDir)
  BY DEF Defaults
<1>4. Unset # Root
  BY ConfigAssumption
<1>5. CASE flags.data_dir # Unset \/ env.data_dir # Unset
  <2>1. cfg.data_dir = Given(flags.data_dir, env.data_dir)
    BY <1>2, <1>5 DEF DataDirOf, Given
  <2>2. cfg.data_dir = Given(flags.data_dir, Given(env.data_dir,
                         Given(toml.data_dir, Defaults.data_dir)))
    BY <1>5, <2>1 DEF Given
  <2>3. FromHighest("data_dir")
    BY <2>2, GivenIsHighest
  <2>4. Setting("data_dir") # {} /\ ~ MovedAway
    BY <1>1, <1>5 DEF Setting, MovedAway
  <2> QED BY <2>3, <2>4
<1>6. CASE flags.data_dir = Unset /\ env.data_dir = Unset
  <2> DEFINE base == DataDirOf(Defaults, toml)
  <2>1. cfg.data_dir =
          IF flags.keystore_dir \notin {Unset, Root} THEN ParentOf(flags.keystore_dir)
          ELSE IF env.keystore_dir \notin {Unset, Root} THEN ParentOf(env.keystore_dir)
          ELSE base
    BY <1>2, <1>4, <1>6 DEF DataDirOf, Given
  <2>2. CASE flags.keystore_dir \notin {Unset, Root} \/ env.keystore_dir \notin {Unset, Root}
    <3>1. Setting("data_dir") = {} \/ MovedAway
      BY <1>1, <1>6, <2>2 DEF Setting, MovedAway
    <3>2. cfg.keystore_dir # Root => cfg.data_dir = ParentOf(cfg.keystore_dir)
      BY <1>4, <2>1, <2>2 DEF Given
    <3> QED BY <3>1, <3>2 DEF ParentIsDataDir
  <2>3. CASE flags.keystore_dir \in {Unset, Root} /\ env.keystore_dir \in {Unset, Root}
    <3>1. cfg.data_dir = base
      BY <2>1, <2>3
    <3>2. ~ MovedAway
      BY <1>1, <2>3 DEF MovedAway
    <3>3. CASE toml.data_dir # Unset
      <4>1. cfg.data_dir = Given(flags.data_dir, Given(env.data_dir,
                             Given(toml.data_dir, Defaults.data_dir)))
        BY <1>6, <3>1, <3>3 DEF DataDirOf, Given
      <4>2. Setting("data_dir") # {}
        BY <1>1, <3>3 DEF Setting
      <4> QED BY <3>2, <4>1, <4>2, GivenIsHighest
    <3>4. CASE toml.data_dir = Unset
      <4>1. Setting("data_dir") = {}
        BY <1>1, <1>6, <3>4 DEF Setting
      <4>2. base = IF toml.keystore_dir \in {Unset, Root} THEN DefaultDir
                   ELSE ParentOf(toml.keystore_dir)
        BY <1>3, <3>4 DEF DataDirOf
      <4>3. ASSUME cfg.keystore_dir # Root PROVE ParentIsDataDir
        BY <1>3, <2>3, <3>1, <4>2, <4>3 DEF Given, ParentIsDataDir
      <4> QED BY <4>1, <4>3
    <3> QED BY <3>3, <3>4
  <2> QED BY <2>2, <2>3
<1> QED BY <1>5, <1>6

\* A session is built from the value of the highest layer that sets an option,
\* a switch that some layer switches on, and the data_dir that is set or lies
\* above the keystore_dir, except that a keystore_dir moves the file's
\* data_dir away (config.rs).
THEOREM LayersAreKept == Spec => []LayersKept
<1>1. TInv => LayersKept
  <2> SUFFICES ASSUME TInv, at = "build" PROVE LayersKept
    BY DEF LayersKept
  <2>1. PICK toml \in Partial, env \in Partial, flags \in Partial :
          /\ flags.expected_chain_id = Unset
          /\ layers = <<toml, env, flags>>
          /\ cfg = Resolved(toml, env, FromFlags(flags, env))
    BY DEF TInv, Loaded
  <2> DEFINE Merged(f) ==
               Given(flags[f], Given(env[f], Given(toml[f], Defaults[f])))
  <2>2. /\ cfg.rpc_url = Merged("rpc_url")
        /\ cfg.keystore_dir = Merged("keystore_dir")
        /\ cfg.expected_chain_id = Merged("expected_chain_id")
        /\ cfg.json = (toml.json \/ env.json \/ flags.json)
        /\ cfg.no_history = (toml.no_history \/ env.no_history \/ flags.no_history)
        /\ cfg.data_dir =
             DataDirOf([data_dir |->
               DataDirOf([data_dir |-> DataDirOf(Defaults, toml)], env)],
               FromFlags(flags, env))
    BY <2>1, ResolvedFields
  <2>3. FromHighest("rpc_url") /\ FromHighest("keystore_dir")
          /\ FromHighest("expected_chain_id")
    BY <2>1, <2>2, GivenIsHighest
  <2>4. layers[1] = toml /\ layers[2] = env /\ layers[3] = flags
    BY <2>1
  <2>5. 1 .. 3 = {1, 2, 3}
    OBVIOUS
  <2>6. /\ cfg["json"] <=> \E i \in 1 .. 3 : layers[i]["json"]
        /\ cfg["no_history"] <=> \E i \in 1 .. 3 : layers[i]["no_history"]
    BY <2>2, <2>4, <2>5, Zenon
  <2>7. IF Setting("data_dir") = {} \/ MovedAway
        THEN cfg.keystore_dir # Root => ParentIsDataDir
        ELSE FromHighest("data_dir")
    BY <2>1, <2>2, DataDirIsKept
  <2> QED BY <2>3, <2>6, <2>7 DEF LayersKept
<1> QED BY InitTyped, StepTyped, <1>1, PTL DEF Spec

-----------------------------------------------------------------------------
(* What is signed.                                                         *)

\* Unlocking needs a wallet that was selected, and a one-shot command has no
\* command before it that could have selected one.
Locked ==
  /\ unlocked => active
  /\ oneShot # "none" => /\ at \notin {"welcome", "loop"}
                         /\ at \in {"running", "asking"} => ~ active
  /\ at = "asking" => CanBegin

SInv == Locked /\ SignsOnlyExpected

LEMMA SignsStep == TInv /\ SInv /\ [Next]_vars => SInv'
<1> SUFFICES ASSUME TInv, SInv, [Next]_vars PROVE SInv'
  OBVIOUS
<1> USE DEF SInv
<1>1. CASE Load
  BY <1>1 DEF TInv, Bound, Starting, Started, Locked, SignsOnlyExpected,
     CanBegin, config, wallet, history, stdin, Load
<1>2. CASE ConfigError
  BY <1>2 DEF TInv, Bound, Starting, Started, Locked, SignsOnlyExpected,
     CanBegin, config, wallet, history, stdin, ConfigError, Exit
<1>3. ASSUME NEW c \in Chains, Build(c) PROVE SInv'
  BY <1>3 DEF TInv, Bound, Starting, Started, Locked, SignsOnlyExpected,
     CanBegin, config, wallet, history, stdin, Build, Exit
<1>4. CASE BuildFails
  BY <1>4 DEF TInv, Bound, Starting, Started, Locked, SignsOnlyExpected,
     CanBegin, config, wallet, history, stdin, BuildFails, Exit
<1>5. CASE Refused
  BY <1>5 DEF TInv, Bound, Starting, Started, Locked, SignsOnlyExpected,
     CanBegin, config, wallet, history, stdin, Refused, Tried, Return, Exit,
     CanBegin
<1>6. CASE Completed
  BY <1>6 DEF TInv, Bound, Starting, Started, Locked, SignsOnlyExpected,
     CanBegin, config, wallet, history, stdin, Completed, Done, Return, Exit,
     CanBegin, Asks
<1>7. CASE Ask
  BY <1>7 DEF TInv, Bound, Starting, Started, Locked, SignsOnlyExpected,
     CanBegin, config, wallet, history, stdin, Ask, CanBegin, Asks
<1>8. ASSUME NEW a \in Answers, Answer(a) PROVE SInv'
  BY <1>8 DEF TInv, Bound, Starting, Started, Locked, SignsOnlyExpected,
     CanBegin, config, wallet, history, stdin, Answer, Read, Done, Return,
     Exit, CanBegin, Asks
<1>9. ASSUME NEW a \in Answers, AnswerFails(a) PROVE SInv'
  BY <1>9 DEF TInv, Bound, Starting, Started, Locked, SignsOnlyExpected,
     CanBegin, config, wallet, history, stdin, AnswerFails, Read, Tried,
     Return, Exit, CanBegin
<1>10. ASSUME NEW works \in BOOLEAN, Welcome(works) PROVE SInv'
  BY <1>10 DEF TInv, Bound, Starting, Started, Locked, SignsOnlyExpected,
     CanBegin, config, wallet, history, stdin, Welcome
<1>11. ASSUME NEW line \in Lines, Skip(line) PROVE SInv'
  BY <1>11 DEF TInv, Bound, Starting, Started, Locked, SignsOnlyExpected,
     CanBegin, config, wallet, history, stdin, Skip, AtPrompt
<1>12. ASSUME NEW line \in Lines, NoCommand(line) PROVE SInv'
  BY <1>12 DEF TInv, Bound, Starting, Started, Locked, SignsOnlyExpected,
     CanBegin, config, wallet, history, stdin, NoCommand, AtPrompt, Enter
<1>13. ASSUME NEW line \in Lines, Run(line) PROVE SInv'
  BY <1>13 DEF TInv, Bound, Starting, Started, Locked, SignsOnlyExpected,
     CanBegin, config, wallet, history, stdin, Run, AtPrompt, Enter
<1>14. ASSUME NEW line \in Lines, Leave(line) PROVE SInv'
  BY <1>14 DEF TInv, Bound, Starting, Started, Locked, SignsOnlyExpected,
     CanBegin, config, wallet, history, stdin, Leave, AtPrompt, Exit
<1>15. CASE Stray
  BY <1>15 DEF TInv, Bound, Starting, Started, Locked, SignsOnlyExpected,
     CanBegin, config, wallet, history, stdin, Stray, Enter
<1>16. CASE ReadlineError
  BY <1>16 DEF TInv, Bound, Starting, Started, Locked, SignsOnlyExpected,
     CanBegin, config, wallet, history, stdin, ReadlineError, Exit
<1>17. CASE UNCHANGED vars
  BY <1>17 DEF TInv, Bound, Starting, Started, Locked, SignsOnlyExpected,
     CanBegin, config, wallet, history, stdin, vars
<1> QED BY <1>1, <1>2, <1>3, <1>4, <1>5, <1>6, <1>7, <1>8,
         <1>9, <1>10, <1>11, <1>12, <1>13, <1>14, <1>15, <1>16, <1>17 DEF
         Next

\* What is signed is signed for the expected chain, by a wallet that the loop
\* selected and unlocked; a one-shot command signs nothing.
THEOREM SignsForExpectedChain == Spec => []SignsOnlyExpected
<1>1. Init => SInv
  BY DEF Init, SInv, Locked, SignsOnlyExpected
<1>2. SInv => SignsOnlyExpected
  BY DEF SInv
<1> QED BY InitTyped, StepTyped, SignsStep, <1>1, <1>2, PTL DEF Spec

-----------------------------------------------------------------------------
(* What the history holds.                                                 *)

\* Nothing is typed ahead outside a command, unless one did not ask; and the
\* editor runs only if there is to be a history.
HInv ==
  /\ HistoryFiltered
  /\ ahead # "nothing" => early \/ at \in {"running", "asking"}
  /\ editor => ~ cfg.no_history

LEMMA ReturnRemembers ==
  ASSUME HInv, NEW w, NEW failed, Return(w, failed)
  PROVE  HInv'
BY DEF HInv, HistoryFiltered, Return, config, history

LEMMA HistoryStep == TInv /\ HInv /\ [Next]_vars => HInv'
<1> SUFFICES ASSUME TInv, HInv, [Next]_vars PROVE HInv'
  OBVIOUS
<1> USE DEF HInv
<1>1. CASE Load
  BY <1>1 DEF TInv, Bound, Starting, HistoryFiltered, config, wallet, history,
     stdin, Load
<1>2. CASE ConfigError
  BY <1>2 DEF TInv, Bound, Starting, HistoryFiltered, config, wallet, history,
     stdin, ConfigError, Exit
<1>3. ASSUME NEW c \in Chains, Build(c) PROVE HInv'
  BY <1>3 DEF TInv, Bound, Starting, HistoryFiltered, config, wallet, history,
     stdin, Build, Exit
<1>4. CASE BuildFails
  BY <1>4 DEF TInv, Bound, Starting, HistoryFiltered, config, wallet, history,
     stdin, BuildFails, Exit
<1>5. CASE Refused
  BY <1>5, ReturnRemembers DEF Refused
<1>6. CASE Completed
  BY <1>6, ReturnRemembers DEF Completed
<1>7. CASE Ask
  BY <1>7 DEF TInv, Bound, Starting, HistoryFiltered, config, wallet, history,
     stdin, Ask, CanBegin, Asks
<1>8. ASSUME NEW a \in Answers, Answer(a) PROVE HInv'
  BY <1>8, ReturnRemembers DEF Answer
<1>9. ASSUME NEW a \in Answers, AnswerFails(a) PROVE HInv'
  BY <1>9, ReturnRemembers DEF AnswerFails
<1>10. ASSUME NEW works \in BOOLEAN, Welcome(works) PROVE HInv'
  BY <1>10 DEF TInv, Bound, Starting, HistoryFiltered, config, wallet, history,
     stdin, Welcome
<1>11. ASSUME NEW line \in Lines, Skip(line) PROVE HInv'
  BY <1>11 DEF TInv, Bound, Starting, HistoryFiltered, config, wallet, history,
     stdin, Skip, AtPrompt
<1>12. ASSUME NEW line \in Lines, NoCommand(line) PROVE HInv'
  BY <1>12 DEF TInv, Bound, Starting, HistoryFiltered, config, wallet, history,
     stdin, NoCommand, AtPrompt, Enter, Sensitive, AsRemembered
<1>13. ASSUME NEW line \in Lines, Run(line) PROVE HInv'
  BY <1>13 DEF TInv, Bound, Starting, HistoryFiltered, config, wallet, history,
     stdin, Run, AtPrompt, Enter, Sensitive, AsRemembered, Commands, Lines
<1>14. ASSUME NEW line \in Lines, Leave(line) PROVE HInv'
  BY <1>14 DEF TInv, Bound, Starting, HistoryFiltered, config, wallet, history,
     stdin, Leave, AtPrompt, Exit
<1>15. CASE Stray
  BY <1>15 DEF TInv, Bound, Starting, HistoryFiltered, config, wallet, history,
     stdin, Stray, Enter, Sensitive, AsRemembered
<1>16. CASE ReadlineError
  BY <1>16 DEF TInv, Bound, Starting, HistoryFiltered, config, wallet, history,
     stdin, ReadlineError, Exit
<1>17. CASE UNCHANGED vars
  BY <1>17 DEF TInv, Bound, Starting, HistoryFiltered, config, wallet, history,
     stdin, vars
<1> QED BY <1>1, <1>2, <1>3, <1>4, <1>5, <1>6, <1>7, <1>8,
         <1>9, <1>10, <1>11, <1>12, <1>13, <1>14, <1>15, <1>16, <1>17 DEF
         Next

LEMMA HistoryInit == Init => HInv
BY DEF Init, HInv, HistoryFiltered

\* No secret is remembered, and a password only as a line of its own.
THEOREM HistoryIsFiltered == Spec => []HistoryFiltered
<1>1. HInv => HistoryFiltered
  BY DEF HInv
<1> QED BY InitTyped, StepTyped, HistoryInit, HistoryStep, <1>1, PTL DEF Spec

\* A session without a history changes none, in memory or in the file.
THEOREM HistoryIsOff == Spec => HistoryOff
<1>1. TInv /\ HInv /\ [Next]_vars =>
        [(file' # file \/ mem' # mem) => ~ cfg.no_history]_vars
  <2> SUFFICES ASSUME TInv, HInv, [Next]_vars, file' # file \/ mem' # mem
               PROVE  ~ cfg.no_history
    OBVIOUS
  <2>1. CASE editor
    BY <2>1 DEF HInv
  <2>2. CASE ~ editor
    <3>1. ASSUME NEW works \in BOOLEAN, Welcome(works) PROVE ~ cfg.no_history
      BY <3>1 DEF Welcome, TInv, Bound, Starting
    <3>2. CASE Load \/ ConfigError \/ BuildFails
      BY <3>2 DEF history, Load, ConfigError,
         BuildFails
    <3>3. CASE \E c \in Chains : Build(c)
      BY <3>3 DEF history, Build
    <3>4. CASE Refused \/ Completed \/ Ask
      BY <3>4 DEF history, Refused, Completed, Ask, Return
    <3>5. CASE \E a \in Answers : Answer(a) \/ AnswerFails(a)
      BY <3>5 DEF history, Answer, AnswerFails, Return
    <3>6. ASSUME NEW line \in Lines,
                 Skip(line) \/ NoCommand(line) \/ Run(line) \/ Leave(line)
          PROVE  ~ cfg.no_history
      BY <2>2, <3>6 DEF history, Skip, NoCommand, Run, Leave, Enter
    <3>7. CASE Stray \/ ReadlineError
      BY <2>2, <3>7 DEF history, Stray, ReadlineError, Enter
    <3>8. CASE UNCHANGED vars
      BY <3>8 DEF vars
    <3> QED BY <3>1, <3>2, <3>3, <3>4, <3>5, <3>6, <3>7, <3>8 DEF Next
  <2> QED BY <2>1, <2>2
<1> QED BY InitTyped, StepTyped, HistoryInit, HistoryStep, <1>1, PTL
         DEF Spec, HistoryOff

-----------------------------------------------------------------------------
(* What a script sees of a one-shot command.                               *)

\* In JSON mode nothing but the log and questions is written before a command
\* returns.
Silent ==
  /\ oneShot # "none" => at \notin {"welcome", "loop"}
  /\ at \in Started /\ oneShot # "none" /\ cfg.json =>
       wrote \subseteq StartLog \cup Question
  /\ code = "misconfigured" => at = "exited"

RInv == Silent /\ ExitTold

\* What the formatter writes in JSON mode.
LEMMA JsonWrites ==
  ASSUME NEW json, json
  PROVE  /\ Info(json) = {} /\ Banner(json) = {}
         /\ Success(json) = {<<"stdout", "object">>}
         /\ Error(json) = {<<"stderr", "object">>}
BY DEF Info, Banner, Success, Error

\* How a one-shot command ends.
LEMMA ReturnTells ==
  ASSUME TInv, RInv, at \in {"running", "asking"}, NEW w, NEW failed \in BOOLEAN,
         Return(w, failed),
         ~ failed => w \in {{}, Success(cfg.json), Info(cfg.json)},
         failed => w = Error(cfg.json)
  PROVE  RInv'
<1>1. CASE oneShot = "none"
  BY <1>1 DEF RInv, Silent, ExitTold, Return, config, TInv, TypeInv, Loaded,
     Bound, Started, Starting
<1>2. CASE oneShot # "none"
  <2>1. /\ at' = "exited" /\ code' = IF failed THEN "failure" ELSE "success"
        /\ wrote' = wrote \cup w /\ UNCHANGED <<cfg, oneShot>>
    BY <1>2 DEF Return, Exit, config
  <2>2. CASE cfg.json
    <3>1. wrote \subseteq {<<"stdout", "log">>, <<"stderr", "question">>}
      BY <1>2, <2>2 DEF RInv, Silent, Started, StartLog, Question
    <3>2. failed => w = {<<"stderr", "object">>}
      BY <2>2, JsonWrites
    <3>3. ~ failed => w \subseteq {<<"stdout", "object">>}
      BY <2>2, JsonWrites
    <3> QED BY <1>2, <2>1, <3>1, <3>2, <3>3
            DEF RInv, Silent, ExitTold, Reported, Started
  <2>3. CASE ~ cfg.json
    BY <1>2, <2>1, <2>3 DEF RInv, Silent, ExitTold, Started
  <2> QED BY <2>2, <2>3
<1> QED BY <1>1, <1>2

LEMMA ToldStep == TInv /\ RInv /\ [Next]_vars => RInv'
<1> SUFFICES ASSUME TInv, RInv, [Next]_vars PROVE RInv'
  OBVIOUS
<1> USE DEF RInv
<1>1. CASE Load
  BY <1>1 DEF TInv, TypeInv, Bound, Loaded, Starting, Started, Silent,
     ExitTold, Reported, config, wallet, history, stdin, Load
<1>2. CASE ConfigError
  BY <1>2 DEF TInv, TypeInv, Bound, Loaded, Starting, Started, Silent,
     ExitTold, Reported, config, wallet, history, stdin, ConfigError, Exit,
     Plain
<1>3. ASSUME NEW c \in Chains, Build(c) PROVE RInv'
  BY <1>3, JsonWrites DEF TInv, TypeInv, Bound, Loaded, Starting, Started,
     Silent, ExitTold, Reported, config, wallet, history, stdin, Build, Exit,
     StartLog, Question
<1>4. CASE BuildFails
  BY <1>4, JsonWrites DEF TInv, TypeInv, Bound, Loaded, Starting, Started,
     Silent, ExitTold, Reported, config, wallet, history, stdin, BuildFails,
     Exit, StartLog
<1>5. CASE Refused
  BY <1>5, ReturnTells DEF Refused
<1>6. CASE Completed
  BY <1>6, ReturnTells DEF Completed
<1>7. CASE Ask
  BY <1>7, JsonWrites DEF TInv, TypeInv, Bound, Loaded, Starting, Started,
     Silent, ExitTold, Reported, config, wallet, history, stdin, Ask,
     CanBegin, Asks
<1>8. ASSUME NEW a \in Answers, Answer(a) PROVE RInv'
  BY <1>8, ReturnTells DEF Answer, Read
<1>9. ASSUME NEW a \in Answers, AnswerFails(a) PROVE RInv'
  BY <1>9, ReturnTells DEF AnswerFails, Read
<1>10. ASSUME NEW works \in BOOLEAN, Welcome(works) PROVE RInv'
  BY <1>10 DEF TInv, TypeInv, Bound, Loaded, Starting, Started, Silent,
     ExitTold, Reported, config, wallet, history, stdin, Welcome
<1>11. ASSUME NEW line \in Lines, Skip(line) PROVE RInv'
  BY <1>11 DEF TInv, TypeInv, Bound, Loaded, Starting, Started, Silent,
     ExitTold, Reported, config, wallet, history, stdin, Skip, AtPrompt
<1>12. ASSUME NEW line \in Lines, NoCommand(line) PROVE RInv'
  BY <1>12 DEF TInv, TypeInv, Bound, Loaded, Starting, Started, Silent,
     ExitTold, Reported, config, wallet, history, stdin, NoCommand, AtPrompt,
     Enter
<1>13. ASSUME NEW line \in Lines, Run(line) PROVE RInv'
  BY <1>13 DEF TInv, TypeInv, Bound, Loaded, Starting, Started, Silent,
     ExitTold, Reported, config, wallet, history, stdin, Run, AtPrompt, Enter
<1>14. ASSUME NEW line \in Lines, Leave(line) PROVE RInv'
  BY <1>14 DEF TInv, TypeInv, Bound, Loaded, Starting, Started, Silent,
     ExitTold, Reported, config, wallet, history, stdin, Leave, AtPrompt, Exit
<1>15. CASE Stray
  BY <1>15 DEF TInv, TypeInv, Bound, Loaded, Starting, Started, Silent,
     ExitTold, Reported, config, wallet, history, stdin, Stray, Enter
<1>16. CASE ReadlineError
  BY <1>16 DEF TInv, TypeInv, Bound, Loaded, Starting, Started, Silent,
     ExitTold, Reported, config, wallet, history, stdin, ReadlineError, Exit
<1>17. CASE UNCHANGED vars
  BY <1>17 DEF TInv, TypeInv, Bound, Loaded, Starting, Started, Silent,
     ExitTold, Reported, config, wallet, history, stdin, vars
<1> QED BY <1>1, <1>2, <1>3, <1>4, <1>5, <1>6, <1>7, <1>8,
         <1>9, <1>10, <1>11, <1>12, <1>13, <1>14, <1>15, <1>16, <1>17 DEF
         Next

\* The exit code of a one-shot command and the two streams agree, and in JSON
\* mode no prose of a command is among the results.
THEOREM ExitCodeIsTold == Spec => []ExitTold
<1>1. Init => RInv
  BY DEF Init, RInv, Silent, ExitTold, Started
<1>2. RInv => ExitTold
  BY DEF RInv
<1> QED BY InitTyped, StepTyped, ToldStep, <1>1, <1>2, PTL DEF Spec

=============================================================================
