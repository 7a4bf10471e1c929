------------------------------- MODULE Config -------------------------------
(***************************************************************************)
(* The layered configuration of src/cli/config.rs: what merge_partial does *)
(* with one layer, and load with the three of them.                        *)
(* rpc_timeout_secs is treated as expected_chain_id is, and left out.      *)
(***************************************************************************)
CONSTANTS
  Urls,         \* RPC endpoints
  Dirs,         \* directories a layer can name
  Root,         \* a directory without a parent
  Chains,       \* chain ids
  Sepolia,      \* the chain id of the defaults
  Unset         \* the layer leaves the field alone

ASSUME ConfigAssumption ==
  /\ Sepolia \in Chains
  /\ Root \in Dirs
  /\ Unset \notin Urls \cup Dirs \cup Chains

\* Directories that no layer names but the code derives.
DefaultDir == <<"default">>
Below(d) == <<"keystore_in", d>>
ParentOf(d) == <<"parent_of", d>>

DataDirs == Dirs \cup {DefaultDir} \cup {ParentOf(d) : d \in Dirs}
DefaultUrl == "sepolia"

\* PartialConfig; a flag that is not set is FALSE.
Partial ==
  [rpc_url : Urls \cup {Unset}, keystore_dir : Dirs \cup {Unset},
   data_dir : Dirs \cup {Unset}, json : BOOLEAN, no_history : BOOLEAN,
   expected_chain_id : Chains \cup {Unset}]

Configs ==
  [rpc_url : Urls \cup {DefaultUrl},
   keystore_dir : Dirs \cup {Below(DefaultDir)}, data_dir : DataDirs,
   json : BOOLEAN, no_history : BOOLEAN, expected_chain_id : Chains]

\* Config::default().
Defaults ==
  [rpc_url |-> DefaultUrl, keystore_dir |-> Below(DefaultDir),
   data_dir |-> DefaultDir, json |-> FALSE, no_history |-> FALSE,
   expected_chain_id |-> Sepolia]

Given(higher, lower) == IF higher = Unset THEN lower ELSE higher

\* The directory of a layer, or the one its keystore_dir implies.
DataDirOf(base, higher) ==
  IF higher.data_dir # Unset THEN higher.data_dir
  ELSE IF higher.keystore_dir \in {Unset, Root} THEN base.data_dir
  ELSE ParentOf(higher.keystore_dir)

\* merge_partial: a flag can be switched on by a layer, never off.
MergePartial(base, higher) ==
  [rpc_url |-> Given(higher.rpc_url, base.rpc_url),
   keystore_dir |-> Given(higher.keystore_dir, base.keystore_dir),
   data_dir |-> DataDirOf(base, higher),
   json |-> base.json \/ higher.json,
   no_history |-> base.no_history \/ higher.no_history,
   expected_chain_id |->
     Given(higher.expected_chain_id, base.expected_chain_id)]

\* MUTANT of Resolved: the environment is merged over the command line.
ResolvedEnvLast(file, env, cli) ==
  MergePartial(MergePartial(MergePartial(Defaults, file), cli), env)

\* load: from_file starts from the defaults; a file that is not there sets
\* nothing.
Resolved(file, env, cli) ==
  MergePartial(MergePartial(MergePartial(Defaults, file), env), cli)

\* What partial_config passes on of a command line: clap fills a flag that is
\* not given from the environment, where the switches and the chain id have
\* no part.
FromFlags(flags, env) ==
  [flags EXCEPT !.rpc_url = Given(@, env.rpc_url),
                !.keystore_dir = Given(@, env.keystore_dir),
                !.data_dir = Given(@, env.data_dir)]

=============================================================================
