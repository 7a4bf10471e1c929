------------------------------- MODULE Output -------------------------------
(***************************************************************************)
(* What src/cli/output.rs writes where: the two formatters, and beside     *)
(* them what the program writes without a formatter.  Texts are left out;  *)
(* a line is known by its stream and its kind.                             *)
(*                                                                         *)
(* No command uses warn(), which is like info() on stderr.                 *)
(***************************************************************************)

Streams == {"stdout", "stderr"}

\* "object": a line of JSON; "text": prose for people; "question": a prompt
\* for an answer; "prompt": that of the loop; "log": a line of tracing.
Kinds == {"object", "text", "question", "prompt", "log"}

Writes == Streams \X Kinds

\* MUTANT of Info: notices reach the stream of results.
InfoAlways(json) == {<<"stdout", "text">>}

\* info(): nothing in JSON mode, also if it is the summary of a payment.
Info(json) == IF json THEN {} ELSE {<<"stdout", "text">>}

\* success(): a message or an object, on stdout in both modes.
Success(json) == {<<"stdout", IF json THEN "object" ELSE "text">>}

\* error(): on stderr in both modes.
Error(json) == {<<"stderr", IF json THEN "object" ELSE "text">>}

\* eprint!, whatever the mode: the questions of prompt_password and confirm.
Question == {<<"stderr", "question">>}

\* eprintln!: configuration errors, and what clap refuses.
Plain == {<<"stderr", "text">>}

\* clap's --help and --version, in the loop too.
Usage == {<<"stdout", "text">>}

\* The banner of a start and the list of commands of a loop.
Banner(json) == IF json THEN {} ELSE Plain

\* tracing_subscriber::fmt() writes to stdout unless told otherwise.
StartLog == {<<"stdout", "log">>}

\* print!: the prompt of a loop without an editor.
LoopPrompt == {<<"stdout", "prompt">>}

=============================================================================
