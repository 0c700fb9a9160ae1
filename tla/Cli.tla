-------------------------------- MODULE Cli --------------------------------
(***************************************************************************)
(* src/src/cli/argparse.c as src/examples/cli_demo.c uses it: a command is *)
(* dispatched, its handler parses the options, loads configuration files,  *)
(* resolves options and may free the context.  Names and values are model  *)
(* values; getopt_long, the files and the environment are external.        *)
(***************************************************************************)
EXTENDS Integers, Sequences, FiniteSetsExt

CONSTANTS Options,     \* the table: sequence of [long, short, env, def]
          Tokens,      \* what getopt_long may report of an argument
          Lines,       \* what a line of a configuration file may be
          MaxArgs, MaxLines,      \* bounds: arguments, lines of all files
          CLI_MAX_OPTS, CLI_MAX_CONFIG,   \* 64 and 128 in the code
          Empty,       \* the empty string
          Truthy,      \* the values "1", "true" and "yes"
          Null

VARIABLES stage,       \* where the program is
          cli, config, \* ctx->cli_args and ctx->config_vals
          env,         \* environment: variable -> value or Null
          given, file  \* history: all arguments, all lines read

vars == <<stage, cli, config, env, given, file>>

Names == {Options[k].long : k \in DOMAIN Options}
EnvVars == {Options[k].env : k \in DOMAIN Options} \ {Null}

Init == /\ stage = "main" /\ cli = <<>> /\ config = <<>>
        /\ env \in [EnvVars -> {Null, "env", Empty}]
        /\ given = <<>> /\ file = <<>>

\* cli_dispatch: no command, --help, the handler of a command, or unknown.
Dispatch == /\ stage = "main"
            /\ stage' \in {"handler", "help", "unknown"}
            /\ UNCHANGED <<cli, config, env, given, file>>

\* ctx_add_cli
Added(entries, e) == IF Len(entries) >= CLI_MAX_OPTS THEN entries ELSE Append(entries, e)

\* What getopt_long returns for option k: its letter or a code of its own.
Val(k) == IF Options[k].short # 0 THEN Options[k].short ELSE 256 + (k - 1)

\* The first option with this value; none for '?' (63), which is skipped.
Matched(c) == LET hits == {k \in DOMAIN Options : c # 63 /\ Val(k) = c}
              IN IF hits = {} THEN 0 ELSE Min(hits)

\* cli_parse: the context is cleared, then getopt_long runs over argv.
CliParse == /\ stage = "handler"
            /\ cli' = <<>> /\ config' = <<>> /\ given' = <<>>
            /\ stage' = "parsing"
            /\ UNCHANGED <<env, file>>

NextOption == /\ stage = "parsing" /\ Len(given) < MaxArgs
              /\ \E t \in Tokens :
                   /\ given' = Append(given, t)
                   /\ cli' = IF Matched(t.c) = 0 THEN cli
                             ELSE Added(cli, [key |-> Options[Matched(t.c)].long, value |-> t.optarg])
              /\ UNCHANGED <<stage, config, env, file>>

EndOfOptions == /\ stage = "parsing"
                /\ stage' = "ready"
                /\ UNCHANGED <<cli, config, env, given, file>>

\* cli_load_config: fopen, which may fail.
OpenConfig == /\ stage = "ready" /\ Len(file) < MaxLines
              /\ stage' \in {"reading", "ready"}
              /\ UNCHANGED <<cli, config, env, given, file>>

\* A line: blank, a comment or without "=", or a key and a value.  A line
\* longer than the buffer is read as several.
ReadLine == /\ stage = "reading" /\ Len(file) < MaxLines
            /\ \E line \in Lines :
                 \/ /\ line = Null \/ Len(config) >= CLI_MAX_CONFIG
                    /\ file' = Append(file, line)
                    /\ UNCHANGED <<config, stage>>
                 \/ /\ line # Null /\ Len(config) < CLI_MAX_CONFIG
                    /\ file' = Append(file, line)
                    /\ config' = Append(config, line)
                    /\ UNCHANGED stage
                 \/ /\ line # Null /\ Len(config) < CLI_MAX_CONFIG    \* strdup fails
                    /\ stage' = "ready"
                    /\ UNCHANGED <<file, config>>
            /\ UNCHANGED <<cli, env, given>>

CloseConfig == /\ stage = "reading"
               /\ stage' = "ready"
               /\ UNCHANGED <<cli, config, env, given, file>>

\* cli_free
CliFree == /\ stage = "ready"
           /\ config' = <<>>
           /\ stage' = "freed"
           /\ UNCHANGED <<cli, env, given, file>>

Next == \/ Dispatch \/ CliParse \/ NextOption \/ EndOfOptions \/ OpenConfig \/ ReadLine \/ CloseConfig \/ CliFree
        \/ stage \in {"freed", "help", "unknown"} /\ UNCHANGED vars

Spec == Init /\ [][Next]_vars

-----------------------------------------------------------------------------
(* Resolution *)

\* Mutant: the first match is returned.
FindEntryFirst(entries, key) ==
    LET hits == {k \in DOMAIN entries : entries[k].key = key}
    IN IF hits = {} THEN Null
       ELSE LET v == entries[Min(hits)].value IN IF v = Null THEN Empty ELSE v

FindEntry(entries, key) ==
    LET hits == {k \in DOMAIN entries : entries[k].key = key}
    IN IF hits = {} THEN Null
       ELSE LET v == entries[Max(hits)].value IN IF v = Null THEN Empty ELSE v

FindOption(key) == LET hits == {k \in DOMAIN Options : Options[k].long = key}
                   IN IF hits = {} THEN [env |-> Null, def |-> Null] ELSE Options[Min(hits)]

Getenv(var) == IF var = Null THEN Null ELSE env[var]

CliResolve(key) ==
    LET opt == FindOption(key)
        layers == <<FindEntry(cli, key), Getenv(opt.env), FindEntry(config, key), opt.def>>
        set == {k \in DOMAIN layers : layers[k] # Null}
    IN IF set = {} THEN Null ELSE layers[Min(set)]

CliFlag(key) == CliResolve(key) \in {Empty} \cup Truthy

-----------------------------------------------------------------------------
(***************************************************************************)
(* cli_resolve, against everything the program was given: an option that   *)
(* was given on the command line has the value of its last occurrence      *)
(* there, whatever else is set; else an environment variable wins over the *)
(* lines of the files, the last of them first, and these over the default. *)
(* Only what exceeds the limits is ignored.  cli_flag agrees.              *)
(***************************************************************************)
Recognised == {k \in DOMAIN given : Matched(given[k].c) # 0}
Pairs == {k \in DOMAIN file : file[k] # Null}

\* Those that the table has room for.
Within(those, limit) == {k \in those : Cardinality(those \cap 1 .. k) <= limit}

\* The last setting of an option on the command line, and of a name in the files.
OnCli(opt) == LET hits == {k \in Within(Recognised, CLI_MAX_OPTS) : given[k].c = Val(opt)}
                  last == given[Max(hits)].optarg
              IN IF hits = {} THEN Null ELSE IF last = Null THEN Empty ELSE last
InFile(name) == LET hits == {k \in Within(Pairs, CLI_MAX_CONFIG) : file[k].key = name}
                IN IF hits = {} THEN Null ELSE file[Max(hits)].value

ResolutionIsLayered ==
    stage = "ready" =>
      \A k \in DOMAIN Options :
        LET name == Options[k].long
            onCli == OnCli(k)
            inEnv == IF Options[k].env = Null THEN Null ELSE env[Options[k].env]
            inFile == InFile(name)
            value == CliResolve(name)
        IN /\ onCli # Null => value = onCli
           /\ onCli = Null /\ inEnv # Null => value = inEnv
           /\ onCli = Null /\ inEnv = Null /\ inFile # Null => value = inFile
           /\ onCli = Null /\ inEnv = Null /\ inFile = Null => value = Options[k].def
           /\ CliFlag(name) <=> value = Empty \/ value \in Truthy
=============================================================================
