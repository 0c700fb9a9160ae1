------------------------------ MODULE MCSystem ------------------------------
(***************************************************************************)
(* The systems module and the command line for TLC: whole files, child     *)
(* processes, captured output, paths, directories and options.  They share *)
(* nothing but the operating system, so a behaviour shows one of them, its *)
(* subject.                                                                *)
(***************************************************************************)
EXTENDS FileIo, TLC

CONSTANTS Kids, Statuses, Interrupts, None,             \* Process's
          FirstCap, SizeMax, MaxOutput,                 \* Capture's
          MaxLen, MaxComp,                              \* Path's
          m1, m2, m3, Makers, PathOf, MaxPath,          \* MkDirs's
          Options, Tokens, Lines, MaxArgs, MaxLines,    \* Cli's
          CLI_MAX_OPTS, CLI_MAX_CONFIG, Empty, Truthy, Null

VARIABLES subject,
          handler, proc, call, answers, signals,
          output, cap, len, room, pipe, cpc, failed,
          input, buf, i, out, starts, leading, npc,
          node, done, mpc, refused,
          stage, cli, config, env, given, file

ASSUME CaptureAssumption == FirstCap \in Nat \ {0, 1} /\ SizeMax \in Nat /\ MaxOutput \in Nat
ASSUME PathsAssumption == \A m \in Makers : PathOf[m] \in Seq(STRING)

K == INSTANCE Process
C == INSTANCE Capture
N == INSTANCE Path
M == INSTANCE MkDirs
A == INSTANCE Cli

\* Options differ in their names and in what getopt_long returns for them,
\* which is never its '?' (63); a line with a key has a value.
ASSUME OptionsAssumption ==
    /\ DOMAIN Options \subseteq Nat \ {0} /\ CLI_MAX_OPTS \in Nat /\ CLI_MAX_CONFIG \in Nat
    /\ \A j, k \in DOMAIN Options : j # k => Options[j].long # Options[k].long /\ A!Val(j) # A!Val(k)
    /\ \A k \in DOMAIN Options : A!Val(k) # 63
    /\ Empty # Null /\ \A l \in Lines \ {Null} : l.value # Null

KVars == <<handler, proc, call, answers, signals>>
CVars == <<output, cap, len, room, pipe, cpc, failed>>
NVars == <<input, buf, i, out, starts, leading, npc>>
MVars == <<node, done, mpc, refused>>
AVars == <<stage, cli, config, env, given, file>>
SystemVars == <<subject, vars, KVars, CVars, NVars, MVars, AVars>>

FileSymmetry == Permutations(Inodes) \cup Permutations(Writers) \cup Permutations(Readers)

\* Two makers create the same directories, one a part of them, one too many.
MakerPaths == (m1 :> <<"a", "b", "c">>) @@ (m2 :> <<"a", "b">>) @@ (m3 :> <<"a", "b", "c">>)

\* A flag without a letter, an option with one, and an option with a default.
OptionTable == << [long |-> "verbose", short |-> 0, env |-> "VERBOSE", def |-> Null],
                  [long |-> "jobs", short |-> 106, env |-> Null, def |-> "two"] >>
TokenSet == { [c |-> 256, optarg |-> Null], [c |-> 106, optarg |-> "one"],
              [c |-> 106, optarg |-> "four"], [c |-> 63, optarg |-> Null] }
LineSet == { Null, [key |-> "verbose", value |-> "yes"], [key |-> "verbose", value |-> "no"],
             [key |-> "jobs", value |-> "six"] }

SystemInit == /\ subject \in {"file", "process", "capture", "path", "mkdirs", "cli"}
              /\ Init /\ K!Init /\ C!Init /\ N!Init /\ M!Init /\ A!Init
              /\ subject # "capture" => output = 0
              /\ subject # "path" => input = <<>>
              /\ subject # "cli" => \A v \in DOMAIN env : env[v] = Null

FileStep == subject = "file" /\ Next /\ UNCHANGED <<subject, KVars, CVars, NVars, MVars, AVars>>
ProcessStep == subject = "process" /\ K!Next /\ UNCHANGED <<subject, vars, CVars, NVars, MVars, AVars>>
CaptureStep == subject = "capture" /\ C!Next /\ UNCHANGED <<subject, vars, KVars, NVars, MVars, AVars>>
PathStep == subject = "path" /\ N!Next /\ UNCHANGED <<subject, vars, KVars, CVars, MVars, AVars>>
MkDirsStep == subject = "mkdirs" /\ M!Next /\ UNCHANGED <<subject, vars, KVars, CVars, NVars, AVars>>
CliStep == subject = "cli" /\ A!Next /\ UNCHANGED <<subject, vars, KVars, CVars, NVars, MVars>>

SystemNext == FileStep \/ ProcessStep \/ CaptureStep \/ PathStep \/ MkDirsStep \/ CliStep

SystemSpec == SystemInit /\ [][SystemNext]_SystemVars

-----------------------------------------------------------------------------
(* Properties: FileIo's, and *)

(***************************************************************************)
(* process.c: a status is that of the child the call started, and captured *)
(* output is the whole output, in a buffer that is large enough.           *)
(***************************************************************************)
ChildrenAreHeard == K!StatusIsTheChilds /\ C!CaptureIsExact

(***************************************************************************)
(* path.c: a normalised path names the same place, and the parts of a path *)
(* make it up.                                                             *)
(***************************************************************************)
PathsKeepTheirPlace == N!NormalizeKeepsPlace /\ N!PartsRecombine

(***************************************************************************)
(* path_mkdirs: it succeeds exactly if no file is in the way and no system *)
(* call is refused.                                                        *)
(***************************************************************************)
MkdirsIsExact == M!MkdirsIsExact

(***************************************************************************)
(* cli_resolve: command line, then environment, then files, then default.  *)
(***************************************************************************)
ResolutionIsLayered == A!ResolutionIsLayered
=============================================================================
