------------------------------- MODULE MkDirs -------------------------------
(***************************************************************************)
(* path_mkdirs of src/src/systems/path.c, called by several processes for  *)
(* overlapping paths: each prefix is created in turn, EEXIST is ignored,   *)
(* and stat has the last word.  The file system is external: a prefix of a *)
(* path is missing, a directory or a file, another program may create a    *)
(* file where there is nothing, and any system call may fail for a reason  *)
(* of its own (EACCES, ENOSPC, EROFS, ...).  Nothing is removed or renamed *)
(* meanwhile.                                                              *)
(***************************************************************************)
EXTENDS Integers, Sequences, SequencesExt

CONSTANTS Makers,   \* the processes
          PathOf,   \* maker -> the path it creates, a sequence of names
          MaxPath   \* sizeof(buf) in the code, here in names

VARIABLES node,     \* path -> "none", "dir" or "file"
          done,     \* maker -> how many prefixes it has dealt with
          mpc,      \* maker -> "mkdir", "stat", or the error code returned
          refused   \* history: the makers with a call that failed for a reason of its own

vars == <<node, done, mpc, refused>>

AllPaths == UNION {Prefixes(PathOf[m]) \ {<<>>} : m \in Makers}
ParentIsDir(p) == Len(p) > 1 => node[Front(p)] = "dir"

Init == /\ node = [p \in AllPaths |-> "none"]
        /\ done = [m \in Makers |-> 0]
        /\ mpc = [m \in Makers |-> "call"]
        /\ refused = {}

Call(m) == /\ mpc[m] = "call"
           /\ mpc' = [mpc EXCEPT ![m] = IF PathOf[m] = <<>> THEN "INVALID_ARG"
                                        ELSE IF Len(PathOf[m]) > MaxPath THEN "OVERFLOW" ELSE "mkdir"]
           /\ UNCHANGED <<node, done, refused>>

\* Mutant: a directory that another process has just made is an error.
AcceptedNoRace(res) == res = "OK"

Accepted(res) == res \in {"OK", "EEXIST"}

\* What mkdir may answer.
Results(p) == {"REFUSED"} \cup {IF ~ParentIsDir(p) THEN "ENOTDIR"
                                ELSE IF node[p] # "none" THEN "EEXIST" ELSE "OK"}

\* mkdir of the next prefix; any error of it but EEXIST ends the call.
Mkdir(m) == LET p == SubSeq(PathOf[m], 1, done[m] + 1)
            IN /\ mpc[m] = "mkdir"
               /\ done' = [done EXCEPT ![m] = @ + 1]
               /\ \E res \in Results(p) :
                    /\ node' = IF res = "OK" THEN [node EXCEPT ![p] = "dir"] ELSE node
                    /\ refused' = IF res = "REFUSED" THEN refused \cup {m} ELSE refused
                    /\ mpc' = [mpc EXCEPT ![m] = IF ~Accepted(res) THEN "IO"
                                                 ELSE IF done'[m] = Len(PathOf[m]) THEN "stat" ELSE "mkdir"]

\* path_is_dir: what exists may be a file, and stat may fail as well.
Stat(m) == /\ mpc[m] = "stat"
           /\ \/ /\ mpc' = [mpc EXCEPT ![m] = IF node[PathOf[m]] = "dir" THEN "OK" ELSE "IO"]
                 /\ UNCHANGED refused
              \/ /\ mpc' = [mpc EXCEPT ![m] = "IO"]
                 /\ refused' = refused \cup {m}
           /\ UNCHANGED <<node, done>>

CreateFile(p) == /\ node[p] = "none" /\ ParentIsDir(p)
                 /\ node' = [node EXCEPT ![p] = "file"]
                 /\ UNCHANGED <<done, mpc, refused>>

Returned == \A m \in Makers : mpc[m] \notin {"call", "mkdir", "stat"}

Next == \/ \E m \in Makers : Call(m) \/ Mkdir(m) \/ Stat(m)
        \/ \E p \in AllPaths : CreateFile(p)
        \/ Returned /\ UNCHANGED vars

Spec == Init /\ [][Next]_vars

(***************************************************************************)
(* path_mkdirs: it succeeds exactly if no file is in the way and no system *)
(* call is refused, however the calls that create the same directories     *)
(* interleave: ERR_OK means every prefix is a directory, ERR_IO that one   *)
(* of them is a file or a call of this maker's was refused, and a refusal  *)
(* is always reported.                                                     *)
(***************************************************************************)
MkdirsIsExact ==
    \A m \in Makers :
      /\ mpc[m] = "OK" => \A p \in Prefixes(PathOf[m]) \ {<<>>} : node[p] = "dir"
      /\ mpc[m] = "IO" => \/ m \in refused
                         \/ \E p \in Prefixes(PathOf[m]) \ {<<>>} : node[p] = "file"
      /\ m \in refused => mpc[m] = "IO"
=============================================================================
