------------------------------ MODULE Parallel ------------------------------
(***************************************************************************)
(* src/src/hpc/parallel.c: parallel_for and parallel_reduce split [0, n)   *)
(* into chunks, start a thread per chunk, run a chunk inline when its      *)
(* thread cannot be created, and join.  The two functions have the same    *)
(* shape; fn says which one was called.                                    *)
(*                                                                         *)
(* The user's map of a chunk returns the sequence of the indices it was    *)
(* given, and reduce concatenates: an associative function that is not     *)
(* commutative, so that a lost, repeated or misplaced chunk shows.         *)
(***************************************************************************)
EXTENDS Integers, Sequences

CONSTANTS MaxN,        \* bound: iterations
          MaxThreads   \* bound: threads asked for

VARIABLES fn, n, num_threads,  \* the call: "for" or "reduce" and its arguments
          pc, i, off,          \* the caller: where it is and its locals
          args,                \* per chunk: its range, its join mark, its result
          thread,              \* per chunk: "none", "started" or "finished"
          heap,                \* threads[] and args[]: "none", "live" or "freed"
          runs,                \* history, per index: how often body saw it
          result               \* what parallel_reduce returns

vars == <<fn, n, num_threads, pc, i, off, args, thread, heap, runs, result>>

Range(a, b) == [k \in 1 .. b - a |-> a + k - 1]

\* The body of the chunk [a, b) is executed.
Executed(a, b) == [k \in DOMAIN runs |-> IF k >= a /\ k < b THEN runs[k] + 1 ELSE runs[k]]

NoArg == [start |-> 0, end |-> 0, join |-> FALSE, result |-> <<>>]

Init == /\ fn \in {"for", "reduce"}
        /\ n \in 0 .. MaxN
        /\ num_threads \in 0 .. MaxThreads
        /\ pc = "call" /\ i = 0 /\ off = 0
        /\ args = [c \in 0 .. MaxThreads - 1 |-> NoArg]
        /\ thread = [c \in 0 .. MaxThreads - 1 |-> "none"]
        /\ heap = "none"
        /\ runs = [k \in 0 .. n - 1 |-> 0]
        /\ result = <<>>

-----------------------------------------------------------------------------
\* n == 0, and num_threads == 0 for parallel_for: nothing is done.
ReturnsAtOnce == /\ pc = "call"
                 /\ n = 0 \/ (fn = "for" /\ num_threads = 0)
                 /\ pc' = "returned"
                 /\ UNCHANGED <<fn, n, num_threads, i, off, args, thread, heap, runs, result>>

\* parallel_reduce without threads to share the work.
Single == fn = "reduce" /\ num_threads <= 1

\* The whole range inline, on the caller's thread: also when an allocation fails.
RunsInline == /\ pc = "call"
              /\ n > 0
              /\ fn = "for" => num_threads > 0
              /\ runs' = Executed(0, n)
              /\ result' = Range(0, n)
              /\ pc' = "returned"
              /\ UNCHANGED <<fn, n, num_threads, i, off, args, thread, heap>>

Begins == /\ pc = "call"
          /\ n > 0 /\ num_threads > 0 /\ ~Single
          /\ num_threads' = IF num_threads > n THEN n ELSE num_threads
          /\ heap' = "live"
          /\ pc' = "spawn"
          /\ UNCHANGED <<fn, n, i, off, args, thread, runs, result>>

\* off + chunk + (i < rem ? 1 : 0)
ChunkEnd == off + n \div num_threads + (IF i < n % num_threads THEN 1 ELSE 0)

Advance == /\ off' = ChunkEnd
           /\ i' = i + 1

SpawnOk == /\ pc = "spawn" /\ i < num_threads
           /\ args' = [args EXCEPT ![i] = [start |-> off, end |-> ChunkEnd,
                                           join |-> TRUE, result |-> <<>>]]
           /\ thread' = [thread EXCEPT ![i] = "started"]
           /\ Advance
           /\ UNCHANGED <<fn, n, num_threads, pc, heap, runs, result>>

\* pthread_create fails: the chunk runs inline and needs no join.
SpawnFails == /\ pc = "spawn" /\ i < num_threads
              /\ args' = [args EXCEPT ![i] = [start |-> off, end |-> ChunkEnd, join |-> FALSE,
                                              result |-> Range(off, ChunkEnd)]]
              /\ runs' = Executed(off, ChunkEnd)
              /\ Advance
              /\ UNCHANGED <<fn, n, num_threads, pc, thread, heap, result>>

\* chunk_worker, reduce_worker
Worker(c) == /\ thread[c] = "started"
             /\ runs' = Executed(args[c].start, args[c].end)
             /\ args' = [args EXCEPT ![c].result = Range(args[c].start, args[c].end)]
             /\ thread' = [thread EXCEPT ![c] = "finished"]
             /\ UNCHANGED <<fn, n, num_threads, pc, i, off, heap, result>>

StartsJoining == /\ pc = "spawn" /\ i = num_threads
                 /\ pc' = "join" /\ i' = 0
                 /\ UNCHANGED <<fn, n, num_threads, off, args, thread, heap, runs, result>>

\* Mutant: the partial results are combined from the last to the first.
JoinsReversing == /\ pc = "join" /\ i < num_threads
                  /\ args[i].join => thread[i] = "finished"
                  /\ result' = args[i].result \o result
                  /\ i' = i + 1
                  /\ UNCHANGED <<fn, n, num_threads, pc, off, args, thread, heap, runs>>

\* Mutant: retries the join of a thread that was never created.
JoinsSpinning == /\ pc = "join" /\ i < num_threads
                 /\ args[i].join => thread[i] = "finished"
                 /\ IF args[i].join THEN result' = result \o args[i].result /\ i' = i + 1
                                    ELSE UNCHANGED <<result, i>>
                 /\ UNCHANGED <<fn, n, num_threads, pc, off, args, thread, heap, runs>>

\* Wait for chunk i if it has a thread, then take its partial result.
Joins == /\ pc = "join" /\ i < num_threads
         /\ args[i].join => thread[i] = "finished"
         /\ result' = result \o args[i].result
         /\ i' = i + 1
         /\ UNCHANGED <<fn, n, num_threads, pc, off, args, thread, heap, runs>>

Returns == /\ pc = "join" /\ i = num_threads
           /\ heap' = "freed"
           /\ pc' = "returned"
           /\ UNCHANGED <<fn, n, num_threads, i, off, args, thread, runs, result>>

Terminated == pc = "returned" /\ UNCHANGED vars

Caller == \/ ReturnsAtOnce \/ RunsInline \/ Begins \/ SpawnOk \/ SpawnFails
          \/ StartsJoining \/ Joins \/ Returns

Next == \/ Caller
        \/ \E c \in DOMAIN thread : Worker(c)
        \/ Terminated

Spec == Init /\ [][Next]_vars

\* Threads run, and the user's functions return.
Fairness == WF_vars(Caller) /\ \A c \in 0 .. MaxThreads - 1 : WF_vars(Worker(c))

FairSpec == Spec /\ Fairness

-----------------------------------------------------------------------------
(* Properties *)

TypeOK == /\ fn \in {"for", "reduce"}
          /\ n \in 0 .. MaxN /\ num_threads \in 0 .. MaxThreads
          /\ pc \in {"call", "spawn", "join", "returned"}
          /\ i \in 0 .. MaxThreads /\ off \in 0 .. MaxN
          /\ args \in [0 .. MaxThreads - 1 ->
                         [start : 0 .. MaxN, end : 0 .. MaxN, join : BOOLEAN, result : Seq(Nat)]]
          /\ thread \in [0 .. MaxThreads - 1 -> {"none", "started", "finished"}]
          /\ heap \in {"none", "live", "freed"}
          /\ runs \in [0 .. n - 1 -> Nat]
          /\ result \in Seq(Nat)

(***************************************************************************)
(* The call does what a sequential loop would: when it returns, every      *)
(* index of [0, n) was processed exactly once, however n and num_threads   *)
(* divide and whichever thread creations and allocations failed            *)
(* (parallel_for with no threads processes none); and parallel_reduce      *)
(* combined the partial results from the first chunk to the last, so that  *)
(* a reduce that is associative but not commutative is safe.               *)
(***************************************************************************)
SequentialResult ==
    pc = "returned" =>
      /\ \A k \in 0 .. n - 1 : runs[k] = (IF fn = "for" /\ num_threads = 0 THEN 0 ELSE 1)
      /\ fn = "reduce" => result = Range(0, n)

(***************************************************************************)
(* threads[] and args[] outlive the threads that use them.                 *)
(***************************************************************************)
ArgsOutliveThreads ==
    /\ TypeOK
    /\ heap = "freed" => \A c \in DOMAIN thread : thread[c] # "started"

(***************************************************************************)
(* parallel.c: the answer of a sequential loop, from memory that is there. *)
(***************************************************************************)
ParallelIsSequential == SequentialResult /\ ArgsOutliveThreads

(***************************************************************************)
(* The call returns.                                                       *)
(***************************************************************************)
CallReturns == <>(pc = "returned")
=============================================================================
