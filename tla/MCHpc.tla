------------------------------- MODULE MCHpc -------------------------------
(***************************************************************************)
(* The threaded parts of src/src/hpc for TLC: the thread pool, the         *)
(* parallel loops and the pipeline over the blocking queue.  They share    *)
(* nothing, so a behaviour exercises one of them, its subject.             *)
(***************************************************************************)
EXTENDS ThreadPool

CONSTANTS MaxN, MaxThreads,     \* the loops'
          PRODUCERS, ITEMS_PER_PRODUCER, QUEUE_CAP, Main   \* the pipeline's

VARIABLES subject,
          fn, n, num_threads, pc, i, off, args, thread, pheap, runs, result,
          open, queue, closed, call, ret, mpc, made, got, ppc, sent

ASSUME LoopsAssumption == MaxN \in Nat /\ MaxThreads \in Nat
ASSUME PipelineAssumption == /\ PRODUCERS \in Nat /\ ITEMS_PER_PRODUCER \in Nat
                             /\ Main \notin 0 .. PRODUCERS - 1

P == INSTANCE Parallel WITH heap <- pheap
L == INSTANCE Pipeline

ParallelVars == <<fn, n, num_threads, pc, i, off, args, thread, pheap, runs, result>>
PipelineVars == <<open, queue, closed, call, ret, mpc, made, got, ppc, sent>>
HpcVars == <<subject, vars, ParallelVars, PipelineVars>>

Pooled(A) == subject = "pool" /\ A /\ UNCHANGED <<subject, ParallelVars, PipelineVars>>
Loop(A) == subject = "loop" /\ A /\ UNCHANGED <<subject, vars, PipelineVars>>
Piped(A) == subject = "pipeline" /\ A /\ UNCHANGED <<subject, vars, ParallelVars>>

HpcInit == /\ subject \in {"pool", "loop", "pipeline"}
           /\ Init /\ P!Init /\ L!Init
           /\ subject # "loop" => fn = "for" /\ n = 0 /\ num_threads = 0

HpcNext == Pooled(Next) \/ Loop(P!Next) \/ Piped(L!Next)

\* The fairness of the first two; the pipeline's steps are bounded, so that
\* it ends unless it deadlocks, which TLC reports.
HpcSpec ==
    /\ HpcInit /\ [][HpcNext]_HpcVars
    /\ WF_HpcVars(Pooled(Owner))
    /\ \A s \in Submitters : WF_HpcVars(Pooled(Submit(s)))
    /\ \A w \in Workers : WF_HpcVars(Pooled(Worker(w)))
    /\ WF_HpcVars(Loop(P!Caller))
    /\ \A c \in 0 .. MaxThreads - 1 : WF_HpcVars(Loop(P!Worker(c)))

-----------------------------------------------------------------------------
(* Properties: ThreadPool's, and *)

(***************************************************************************)
(* parallel.c: the answer of a sequential loop, from memory that is there. *)
(***************************************************************************)
ParallelIsSequential == P!ParallelIsSequential

(***************************************************************************)
(* parallel.c: parallel_for and parallel_reduce return.                    *)
(***************************************************************************)
CallReturns == subject = "loop" => P!CallReturns

(***************************************************************************)
(* pipeline_demo.c: every item arrives once, and the queue is closed and   *)
(* destroyed when nobody needs it any more.                                *)
(***************************************************************************)
PipelineIsExact == L!PipelineIsExact
=============================================================================
