----------------------------- MODULE ThreadPool -----------------------------
(***************************************************************************)
(* src/src/hpc/thread_pool.c: a pool of worker threads around a linked     *)
(* list of Task nodes, one mutex and one condition variable.               *)
(*                                                                         *)
(* The threads are the owner, who creates and destroys the pool, clients   *)
(* that submit, and the workers, whose tasks may submit as well.  A        *)
(* critical section is one step, since the mutex protects the list and     *)
(* the shutdown flag; what happens outside it (malloc, the task, free,     *)
(* pthread_join) is a step of its own.                                     *)
(*                                                                         *)
(* Task nodes are addresses of a heap: free puts one back, malloc may hand *)
(* it out again with its old content.                                      *)
(***************************************************************************)
EXTENDS Integers, Sequences, FiniteSets

CONSTANTS NumThreads,  \* the num_threads thread_pool_create is given
          Clients,     \* threads that submit and are not workers
          Jobs,        \* the (func, arg) pairs, each submitted at most once
          Nodes,       \* addresses malloc may return for a Task
          NULL         \* the null pointer

ASSUME NumThreadsAssumption == NumThreads \in Nat \ {0}
ASSUME NullAssumption == NULL \notin Nodes /\ NULL \notin Jobs
ASSUME ClientsAssumption == Clients \cap (0 .. NumThreads - 1) = {}

VARIABLES owner,       \* the owner: pc and the loop index of create/destroy
          wpc,         \* per worker: where it is
          cur,         \* per worker: the task it took, its local t
          hand,        \* per submitter: the node malloc gave it, its local t
          queue_head, queue_tail, shutdown,   \* fields of the pool
          next, job,   \* per node: its fields
          allocated,   \* the nodes malloc handed out and nobody freed
          status,      \* history, per job: what has become of it
          calls,       \* history, per job: how often it was called
          fifo         \* history: the nodes enqueued and not yet dequeued

pool == <<queue_head, queue_tail, shutdown>>
heap == <<next, job, allocated>>
vars == <<owner, wpc, cur, hand, pool, heap, status, calls, fifo>>

Workers == 0 .. NumThreads - 1
Submitters == Clients \cup Workers

At(l) == {w \in Workers : wpc[w] = l}

\* pthread_cond_broadcast
Broadcast == wpc' = [w \in Workers |-> IF wpc[w] = "wait" THEN "lock" ELSE wpc[w]]

\* pthread_cond_signal
Signal == \/ At("wait") = {} /\ UNCHANGED wpc
          \/ \E w \in At("wait") : wpc' = [wpc EXCEPT ![w] = "lock"]

Init == /\ owner = [pc |-> "start", i |-> 0]
        /\ wpc = [w \in Workers |-> "unborn"]
        /\ cur = [w \in Workers |-> NULL]
        /\ hand = [s \in Submitters |-> NULL]
        /\ queue_head = NULL
        /\ queue_tail = NULL
        /\ shutdown = FALSE
        /\ next = [n \in Nodes |-> NULL]
        /\ job = [n \in Nodes |-> NULL]
        /\ allocated = {}
        /\ status = [j \in Jobs |-> "new"]
        /\ calls = [j \in Jobs |-> 0]
        /\ fifo = <<>>

-----------------------------------------------------------------------------
(* thread_pool_create *)

\* Both allocations may fail; then there is no pool.
Create == /\ owner.pc = "start"
          /\ owner' \in {[pc |-> "spawn", i |-> 0], [pc |-> "failed", i |-> 0]}
          /\ UNCHANGED <<wpc, cur, hand, pool, heap, status, calls, fifo>>

SpawnOk == /\ owner.pc = "spawn"
           /\ owner.i < NumThreads
           /\ wpc' = [wpc EXCEPT ![owner.i] = "lock"]
           /\ owner' = [owner EXCEPT !.i = @ + 1]
           /\ UNCHANGED <<cur, hand, pool, heap, status, calls, fifo>>

\* *pool = p
Publish == /\ owner.pc = "spawn"
           /\ owner.i = NumThreads
           /\ owner' = [pc |-> "ready", i |-> 0]
           /\ UNCHANGED <<wpc, cur, hand, pool, heap, status, calls, fifo>>

\* pthread_create failed: stop the workers 0 .. i-1 that did start.
SpawnFails == /\ owner.pc = "spawn"
              /\ owner.i < NumThreads
              /\ shutdown' = TRUE
              /\ Broadcast
              /\ owner' = [owner EXCEPT !.pc = "unwind"]
              /\ UNCHANGED <<cur, hand, queue_head, queue_tail, heap, status, calls, fifo>>

\* Join them one after the other and free the pool.
Unwind == /\ owner.pc = "unwind"
          /\ \A w \in Workers : w < owner.i => wpc[w] = "exited"
          /\ owner' = [owner EXCEPT !.pc = "failed"]
          /\ UNCHANGED <<wpc, cur, hand, pool, heap, status, calls, fifo>>

-----------------------------------------------------------------------------
(* thread_pool_submit, by a client or by a task that runs on a worker *)

CanSubmit(s) == /\ hand[s] = NULL
                /\ \/ s \in Clients /\ owner.pc = "ready"
                   \/ s \in Workers /\ wpc[s] = "run"

SubmitNoMem(s, j) == /\ CanSubmit(s)
                     /\ status[j] = "new"
                     /\ status' = [status EXCEPT ![j] = "nomem"]
                     /\ UNCHANGED <<owner, wpc, cur, hand, pool, heap, calls, fifo>>

SubmitMalloc(s, j, n) == /\ CanSubmit(s)
                         /\ status[j] = "new"
                         /\ n \notin allocated
                         /\ allocated' = allocated \cup {n}
                         /\ job' = [job EXCEPT ![n] = j]
                         /\ next' = [next EXCEPT ![n] = NULL]
                         /\ hand' = [hand EXCEPT ![s] = n]
                         /\ status' = [status EXCEPT ![j] = "submitting"]
                         /\ UNCHANGED <<owner, wpc, cur, pool, calls, fifo>>

SubmitRejected(s) == /\ hand[s] # NULL
                     /\ shutdown
                     /\ allocated' = allocated \ {hand[s]}
                     /\ status' = [status EXCEPT ![job[hand[s]]] = "rejected"]
                     /\ hand' = [hand EXCEPT ![s] = NULL]
                     /\ UNCHANGED <<owner, wpc, cur, pool, next, job, calls, fifo>>

\* Mutant: signals only when the list was empty.
SubmitEnqueueSignalsIfEmpty(s) ==
    /\ hand[s] # NULL
    /\ ~shutdown
    /\ IF queue_tail # NULL
         THEN next' = [next EXCEPT ![queue_tail] = hand[s]] /\ UNCHANGED queue_head
         ELSE queue_head' = hand[s] /\ UNCHANGED next
    /\ queue_tail' = hand[s]
    /\ IF queue_head = NULL THEN Signal ELSE UNCHANGED wpc
    /\ fifo' = Append(fifo, hand[s])
    /\ status' = [status EXCEPT ![job[hand[s]]] = "queued"]
    /\ hand' = [hand EXCEPT ![s] = NULL]
    /\ UNCHANGED <<owner, cur, shutdown, job, allocated, calls>>

\* Mutant: the shutdown flag is not tested under the mutex.
SubmitEnqueueAlways(s) ==
    /\ hand[s] # NULL
    /\ IF queue_tail # NULL
         THEN next' = [next EXCEPT ![queue_tail] = hand[s]] /\ UNCHANGED queue_head
         ELSE queue_head' = hand[s] /\ UNCHANGED next
    /\ queue_tail' = hand[s]
    /\ Signal
    /\ fifo' = Append(fifo, hand[s])
    /\ status' = [status EXCEPT ![job[hand[s]]] = "queued"]
    /\ hand' = [hand EXCEPT ![s] = NULL]
    /\ UNCHANGED <<owner, cur, shutdown, job, allocated, calls>>

SubmitEnqueue(s) ==
    /\ hand[s] # NULL
    /\ ~shutdown
    /\ IF queue_tail # NULL
         THEN next' = [next EXCEPT ![queue_tail] = hand[s]] /\ UNCHANGED queue_head
         ELSE queue_head' = hand[s] /\ UNCHANGED next
    /\ queue_tail' = hand[s]
    /\ Signal
    /\ fifo' = Append(fifo, hand[s])
    /\ status' = [status EXCEPT ![job[hand[s]]] = "queued"]
    /\ hand' = [hand EXCEPT ![s] = NULL]
    /\ UNCHANGED <<owner, cur, shutdown, job, allocated, calls>>

-----------------------------------------------------------------------------
(* worker *)

WorkerWait(w) == /\ wpc[w] = "lock"
                 /\ queue_head = NULL
                 /\ ~shutdown
                 /\ wpc' = [wpc EXCEPT ![w] = "wait"]
                 /\ UNCHANGED <<owner, cur, hand, pool, heap, status, calls, fifo>>

SpuriousWakeup(w) == /\ wpc[w] = "wait"
                     /\ wpc' = [wpc EXCEPT ![w] = "lock"]
                     /\ UNCHANGED <<owner, cur, hand, pool, heap, status, calls, fifo>>

WorkerExit(w) == /\ wpc[w] = "lock"
                 /\ queue_head = NULL
                 /\ shutdown
                 /\ wpc' = [wpc EXCEPT ![w] = "exited"]
                 /\ UNCHANGED <<owner, cur, hand, pool, heap, status, calls, fifo>>

\* Mutant: the tail is left pointing at a node that is about to be freed.
WorkerDequeueKeepsTail(w) ==
    /\ wpc[w] = "lock"
    /\ queue_head # NULL
    /\ cur' = [cur EXCEPT ![w] = queue_head]
    /\ queue_head' = next[queue_head]
    /\ fifo' = Tail(fifo)
    /\ status' = [status EXCEPT ![job[queue_head]] = "running"]
    /\ wpc' = [wpc EXCEPT ![w] = "took"]
    /\ UNCHANGED <<owner, hand, queue_tail, shutdown, heap, calls>>

\* Mutant: after the shutdown the list is not drained any more.
WorkerDequeueUnlessShutdown(w) ==
    /\ wpc[w] = "lock"
    /\ queue_head # NULL
    /\ \/ shutdown /\ UNCHANGED vars
       \/ /\ ~shutdown
          /\ cur' = [cur EXCEPT ![w] = queue_head]
          /\ queue_head' = next[queue_head]
          /\ queue_tail' = IF queue_head' = NULL THEN NULL ELSE queue_tail
          /\ fifo' = Tail(fifo)
          /\ status' = [status EXCEPT ![job[queue_head]] = "running"]
          /\ wpc' = [wpc EXCEPT ![w] = "took"]
          /\ UNCHANGED <<owner, hand, shutdown, heap, calls>>

WorkerDequeue(w) ==
    /\ wpc[w] = "lock"
    /\ queue_head # NULL
    /\ cur' = [cur EXCEPT ![w] = queue_head]
    /\ queue_head' = next[queue_head]
    /\ queue_tail' = IF queue_head' = NULL THEN NULL ELSE queue_tail
    /\ fifo' = Tail(fifo)
    /\ status' = [status EXCEPT ![job[queue_head]] = "running"]
    /\ wpc' = [wpc EXCEPT ![w] = "took"]
    /\ UNCHANGED <<owner, hand, shutdown, heap, calls>>

\* t->func(t->arg), after the unlock: the task starts.
WorkerCall(w) == /\ wpc[w] = "took"
                 /\ wpc' = [wpc EXCEPT ![w] = "run"]
                 /\ calls' = [calls EXCEPT ![job[cur[w]]] = @ + 1]
                 /\ UNCHANGED <<owner, cur, hand, pool, heap, status, fifo>>

\* The task returns, with no submission of its own under way; free(t).
WorkerFree(w) == /\ wpc[w] = "run"
                 /\ hand[w] = NULL
                 /\ status' = [status EXCEPT ![job[cur[w]]] = "done"]
                 /\ allocated' = allocated \ {cur[w]}
                 /\ cur' = [cur EXCEPT ![w] = NULL]
                 /\ wpc' = [wpc EXCEPT ![w] = "lock"]
                 /\ UNCHANGED <<owner, hand, pool, next, job, calls, fifo>>

-----------------------------------------------------------------------------
(* thread_pool_destroy: it "must not race with thread_pool_submit", so no   *)
(* client is inside a submit.  Tasks may be: they run until they are joined. *)

Destroy == /\ owner.pc = "ready"
           /\ \A c \in Clients : hand[c] = NULL
           /\ shutdown' = TRUE
           /\ Broadcast
           /\ owner' = [pc |-> "join", i |-> 0]
           /\ UNCHANGED <<cur, hand, queue_head, queue_tail, heap, status, calls, fifo>>

Join == /\ owner.pc = "join"
        /\ owner.i < NumThreads
        /\ wpc[owner.i] = "exited"
        /\ owner' = [owner EXCEPT !.i = @ + 1]
        /\ UNCHANGED <<wpc, cur, hand, pool, heap, status, calls, fifo>>

\* Free what is left in the list, then the pool itself.
FreePool == /\ owner.pc = "join"
            /\ owner.i = NumThreads
            /\ allocated' = allocated \ {fifo[k] : k \in DOMAIN fifo}
            /\ queue_head' = NULL
            /\ fifo' = <<>>
            /\ owner' = [owner EXCEPT !.pc = "gone"]
            /\ UNCHANGED <<wpc, cur, hand, queue_tail, shutdown, next, job, status, calls>>

\* After the pool is gone, or was never there, nothing is left to do.
Terminated == /\ owner.pc \in {"gone", "failed"}
              /\ UNCHANGED vars

-----------------------------------------------------------------------------
Owner == Create \/ SpawnOk \/ Publish \/ SpawnFails \/ Unwind \/ Join \/ FreePool

Submit(s) == SubmitRejected(s) \/ SubmitEnqueue(s)

Worker(w) == \/ WorkerWait(w) \/ WorkerExit(w) \/ WorkerDequeue(w)
             \/ WorkerCall(w) \/ WorkerFree(w)

Next == \/ Owner \/ Destroy \/ Terminated
        \/ \E s \in Submitters, j \in Jobs :
              SubmitNoMem(s, j) \/ \E n \in Nodes : SubmitMalloc(s, j, n)
        \/ \E s \in Submitters : Submit(s)
        \/ \E w \in Workers : Worker(w) \/ SpuriousWakeup(w)

Spec == Init /\ [][Next]_vars

(***************************************************************************)
(* Fairness: a thread that wants the mutex gets it, a started create or    *)
(* destroy goes on, and tasks return.  Nobody has to submit, to destroy or *)
(* to wake up spuriously.                                                  *)
(***************************************************************************)
Fairness == /\ WF_vars(Owner)
            /\ \A s \in Submitters : WF_vars(Submit(s))
            /\ \A w \in Workers : WF_vars(Worker(w))

FairSpec == Spec /\ Fairness

-----------------------------------------------------------------------------
(* Properties *)

TypeOK ==
    /\ owner \in [pc : {"start", "spawn", "unwind", "failed", "ready", "join", "gone"},
                  i : 0 .. NumThreads]
    /\ wpc \in [Workers -> {"unborn", "lock", "wait", "took", "run", "exited"}]
    /\ cur \in [Workers -> Nodes \cup {NULL}]
    /\ hand \in [Submitters -> Nodes \cup {NULL}]
    /\ queue_head \in Nodes \cup {NULL}
    /\ queue_tail \in Nodes \cup {NULL}
    /\ shutdown \in BOOLEAN
    /\ next \in [Nodes -> Nodes \cup {NULL}]
    /\ job \in [Nodes -> Jobs \cup {NULL}]
    /\ allocated \in SUBSET Nodes
    /\ status \in [Jobs -> {"new", "nomem", "submitting", "rejected",
                            "queued", "running", "done"}]
    /\ calls \in [Jobs -> Nat]
    /\ fifo \in Seq(Nodes)

(***************************************************************************)
(* The linked list is the queue of the nodes enqueued and not dequeued, in *)
(* order: head and tail are its ends, each node points to its successor,   *)
(* and all of them are allocated.  So no pointer of the pool dangles and   *)
(* queue_tail->next is never written into freed memory.                    *)
(***************************************************************************)
ListIsFifo ==
    owner.pc # "gone" =>
      /\ queue_head = (IF fifo = <<>> THEN NULL ELSE fifo[1])
      /\ queue_tail = (IF fifo = <<>> THEN NULL ELSE fifo[Len(fifo)])
      /\ \A k \in 1 .. Len(fifo) :
           /\ fifo[k] \in allocated
           /\ next[fifo[k]] = (IF k = Len(fifo) THEN NULL ELSE fifo[k + 1])

(***************************************************************************)
(* Every allocated node has exactly one owner that will free it: the list, *)
(* one worker or one submitter.  No leak, no double free, and no node is   *)
(* used by one thread after another freed it.                              *)
(***************************************************************************)
Holders(n) == {<<"list", k>> : k \in {k \in DOMAIN fifo : fifo[k] = n}}
              \cup {<<"worker", w>> : w \in {w \in Workers : cur[w] = n}}
              \cup {<<"submitter", s>> : s \in {s \in Submitters : hand[s] = n}}

NodeOwnership ==
    /\ TypeOK
    /\ \A n \in Nodes : Cardinality(Holders(n)) = (IF n \in allocated THEN 1 ELSE 0)

(***************************************************************************)
(* No lost wake-up: while a worker sleeps, the pool is not shutting down   *)
(* and every queued task has a worker already on its way to the mutex.     *)
(***************************************************************************)
NoLostWakeup ==
    At("wait") # {} => ~shutdown /\ Len(fifo) <= Cardinality(At("lock"))

(***************************************************************************)
(* The pool's memory outlives its users: when destroy, or a create whose   *)
(* pthread_create failed, has freed the pool, every worker that was ever   *)
(* started has returned.                                                   *)
(***************************************************************************)
PoolOutlivesWorkers ==
    owner.pc \in {"gone", "failed"} => \A w \in Workers : wpc[w] \in {"unborn", "exited"}

(***************************************************************************)
(* A task is called once, and only if it was accepted: not when submit     *)
(* answered ERR_UNSUPPORTED or ERR_NOMEM, and once before its node is      *)
(* freed and before the pool is gone.                                      *)
(***************************************************************************)
CalledOnce ==
    \A j \in Jobs : /\ calls[j] <= 1
                    /\ calls[j] = 1 => status[j] \in {"running", "done"}
                    /\ status[j] = "done" => calls[j] = 1
                    /\ owner.pc = "gone" => status[j] # "queued" /\ status[j] # "running"

(***************************************************************************)
(* thread_pool.c: the list, the nodes and the pool itself are each freed   *)
(* once, by one owner, after their last use; and a task is called once.    *)
(***************************************************************************)
NodesAreOwned == ListIsFifo /\ NodeOwnership /\ PoolOutlivesWorkers /\ CalledOnce

(***************************************************************************)
(* An accepted task is run.                                                *)
(***************************************************************************)
AcceptedIsRun == \A j \in Jobs : status[j] = "queued" ~> status[j] = "done"

(***************************************************************************)
(* thread_pool_destroy returns, also when tasks submit while it waits, and *)
(* so does thread_pool_create when a pthread_create fails half-way.        *)
(***************************************************************************)
OwnerReturns == /\ owner.pc = "join" ~> owner.pc = "gone"
                /\ owner.pc = "spawn" ~> owner.pc \in {"ready", "failed"}

(***************************************************************************)
(* Accepted tasks are run, and create and destroy return.                  *)
(***************************************************************************)
PoolProgresses == AcceptedIsRun /\ OwnerReturns

-----------------------------------------------------------------------------
(* Refinement: the pool implements JobExecutor. *)

Phase == CASE owner.pc \in {"start", "spawn"} -> "down"
           [] owner.pc = "ready" -> "up"
           [] owner.pc \in {"unwind", "join"} -> "stopping"
           [] owner.pc \in {"gone", "failed"} -> "gone"

Executor ==
    INSTANCE JobExecutor WITH
        Width <- NumThreads,
        phase <- Phase,
        queue <- [k \in 1 .. Len(fifo) |-> job[fifo[k]]],
        status <- [j \in Jobs |-> IF status[j] = "submitting" THEN "new" ELSE status[j]]

(***************************************************************************)
(* The pool is a job executor: tasks are taken in the order in which they  *)
(* were accepted, each once, at most one per worker at a time, none is     *)
(* accepted after the shutdown flag is set, and thread_pool_destroy        *)
(* returns only when all accepted tasks have finished.                     *)
(***************************************************************************)
ImplementsExecutor == Executor!Spec
=============================================================================
