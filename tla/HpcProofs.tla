----------------------------- MODULE HpcProofs -----------------------------
(***************************************************************************)
(* Theorems about the threaded parts of src/src/hpc.                       *)
(*                                                                         *)
(* ThreadPool, for every number of workers, clients, jobs and nodes: every *)
(* node is owned once and every task called once, no wake-up is lost, and  *)
(* the pool implements JobExecutor.  Parallel, for every size of the loop  *)
(* and every number of threads: its answer is the sequential loop's.       *)
(* Pipeline, for every number of producers and items: every item arrives   *)
(* once.                                                                   *)
(***************************************************************************)
EXTENDS MCHpc, FiniteSetTheorems, SequenceTheorems, TLAPS


(***************************************************************************)
(* The inductive invariant.  Control relates the owner, the workers and    *)
(* the shutdown flag: which workers exist, who may be inside a submit, and *)
(* when the list is certainly empty.                                       *)
(***************************************************************************)
Quiet == fifo = <<>> /\ \A w \in Workers : cur[w] = NULL

Control ==
    /\ owner.pc = "start" => \A w \in Workers : wpc[w] = "unborn"
    /\ owner.pc \in {"spawn", "unwind"} => \A w \in Workers : w >= owner.i => wpc[w] = "unborn"
    /\ owner.pc = "failed" => \A w \in Workers : wpc[w] \in {"unborn", "exited"}
    /\ owner.pc = "join" => \A w \in Workers : w < owner.i => wpc[w] = "exited"
    /\ owner.pc = "gone" => \A w \in Workers : wpc[w] = "exited"
    /\ shutdown => owner.pc \in {"unwind", "join", "gone", "failed"}
    /\ owner.pc \in {"unwind", "join", "gone"} => shutdown
    /\ (\E w \in Workers : wpc[w] = "exited") => shutdown /\ fifo = <<>>
    /\ owner.pc \in {"start", "spawn", "unwind", "failed", "gone"} => Quiet
    /\ \A w \in Workers : cur[w] # NULL <=> wpc[w] \in {"took", "run"}
    /\ \A w \in Workers : hand[w] # NULL => wpc[w] = "run"
    /\ \A c \in Clients : hand[c] # NULL => owner.pc = "ready"

\* Nobody shares a node: the list, the workers and the submitters hold each
\* node at most once between them.
Distinct ==
    /\ \A k, l \in 1 .. Len(fifo) : fifo[k] = fifo[l] => k = l
    /\ \A k \in 1 .. Len(fifo), w \in Workers : fifo[k] # cur[w]
    /\ \A k \in 1 .. Len(fifo), s \in Submitters : fifo[k] # hand[s]
    /\ \A v, w \in Workers : cur[v] = cur[w] => cur[v] = NULL \/ v = w
    /\ \A w \in Workers, s \in Submitters : cur[w] = hand[s] => cur[w] = NULL
    /\ \A r, s \in Submitters : hand[r] = hand[s] => hand[r] = NULL \/ r = s

Held(x) == \/ \E k \in 1 .. Len(fifo) : fifo[k] = x
           \/ \E w \in Workers : cur[w] = x
           \/ \E s \in Submitters : hand[s] = x

\* What is allocated is what somebody holds.
Accounted == \A x \in Nodes : x \in allocated <=> Held(x)

\* A node that is about to be appended ends the list.
HandsEndTheList == \A s \in Submitters : hand[s] # NULL => next[hand[s]] = NULL

(***************************************************************************)
(* The jobs in the nodes: a node's holder fixes the status of its job,     *)
(* allocated nodes carry different jobs, and a queued or running job is in *)
(* a node of the list or of a worker.                                      *)
(***************************************************************************)
JobsOfNodes ==
    /\ \A x \in allocated : job[x] \in Jobs
    /\ \A m, x \in allocated : job[m] = job[x] => m = x
    /\ \A k \in 1 .. Len(fifo) : status[job[fifo[k]]] = "queued"
    /\ \A w \in Workers : cur[w] # NULL => status[job[cur[w]]] = "running"
    /\ \A s \in Submitters : hand[s] # NULL => status[job[hand[s]]] = "submitting"

NodesOfJobs ==
    /\ \A j \in Jobs : status[j] = "queued" => \E k \in 1 .. Len(fifo) : job[fifo[k]] = j
    /\ \A j \in Jobs : status[j] = "running"
                         => \E w \in Workers : cur[w] # NULL /\ job[cur[w]] = j

\* A job has been called when its worker is past the call, and not before.
CallsOfJobs ==
    /\ \A j \in Jobs : status[j] \notin {"running", "done"} => calls[j] = 0
    /\ \A j \in Jobs : status[j] = "done" => calls[j] = 1
    /\ \A w \in Workers : wpc[w] = "took" => calls[job[cur[w]]] = 0
    /\ \A w \in Workers : wpc[w] = "run" => calls[job[cur[w]]] = 1

PoolInv == /\ TypeOK /\ Control
           /\ Distinct /\ Accounted
           /\ HandsEndTheList /\ ListIsFifo
           /\ JobsOfNodes /\ NodesOfJobs /\ CallsOfJobs

-----------------------------------------------------------------------------
(* Facts about the steps *)

\* The list as a sequence.
LEMMA FifoFacts ==
  ASSUME TypeOK
  PROVE  /\ Len(fifo) \in Nat
         /\ DOMAIN fifo = 1 .. Len(fifo)
         /\ \A k \in 1 .. Len(fifo) : fifo[k] \in Nodes
         /\ fifo = <<>> <=> Len(fifo) = 0
BY LenProperties, EmptySeq DEF TypeOK

\* pthread_cond_signal moves nobody but a sleeping worker.
LEMMA SignalMoves ==
  ASSUME TypeOK, Signal
  PROVE  /\ wpc' \in [Workers -> {"unborn", "lock", "wait", "took", "run", "exited"}]
         /\ \A w \in Workers : wpc'[w] = wpc[w] \/ (wpc[w] = "wait" /\ wpc'[w] = "lock")
BY DEF Signal, At, TypeOK

\* pthread_cond_broadcast moves exactly the sleeping workers.
LEMMA BroadcastMoves ==
  ASSUME TypeOK, Broadcast
  PROVE  /\ wpc' \in [Workers -> {"unborn", "lock", "wait", "took", "run", "exited"}]
         /\ \A w \in Workers : wpc'[w] = IF wpc[w] = "wait" THEN "lock" ELSE wpc[w]
BY DEF Broadcast, TypeOK

\* The steps that touch neither a node nor the list.
Still == UNCHANGED <<cur, hand, queue_head, queue_tail, heap, fifo>>

LEMMA StepKinds ==
  ASSUME [Next]_vars
  PROVE  \/ Still /\ UNCHANGED status
         \/ \E s \in Submitters, j \in Jobs : SubmitNoMem(s, j) /\ Still
         \/ \E s \in Submitters, j \in Jobs, x \in Nodes : SubmitMalloc(s, j, x)
         \/ \E s \in Submitters : SubmitRejected(s) \/ SubmitEnqueue(s)
         \/ \E w \in Workers : WorkerDequeue(w) \/ WorkerFree(w)
         \/ FreePool
<1>1. CASE Create \/ SpawnOk \/ Publish \/ SpawnFails \/ Unwind \/ Join \/ Destroy
  BY <1>1 DEF Create, SpawnOk, Publish, SpawnFails, Unwind, Join, Destroy, Still, pool, heap
<1>2. CASE Terminated \/ UNCHANGED vars
  BY <1>2 DEF Terminated, Still, vars, pool, heap
<1>3. CASE \E s \in Submitters, j \in Jobs : SubmitNoMem(s, j)
  BY <1>3 DEF SubmitNoMem, Still, pool, heap
<1>4. CASE \E w \in Workers : WorkerWait(w) \/ WorkerExit(w) \/ WorkerCall(w) \/ SpuriousWakeup(w)
  BY <1>4 DEF WorkerWait, WorkerExit, WorkerCall, SpuriousWakeup, Still, pool, heap
<1> QED
  BY <1>1, <1>2, <1>3, <1>4 DEF Next, Owner, Submit, Worker

\* Once the pool is gone it stays gone, and its list was empty.
LEMMA GoneForGood ==
  ASSUME PoolInv, [Next]_vars, owner.pc = "gone"
  PROVE  owner' = owner /\ Still
<1>1. \A w \in Workers : wpc[w] = "exited"
  BY DEF PoolInv, Control
<1>2. \A s \in Submitters : hand[s] = NULL
  BY <1>1 DEF PoolInv, Control, Submitters
<1>3. ~ Owner /\ ~ Destroy
  BY DEF Owner, Create, SpawnOk, Publish, SpawnFails, Unwind, Join, FreePool, Destroy
<1>4. CASE Terminated \/ UNCHANGED vars
  BY <1>4 DEF Terminated, Still, vars, pool, heap
<1>5. CASE \E s \in Submitters, j \in Jobs : SubmitNoMem(s, j)
  BY <1>5 DEF SubmitNoMem, Still, pool, heap
<1>6. ~ \E s \in Submitters, j \in Jobs, x \in Nodes : SubmitMalloc(s, j, x)
  BY <1>1 DEF SubmitMalloc, CanSubmit
<1>7. ~ \E s \in Submitters : Submit(s)
  BY <1>2 DEF Submit, SubmitRejected, SubmitEnqueue
<1>8. ~ \E w \in Workers : Worker(w) \/ SpuriousWakeup(w)
  BY <1>1 DEF Worker, WorkerWait, WorkerExit, WorkerDequeue, WorkerCall, WorkerFree, SpuriousWakeup
<1> QED
  BY <1>3, <1>4, <1>5, <1>6, <1>7, <1>8 DEF Next

\* The test of the worker loop: queue_head is null when the list is empty.
LEMMA EmptyHead ==
  ASSUME PoolInv, owner.pc # "gone"
  PROVE  queue_head = NULL <=> fifo = <<>>
<1>1. ASSUME fifo # <<>> PROVE fifo[1] \in Nodes
  BY <1>1, FifoFacts DEF PoolInv
<1>2. queue_head = IF fifo = <<>> THEN NULL ELSE fifo[1]
  BY DEF PoolInv, ListIsFifo
<1> QED
  BY <1>1, <1>2, NullAssumption

\* An append to the list, and a removal of its first node.
LEMMA EnqueueFifo ==
  ASSUME TypeOK, NEW s \in Submitters, SubmitEnqueue(s)
  PROVE  /\ hand[s] \in Nodes
         /\ fifo' \in Seq(Nodes)
         /\ Len(fifo') = Len(fifo) + 1
         /\ \A k \in 1 .. Len(fifo) : fifo'[k] = fifo[k]
         /\ fifo'[Len(fifo) + 1] = hand[s]
<1>1. hand[s] \in Nodes
  BY DEF TypeOK, SubmitEnqueue
<1> QED
  BY <1>1, AppendProperties DEF TypeOK, SubmitEnqueue

LEMMA DequeueFifo ==
  ASSUME PoolInv, NEW w \in Workers, WorkerDequeue(w)
  PROVE  /\ owner.pc # "gone" /\ fifo # <<>>
         /\ Len(fifo) >= 1 /\ queue_head = fifo[1]
         /\ fifo' \in Seq(Nodes)
         /\ Len(fifo') = Len(fifo) - 1
         /\ \A k \in 1 .. Len(fifo) - 1 : fifo'[k] = fifo[k + 1]
<1>1. owner.pc # "gone"
  BY DEF PoolInv, Control, WorkerDequeue
<1>2. fifo # <<>> /\ queue_head = fifo[1]
  BY <1>1 DEF PoolInv, ListIsFifo, WorkerDequeue
<1>3. Len(fifo) \in Nat /\ Len(fifo) # 0
  BY <1>2, FifoFacts DEF PoolInv
<1> QED
  BY <1>1, <1>2, <1>3, HeadTailProperties DEF PoolInv, TypeOK, WorkerDequeue

-----------------------------------------------------------------------------
(* The invariant holds initially *)

LEMMA PoolInvInit == Init => PoolInv
<1> SUFFICES ASSUME Init PROVE PoolInv
  OBVIOUS
<1> USE DEF Init
<1>1. Len(fifo) = 0 /\ fifo \in Seq(Nodes)
  BY EmptySeq
<1>2. shutdown \in BOOLEAN
  BY Zenon
<1>3. TypeOK
  BY <1>1, <1>2, NumThreadsAssumption DEF TypeOK
<1>4. Control
  BY DEF Control, Quiet, Submitters
<1>5. Distinct /\ Accounted /\ HandsEndTheList
  BY <1>1, NullAssumption DEF Distinct, Accounted, Held, HandsEndTheList
<1>6. ListIsFifo
  BY <1>1 DEF ListIsFifo
<1>7. JobsOfNodes /\ NodesOfJobs /\ CallsOfJobs
  BY <1>1 DEF JobsOfNodes, NodesOfJobs, CallsOfJobs
<1> QED
  BY <1>3, <1>4, <1>5, <1>6, <1>7 DEF PoolInv

-----------------------------------------------------------------------------
(* Every step keeps it, part by part *)

\* Types.
LEMMA TypeNext == PoolInv /\ [Next]_vars => TypeOK'
<1> SUFFICES ASSUME PoolInv, [Next]_vars PROVE TypeOK'
  OBVIOUS
<1>T. TypeOK
  BY DEF PoolInv
<1> USE NumThreadsAssumption
<1>1. CASE Create \/ Publish \/ Unwind \/ Join
  <2>1. owner' \in [pc : {"start", "spawn", "unwind", "failed", "ready", "join", "gone"},
                    i : 0 .. NumThreads]
    <3>1. CASE Create \/ Publish
      BY <3>1, <1>T DEF Create, Publish, TypeOK
    <3>2. CASE Unwind
      BY <3>2, <1>T DEF Unwind, TypeOK
    <3>3. CASE Join
      <4>1. owner.i + 1 \in 0 .. NumThreads
        BY <3>3, <1>T DEF Join, TypeOK
      <4> QED
        BY <4>1, <3>3, <1>T DEF Join, TypeOK
    <3> QED
      BY <1>1, <3>1, <3>2, <3>3
  <2> QED
    BY <2>1, <1>1, <1>T DEF Create, Publish, Unwind, Join, TypeOK, pool, heap
<1>2. CASE SpawnOk
  <2>1. owner.i + 1 \in 0 .. NumThreads
    BY <1>2, <1>T DEF SpawnOk, TypeOK
  <2>2. owner' \in [pc : {"start", "spawn", "unwind", "failed", "ready", "join", "gone"},
                    i : 0 .. NumThreads]
    BY <2>1, <1>2, <1>T DEF SpawnOk, TypeOK
  <2> QED
    BY <2>2, <1>2, <1>T DEF SpawnOk, TypeOK, pool, heap
<1>3. CASE SpawnFails \/ Destroy
  <2>1. wpc' \in [Workers -> {"unborn", "lock", "wait", "took", "run", "exited"}]
    BY <1>3, <1>T, BroadcastMoves DEF SpawnFails, Destroy
  <2>2. owner' \in [pc : {"start", "spawn", "unwind", "failed", "ready", "join", "gone"},
                    i : 0 .. NumThreads]
    BY <1>3, <1>T DEF SpawnFails, Destroy, TypeOK
  <2>3. shutdown' \in BOOLEAN
    BY <1>3, Zenon DEF SpawnFails, Destroy
  <2> QED
    BY <2>1, <2>2, <2>3, <1>3, <1>T DEF SpawnFails, Destroy, TypeOK, heap
<1>4. CASE FreePool
  BY <1>4, <1>T, EmptySeq DEF FreePool, TypeOK
<1>5. CASE Terminated \/ UNCHANGED vars
  BY <1>5, <1>T DEF Terminated, TypeOK, vars, pool, heap
<1>6. ASSUME NEW s \in Submitters, NEW j \in Jobs, SubmitNoMem(s, j)
      PROVE  TypeOK'
  BY <1>6, <1>T DEF SubmitNoMem, TypeOK, pool, heap
<1>7. ASSUME NEW s \in Submitters, NEW j \in Jobs, NEW x \in Nodes, SubmitMalloc(s, j, x)
      PROVE  TypeOK'
  BY <1>7, <1>T DEF SubmitMalloc, TypeOK, pool
<1>8. ASSUME NEW s \in Submitters, SubmitRejected(s)
      PROVE  TypeOK'
  BY <1>8, <1>T DEF SubmitRejected, TypeOK, pool
<1>9. ASSUME NEW s \in Submitters, SubmitEnqueue(s)
      PROVE  TypeOK'
  <2>1. wpc' \in [Workers -> {"unborn", "lock", "wait", "took", "run", "exited"}]
    BY <1>9, <1>T, SignalMoves DEF SubmitEnqueue
  <2>2. fifo' \in Seq(Nodes)
    BY <1>9, <1>T, EnqueueFifo
  <2>3. /\ next' \in [Nodes -> Nodes \cup {NULL}]
        /\ queue_head' \in Nodes \cup {NULL} /\ queue_tail' \in Nodes \cup {NULL}
    BY <1>9, <1>T DEF SubmitEnqueue, TypeOK
  <2> QED
    BY <2>1, <2>2, <2>3, <1>9, <1>T DEF SubmitEnqueue, TypeOK
<1>10. ASSUME NEW w \in Workers, WorkerWait(w) \/ WorkerExit(w) \/ SpuriousWakeup(w)
       PROVE  TypeOK'
  BY <1>10, <1>T DEF WorkerWait, WorkerExit, SpuriousWakeup, TypeOK, pool, heap
<1>11. ASSUME NEW w \in Workers, WorkerDequeue(w)
       PROVE  TypeOK'
  <2>1. fifo' \in Seq(Nodes) /\ queue_head \in Nodes
    BY <1>11, <1>T, DequeueFifo DEF WorkerDequeue, TypeOK
  <2> QED
    BY <2>1, <1>11, <1>T DEF WorkerDequeue, TypeOK, heap
<1>12. ASSUME NEW w \in Workers, WorkerCall(w)
       PROVE  TypeOK'
  <2>1. calls' \in [Jobs -> Nat]
    <3>1. cur[w] \in allocated
      BY <1>12, <1>T DEF PoolInv, Control, Accounted, Held, WorkerCall, TypeOK
    <3>2. job[cur[w]] \in Jobs
      BY <3>1 DEF PoolInv, JobsOfNodes
    <3> QED
      BY <3>2, <1>12, <1>T DEF WorkerCall, TypeOK
  <2> QED
    BY <2>1, <1>12, <1>T DEF WorkerCall, TypeOK, pool, heap
<1>13. ASSUME NEW w \in Workers, WorkerFree(w)
       PROVE  TypeOK'
  BY <1>13, <1>T DEF WorkerFree, TypeOK, pool
<1> QED
  BY <1>1, <1>2, <1>3, <1>4, <1>5, <1>6, <1>7, <1>8, <1>9, <1>10, <1>11, <1>12, <1>13
     DEF Next, Owner, Submit, Worker

\* The owner, the workers and the shutdown flag.
LEMMA ControlNext == PoolInv /\ [Next]_vars => Control'
<1> SUFFICES ASSUME PoolInv, [Next]_vars PROVE Control'
  OBVIOUS
<1>T. TypeOK /\ Control
  BY DEF PoolInv
<1>W. Workers = 0 .. NumThreads - 1 /\ NumThreads \in Nat \ {0}
  BY NumThreadsAssumption DEF Workers
<1>1. CASE Create \/ Publish
  BY <1>1, <1>T, <1>W DEF Create, Publish, TypeOK, Control, Quiet, pool, heap
<1>2. CASE SpawnOk
  BY <1>2, <1>T, <1>W DEF SpawnOk, TypeOK, Control, Quiet, pool, heap
<1>3. CASE SpawnFails
  BY <1>3, <1>T, <1>W, BroadcastMoves DEF SpawnFails, TypeOK, Control, Quiet, heap
<1>4. CASE Destroy
  BY <1>4, <1>T, <1>W, BroadcastMoves DEF Destroy, TypeOK, Control, Quiet, heap
<1>5. CASE Unwind
  BY <1>5, <1>T, <1>W DEF Unwind, TypeOK, Control, Quiet, pool, heap
<1>6. CASE Join
  BY <1>6, <1>T, <1>W DEF Join, TypeOK, Control, Quiet, pool, heap
<1>7. CASE FreePool
  <2>1. \A w \in Workers : wpc[w] = "exited"
    BY <1>7, <1>T, <1>W DEF FreePool, TypeOK, Control
  <2>2. owner'.pc = "gone" /\ fifo' = <<>>
    BY <1>7, <1>T DEF FreePool, TypeOK
  <2> QED
    BY <2>1, <2>2, <1>7, <1>T DEF FreePool, Control, Quiet
<1>8. CASE Terminated \/ UNCHANGED vars
  BY <1>8, <1>T DEF Terminated, Control, Quiet, vars, pool, heap
<1>9. ASSUME NEW s \in Submitters, NEW j \in Jobs, SubmitNoMem(s, j)
      PROVE  Control'
  BY <1>9, <1>T DEF SubmitNoMem, Control, Quiet, pool, heap
<1>10. ASSUME NEW s \in Submitters, NEW j \in Jobs, NEW x \in Nodes, SubmitMalloc(s, j, x)
       PROVE  Control'
  BY <1>10, <1>T, ClientsAssumption DEF SubmitMalloc, CanSubmit, TypeOK, Control, Quiet, pool, Workers
<1>11. ASSUME NEW s \in Submitters, SubmitRejected(s)
       PROVE  Control'
  BY <1>11, <1>T DEF SubmitRejected, TypeOK, Control, Quiet, pool, Submitters
<1>12. ASSUME NEW s \in Submitters, SubmitEnqueue(s)
       PROVE  Control'
  <2>1. owner.pc = "ready" /\ ~shutdown
    BY <1>12, <1>T DEF SubmitEnqueue, TypeOK, Control, Quiet, Submitters
  <2>2. \A w \in Workers : wpc[w] # "exited"
    BY <2>1, <1>T DEF Control
  <2> QED
    BY <2>1, <2>2, <1>12, <1>T, SignalMoves DEF SubmitEnqueue, TypeOK, Control, Submitters
<1>13. ASSUME NEW w \in Workers, WorkerWait(w) \/ SpuriousWakeup(w)
       PROVE  Control'
  BY <1>13, <1>T DEF WorkerWait, SpuriousWakeup, TypeOK, Control, Quiet, pool, heap
<1>14. ASSUME NEW w \in Workers, WorkerExit(w)
       PROVE  Control'
  <2>1. owner.pc # "gone"
    BY <1>14, <1>T DEF WorkerExit, Control
  <2>2. fifo = <<>> /\ shutdown
    BY <2>1, <1>14, EmptyHead DEF WorkerExit
  <2> QED
    BY <2>2, <1>14, <1>T DEF WorkerExit, TypeOK, Control, Quiet, pool, heap
<1>15. ASSUME NEW w \in Workers, WorkerDequeue(w)
       PROVE  Control'
  BY <1>15, <1>T, DequeueFifo DEF WorkerDequeue, TypeOK, Control, Quiet, heap
<1>16. ASSUME NEW w \in Workers, WorkerCall(w)
       PROVE  Control'
  BY <1>16, <1>T DEF WorkerCall, TypeOK, Control, Quiet, pool, heap
<1>17. ASSUME NEW w \in Workers, WorkerFree(w)
       PROVE  Control'
  BY <1>17, <1>T DEF WorkerFree, TypeOK, Control, Quiet, pool
<1> QED
  BY <1>1, <1>2, <1>3, <1>4, <1>5, <1>6, <1>7, <1>8, <1>9, <1>10, <1>11, <1>12, <1>13,
     <1>14, <1>15, <1>16, <1>17 DEF Next, Owner, Submit, Worker

\* No node gets a second holder.
LEMMA DistinctNext == PoolInv /\ [Next]_vars => Distinct'
<1> SUFFICES ASSUME PoolInv, [Next]_vars PROVE Distinct'
  OBVIOUS
<1>T. TypeOK /\ Distinct /\ Accounted
  BY DEF PoolInv
<1>F. Len(fifo) \in Nat /\ \A k \in 1 .. Len(fifo) : fifo[k] \in Nodes
  BY <1>T, FifoFacts
<1>1. CASE Still
  BY <1>1, <1>T DEF Still, Distinct
<1>2. ASSUME NEW s \in Submitters, NEW j \in Jobs, NEW x \in Nodes, SubmitMalloc(s, j, x)
      PROVE  Distinct'
  <2>1. ~ Held(x)
    BY <1>2, <1>T DEF SubmitMalloc, Accounted
  <2> QED
    BY <2>1, <1>2, <1>T, NullAssumption DEF SubmitMalloc, TypeOK, Distinct, Held
<1>3. ASSUME NEW s \in Submitters, SubmitRejected(s)
      PROVE  Distinct'
  BY <1>3, <1>T, <1>F, NullAssumption DEF SubmitRejected, TypeOK, Distinct
<1>4. ASSUME NEW s \in Submitters, SubmitEnqueue(s)
      PROVE  Distinct'
  <2>1. \A r \in Submitters : hand'[r] = IF r = s THEN NULL ELSE hand[r]
    BY <1>4, <1>T DEF SubmitEnqueue, TypeOK
  <2>2. cur' = cur /\ hand[s] \in Nodes
    BY <1>4, <1>T DEF SubmitEnqueue, TypeOK
  <2> QED
    BY <2>1, <2>2, <1>4, <1>T, <1>F, EnqueueFifo, NullAssumption DEF Distinct
<1>5. ASSUME NEW w \in Workers, WorkerDequeue(w)
      PROVE  Distinct'
  <2>1. \A v \in Workers : cur'[v] = IF v = w THEN fifo[1] ELSE cur[v]
    BY <1>5, <1>T, DequeueFifo DEF WorkerDequeue, TypeOK
  <2>2. hand' = hand
    BY <1>5 DEF WorkerDequeue
  <2>3. \A k \in 1 .. Len(fifo') : k + 1 \in 2 .. Len(fifo) /\ fifo'[k] = fifo[k + 1]
    BY <1>5, <1>F, DequeueFifo
  <2>4. 1 \in 1 .. Len(fifo) /\ 2 .. Len(fifo) \subseteq 1 .. Len(fifo) /\ 1 \notin 2 .. Len(fifo)
    BY <1>5, <1>F, DequeueFifo
  <2>5. \A k, l \in 1 .. Len(fifo') : k + 1 = l + 1 => k = l
    OBVIOUS
  <2> QED
    BY <2>1, <2>2, <2>3, <2>4, <2>5, <1>T DEF Distinct
<1>6. ASSUME NEW w \in Workers, WorkerFree(w)
      PROVE  Distinct'
  BY <1>6, <1>T, <1>F, NullAssumption DEF WorkerFree, TypeOK, Distinct
<1>7. CASE FreePool
  BY <1>7, <1>T, EmptySeq DEF FreePool, Distinct
<1> QED
  BY <1>1, <1>2, <1>3, <1>4, <1>5, <1>6, <1>7, StepKinds

\* No node is leaked, and none is freed that somebody still holds.
LEMMA AccountedNext == PoolInv /\ [Next]_vars => Accounted'
<1> SUFFICES ASSUME PoolInv, [Next]_vars PROVE Accounted'
  OBVIOUS
<1>T. TypeOK /\ Distinct /\ Accounted
  BY DEF PoolInv
<1>F. Len(fifo) \in Nat /\ \A k \in 1 .. Len(fifo) : fifo[k] \in Nodes
  BY <1>T, FifoFacts
<1>1. CASE Still
  BY <1>1, <1>T DEF Still, Accounted, Held, heap
<1>2. ASSUME NEW s \in Submitters, NEW j \in Jobs, NEW x \in Nodes, SubmitMalloc(s, j, x)
      PROVE  Accounted'
  BY <1>2, <1>T, NullAssumption DEF SubmitMalloc, CanSubmit, TypeOK, Accounted, Held
<1>3. ASSUME NEW s \in Submitters, SubmitRejected(s)
      PROVE  Accounted'
  <2>1. \A r \in Submitters : hand'[r] = IF r = s THEN NULL ELSE hand[r]
    BY <1>3, <1>T DEF SubmitRejected, TypeOK
  <2>2. cur' = cur /\ fifo' = fifo /\ allocated' = allocated \ {hand[s]} /\ hand[s] # NULL
    BY <1>3 DEF SubmitRejected
  <2>3. \A k \in 1 .. Len(fifo) : fifo[k] # hand[s]
    BY <1>T DEF Distinct
  <2>4. \A w \in Workers : cur[w] # hand[s]
    BY <2>2, <1>T DEF Distinct
  <2>5. \A r \in Submitters : hand[r] = hand[s] => r = s
    BY <2>2, <1>T DEF Distinct
  <2> QED
    BY <2>1, <2>2, <2>3, <2>4, <2>5, <1>T, NullAssumption DEF Accounted, Held
<1>4. ASSUME NEW s \in Submitters, SubmitEnqueue(s)
      PROVE  Accounted'
  <2>1. \A r \in Submitters : hand'[r] = IF r = s THEN NULL ELSE hand[r]
    BY <1>4, <1>T DEF SubmitEnqueue, TypeOK
  <2>2. cur' = cur /\ hand[s] \in Nodes /\ allocated' = allocated
    BY <1>4, <1>T DEF SubmitEnqueue, TypeOK
  <2>3. \A x \in Nodes : (\E k \in 1 .. Len(fifo') : fifo'[k] = x)
                           <=> (\E k \in 1 .. Len(fifo) : fifo[k] = x) \/ x = hand[s]
    BY <1>4, <1>T, <1>F, EnqueueFifo
  <2> QED
    BY <2>1, <2>2, <2>3, <1>T, NullAssumption DEF Accounted, Held
<1>5. ASSUME NEW w \in Workers, WorkerDequeue(w)
      PROVE  Accounted'
  <2>1. \A v \in Workers : cur'[v] = IF v = w THEN fifo[1] ELSE cur[v]
    BY <1>5, <1>T, DequeueFifo DEF WorkerDequeue, TypeOK
  <2>2. hand' = hand /\ allocated' = allocated
    BY <1>5 DEF WorkerDequeue, heap
  <2>3. cur[w] = NULL
    BY <1>5 DEF PoolInv, Control, WorkerDequeue
  <2>4. \A x \in Nodes : (\E k \in 1 .. Len(fifo) : fifo[k] = x)
                           <=> (\E k \in 1 .. Len(fifo') : fifo'[k] = x) \/ x = fifo[1]
    <3>1. \A k \in 1 .. Len(fifo) : k = 1 \/ (k - 1 \in 1 .. Len(fifo') /\ fifo'[k - 1] = fifo[k])
      BY <1>5, <1>F, DequeueFifo
    <3>2. \A k \in 1 .. Len(fifo') : k + 1 \in 1 .. Len(fifo) /\ fifo'[k] = fifo[k + 1]
      BY <1>5, <1>F, DequeueFifo
    <3>3. 1 \in 1 .. Len(fifo)
      BY <1>5, <1>F, DequeueFifo
    <3> QED
      BY <3>1, <3>2, <3>3
  <2> QED
    BY <2>1, <2>2, <2>3, <2>4, <1>T, NullAssumption DEF Accounted, Held
<1>6. ASSUME NEW w \in Workers, WorkerFree(w)
      PROVE  Accounted'
  BY <1>6, <1>T, <1>F, NullAssumption DEF WorkerFree, TypeOK, Distinct, Accounted, Held
<1>7. CASE FreePool
  <2>1. DOMAIN fifo = 1 .. Len(fifo) /\ Len(fifo') = 0
    BY <1>7, <1>T, FifoFacts, EmptySeq DEF FreePool
  <2> QED
    BY <2>1, <1>7, <1>T, <1>F DEF FreePool, Distinct, Accounted, Held
<1> QED
  BY <1>1, <1>2, <1>3, <1>4, <1>5, <1>6, <1>7, StepKinds

\* The list stays linked, and ends where it should.
LEMMA LinksNext == PoolInv /\ [Next]_vars => HandsEndTheList' /\ ListIsFifo'
<1> SUFFICES ASSUME PoolInv, [Next]_vars PROVE HandsEndTheList' /\ ListIsFifo'
  OBVIOUS
<1>T. TypeOK /\ Distinct /\ Accounted /\ HandsEndTheList /\ ListIsFifo
  BY DEF PoolInv
<1>F. Len(fifo) \in Nat /\ \A k \in 1 .. Len(fifo) : fifo[k] \in Nodes
  BY <1>T, FifoFacts
<1>G. owner'.pc # "gone" => owner.pc # "gone"
  BY GoneForGood
<1>E. fifo = <<>> <=> Len(fifo) = 0
  BY <1>T, FifoFacts
<1>1. CASE Still
  BY <1>1, <1>T, <1>G DEF Still, HandsEndTheList, ListIsFifo, heap
<1>2. ASSUME NEW s \in Submitters, NEW j \in Jobs, NEW x \in Nodes, SubmitMalloc(s, j, x)
      PROVE  HandsEndTheList' /\ ListIsFifo'
  <2>1. ~ Held(x)
    BY <1>2, <1>T DEF SubmitMalloc, Accounted
  <2>2. \A m \in Nodes : m # x => next'[m] = next[m]
    BY <1>2, <1>T DEF SubmitMalloc, TypeOK
  <2>3. HandsEndTheList'
    BY <2>1, <2>2, <1>2, <1>T DEF SubmitMalloc, TypeOK, HandsEndTheList, Held
  <2>4. ListIsFifo'
    BY <2>1, <2>2, <1>2, <1>T, <1>F DEF SubmitMalloc, ListIsFifo, Held, pool
  <2> QED
    BY <2>3, <2>4
<1>3. ASSUME NEW s \in Submitters, SubmitRejected(s)
      PROVE  HandsEndTheList' /\ ListIsFifo'
  <2>1. HandsEndTheList'
    BY <1>3, <1>T DEF SubmitRejected, TypeOK, HandsEndTheList
  <2>2. ListIsFifo'
    BY <1>3, <1>T, <1>F DEF SubmitRejected, ListIsFifo, Distinct, pool
  <2> QED
    BY <2>1, <2>2
<1>4. ASSUME NEW s \in Submitters, SubmitEnqueue(s)
      PROVE  HandsEndTheList' /\ ListIsFifo'
  <2>1. owner.pc # "gone" /\ owner' = owner /\ allocated' = allocated /\ hand[s] \in allocated
    BY <1>4, <1>T, GoneForGood DEF SubmitEnqueue, PoolInv, Control, Submitters, Accounted, Held, TypeOK
  <2>2. queue_tail = (IF Len(fifo) = 0 THEN NULL ELSE fifo[Len(fifo)])
    BY <2>1, <1>E, <1>T DEF ListIsFifo
  <2>3. queue_tail # NULL <=> Len(fifo) # 0
    BY <2>2, <1>F, NullAssumption
  <2>4. \A m \in Nodes : next'[m] = IF m = queue_tail THEN hand[s] ELSE next[m]
    BY <1>4, <1>T, NullAssumption DEF SubmitEnqueue, TypeOK
  <2>5. \A r \in Submitters : hand[r] # NULL => hand[r] # queue_tail
    BY <2>2, <1>F, <1>T DEF Distinct
  <2>6. HandsEndTheList'
    BY <2>4, <2>5, <1>4, <1>T DEF SubmitEnqueue, TypeOK, HandsEndTheList
  <2>7. fifo' # <<>> /\ queue_tail' = fifo'[Len(fifo')]
    BY <1>4, <1>T, <1>F, EnqueueFifo, EmptySeq DEF SubmitEnqueue
  <2>8. queue_head' = fifo'[1]
    <3>1. CASE Len(fifo) = 0
      BY <3>1, <2>3, <1>4, <1>T, EnqueueFifo DEF SubmitEnqueue
    <3>2. CASE Len(fifo) # 0
      BY <3>2, <2>1, <2>3, <1>4, <1>T, <1>F, <1>E, EnqueueFifo DEF SubmitEnqueue, ListIsFifo
    <3> QED
      BY <3>1, <3>2
  <2>9. ASSUME NEW k \in 1 .. Len(fifo')
        PROVE  /\ fifo'[k] \in allocated'
               /\ next'[fifo'[k]] = (IF k = Len(fifo') THEN NULL ELSE fifo'[k + 1])
    <3>1. CASE k = Len(fifo')
      <4>1. fifo'[k] = hand[s]
        BY <3>1, <1>4, <1>T, EnqueueFifo
      <4>2. next'[hand[s]] = NULL
        BY <2>4, <2>5, <1>4, <1>T DEF SubmitEnqueue, TypeOK, HandsEndTheList
      <4> QED
        BY <3>1, <4>1, <4>2, <2>1
    <3>2. CASE k # Len(fifo')
      <4>1. k \in 1 .. Len(fifo) /\ fifo'[k] = fifo[k]
        BY <3>2, <1>4, <1>T, <1>F, EnqueueFifo
      <4>2. CASE k = Len(fifo)
        BY <4>1, <4>2, <3>2, <2>1, <2>2, <2>4, <1>4, <1>T, <1>F, EnqueueFifo DEF ListIsFifo
      <4>3. CASE k # Len(fifo)
        <5>1. fifo[k] # queue_tail
          BY <4>1, <4>3, <2>2, <1>T, <1>F DEF Distinct
        <5>2. k + 1 \in 1 .. Len(fifo) /\ fifo'[k + 1] = fifo[k + 1]
          BY <4>1, <4>3, <1>4, <1>T, <1>F, EnqueueFifo
        <5> QED
          BY <4>1, <4>3, <3>2, <5>1, <5>2, <2>1, <2>4, <1>T, <1>F DEF ListIsFifo
      <4> QED
        BY <4>2, <4>3
    <3> QED
      BY <3>1, <3>2
  <2> QED
    BY <2>6, <2>7, <2>8, <2>9 DEF ListIsFifo
<1>5. ASSUME NEW w \in Workers, WorkerDequeue(w)
      PROVE  HandsEndTheList' /\ ListIsFifo'
  <2>1. HandsEndTheList'
    BY <1>5, <1>T DEF WorkerDequeue, HandsEndTheList, heap
  <2>2. /\ owner' = owner /\ next' = next /\ allocated' = allocated
        /\ queue_head' = next[fifo[1]]
        /\ queue_tail' = IF queue_head' = NULL THEN NULL ELSE queue_tail
    BY <1>5, DequeueFifo DEF WorkerDequeue, heap
  <2>3. /\ next[fifo[1]] = IF Len(fifo) = 1 THEN NULL ELSE fifo[2]
        /\ queue_tail = fifo[Len(fifo)]
    <3>1. 1 \in 1 .. Len(fifo) /\ owner.pc # "gone" /\ fifo # <<>>
      BY <1>5, <1>F, DequeueFifo
    <3>2. next[fifo[1]] = IF 1 = Len(fifo) THEN NULL ELSE fifo[1 + 1]
      BY <3>1, <1>T DEF ListIsFifo
    <3>3. queue_tail = fifo[Len(fifo)]
      BY <3>1, <1>T DEF ListIsFifo
    <3> QED
      BY <3>2, <3>3
  <2>4. fifo' = <<>> <=> Len(fifo) = 1
    <3>1. fifo' \in Seq(Nodes) /\ Len(fifo') = Len(fifo) - 1
      BY <1>5, DequeueFifo
    <3>2. fifo' = <<>> <=> Len(fifo') = 0
      BY <3>1, EmptySeq
    <3> QED
      BY <3>1, <3>2, <1>F
  <2>5. ASSUME NEW k \in 1 .. Len(fifo')
        PROVE  /\ fifo'[k] \in allocated'
               /\ next'[fifo'[k]] = (IF k = Len(fifo') THEN NULL ELSE fifo'[k + 1])
    <3>1. k + 1 \in 1 .. Len(fifo) /\ fifo'[k] = fifo[k + 1] /\ Len(fifo') = Len(fifo) - 1
      BY <1>5, <1>F, DequeueFifo
    <3>2. k # Len(fifo') => fifo'[k + 1] = fifo[(k + 1) + 1]
      BY <1>5, <1>F, DequeueFifo
    <3>3. /\ fifo[k + 1] \in allocated
          /\ next[fifo[k + 1]] = (IF k + 1 = Len(fifo) THEN NULL ELSE fifo[(k + 1) + 1])
      BY <3>1, <1>5, <1>T, DequeueFifo DEF ListIsFifo
    <3> QED
      BY <3>1, <3>2, <3>3, <2>2, <1>F
  <2>6. CASE Len(fifo) = 1
    BY <2>2, <2>3, <2>4, <2>5, <2>6, <2>1 DEF ListIsFifo
  <2>7. CASE Len(fifo) # 1
    <3>1. fifo[2] \in Nodes /\ fifo'[1] = fifo[2] /\ fifo'[Len(fifo')] = fifo[Len(fifo)]
      <4>1. Len(fifo) >= 2 /\ Len(fifo') = Len(fifo) - 1
        <5>1. Len(fifo) >= 1 /\ Len(fifo') = Len(fifo) - 1
          BY <1>5, DequeueFifo
        <5> QED
          BY <5>1, <2>7, <1>F
      <4>2. 1 \in 1 .. Len(fifo) - 1 /\ Len(fifo) - 1 \in 1 .. Len(fifo) - 1
        BY <4>1, <1>F
      <4>3. fifo'[1] = fifo[1 + 1] /\ fifo'[Len(fifo) - 1] = fifo[(Len(fifo) - 1) + 1]
        BY <4>2, <1>5, DequeueFifo
      <4> QED
        BY <4>1, <4>3, <1>F
    <3> QED
      BY <3>1, <2>1, <2>2, <2>3, <2>4, <2>5, <2>7, NullAssumption DEF ListIsFifo
  <2> QED
    BY <2>6, <2>7
<1>6. ASSUME NEW w \in Workers, WorkerFree(w)
      PROVE  HandsEndTheList' /\ ListIsFifo'
  <2>1. HandsEndTheList'
    BY <1>6, <1>T DEF WorkerFree, HandsEndTheList
  <2>2. ListIsFifo'
    BY <1>6, <1>T, <1>F DEF WorkerFree, ListIsFifo, Distinct, pool
  <2> QED
    BY <2>1, <2>2
<1>7. CASE FreePool
  BY <1>7, <1>T DEF FreePool, HandsEndTheList, ListIsFifo, TypeOK
<1> QED
  BY <1>1, <1>2, <1>3, <1>4, <1>5, <1>6, <1>7, StepKinds

\* The job of an allocated node is on its way.
LEMMA NodeStatus ==
  ASSUME PoolInv, NEW x \in allocated
  PROVE  status[job[x]] \in {"submitting", "queued", "running"} /\ job[x] \in Jobs
<1>1. Held(x) /\ x # NULL
  BY NullAssumption DEF PoolInv, Accounted, TypeOK
<1> QED
  BY <1>1 DEF PoolInv, JobsOfNodes, Held

\* What a node's holder says of its job.
LEMMA JobsOfNodesNext == PoolInv /\ [Next]_vars => JobsOfNodes'
<1> SUFFICES ASSUME PoolInv, [Next]_vars PROVE JobsOfNodes'
  OBVIOUS
<1>T. TypeOK /\ Distinct /\ Accounted /\ JobsOfNodes
  BY DEF PoolInv
<1>F. Len(fifo) \in Nat /\ \A k \in 1 .. Len(fifo) : fifo[k] \in Nodes
  BY <1>T, FifoFacts
<1>A. /\ \A k \in 1 .. Len(fifo) : fifo[k] \in allocated
      /\ \A w \in Workers : cur[w] # NULL => cur[w] \in allocated
      /\ \A s \in Submitters : hand[s] # NULL => hand[s] \in allocated
  BY <1>T, <1>F DEF Accounted, Held, TypeOK
<1>1. CASE Still /\ UNCHANGED status
  BY <1>1, <1>T DEF Still, JobsOfNodes, heap
<1>2. ASSUME NEW s \in Submitters, NEW j \in Jobs, SubmitNoMem(s, j), Still
      PROVE  JobsOfNodes'
  <2>1. \A x \in allocated : status'[job[x]] = status[job[x]]
    BY <1>2, <1>T, NodeStatus DEF SubmitNoMem, TypeOK
  <2> QED
    BY <2>1, <1>2, <1>T, <1>A DEF Still, JobsOfNodes, heap
<1>3. ASSUME NEW s \in Submitters, NEW j \in Jobs, NEW x \in Nodes, SubmitMalloc(s, j, x)
      PROVE  JobsOfNodes'
  <2>1. \A m \in allocated : m # x /\ job[m] # j
    BY <1>3, NodeStatus DEF SubmitMalloc
  <2>2. \A m \in allocated : job'[m] = job[m] /\ status'[job'[m]] = status[job[m]]
    BY <2>1, <1>3, <1>T, NodeStatus DEF SubmitMalloc, TypeOK
  <2>3. job'[x] = j /\ status'[j] = "submitting" /\ allocated' = allocated \cup {x}
    BY <1>3, <1>T DEF SubmitMalloc, TypeOK
  <2>4. /\ cur' = cur /\ fifo' = fifo
        /\ \A r \in Submitters : hand'[r] = IF r = s THEN x ELSE hand[r]
    BY <1>3, <1>T DEF SubmitMalloc, TypeOK
  <2> QED
    BY <2>1, <2>2, <2>3, <2>4, <1>A, <1>T DEF JobsOfNodes
<1>4. ASSUME NEW s \in Submitters, SubmitRejected(s)
      PROVE  JobsOfNodes'
  <2>1. hand[s] \in allocated /\ job' = job /\ allocated' = allocated \ {hand[s]}
    BY <1>4, <1>A DEF SubmitRejected
  <2>2. \A m \in allocated' : status'[job[m]] = status[job[m]]
    BY <2>1, <1>4, <1>T, NodeStatus DEF SubmitRejected, TypeOK, JobsOfNodes
  <2>3. /\ cur' = cur /\ fifo' = fifo
        /\ \A r \in Submitters : hand'[r] = IF r = s THEN NULL ELSE hand[r]
    BY <1>4, <1>T DEF SubmitRejected, TypeOK
  <2>4. /\ \A k \in 1 .. Len(fifo) : fifo[k] \in allocated'
        /\ \A w \in Workers : cur[w] # NULL => cur[w] \in allocated'
        /\ \A r \in Submitters : hand'[r] # NULL => hand'[r] \in allocated'
    BY <2>1, <2>3, <1>4, <1>A, <1>T DEF SubmitRejected, Distinct
  <2> QED
    BY <2>1, <2>2, <2>3, <2>4, <1>T DEF JobsOfNodes
<1>5. ASSUME NEW s \in Submitters, SubmitEnqueue(s)
      PROVE  JobsOfNodes'
  <2>1. hand[s] \in allocated /\ job' = job /\ allocated' = allocated
    BY <1>5, <1>A DEF SubmitEnqueue
  <2>2. \A m \in allocated : status'[job[m]] = IF m = hand[s] THEN "queued" ELSE status[job[m]]
    BY <2>1, <1>5, <1>T, NodeStatus DEF SubmitEnqueue, TypeOK, JobsOfNodes
  <2>3. cur' = cur /\ \A r \in Submitters : hand'[r] = IF r = s THEN NULL ELSE hand[r]
    BY <1>5, <1>T DEF SubmitEnqueue, TypeOK
  <2>4. \A k \in 1 .. Len(fifo') : fifo'[k] = hand[s] \/ (k \in 1 .. Len(fifo) /\ fifo'[k] = fifo[k])
    BY <1>5, <1>T, <1>F, EnqueueFifo
  <2>5. /\ \A w \in Workers : cur[w] # hand[s]
        /\ \A r \in Submitters : r # s => hand[r] # hand[s]
    BY <1>5, <1>T DEF SubmitEnqueue, Distinct
  <2> QED
    BY <2>1, <2>2, <2>3, <2>4, <2>5, <1>A, <1>T DEF JobsOfNodes
<1>6. ASSUME NEW w \in Workers, WorkerDequeue(w)
      PROVE  JobsOfNodes'
  <2>1. 1 \in 1 .. Len(fifo) /\ job' = job /\ allocated' = allocated /\ hand' = hand
    <3>1. 1 \in 1 .. Len(fifo)
      BY <1>6, <1>F, DequeueFifo
    <3> QED
      BY <3>1, <1>6 DEF WorkerDequeue, heap
  <2>2. fifo[1] \in allocated
    BY <2>1, <1>A
  <2>3. \A m \in allocated : status'[job[m]] = IF m = fifo[1] THEN "running" ELSE status[job[m]]
    <3>1. status' = [status EXCEPT ![job[fifo[1]]] = "running"]
      BY <1>6, DequeueFifo DEF WorkerDequeue
    <3> QED
      BY <3>1, <2>2, <1>T, NodeStatus DEF TypeOK, JobsOfNodes
  <2>4. \A v \in Workers : cur'[v] = IF v = w THEN fifo[1] ELSE cur[v]
    BY <1>6, <1>T, DequeueFifo DEF WorkerDequeue, TypeOK
  <2>5. \A k \in 1 .. Len(fifo') : k + 1 \in 1 .. Len(fifo) /\ fifo'[k] = fifo[k + 1] /\ k + 1 # 1
    BY <1>6, <1>F, DequeueFifo
  <2>6. \A k \in 1 .. Len(fifo') : fifo[k + 1] # fifo[1]
    BY <2>1, <2>5, <1>T DEF Distinct
  <2>7. \A k \in 1 .. Len(fifo') : status'[job[fifo'[k]]] = "queued"
    BY <2>3, <2>5, <2>6, <1>A, <1>T DEF JobsOfNodes
  <2>8. \A v \in Workers : cur'[v] # NULL => status'[job[cur'[v]]] = "running"
    BY <2>2, <2>3, <2>4, <1>A, <1>T DEF JobsOfNodes
  <2>9. \A s \in Submitters : hand[s] # NULL => status'[job[hand[s]]] = "submitting"
    BY <2>1, <2>3, <1>A, <1>T DEF JobsOfNodes, Distinct
  <2> QED
    BY <2>1, <2>7, <2>8, <2>9, <1>T DEF JobsOfNodes
<1>7. ASSUME NEW w \in Workers, WorkerFree(w)
      PROVE  JobsOfNodes'
  <2>1. cur[w] # NULL /\ cur[w] \in allocated
    BY <1>7, <1>A DEF WorkerFree, PoolInv, Control
  <2>2. job' = job /\ allocated' = allocated \ {cur[w]} /\ hand' = hand /\ fifo' = fifo
    BY <1>7 DEF WorkerFree
  <2>3. \A m \in allocated' : status'[job[m]] = status[job[m]]
    BY <2>1, <2>2, <1>7, <1>T, NodeStatus DEF WorkerFree, TypeOK, JobsOfNodes
  <2>4. \A v \in Workers : cur'[v] = IF v = w THEN NULL ELSE cur[v]
    BY <1>7, <1>T DEF WorkerFree, TypeOK
  <2>5. /\ \A k \in 1 .. Len(fifo) : fifo[k] \in allocated'
        /\ \A v \in Workers : cur'[v] # NULL => cur'[v] \in allocated'
        /\ \A r \in Submitters : hand[r] # NULL => hand[r] \in allocated'
    BY <2>1, <2>2, <2>4, <1>A, <1>T DEF Distinct
  <2> QED
    BY <2>1, <2>2, <2>3, <2>4, <2>5, <1>T DEF JobsOfNodes
<1>8. CASE FreePool
  BY <1>8, <1>T, EmptySeq DEF FreePool, JobsOfNodes
<1> QED
  BY <1>1, <1>2, <1>3, <1>4, <1>5, <1>6, <1>7, <1>8, StepKinds

\* A queued job stays in the list and a running one with its worker.
LEMMA NodesOfJobsNext == PoolInv /\ [Next]_vars => NodesOfJobs'
<1> SUFFICES ASSUME PoolInv, [Next]_vars PROVE NodesOfJobs'
  OBVIOUS
<1>T. TypeOK /\ Accounted /\ JobsOfNodes /\ NodesOfJobs
  BY DEF PoolInv
<1>F. Len(fifo) \in Nat /\ \A k \in 1 .. Len(fifo) : fifo[k] \in Nodes
  BY <1>T, FifoFacts
<1>A. /\ \A k \in 1 .. Len(fifo) : fifo[k] \in allocated
      /\ \A w \in Workers : cur[w] # NULL => cur[w] \in allocated
      /\ \A s \in Submitters : hand[s] # NULL => hand[s] \in allocated
  BY <1>T, <1>F DEF Accounted, Held, TypeOK
<1>1. CASE Still /\ UNCHANGED status
  BY <1>1, <1>T DEF Still, NodesOfJobs, heap
<1>2. ASSUME NEW s \in Submitters, NEW j \in Jobs, SubmitNoMem(s, j), Still
      PROVE  NodesOfJobs'
  BY <1>2, <1>T DEF SubmitNoMem, TypeOK, Still, NodesOfJobs, heap
<1>3. ASSUME NEW s \in Submitters, NEW j \in Jobs, NEW x \in Nodes, SubmitMalloc(s, j, x)
      PROVE  NodesOfJobs'
  <2>1. \A m \in allocated : job'[m] = job[m]
    BY <1>3, <1>T DEF SubmitMalloc, TypeOK
  <2>2. \A y \in Jobs : status'[y] = IF y = j THEN "submitting" ELSE status[y]
    BY <1>3, <1>T DEF SubmitMalloc, TypeOK
  <2>3. cur' = cur /\ fifo' = fifo
    BY <1>3 DEF SubmitMalloc
  <2> QED
    BY <2>1, <2>2, <2>3, <1>A, <1>T DEF NodesOfJobs
<1>4. ASSUME NEW s \in Submitters, SubmitRejected(s)
      PROVE  NodesOfJobs'
  BY <1>4, <1>T DEF SubmitRejected, TypeOK, NodesOfJobs
<1>5. ASSUME NEW s \in Submitters, SubmitEnqueue(s)
      PROVE  NodesOfJobs'
  <2>1. job' = job /\ cur' = cur
    BY <1>5 DEF SubmitEnqueue
  <2>2. \A y \in Jobs : status'[y] = IF y = job[hand[s]] THEN "queued" ELSE status[y]
    BY <1>5, <1>T DEF SubmitEnqueue, TypeOK
  <2>3. /\ \A k \in 1 .. Len(fifo) : k \in 1 .. Len(fifo') /\ fifo'[k] = fifo[k]
        /\ Len(fifo) + 1 \in 1 .. Len(fifo') /\ fifo'[Len(fifo) + 1] = hand[s]
    BY <1>5, <1>T, <1>F, EnqueueFifo
  <2> QED
    BY <2>1, <2>2, <2>3, <1>T DEF NodesOfJobs
<1>6. ASSUME NEW w \in Workers, WorkerDequeue(w)
      PROVE  NodesOfJobs'
  <2>1. job' = job /\ cur[w] = NULL /\ fifo[1] # NULL
    BY <1>6, <1>F, DequeueFifo, NullAssumption DEF WorkerDequeue, PoolInv, Control, heap
  <2>2. \A y \in Jobs : status'[y] = IF y = job[fifo[1]] THEN "running" ELSE status[y]
    BY <1>6, <1>T, DequeueFifo DEF WorkerDequeue, TypeOK
  <2>3. \A v \in Workers : cur'[v] = IF v = w THEN fifo[1] ELSE cur[v]
    BY <1>6, <1>T, DequeueFifo DEF WorkerDequeue, TypeOK
  <2>4. \A k \in 1 .. Len(fifo) : k = 1 \/ (k - 1 \in 1 .. Len(fifo') /\ fifo'[k - 1] = fifo[k])
    BY <1>6, <1>F, DequeueFifo
  <2>5. ASSUME NEW y \in Jobs, status'[y] = "queued" PROVE \E k \in 1 .. Len(fifo') : job[fifo'[k]] = y
    <3>1. y # job[fifo[1]] /\ status[y] = "queued"
      BY <2>2, <2>5
    <3>2. PICK k \in 1 .. Len(fifo) : job[fifo[k]] = y
      BY <3>1, <1>T DEF NodesOfJobs
    <3>3. k # 1
      BY <3>1, <3>2
    <3> QED
      BY <2>4, <3>2, <3>3
  <2>6. \A y \in Jobs : status'[y] = "running"
                          => \E v \in Workers : cur'[v] # NULL /\ job[cur'[v]] = y
    BY <2>1, <2>2, <2>3, <1>T DEF NodesOfJobs
  <2> QED
    BY <2>1, <2>5, <2>6 DEF NodesOfJobs
<1>7. ASSUME NEW w \in Workers, WorkerFree(w)
      PROVE  NodesOfJobs'
  BY <1>7, <1>T DEF WorkerFree, TypeOK, NodesOfJobs
<1>8. CASE FreePool
  <2>1. fifo = <<>>
    <3>1. 0 \in Workers /\ wpc[0] = "exited"
      BY <1>8, NumThreadsAssumption DEF FreePool, PoolInv, Control, Workers
    <3> QED
      BY <3>1 DEF PoolInv, Control
  <2> QED
    BY <2>1, <1>8, <1>T DEF FreePool, NodesOfJobs
<1> QED
  BY <1>1, <1>2, <1>3, <1>4, <1>5, <1>6, <1>7, <1>8, StepKinds

\* A job is called by the worker that took it, once, and finishes called.
LEMMA CallsOfJobsNext == PoolInv /\ [Next]_vars => CallsOfJobs'
<1> SUFFICES ASSUME PoolInv, [Next]_vars PROVE CallsOfJobs'
  OBVIOUS
<1>T. TypeOK /\ Control /\ Distinct /\ Accounted /\ JobsOfNodes /\ CallsOfJobs
  BY DEF PoolInv
<1>F. Len(fifo) \in Nat /\ \A k \in 1 .. Len(fifo) : fifo[k] \in Nodes
  BY <1>T, FifoFacts
<1>A. \A w \in Workers : cur[w] # NULL => /\ cur[w] \in allocated /\ job[cur[w]] \in Jobs
                                          /\ status[job[cur[w]]] = "running"
  BY <1>T DEF Accounted, Held, TypeOK, JobsOfNodes
<1>H. \A w \in Workers : wpc[w] \in {"took", "run"} => cur[w] # NULL
  BY <1>T DEF Control
<1>1. ASSUME UNCHANGED <<cur, job, status, calls>>,
             \A w \in Workers : wpc'[w] \in {"took", "run"} => wpc'[w] = wpc[w]
      PROVE  CallsOfJobs'
  BY <1>1, <1>T DEF CallsOfJobs
<1>2. CASE Create \/ Publish \/ Unwind \/ Join \/ FreePool \/ Terminated \/ UNCHANGED vars
  <2>1. UNCHANGED <<cur, job, status, calls, wpc>>
    BY <1>2 DEF Create, Publish, Unwind, Join, FreePool, Terminated, vars, pool, heap
  <2> QED
    BY <2>1, <1>1
<1>3. CASE SpawnOk
  BY <1>1, <1>3, <1>T DEF SpawnOk, TypeOK, heap
<1>4. CASE SpawnFails \/ Destroy
  <2>1. UNCHANGED <<cur, job, status, calls>> /\ Broadcast
    BY <1>4 DEF SpawnFails, Destroy, heap
  <2> QED
    BY <2>1, <1>1, <1>T, BroadcastMoves
<1>5. ASSUME NEW w \in Workers, WorkerWait(w) \/ WorkerExit(w) \/ SpuriousWakeup(w)
      PROVE  CallsOfJobs'
  BY <1>1, <1>5, <1>T DEF WorkerWait, WorkerExit, SpuriousWakeup, TypeOK, heap
<1>6. ASSUME NEW s \in Submitters, NEW j \in Jobs, SubmitNoMem(s, j)
      PROVE  CallsOfJobs'
  <2>1. \A y \in Jobs : status'[y] = IF y = j THEN "nomem" ELSE status[y]
    BY <1>6, <1>T DEF SubmitNoMem, TypeOK
  <2>2. UNCHANGED <<cur, job, calls, wpc>> /\ status[j] = "new"
    BY <1>6 DEF SubmitNoMem, heap
  <2> QED
    BY <2>1, <2>2, <1>T DEF CallsOfJobs
<1>7. ASSUME NEW s \in Submitters, NEW j \in Jobs, NEW x \in Nodes, SubmitMalloc(s, j, x)
      PROVE  CallsOfJobs'
  <2>1. \A y \in Jobs : status'[y] = IF y = j THEN "submitting" ELSE status[y]
    BY <1>7, <1>T DEF SubmitMalloc, TypeOK
  <2>2. UNCHANGED <<cur, calls, wpc>> /\ status[j] = "new"
    BY <1>7 DEF SubmitMalloc
  <2>3. \A w \in Workers : cur[w] # NULL => job'[cur[w]] = job[cur[w]]
    BY <1>7, <1>A, <1>T DEF SubmitMalloc, TypeOK
  <2> QED
    BY <2>1, <2>2, <2>3, <1>H, <1>T DEF CallsOfJobs
<1>8. ASSUME NEW s \in Submitters, SubmitRejected(s) \/ SubmitEnqueue(s)
      PROVE  CallsOfJobs'
  <2>1. PICK st \in {"rejected", "queued"} : status' = [status EXCEPT ![job[hand[s]]] = st]
    BY <1>8 DEF SubmitRejected, SubmitEnqueue
  <2>2. UNCHANGED <<cur, calls, job>> /\ hand[s] # NULL
    BY <1>8 DEF SubmitRejected, SubmitEnqueue
  <2>3. status[job[hand[s]]] = "submitting"
    BY <2>2, <1>T DEF JobsOfNodes
  <2>4. \A w \in Workers : wpc'[w] \in {"took", "run"} => wpc'[w] = wpc[w]
    BY <1>8, <1>T, SignalMoves DEF SubmitRejected, SubmitEnqueue
  <2>5. \A y \in Jobs : status'[y] = IF y = job[hand[s]] THEN st ELSE status[y]
    BY <2>1, <1>T DEF TypeOK
  <2> QED
    BY <2>2, <2>3, <2>4, <2>5, <1>T DEF CallsOfJobs
<1>9. ASSUME NEW w \in Workers, WorkerDequeue(w)
      PROVE  CallsOfJobs'
  <2>1. fifo[1] \in Nodes /\ fifo[1] \in allocated /\ status[job[fifo[1]]] = "queued"
    <3>1. 1 \in 1 .. Len(fifo)
      BY <1>9, <1>F, DequeueFifo
    <3> QED
      BY <3>1, <1>F, <1>T DEF JobsOfNodes, Accounted, Held
  <2>2. job[fifo[1]] \in Jobs /\ calls[job[fifo[1]]] = 0
    BY <2>1, <1>T DEF JobsOfNodes, CallsOfJobs
  <2>3. status' = [status EXCEPT ![job[fifo[1]]] = "running"] /\ UNCHANGED <<calls, job>>
    BY <1>9, DequeueFifo DEF WorkerDequeue, heap
  <2>4. \A v \in Workers : /\ cur'[v] = IF v = w THEN fifo[1] ELSE cur[v]
                           /\ wpc'[v] = IF v = w THEN "took" ELSE wpc[v]
    BY <1>9, <1>T, DequeueFifo DEF WorkerDequeue, TypeOK
  <2>5. \A y \in Jobs : status'[y] = IF y = job[fifo[1]] THEN "running" ELSE status[y]
    BY <2>3, <1>T DEF TypeOK
  <2> QED
    BY <2>2, <2>3, <2>4, <2>5, <1>T DEF CallsOfJobs
<1>10. ASSUME NEW w \in Workers, WorkerCall(w)
       PROVE  CallsOfJobs'
  <2>1. /\ UNCHANGED <<cur, job, status>> /\ cur[w] # NULL
        /\ \A v \in Workers : wpc'[v] = IF v = w THEN "run" ELSE wpc[v]
    BY <1>10, <1>T, <1>H DEF WorkerCall, TypeOK, heap
  <2>2. calls[job[cur[w]]] = 0
    BY <1>10, <1>T DEF WorkerCall, CallsOfJobs
  <2>3. \A y \in Jobs : calls'[y] = IF y = job[cur[w]] THEN 1 ELSE calls[y]
    BY <2>2, <1>10, <1>T DEF WorkerCall, TypeOK
  <2>4. \A v \in Workers : v # w /\ cur[v] # NULL => job[cur[v]] # job[cur[w]]
    BY <2>1, <1>A, <1>T DEF JobsOfNodes, Distinct
  <2>5. \A y \in Jobs : status'[y] \notin {"running", "done"} => calls'[y] = 0
    BY <2>1, <2>3, <1>A, <1>T DEF CallsOfJobs
  <2>6. \A y \in Jobs : status'[y] = "done" => calls'[y] = 1
    BY <2>1, <2>3, <1>T DEF CallsOfJobs
  <2>7. \A v \in Workers : wpc'[v] = "took" => calls'[job[cur[v]]] = 0
    BY <2>1, <2>3, <2>4, <1>A, <1>H, <1>T DEF CallsOfJobs
  <2>8. \A v \in Workers : wpc'[v] = "run" => calls'[job[cur[v]]] = 1
    BY <2>1, <2>3, <2>4, <1>A, <1>H, <1>T DEF CallsOfJobs
  <2> QED
    BY <2>1, <2>5, <2>6, <2>7, <2>8 DEF CallsOfJobs
<1>11. ASSUME NEW w \in Workers, WorkerFree(w)
       PROVE  CallsOfJobs'
  <2>1. UNCHANGED <<job, calls>> /\ cur[w] # NULL /\ calls[job[cur[w]]] = 1
    BY <1>11, <1>T, <1>H DEF WorkerFree, CallsOfJobs
  <2>2. \A y \in Jobs : status'[y] = IF y = job[cur[w]] THEN "done" ELSE status[y]
    BY <1>11, <1>T DEF WorkerFree, TypeOK
  <2>3. \A v \in Workers : /\ wpc'[v] = IF v = w THEN "lock" ELSE wpc[v]
                           /\ cur'[v] = IF v = w THEN NULL ELSE cur[v]
    BY <1>11, <1>T DEF WorkerFree, TypeOK
  <2> QED
    BY <2>1, <2>2, <2>3, <1>T DEF CallsOfJobs
<1> QED
  BY <1>2, <1>3, <1>4, <1>5, <1>6, <1>7, <1>8, <1>9, <1>10, <1>11
     DEF Next, Owner, Submit, Worker

-----------------------------------------------------------------------------
(* The invariants that the runs check *)

\* The inductive invariant, from its parts.
LEMMA PoolInvNext == PoolInv /\ [Next]_vars => PoolInv'
BY TypeNext, ControlNext, DistinctNext, AccountedNext, LinksNext, JobsOfNodesNext,
   NodesOfJobsNext, CallsOfJobsNext DEF PoolInv

\* It holds in every reachable state.
LEMMA PoolInvHolds == Spec => []PoolInv
BY PoolInvInit, PoolInvNext, PTL DEF Spec

\* One holder for an allocated node, none for a free one.
LEMMA OneHolder == PoolInv => NodeOwnership
<1> SUFFICES ASSUME PoolInv, NEW x \in Nodes
             PROVE  Cardinality(Holders(x)) = IF x \in allocated THEN 1 ELSE 0
  BY DEF NodeOwnership, PoolInv
<1>T. TypeOK /\ Distinct /\ Accounted /\ x # NULL
  BY NullAssumption DEF PoolInv
<1>D. DOMAIN fifo = 1 .. Len(fifo)
  BY <1>T, FifoFacts
<1>1. CASE x \notin allocated
  <2>1. Holders(x) = {}
    BY <1>1, <1>D, <1>T DEF Holders, Accounted, Held
  <2> QED
    BY <1>1, <2>1, FS_EmptySet
<1>2. CASE \E k \in 1 .. Len(fifo) : fifo[k] = x
  <2>1. PICK k \in 1 .. Len(fifo) : fifo[k] = x
    BY <1>2
  <2>2. Holders(x) = {<<"list", k>>}
    BY <2>1, <1>D, <1>T DEF Holders, Distinct
  <2> QED
    BY <2>1, <2>2, <1>T, FS_Singleton DEF Accounted, Held
<1>3. CASE \E w \in Workers : cur[w] = x
  <2>1. PICK w \in Workers : cur[w] = x
    BY <1>3
  <2>2. Holders(x) = {<<"worker", w>>}
    BY <2>1, <1>D, <1>T DEF Holders, Distinct
  <2> QED
    BY <2>1, <2>2, <1>T, FS_Singleton DEF Accounted, Held
<1>4. CASE \E s \in Submitters : hand[s] = x
  <2>1. PICK s \in Submitters : hand[s] = x
    BY <1>4
  <2>2. Holders(x) = {<<"submitter", s>>}
    BY <2>1, <1>D, <1>T DEF Holders, Distinct
  <2> QED
    BY <2>1, <2>2, <1>T, FS_Singleton DEF Accounted, Held
<1> QED
  BY <1>1, <1>2, <1>3, <1>4, <1>T DEF Accounted, Held

\* A job is called once, and none is left over when the pool is gone.
LEMMA OneCall == PoolInv => CalledOnce
<1> SUFFICES ASSUME PoolInv, NEW j \in Jobs
             PROVE  /\ calls[j] <= 1
                    /\ calls[j] = 1 => status[j] \in {"running", "done"}
                    /\ status[j] = "done" => calls[j] = 1
                    /\ owner.pc = "gone" => status[j] # "queued" /\ status[j] # "running"
  BY DEF CalledOnce
<1>1. CASE status[j] = "running"
  <2>1. PICK w \in Workers : cur[w] # NULL /\ job[cur[w]] = j
    BY <1>1 DEF PoolInv, NodesOfJobs
  <2>2. calls[j] \in {0, 1}
    BY <2>1 DEF PoolInv, Control, CallsOfJobs
  <2>3. owner.pc # "gone"
    BY <2>1 DEF PoolInv, Control
  <2> QED
    BY <1>1, <2>2, <2>3
<1>2. CASE status[j] # "running"
  <2>1. calls[j] = IF status[j] = "done" THEN 1 ELSE 0
    BY <1>2 DEF PoolInv, CallsOfJobs
  <2>2. owner.pc = "gone" => status[j] # "queued"
    BY EmptySeq DEF PoolInv, Control, Quiet, NodesOfJobs
  <2> QED
    BY <1>2, <2>1, <2>2
<1> QED
  BY <1>1, <1>2

(***************************************************************************)
(* For every number of workers, clients and tasks: the linked list of      *)
(* thread_pool.c is the queue of the accepted tasks, every Task node is    *)
(* freed once by its one owner, the pool outlives its workers, and every   *)
(* task is called at most once, and exactly once when it was accepted and  *)
(* the pool is gone.                                                       *)
(***************************************************************************)
THEOREM Ownership == Spec => []NodesAreOwned
<1>1. PoolInv => NodesAreOwned
  <2>1. PoolInv => ListIsFifo /\ PoolOutlivesWorkers
    BY DEF PoolInv, Control, PoolOutlivesWorkers
  <2> QED
    BY <2>1, OneHolder, OneCall DEF NodesAreOwned
<1> QED
  BY <1>1, PoolInvHolds, PTL

-----------------------------------------------------------------------------
(***************************************************************************)
(* No lost wake-up: given PoolInv, NoLostWakeup is inductive.  It counts   *)
(* the workers on their way to the mutex against the queued tasks.         *)
(***************************************************************************)

\* The workers at a label are finitely many.
LEMMA AtFinite == \A l : IsFiniteSet(At(l)) /\ Cardinality(At(l)) \in Nat
<1>1. IsFiniteSet(Workers)
  BY NumThreadsAssumption, FS_Interval DEF Workers
<1> QED
  BY <1>1, FS_Subset, FS_CardinalityType DEF At

\* A worker that comes to the mutex is one more there.
LEMMA OneMoreAwake ==
  ASSUME TypeOK, NEW w \in Workers, wpc[w] # "lock",
         wpc' = [wpc EXCEPT ![w] = "lock"]
  PROVE  Cardinality(At("lock"))' = Cardinality(At("lock")) + 1
<1>1. At("lock")' = At("lock") \cup {w} /\ w \notin At("lock")
  BY DEF At, TypeOK
<1> QED
  BY <1>1, AtFinite, FS_AddElement

\* A worker that leaves it is one less.
LEMMA OneLessAwake ==
  ASSUME TypeOK, NEW w \in Workers, NEW l, l # "lock",
         wpc[w] = "lock", wpc' = [wpc EXCEPT ![w] = l]
  PROVE  Cardinality(At("lock"))' = Cardinality(At("lock")) - 1
<1>1. At("lock")' = At("lock") \ {w} /\ w \in At("lock")
  BY DEF At, TypeOK
<1> QED
  BY <1>1, AtFinite, FS_RemoveElement

LEMMA NoLostWakeupNext == PoolInv /\ NoLostWakeup /\ [Next]_vars => NoLostWakeup'
<1> SUFFICES ASSUME PoolInv, NoLostWakeup, [Next]_vars, At("wait")' # {}
             PROVE  ~shutdown' /\ Len(fifo') <= Cardinality(At("lock"))'
  BY DEF NoLostWakeup
<1>T. TypeOK /\ Control
  BY DEF PoolInv
<1>P. wpc \in [Workers -> {"unborn", "lock", "wait", "took", "run", "exited"}]
  BY <1>T DEF TypeOK
<1>N. Len(fifo) \in Nat /\ Cardinality(At("lock")) \in Nat
  BY <1>T, FifoFacts, AtFinite
<1>1. ASSUME UNCHANGED <<wpc, shutdown, fifo>>
      PROVE  ~shutdown' /\ Len(fifo') <= Cardinality(At("lock"))'
  BY <1>1 DEF NoLostWakeup, At
<1>2. ASSUME UNCHANGED <<shutdown, fifo>>, At("wait") # {},
             Cardinality(At("lock"))' = Cardinality(At("lock")) + 1
      PROVE  ~shutdown' /\ Len(fifo') <= Cardinality(At("lock"))'
  <2>1. ~shutdown /\ Len(fifo) <= Cardinality(At("lock"))
    BY <1>2 DEF NoLostWakeup
  <2> QED
    BY <2>1, <1>2, <1>N
<1>3. CASE Create \/ Publish \/ Unwind \/ Join \/ Terminated \/ UNCHANGED vars
  BY <1>1, <1>3 DEF Create, Publish, Unwind, Join, Terminated, vars, pool
<1>4. CASE SpawnOk
  <2>1. owner.i \in Workers /\ wpc[owner.i] = "unborn" /\ wpc' = [wpc EXCEPT ![owner.i] = "lock"]
    <3>1. owner.i \in Workers
      BY <1>4, <1>T, NumThreadsAssumption DEF SpawnOk, TypeOK, Workers
    <3> QED
      BY <3>1, <1>4, <1>T, NumThreadsAssumption DEF SpawnOk, TypeOK, Control, Workers
  <2>2. Cardinality(At("lock"))' = Cardinality(At("lock")) + 1
    BY <2>1, <1>T, OneMoreAwake
  <2>3. At("wait")' = At("wait")
    BY <2>1, <1>P DEF At
  <2> QED
    BY <1>2, <1>4, <2>2, <2>3 DEF SpawnOk, pool
<1>5. CASE SpawnFails \/ Destroy
  <2>1. At("wait")' = {}
    BY <1>5, <1>T, BroadcastMoves DEF SpawnFails, Destroy, At
  <2> QED
    BY <2>1
<1>6. CASE FreePool
  <2>1. shutdown /\ At("wait")' = At("wait")
    BY <1>6, <1>T DEF FreePool, Control, At
  <2> QED
    BY <2>1 DEF NoLostWakeup
<1>7. ASSUME NEW s \in Submitters, NEW j \in Jobs, SubmitNoMem(s, j)
      PROVE  ~shutdown' /\ Len(fifo') <= Cardinality(At("lock"))'
  BY <1>1, <1>7 DEF SubmitNoMem, pool
<1>8. ASSUME NEW s \in Submitters, NEW j \in Jobs, NEW x \in Nodes, SubmitMalloc(s, j, x)
      PROVE  ~shutdown' /\ Len(fifo') <= Cardinality(At("lock"))'
  BY <1>1, <1>8 DEF SubmitMalloc, pool
<1>9. ASSUME NEW s \in Submitters, SubmitRejected(s)
      PROVE  ~shutdown' /\ Len(fifo') <= Cardinality(At("lock"))'
  BY <1>1, <1>9 DEF SubmitRejected, pool
<1>10. ASSUME NEW s \in Submitters, SubmitEnqueue(s)
       PROVE  ~shutdown' /\ Len(fifo') <= Cardinality(At("lock"))'
  <2>1. PICK w \in At("wait") : wpc' = [wpc EXCEPT ![w] = "lock"]
    <3>1. ASSUME At("wait") = {}, UNCHANGED wpc PROVE FALSE
      BY <3>1 DEF At
    <3> QED
      BY <1>10, <3>1 DEF SubmitEnqueue, Signal
  <2>2. Cardinality(At("lock"))' = Cardinality(At("lock")) + 1
    BY <2>1, <1>T, OneMoreAwake DEF At
  <2>3. ~shutdown /\ Len(fifo) <= Cardinality(At("lock"))
    BY <2>1 DEF NoLostWakeup
  <2>4. Len(fifo') = Len(fifo) + 1 /\ shutdown' = shutdown
    BY <1>10, <1>T, EnqueueFifo DEF SubmitEnqueue
  <2> QED
    BY <2>2, <2>3, <2>4, <1>N
<1>11. ASSUME NEW w \in Workers, WorkerWait(w)
       PROVE  ~shutdown' /\ Len(fifo') <= Cardinality(At("lock"))'
  <2>1. owner.pc # "gone"
    BY <1>11, <1>T DEF WorkerWait, Control
  <2>2. Len(fifo) = 0
    BY <2>1, <1>11, <1>T, EmptyHead, FifoFacts DEF WorkerWait
  <2>3. Cardinality(At("lock"))' = Cardinality(At("lock")) - 1
    BY <1>11, <1>T, OneLessAwake DEF WorkerWait
  <2>4. w \in At("lock") /\ Cardinality(At("lock")) # 0
    <3>1. w \in At("lock")
      BY <1>11 DEF WorkerWait, At
    <3> QED
      BY <3>1, AtFinite, FS_EmptySet
  <2> QED
    BY <2>2, <2>3, <2>4, <1>11, <1>N DEF WorkerWait, pool
<1>12. ASSUME NEW w \in Workers, SpuriousWakeup(w)
       PROVE  ~shutdown' /\ Len(fifo') <= Cardinality(At("lock"))'
  <2>1. Cardinality(At("lock"))' = Cardinality(At("lock")) + 1
    BY <1>12, <1>T, OneMoreAwake DEF SpuriousWakeup
  <2>2. At("wait") # {}
    BY <1>12 DEF SpuriousWakeup, At
  <2> QED
    BY <1>2, <1>12, <2>1, <2>2 DEF SpuriousWakeup, pool
<1>13. ASSUME NEW w \in Workers, WorkerExit(w)
       PROVE  ~shutdown' /\ Len(fifo') <= Cardinality(At("lock"))'
  <2>1. At("wait")' = At("wait")
    BY <1>13, <1>P DEF WorkerExit, At
  <2> QED
    BY <2>1, <1>13 DEF WorkerExit, NoLostWakeup
<1>14. ASSUME NEW w \in Workers, WorkerDequeue(w)
       PROVE  ~shutdown' /\ Len(fifo') <= Cardinality(At("lock"))'
  <2>1. Cardinality(At("lock"))' = Cardinality(At("lock")) - 1
    BY <1>14, <1>T, OneLessAwake DEF WorkerDequeue
  <2>2. At("wait")' = At("wait")
    BY <1>14, <1>P DEF WorkerDequeue, At
  <2>3. ~shutdown /\ Len(fifo) <= Cardinality(At("lock"))
    BY <2>2 DEF NoLostWakeup
  <2>4. Len(fifo') = Len(fifo) - 1 /\ shutdown' = shutdown
    BY <1>14, DequeueFifo DEF WorkerDequeue
  <2> QED
    BY <2>1, <2>3, <2>4, <1>N
<1>15. ASSUME NEW w \in Workers, WorkerCall(w)
       PROVE  ~shutdown' /\ Len(fifo') <= Cardinality(At("lock"))'
  <2>1. At("wait")' = At("wait") /\ At("lock")' = At("lock")
    BY <1>15, <1>P DEF WorkerCall, At
  <2> QED
    BY <2>1, <1>15 DEF WorkerCall, NoLostWakeup, pool
<1>16. ASSUME NEW w \in Workers, WorkerFree(w)
       PROVE  ~shutdown' /\ Len(fifo') <= Cardinality(At("lock"))'
  <2>1. Cardinality(At("lock"))' = Cardinality(At("lock")) + 1
    BY <1>16, <1>T, OneMoreAwake DEF WorkerFree
  <2>2. At("wait")' = At("wait")
    BY <1>16, <1>P DEF WorkerFree, At
  <2> QED
    BY <1>2, <1>16, <2>1, <2>2 DEF WorkerFree, pool
<1> QED
  BY <1>3, <1>4, <1>5, <1>6, <1>7, <1>8, <1>9, <1>10, <1>11, <1>12, <1>13, <1>14, <1>15, <1>16
     DEF Next, Owner, Submit, Worker

(***************************************************************************)
(* No lost wake-up, for every number of workers: one signal per submitted  *)
(* task and one broadcast at the end never leave a task in the list with   *)
(* all of its workers asleep, nor a worker asleep after the shutdown.      *)
(***************************************************************************)
THEOREM WakeupsSuffice == Spec => []NoLostWakeup
<1>1. Init => NoLostWakeup
  BY DEF Init, NoLostWakeup, At
<1> QED
  BY <1>1, PoolInvHolds, NoLostWakeupNext, PTL DEF Spec

-----------------------------------------------------------------------------
(* The pool implements JobExecutor *)

\* The jobs of the list, as the refinement mapping has them.
Pending == [k \in 1 .. Len(fifo) |-> job[fifo[k]]]
Seen == [j \in Jobs |-> IF status[j] = "submitting" THEN "new" ELSE status[j]]

\* It starts as an executor that is not open yet.
LEMMA ExecutorInit == Init => Executor!Init
<1> SUFFICES ASSUME Init PROVE Executor!Init
  OBVIOUS
<1>1. Phase = "down"
  BY DEF Init, Phase
<1>2. Len(fifo) = 0
  BY EmptySeq DEF Init
<1>3. Pending = <<>>
  BY <1>2 DEF Pending
<1>4. Seen = [j \in Jobs |-> "new"]
  BY DEF Init, Seen
<1> QED
  BY <1>1, <1>3, <1>4 DEF Executor!Init, Pending, Seen

\* The phase of the executor, by where the owner is.
LEMMA PhaseIs ==
  ASSUME TypeOK
  PROVE  /\ owner.pc \in {"start", "spawn"} => Phase = "down"
         /\ owner.pc = "ready" => Phase = "up"
         /\ owner.pc \in {"unwind", "join"} => Phase = "stopping"
         /\ owner.pc \in {"gone", "failed"} => Phase = "gone"
BY DEF Phase

LEMMA PhaseIsNext ==
  /\ owner'.pc \in {"start", "spawn"} => Phase' = "down"
  /\ owner'.pc = "ready" => Phase' = "up"
  /\ owner'.pc \in {"unwind", "join"} => Phase' = "stopping"
  /\ owner'.pc \in {"gone", "failed"} => Phase' = "gone"
BY DEF Phase

\* The pending jobs are a sequence of jobs.
PendingFacts == /\ Pending \in Seq(Jobs) /\ Len(Pending) = Len(fifo)
                /\ \A k \in 1 .. Len(fifo) : Pending[k] = job[fifo[k]]

LEMMA PendingType == PoolInv => PendingFacts
<1> SUFFICES ASSUME PoolInv PROVE PendingFacts
  OBVIOUS
<1>1. Len(fifo) \in Nat /\ \A k \in 1 .. Len(fifo) : fifo[k] \in Nodes
  BY FifoFacts DEF PoolInv
<1>2. \A k \in 1 .. Len(fifo) : job[fifo[k]] \in Jobs
  BY <1>1 DEF PoolInv, JobsOfNodes, Accounted, Held
<1>3. Pending \in [1 .. Len(fifo) -> Jobs]
  BY <1>2 DEF Pending
<1>4. Pending \in Seq(Jobs)
  BY <1>1, <1>3
<1>5. Len(Pending) = Len(fifo)
  BY <1>1, <1>3, <1>4, LenProperties
<1> QED
  BY <1>4, <1>5 DEF Pending, PendingFacts

\* The executor counts as the pool does.
LEMMA SameCardinality == \A S : Executor!Cardinality(S) = Cardinality(S)
BY DEF Executor!Cardinality, Cardinality

\* Fewer jobs run than there are workers while one worker is free.
LEMMA RoomToRun ==
  ASSUME PoolInv, NEW w \in Workers, cur[w] = NULL
  PROVE  Cardinality({j \in Jobs : Seen[j] = "running"}) < NumThreads
<1> DEFINE R == {j \in Jobs : Seen[j] = "running"}
           g == [j \in R |-> CHOOSE v \in Workers : cur[v] # NULL /\ job[cur[v]] = j]
<1>1. \A j \in R : status[j] = "running"
  BY DEF Seen
<1>2. PICK f \in [R -> Workers \ {w}] : \A j \in R : job[cur[f[j]]] = j
  <2>1. \A j \in R : g[j] \in Workers \ {w} /\ job[cur[g[j]]] = j
    BY <1>1 DEF PoolInv, NodesOfJobs
  <2>2. DOMAIN g = R /\ g = [j \in R |-> g[j]]
    OBVIOUS
  <2> HIDE DEF g, R
  <2>3. g \in [R -> Workers \ {w}]
    BY <2>1, <2>2
  <2> QED
    BY <2>1, <2>3
<1> HIDE DEF R
<1>3. f \in Injection(R, Workers \ {w})
  BY <1>2 DEF Injection, IsInjective
<1>4. IsFiniteSet(Workers) /\ Cardinality(Workers) = NumThreads
  BY NumThreadsAssumption, FS_Interval DEF Workers
<1>5. IsFiniteSet(Workers \ {w}) /\ Cardinality(Workers \ {w}) = NumThreads - 1
  BY <1>4, FS_RemoveElement
<1>6. IsFiniteSet(R) /\ Cardinality(R) <= NumThreads - 1
  BY <1>3, <1>5, FS_Injection
<1>7. Cardinality(R) \in Nat
  BY <1>6, FS_CardinalityType
<1> QED
  BY <1>6, <1>7, NumThreadsAssumption DEF R

\* Every step of the pool is a step of the executor, or invisible to it.
LEMMA ExecutorNext == PoolInv /\ PoolInv' /\ [Next]_vars => [Executor!Next]_(Executor!vars)
<1> SUFFICES ASSUME PoolInv, PoolInv', [Next]_vars
             PROVE  Executor!Next \/ UNCHANGED <<Phase, Pending, Seen>>
  BY DEF Executor!vars, Pending, Seen
<1>T. TypeOK /\ TypeOK' /\ Control /\ Accounted /\ JobsOfNodes
  BY DEF PoolInv
<1>F. Len(fifo) \in Nat /\ \A k \in 1 .. Len(fifo) : fifo[k] \in Nodes
  BY <1>T, FifoFacts
<1>H. \A s \in Submitters : hand[s] # NULL => /\ hand[s] \in allocated /\ job[hand[s]] \in Jobs
                                              /\ status[job[hand[s]]] = "submitting"
  BY <1>T DEF Accounted, Held, TypeOK, JobsOfNodes
<1>P. ASSUME UNCHANGED owner PROVE UNCHANGED Phase
  BY <1>P DEF Phase
<1>S. ASSUME UNCHANGED <<status, fifo, job>> PROVE UNCHANGED <<Pending, Seen>>
  BY <1>S DEF Pending, Seen
<1>Q. PendingFacts
  BY PendingType
<1>R. PendingFacts'
  BY PendingType, PTL
<1>1. ASSUME UNCHANGED <<owner, status, fifo, job>> PROVE UNCHANGED <<Phase, Pending, Seen>>
  BY <1>1, <1>P, <1>S
<1>2. CASE Create
  <2>1. Phase = "down" /\ Phase' \in {"up", "stopping", "gone", "down"}
    BY <1>2, <1>T, PhaseIs, PhaseIsNext DEF Create
  <2>2. UNCHANGED <<Pending, Seen>>
    BY <1>2, <1>S DEF Create, heap
  <2> QED
    BY <2>1, <2>2 DEF Executor!Next, Executor!Open, Pending, Seen
<1>3. CASE SpawnOk
  <2>1. Phase = "down" /\ Phase' = "down"
    BY <1>3, <1>T, PhaseIs, PhaseIsNext DEF SpawnOk, TypeOK
  <2> QED
    BY <2>1, <1>3, <1>S DEF SpawnOk, heap
<1>4. CASE Publish \/ SpawnFails
  <2>1. Phase = "down" /\ Phase' \in {"up", "stopping"}
    BY <1>4, <1>T, PhaseIs, PhaseIsNext DEF Publish, SpawnFails, TypeOK
  <2>2. UNCHANGED <<Pending, Seen>>
    BY <1>4, <1>S DEF Publish, SpawnFails, heap
  <2> QED
    BY <2>1, <2>2 DEF Executor!Next, Executor!Open, Pending, Seen
<1>5. CASE Destroy
  <2>1. Phase = "up" /\ Phase' = "stopping"
    BY <1>5, <1>T, PhaseIs, PhaseIsNext DEF Destroy
  <2>2. UNCHANGED <<Pending, Seen>>
    BY <1>5, <1>S DEF Destroy, heap
  <2> QED
    BY <2>1, <2>2 DEF Executor!Next, Executor!Stop, Pending, Seen
<1>6. CASE Join
  <2>1. Phase = "stopping" /\ Phase' = "stopping"
    BY <1>6, <1>T, PhaseIs, PhaseIsNext DEF Join, TypeOK
  <2> QED
    BY <2>1, <1>6, <1>S DEF Join, heap
<1>7. CASE Unwind \/ FreePool
  <2>1. Phase = "stopping" /\ Phase' = "gone" /\ owner'.pc \in {"gone", "failed"}
    BY <1>7, <1>T, PhaseIs, PhaseIsNext DEF Unwind, FreePool, TypeOK
  <2>2. Quiet'
    BY <2>1 DEF PoolInv, Control
  <2>3. fifo = <<>> /\ \A w \in Workers : cur[w] = NULL
    <3>1. CASE Unwind
      BY <3>1, <1>T DEF Unwind, Control, Quiet
    <3>2. CASE FreePool
      <4>1. \A w \in Workers : wpc[w] = "exited"
        BY <3>2, <1>T, NumThreadsAssumption DEF FreePool, Control, Workers
      <4>2. 0 \in Workers
        BY NumThreadsAssumption DEF Workers
      <4> QED
        BY <4>1, <4>2, <1>T DEF Control
    <3> QED
      BY <1>7, <3>1, <3>2
  <2>4. UNCHANGED <<status, job, fifo>>
    BY <2>2, <2>3, <1>7 DEF Unwind, FreePool, heap, Quiet
  <2>5. UNCHANGED <<Pending, Seen>>
    BY <2>4, <1>S
  <2>6. \A j \in Jobs : Seen[j] # "queued" /\ Seen[j] # "running"
    BY <2>3, EmptySeq DEF PoolInv, NodesOfJobs, Seen
  <2> QED
    BY <2>1, <2>5, <2>6 DEF Executor!Next, Executor!Vanish, Executor!In, Pending, Seen
<1>8. CASE Terminated \/ UNCHANGED vars
  BY <1>1, <1>8 DEF Terminated, vars, heap
<1>9. ASSUME NEW s \in Submitters, NEW j \in Jobs, SubmitNoMem(s, j)
      PROVE  Executor!Next
  <2>1. Seen[j] = "new" /\ Seen' = [Seen EXCEPT ![j] = "nomem"]
    BY <1>9, <1>T DEF SubmitNoMem, Seen, TypeOK
  <2>2. UNCHANGED <<Phase, Pending>>
    BY <1>9, <1>P DEF SubmitNoMem, heap, Pending
  <2>3. Executor!Refuse(j)
    BY <2>1, <2>2 DEF Executor!Refuse, Pending, Seen
  <2> QED
    BY <2>3 DEF Executor!Next
<1>10. ASSUME NEW s \in Submitters, NEW j \in Jobs, NEW x \in Nodes, SubmitMalloc(s, j, x)
       PROVE  UNCHANGED <<Phase, Pending, Seen>>
  <2>1. Seen' = Seen
    BY <1>10, <1>T DEF SubmitMalloc, Seen, TypeOK
  <2>2. \A k \in 1 .. Len(fifo) : fifo[k] # x
    BY <1>10, <1>T DEF SubmitMalloc, Accounted, Held
  <2>3. \A k \in 1 .. Len(fifo) : job'[fifo[k]] = job[fifo[k]]
    BY <2>2, <1>10, <1>T, <1>F DEF SubmitMalloc, TypeOK
  <2>4. Pending' = Pending
    BY <2>3, <1>10 DEF SubmitMalloc, Pending
  <2> QED
    BY <2>1, <2>4, <1>10, <1>P DEF SubmitMalloc
<1>11. ASSUME NEW s \in Submitters, SubmitRejected(s)
       PROVE  Executor!Next
  <2>0. PICK j \in Jobs : j = job[hand[s]]
    BY <1>11, <1>H DEF SubmitRejected
  <2>1. Seen[j] = "new"
    BY <2>0, <1>11, <1>H DEF SubmitRejected, Seen
  <2>2. Seen' = [Seen EXCEPT ![j] = "rejected"]
    BY <2>0, <1>11, <1>H, <1>T DEF SubmitRejected, Seen, TypeOK
  <2>3. owner.pc \in {"unwind", "join"}
    BY <1>11, <1>T DEF SubmitRejected, Control, Submitters, Quiet
  <2>4. Phase = "stopping" /\ UNCHANGED <<Phase, Pending>>
    BY <2>3, <1>11, <1>T, <1>P, PhaseIs DEF SubmitRejected, Pending
  <2>5. Executor!Refuse(j)
    BY <2>1, <2>2, <2>4 DEF Executor!Refuse, Pending, Seen
  <2> QED
    BY <2>5 DEF Executor!Next
<1>12. ASSUME NEW s \in Submitters, SubmitEnqueue(s)
       PROVE  Executor!Next
  <2>0. PICK j \in Jobs : j = job[hand[s]]
    BY <1>12, <1>H DEF SubmitEnqueue
  <2>1. Seen[j] = "new"
    BY <2>0, <1>12, <1>H DEF SubmitEnqueue, Seen
  <2>2. Seen' = [Seen EXCEPT ![j] = "queued"]
    BY <2>0, <1>12, <1>H, <1>T DEF SubmitEnqueue, Seen, TypeOK
  <2>3. owner.pc = "ready"
    BY <1>12, <1>T DEF SubmitEnqueue, TypeOK, Control, Quiet, Submitters
  <2>4. Phase = "up" /\ UNCHANGED Phase
    BY <2>3, <1>12, <1>T, <1>P, PhaseIs DEF SubmitEnqueue
  <2>5. Pending' = Append(Pending, j)
    <3>1. /\ Len(fifo') = Len(fifo) + 1 /\ job' = job
          /\ \A k \in 1 .. Len(fifo) : fifo'[k] = fifo[k]
          /\ fifo'[Len(fifo) + 1] = hand[s]
      BY <1>12, <1>T, EnqueueFifo DEF SubmitEnqueue
    <3>2. Pending' \in Seq(Jobs) /\ Len(Pending') = Len(fifo')
      BY <1>R DEF PendingFacts
    <3>3. \A k \in 1 .. Len(fifo') : Pending'[k] = job[fifo'[k]]
      BY <3>1, <1>R DEF PendingFacts
    <3>4. /\ Append(Pending, j) \in Seq(Jobs) /\ Len(Append(Pending, j)) = Len(fifo) + 1
          /\ \A k \in 1 .. Len(fifo) : Append(Pending, j)[k] = job[fifo[k]]
          /\ Append(Pending, j)[Len(fifo) + 1] = j
      BY <1>Q, AppendProperties DEF PendingFacts
    <3>5. \A k \in 1 .. Len(fifo') : Pending'[k] = Append(Pending, j)[k]
      BY <2>0, <3>1, <3>3, <3>4, <1>F
    <3> QED
      BY <3>1, <3>2, <3>4, <3>5, SeqEqual
  <2>6. Executor!Accept(j)
    BY <2>1, <2>2, <2>4, <2>5 DEF Executor!Accept, Pending, Seen
  <2> QED
    BY <2>6 DEF Executor!Next
<1>13. ASSUME NEW w \in Workers, WorkerWait(w) \/ WorkerExit(w) \/ WorkerCall(w) \/ SpuriousWakeup(w)
       PROVE  UNCHANGED <<Phase, Pending, Seen>>
  BY <1>1, <1>13 DEF WorkerWait, WorkerExit, WorkerCall, SpuriousWakeup, heap
<1>14. ASSUME NEW w \in Workers, WorkerDequeue(w)
       PROVE  Executor!Next
  <2>1. 1 \in 1 .. Len(fifo) /\ Len(fifo) # 0
    BY <1>14, <1>F, DequeueFifo
  <2>2. PICK j \in Jobs : j = job[fifo[1]] /\ status[j] = "queued"
    BY <2>1, <1>F, <1>T DEF JobsOfNodes, Accounted, Held
  <2>3. status' = [status EXCEPT ![j] = "running"] /\ job' = job
    BY <2>2, <1>14, DequeueFifo DEF WorkerDequeue, heap
  <2>4. Seen' = [Seen EXCEPT ![j] = "running"]
    BY <2>2, <2>3, <1>T DEF Seen, TypeOK
  <2>5. owner.pc \in {"ready", "join"}
    BY <1>14, <1>T, DequeueFifo DEF Control, Quiet, TypeOK
  <2>6. Phase \in {"up", "stopping"} /\ UNCHANGED Phase
    BY <2>5, <1>14, <1>T, <1>P, PhaseIs DEF WorkerDequeue
  <2>7. Pending # <<>> /\ j = Head(Pending)
    <3>1. Pending # <<>> /\ Pending[1] = j
      BY <2>1, <2>2, <1>Q, EmptySeq DEF PendingFacts
    <3> QED
      BY <3>1, <1>Q DEF PendingFacts
  <2>8. Pending' = Tail(Pending)
    <3>1. /\ Len(fifo') = Len(fifo) - 1
          /\ \A k \in 1 .. Len(fifo) - 1 : fifo'[k] = fifo[k + 1]
      BY <1>14, DequeueFifo
    <3>2. Pending' \in Seq(Jobs) /\ Len(Pending') = Len(fifo')
      BY <1>R DEF PendingFacts
    <3>3. \A k \in 1 .. Len(fifo') : Pending'[k] = job[fifo'[k]]
      BY <2>3, <1>R DEF PendingFacts
    <3>4. /\ Tail(Pending) \in Seq(Jobs) /\ Len(Tail(Pending)) = Len(fifo) - 1
          /\ \A k \in 1 .. Len(fifo) - 1 : Tail(Pending)[k] = Pending[k + 1]
      BY <2>7, <1>Q, HeadTailProperties DEF PendingFacts
    <3>5. \A k \in 1 .. Len(fifo) - 1 : k + 1 \in 1 .. Len(fifo)
      BY <1>F
    <3>6. \A k \in 1 .. Len(fifo) - 1 : Tail(Pending)[k] = job[fifo[k + 1]]
      BY <3>4, <3>5, <1>Q DEF PendingFacts
    <3>7. \A k \in 1 .. Len(fifo') : Pending'[k] = Tail(Pending)[k]
      BY <3>1, <3>3, <3>6
    <3> QED
      BY <3>1, <3>2, <3>4, <3>7, SeqEqual
  <2>9. Executor!Cardinality({y \in Jobs : Seen[y] = "running"}) < NumThreads
    BY <1>14, <1>T, RoomToRun, SameCardinality DEF WorkerDequeue, Control
  <2>10. Executor!Start(j)
    BY <2>4, <2>6, <2>7, <2>8, <2>9 DEF Executor!Start, Executor!In, Pending, Seen
  <2> QED
    BY <2>10 DEF Executor!Next
<1>15. ASSUME NEW w \in Workers, WorkerFree(w)
       PROVE  Executor!Next
  <2>1. cur[w] # NULL /\ cur[w] \in allocated
    BY <1>15, <1>T DEF WorkerFree, Control, Accounted, Held, TypeOK
  <2>2. PICK j \in Jobs : j = job[cur[w]] /\ status[j] = "running"
    BY <2>1, <1>T DEF JobsOfNodes
  <2>3. Seen[j] = "running" /\ Seen' = [Seen EXCEPT ![j] = "done"]
    BY <2>2, <1>15, <1>T DEF WorkerFree, Seen, TypeOK
  <2>4. owner.pc \in {"ready", "join"}
    BY <2>1, <1>T DEF Control, Quiet, TypeOK
  <2>5. Phase \in {"up", "stopping"} /\ UNCHANGED <<Phase, Pending>>
    BY <2>4, <1>15, <1>T, <1>P, PhaseIs DEF WorkerFree, Pending
  <2>6. Executor!Finish(j)
    BY <2>3, <2>5 DEF Executor!Finish, Pending, Seen
  <2> QED
    BY <2>6 DEF Executor!Next
<1> QED
  BY <1>2, <1>3, <1>4, <1>5, <1>6, <1>7, <1>8, <1>9, <1>10, <1>11, <1>12, <1>13, <1>14, <1>15
     DEF Next, Owner, Submit, Worker

(***************************************************************************)
(* The pool implements JobExecutor for every number of workers, clients    *)
(* and tasks: thread_pool.c takes the accepted tasks in order, runs at     *)
(* most NumThreads at a time, refuses what comes after the shutdown and    *)
(* lets destroy return only when all accepted tasks have finished.         *)
(***************************************************************************)
THEOREM Refinement == Spec => ImplementsExecutor
BY ExecutorInit, ExecutorNext, PoolInvHolds, PTL DEF Spec, ImplementsExecutor, Executor!Spec

-----------------------------------------------------------------------------
(* Parallel: the arithmetic of the chunks *)

LEMMA Division ==
  ASSUME NEW a \in Nat, NEW t \in Nat \ {0}
  PROVE  a \div t \in Nat /\ a % t \in 0 .. t - 1 /\ a = t * (a \div t) + (a % t)
BY Z3

LEMMA Multiples ==
  \A c, q \in Nat : c * q \in Nat /\ (c + 1) * q = c * q + q /\ 0 * q = 0
BY Z3

LEMMA MoreMultiples == \A c, d, q \in Nat : c <= d => c * q <= d * q
<1> SUFFICES ASSUME NEW c \in Nat, NEW d \in Nat, NEW q \in Nat, c <= d PROVE c * q <= d * q
  OBVIOUS
<1>1. (d - c) * q \in Nat /\ (d - c) * q = d * q - c * q
  BY Z3
<1> QED
  BY <1>1, Multiples

\* Where chunk c of t starts: the first a % t chunks are one longer.
Share(a, t, c) == c * (a \div t) + (IF c < a % t THEN c ELSE a % t)

LEMMA Shares ==
  ASSUME NEW a \in Nat, NEW t \in Nat \ {0}
  PROVE  /\ Share(a, t, 0) = 0 /\ Share(a, t, t) = a
         /\ \A c \in 0 .. t : Share(a, t, c) \in 0 .. a
         /\ \A c \in 0 .. t - 1 :
              /\ Share(a, t, c + 1) = Share(a, t, c) + a \div t + (IF c < a % t THEN 1 ELSE 0)
              /\ Share(a, t, c) <= Share(a, t, c + 1)
<1> DEFINE q == a \div t
           r == a % t
<1>1. q \in Nat /\ r \in 0 .. t - 1 /\ a = t * q + r
  BY Division
<1> HIDE DEF q, r
<1>2. \A c : Share(a, t, c) = c * q + (IF c < r THEN c ELSE r)
  BY DEF Share, q, r
<1>3. Share(a, t, 0) = 0
  BY <1>1, <1>2, Multiples
<1>4. Share(a, t, t) = a
  BY <1>1, <1>2, Multiples
<1>5. \A c \in 0 .. t : Share(a, t, c) \in 0 .. a
  <2> SUFFICES ASSUME NEW c \in 0 .. t PROVE Share(a, t, c) \in 0 .. a
    OBVIOUS
  <2>1. c * q \in Nat /\ t * q \in Nat /\ c * q <= t * q
    BY <1>1, Multiples, MoreMultiples
  <2> HIDE DEF q, r
  <2> QED
    BY <1>1, <1>2, <2>1
<1>6. \A c \in 0 .. t - 1 : Share(a, t, c + 1) = Share(a, t, c) + q + (IF c < r THEN 1 ELSE 0)
  <2> SUFFICES ASSUME NEW c \in 0 .. t - 1
               PROVE  Share(a, t, c + 1) = Share(a, t, c) + q + (IF c < r THEN 1 ELSE 0)
    OBVIOUS
  <2>1. c * q \in Nat /\ (c + 1) * q = c * q + q
    BY <1>1, Multiples
  <2> QED
    BY <1>1, <1>2, <2>1
<1>7. \A c \in 0 .. t - 1 : Share(a, t, c) <= Share(a, t, c + 1)
  BY <1>1, <1>5, <1>6
<1> QED
  BY <1>3, <1>4, <1>5, <1>6, <1>7 DEF q, r

LEMMA Ranges ==
  /\ P!Range(0, 0) = <<>>
  /\ \A a, b \in Nat : P!Range(a, b) \in Seq(Nat)
  /\ \A a, b \in Nat : a <= b => P!Range(0, a) \o P!Range(a, b) = P!Range(0, b)
<1>1. P!Range(0, 0) = <<>>
  BY DEF P!Range
<1>2. \A a, b \in Nat : /\ P!Range(a, b) \in Seq(Nat)
                        /\ a <= b => Len(P!Range(a, b)) = b - a
                        /\ \A k \in 1 .. b - a : P!Range(a, b)[k] = a + k - 1
  <2> SUFFICES ASSUME NEW a \in Nat, NEW b \in Nat
               PROVE  /\ P!Range(a, b) \in Seq(Nat)
                      /\ a <= b => Len(P!Range(a, b)) = b - a
                      /\ \A k \in 1 .. b - a : P!Range(a, b)[k] = a + k - 1
    OBVIOUS
  <2>1. CASE a <= b
    BY <2>1 DEF P!Range
  <2>2. CASE b < a
    <3>1. 1 .. b - a = {}
      BY <2>2
    <3>2. P!Range(a, b) = <<>>
      BY <3>1 DEF P!Range
    <3> QED
      BY <2>2, <3>1, <3>2
  <2> QED
    BY <2>1, <2>2
<1>3. ASSUME NEW a \in Nat, NEW b \in Nat, a <= b
      PROVE  P!Range(0, a) \o P!Range(a, b) = P!Range(0, b)
  <2> DEFINE s == P!Range(0, a)
             t == P!Range(a, b)
             u == P!Range(0, b)
  <2>1. /\ s \in Seq(Nat) /\ t \in Seq(Nat) /\ u \in Seq(Nat)
        /\ Len(s) = a /\ Len(t) = b - a /\ Len(u) = b
        /\ \A k \in 1 .. a : s[k] = k - 1
        /\ \A k \in 1 .. b - a : t[k] = a + k - 1
        /\ \A k \in 1 .. b : u[k] = k - 1
    <3>1. 0 \in Nat /\ 0 <= a /\ 0 <= b /\ a - 0 = a /\ b - 0 = b
      OBVIOUS
    <3>2. /\ s \in Seq(Nat) /\ Len(s) = a /\ \A k \in 1 .. a : s[k] = 0 + k - 1
      BY <1>2, <3>1
    <3>3. /\ u \in Seq(Nat) /\ Len(u) = b /\ \A k \in 1 .. b : u[k] = 0 + k - 1
      BY <1>2, <3>1
    <3>4. /\ t \in Seq(Nat) /\ Len(t) = b - a /\ \A k \in 1 .. b - a : t[k] = a + k - 1
      BY <1>2, <1>3
    <3> HIDE DEF s, t, u
    <3> QED
      BY <3>2, <3>3, <3>4
  <2> HIDE DEF s, t, u
  <2>2. /\ s \o t \in Seq(Nat) /\ Len(s \o t) = Len(s) + Len(t)
        /\ \A k \in 1 .. Len(s) + Len(t) :
             (s \o t)[k] = (IF k <= Len(s) THEN s[k] ELSE t[k - Len(s)])
    BY <2>1, ConcatProperties
  <2> DEFINE v == s \o t
  <2> HIDE DEF v
  <2>3. v \in Seq(Nat) /\ Len(v) = b /\ \A k \in 1 .. b : v[k] = u[k]
    BY <1>3, <2>1, <2>2 DEF v
  <2>4. s \o t = u
    BY <2>1, <2>3, SeqEqual DEF v
  <2> QED
    BY <2>4 DEF s, t, u
<1> QED
  BY <1>1, <1>2, <1>3

-----------------------------------------------------------------------------
(* Parallel: the inductive invariant *)

(***************************************************************************)
(* Chunks that were handed out are adjacent, from 0 to off; a chunk has a  *)
(* thread to join or was run by the caller; an index below off was         *)
(* processed once unless it is in a chunk whose thread has yet to run.     *)
(***************************************************************************)
Chunks == 0 .. MaxThreads - 1
HandedOut == IF pc = "spawn" THEN i ELSE IF pheap = "none" THEN 0 ELSE num_threads
Unfinished(k) == \E c \in Chunks : thread[c] = "started" /\ args[c].start <= k /\ k < args[c].end
Joined == IF i = 0 THEN 0 ELSE args[i - 1].end

LoopPlaces ==
    /\ pheap = "none" <=> pc = "call" \/ (pc = "returned" /\ off = 0)
    /\ pheap = "live" <=> pc \in {"spawn", "join"}
    /\ pc \in {"call", "spawn"} => result = <<>>
    /\ pc = "call" => i = 0 /\ off = 0
    /\ pheap # "none" => num_threads \in 1 .. n
    /\ pc = "spawn" => i <= num_threads /\ off = Share(n, num_threads, i)
    /\ pc = "join" => i <= num_threads
    /\ pheap # "none" /\ pc # "spawn" => off = n

HandedOutChunks ==
    /\ \A c \in Chunks : c >= HandedOut => thread[c] = "none"
    /\ \A c \in 0 .. HandedOut - 1 :
         /\ args[c].start = (IF c = 0 THEN 0 ELSE args[c - 1].end)
         /\ args[c].start <= args[c].end /\ args[c].end <= off
         /\ args[c].join <=> thread[c] # "none"
         /\ thread[c] # "started" => args[c].result = P!Range(args[c].start, args[c].end)
    /\ HandedOut > 0 => args[HandedOut - 1].end = off
    /\ \A c, d \in 0 .. HandedOut - 1 : c < d => args[c].end <= args[d].start

Work == /\ pheap = "none" /\ pc = "call" => \A k \in 0 .. n - 1 : runs[k] = 0
        /\ pheap # "none" => \A k \in 0 .. n - 1 : runs[k] = (IF k < off /\ ~Unfinished(k) THEN 1 ELSE 0)
        /\ pc = "join" => /\ \A c \in 0 .. i - 1 : thread[c] # "started"
                          /\ result = P!Range(0, Joined)
        /\ pheap = "freed" => /\ \A c \in Chunks : thread[c] # "started"
                              /\ result = P!Range(0, n)
        /\ pheap = "none" /\ pc = "returned" => P!SequentialResult

LoopInv == P!TypeOK /\ LoopPlaces /\ HandedOutChunks /\ Work

LEMMA LoopStart == P!Init => LoopInv
<1> SUFFICES ASSUME P!Init PROVE LoopInv
  OBVIOUS
<1> USE DEF P!Init
<1>1. P!TypeOK
  <2>1. P!NoArg \in [start : 0 .. MaxN, end : 0 .. MaxN, join : BOOLEAN, result : Seq(Nat)]
    BY LoopsAssumption DEF P!NoArg
  <2> QED
    BY <2>1, LoopsAssumption DEF P!TypeOK
<1>2. LoopPlaces
  BY DEF LoopPlaces
<1>3. HandedOutChunks
  BY LoopsAssumption DEF HandedOutChunks, HandedOut, Chunks
<1>4. Work
  BY DEF Work
<1> QED
  BY <1>1, <1>2, <1>3, <1>4 DEF LoopInv

LEMMA LoopReturnsAtOnce == ASSUME LoopInv, P!ReturnsAtOnce PROVE LoopInv'
<1> USE DEF P!ReturnsAtOnce
<1>1. P!TypeOK'
  BY DEF LoopInv, P!TypeOK
<1>2. LoopPlaces'
  BY DEF LoopInv, LoopPlaces
<1>3. HandedOutChunks'
  BY DEF LoopInv, HandedOutChunks, HandedOut, LoopPlaces
<1>4. P!SequentialResult'
  <2>1. n = 0 => 0 .. n - 1 = {}
    OBVIOUS
  <2>2. result = <<>> /\ \A k \in 0 .. n - 1 : runs[k] = 0
    BY DEF LoopInv, LoopPlaces, Work
  <2> QED
    BY <2>1, <2>2, Ranges DEF P!SequentialResult, P!Range
<1>5. Work'
  BY <1>4 DEF LoopInv, LoopPlaces, Work
<1> QED
  BY <1>1, <1>2, <1>3, <1>5 DEF LoopInv

LEMMA LoopRunsInline == ASSUME LoopInv, P!RunsInline PROVE LoopInv'
<1> USE DEF P!RunsInline
<1>0. n \in Nat /\ n > 0 /\ runs \in [0 .. n - 1 -> Nat] /\ pheap = "none" /\ off = 0
  BY LoopsAssumption DEF LoopInv, P!TypeOK, LoopPlaces
<1>1. runs' \in [0 .. n - 1 -> Nat] /\ \A k \in 0 .. n - 1 : runs'[k] = 1
  BY <1>0 DEF P!Executed, LoopInv, Work
<1>2. P!TypeOK'
  BY <1>0, <1>1, Ranges DEF LoopInv, P!TypeOK
<1>3. LoopPlaces'
  BY <1>0 DEF LoopInv, LoopPlaces
<1>4. HandedOutChunks'
  BY <1>0 DEF LoopInv, HandedOutChunks, HandedOut
<1>5. P!SequentialResult'
  BY <1>1 DEF P!SequentialResult, P!Range
<1>6. Work'
  BY <1>0, <1>5 DEF LoopInv, Work
<1> QED
  BY <1>2, <1>3, <1>4, <1>6 DEF LoopInv

LEMMA LoopBegins == ASSUME LoopInv, P!Begins PROVE LoopInv'
<1> USE DEF P!Begins
<1>0. /\ n \in Nat /\ n > 0 /\ num_threads \in 0 .. MaxThreads /\ num_threads > 0
      /\ pheap = "none" /\ off = 0 /\ i = 0
  BY LoopsAssumption DEF LoopInv, P!TypeOK, LoopPlaces
<1>1. num_threads' \in 1 .. n /\ num_threads' \in 0 .. MaxThreads
  BY <1>0, LoopsAssumption
<1>2. P!TypeOK'
  BY <1>1 DEF LoopInv, P!TypeOK
<1>3. Share(n, num_threads', 0) = 0
  <2>1. num_threads' \in Nat \ {0}
    BY <1>1
  <2> QED
    BY <1>0, <2>1, Shares
<1>4. LoopPlaces'
  BY <1>0, <1>1, <1>3 DEF LoopInv, LoopPlaces, Share
<1>5. HandedOutChunks'
  BY <1>0 DEF LoopInv, HandedOutChunks, HandedOut
<1>6. Work'
  BY <1>0 DEF LoopInv, Work
<1> QED
  BY <1>2, <1>4, <1>5, <1>6 DEF LoopInv

\* Handing out the next chunk, whoever runs it.
LEMMA SpawnIs ==
  ASSUME LoopInv, pc = "spawn", i < num_threads, P!Advance
  PROVE  /\ i \in Nat /\ i \in Chunks /\ n \in Nat /\ off \in Nat /\ off' \in 0 .. n /\ off <= off'
         /\ num_threads \in Nat /\ i' = i + 1 /\ off' = P!ChunkEnd /\ off' = Share(n, num_threads, i + 1)
         /\ n <= MaxN /\ i' \in 0 .. MaxThreads /\ off' \in 0 .. MaxN /\ off \in 0 .. MaxN
<1>1. /\ num_threads \in 1 .. n /\ n \in Nat /\ num_threads <= MaxThreads /\ MaxThreads \in Nat
      /\ i \in Nat /\ off \in 0 .. MaxN /\ off = Share(n, num_threads, i) /\ MaxN \in Nat /\ n <= MaxN
  BY LoopsAssumption DEF LoopInv, P!TypeOK, LoopPlaces
<1>2. num_threads \in Nat \ {0} /\ i \in 0 .. num_threads - 1 /\ i + 1 \in 0 .. num_threads
  BY <1>1
<1>3. /\ Share(n, num_threads, i + 1) = Share(n, num_threads, i) + n \div num_threads
                                          + (IF i < n % num_threads THEN 1 ELSE 0)
      /\ Share(n, num_threads, i) <= Share(n, num_threads, i + 1)
      /\ Share(n, num_threads, i + 1) \in 0 .. n
  BY <1>1, <1>2, Shares
<1>4. off' = P!ChunkEnd /\ i' = i + 1 /\ P!ChunkEnd = Share(n, num_threads, i + 1)
  BY <1>1, <1>3 DEF P!Advance, P!ChunkEnd
<1>5. off' \in 0 .. n /\ off <= off'
  BY <1>1, <1>3, <1>4
<1> QED
  BY <1>1, <1>2, <1>4, <1>5 DEF Chunks

LEMMA SpawnChunks ==
  ASSUME LoopInv, pc = "spawn", i < num_threads, P!Advance,
         UNCHANGED <<n, num_threads, pc, pheap>>,
         \A c \in Chunks : c # i => args'[c] = args[c] /\ thread'[c] = thread[c],
         args'[i].start = off, args'[i].end = off', args'[i].join <=> thread'[i] # "none",
         thread'[i] # "started" => args'[i].result = P!Range(off, off')
  PROVE  HandedOutChunks'
<1>0. /\ i \in Nat /\ i \in Chunks /\ off \in Nat /\ off' \in Nat /\ off <= off' /\ i' = i + 1
      /\ HandedOut = i /\ HandedOut' = i + 1
  BY SpawnIs DEF HandedOut
<1>1. HandedOutChunks
  BY DEF LoopInv
<1>2. 0 .. i - 1 \subseteq Chunks /\ \A c \in 0 .. i : c = i \/ c \in 0 .. i - 1
  BY <1>0, LoopsAssumption DEF Chunks
<1>3. \A c \in 0 .. i - 1 : /\ args'[c] = args[c] /\ thread'[c] = thread[c]
                            /\ args[c].end <= off /\ args[c].end \in Nat
  <2>1. \A c \in Chunks : args[c].end \in Nat
    BY LoopsAssumption DEF LoopInv, P!TypeOK, Chunks
  <2> QED
    BY <1>0, <1>1, <1>2, <2>1 DEF HandedOutChunks
<1>4. \A c \in Chunks : c >= i + 1 => thread'[c] = "none"
  <2>1. \A c \in Chunks : c >= i + 1 => c # i /\ c >= i
    BY <1>0 DEF Chunks
  <2> QED
    BY <1>0, <1>1, <2>1 DEF HandedOutChunks
<1>5. off = (IF i = 0 THEN 0 ELSE args[i - 1].end)
  <2>1. CASE i = 0
    <3>1. off = Share(n, num_threads, 0)
      BY <2>1 DEF LoopInv, LoopPlaces
    <3>2. num_threads \in Nat \ {0} /\ n \in Nat
      BY <2>1, SpawnIs
    <3> QED
      BY <2>1, <3>1, <3>2, Shares
  <2>2. CASE i # 0
    BY <1>0, <1>1, <2>2 DEF HandedOutChunks
  <2> QED
    BY <2>1, <2>2
<1>6. ASSUME NEW c \in 0 .. i
      PROVE  /\ args'[c].start = (IF c = 0 THEN 0 ELSE args'[c - 1].end)
             /\ args'[c].start <= args'[c].end /\ args'[c].end <= off'
             /\ args'[c].join <=> thread'[c] # "none"
             /\ thread'[c] # "started" => args'[c].result = P!Range(args'[c].start, args'[c].end)
  <2>1. CASE c = i
    <3>1. i # 0 => i - 1 \in 0 .. i - 1
      BY <1>0
    <3>2. i # 0 => args'[i - 1] = args[i - 1]
      BY <1>3, <3>1
    <3>3. args'[c].start = (IF c = 0 THEN 0 ELSE args'[c - 1].end)
      BY <1>5, <2>1, <3>2
    <3> QED
      BY <1>0, <2>1, <3>3
  <2>2. CASE c \in 0 .. i - 1
    <3>1. c # 0 => c - 1 \in 0 .. i - 1
      BY <1>0, <2>2
    <3>2. /\ args[c].start = (IF c = 0 THEN 0 ELSE args[c - 1].end)
          /\ args[c].start <= args[c].end /\ args[c].end <= off
          /\ args[c].join <=> thread[c] # "none"
          /\ thread[c] # "started" => args[c].result = P!Range(args[c].start, args[c].end)
      BY <1>0, <1>1, <2>2 DEF HandedOutChunks
    <3>3. args'[c] = args[c] /\ thread'[c] = thread[c] /\ (c # 0 => args'[c - 1] = args[c - 1])
      BY <1>3, <2>2, <3>1
    <3>4. args[c].end <= off'
      BY <1>0, <1>3, <2>2
    <3> QED
      BY <3>2, <3>3, <3>4
  <2> QED
    BY <1>2, <2>1, <2>2
<1>7. ASSUME NEW c \in 0 .. i, NEW d \in 0 .. i, c < d PROVE args'[c].end <= args'[d].start
  <2>1. c \in 0 .. i - 1
    BY <1>0, <1>7
  <2>2. CASE d = i
    BY <1>3, <2>1, <2>2
  <2>3. CASE d \in 0 .. i - 1
    BY <1>0, <1>1, <1>3, <1>7, <2>1, <2>3 DEF HandedOutChunks
  <2> QED
    BY <1>2, <2>2, <2>3
<1>8. (i + 1) - 1 = i /\ i + 1 > 0
  BY <1>0
<1> QED
  BY <1>0, <1>4, <1>6, <1>7, <1>8 DEF HandedOutChunks, P!Range

LEMMA SpawnPlaces ==
  ASSUME LoopInv, pc = "spawn", i < num_threads, P!Advance,
         UNCHANGED <<n, num_threads, pc, pheap, result>>
  PROVE  LoopPlaces'
<1>1. /\ i' <= num_threads /\ off' = Share(n, num_threads, i')
      /\ i \in Nat /\ num_threads \in Nat
  BY SpawnIs
<1>2. Share(n, num_threads, i)' = Share(n, num_threads, i')
  BY DEF Share
<1> QED
  BY <1>1, <1>2 DEF LoopInv, LoopPlaces

\* The indices of a chunk are below off, and those of two chunks differ.
LEMMA ChunksAre ==
  ASSUME LoopInv
  PROVE  /\ \A c \in Chunks : thread[c] = "started" =>
              /\ c \in 0 .. HandedOut - 1 /\ args[c].start \in Nat /\ args[c].end \in Nat
              /\ args[c].start <= args[c].end /\ args[c].end <= off
         /\ \A c, d \in Chunks : thread[c] = "started" /\ thread[d] = "started" /\ c # d =>
              args[c].end <= args[d].start \/ args[d].end <= args[c].start
<1>0. HandedOutChunks /\ HandedOut \in Nat
  BY LoopsAssumption DEF LoopInv, HandedOut, P!TypeOK
<1>1. \A c \in Chunks : thread[c] = "started" => c \in 0 .. HandedOut - 1
  BY <1>0, LoopsAssumption DEF HandedOutChunks, Chunks
<1>2. \A c \in Chunks : args[c].start \in Nat /\ args[c].end \in Nat
  BY LoopsAssumption DEF LoopInv, P!TypeOK, Chunks
<1>3. \A c, d \in 0 .. HandedOut - 1 : c # d => c < d \/ d < c
  BY <1>0
<1>4. \A c, d \in 0 .. HandedOut - 1 : c < d => args[c].end <= args[d].start
  BY <1>0 DEF HandedOutChunks
<1>5. \A c \in 0 .. HandedOut - 1 : args[c].start <= args[c].end /\ args[c].end <= off
  BY <1>0 DEF HandedOutChunks
<1> QED
  BY <1>1, <1>2, <1>3, <1>4, <1>5

LEMMA LoopSpawnOk == ASSUME LoopInv, P!SpawnOk PROVE LoopInv'
<1>0. /\ pc = "spawn" /\ i < num_threads /\ P!Advance
      /\ args' = [args EXCEPT ![i] = [start |-> off, end |-> P!ChunkEnd, join |-> TRUE, result |-> <<>>]]
      /\ thread' = [thread EXCEPT ![i] = "started"]
      /\ UNCHANGED <<fn, n, num_threads, pc, pheap, runs, result>>
  BY DEF P!SpawnOk
<1>1. /\ i \in Nat /\ i \in Chunks /\ n \in Nat /\ off \in Nat /\ off' \in 0 .. n /\ off <= off'
      /\ i' = i + 1 /\ off' = P!ChunkEnd
      /\ n <= MaxN /\ i' \in 0 .. MaxThreads /\ off' \in 0 .. MaxN /\ off \in 0 .. MaxN
  BY <1>0, SpawnIs
<1> DEFINE k == [start |-> off, end |-> off', join |-> TRUE, result |-> <<>>]
<1>2. /\ k \in [start : 0 .. MaxN, end : 0 .. MaxN, join : BOOLEAN, result : Seq(Nat)]
      /\ k.start = off /\ k.end = off' /\ k.join = TRUE
  BY <1>1
<1>3. args' = [args EXCEPT ![i] = k]
  BY <1>0, <1>1
<1> HIDE DEF k
<1>4. args \in [Chunks -> [start : 0 .. MaxN, end : 0 .. MaxN, join : BOOLEAN, result : Seq(Nat)]]
      /\ thread \in [Chunks -> {"none", "started", "finished"}]
  BY DEF LoopInv, P!TypeOK, Chunks
<1>5. /\ args' \in [Chunks -> [start : 0 .. MaxN, end : 0 .. MaxN, join : BOOLEAN, result : Seq(Nat)]]
      /\ thread' \in [Chunks -> {"none", "started", "finished"}]
      /\ args'[i] = k /\ thread'[i] = "started"
      /\ \A c \in Chunks : c # i => args'[c] = args[c] /\ thread'[c] = thread[c]
  BY <1>0, <1>1, <1>2, <1>3, <1>4
<1>6. P!TypeOK'
  BY <1>0, <1>1, <1>5 DEF LoopInv, P!TypeOK, Chunks
<1>7. LoopPlaces'
  BY <1>0, SpawnPlaces
<1>8. HandedOutChunks'
  BY <1>0, <1>2, <1>5, SpawnChunks
<1>9. Work'
  <2>1. pheap = "live"
    BY <1>0 DEF LoopInv, LoopPlaces
  <2>2. thread[i] = "none"
    BY <1>0, <1>1 DEF LoopInv, HandedOutChunks, HandedOut
  <2>3. \A j \in 0 .. n - 1 : Unfinished(j)' <=> Unfinished(j) \/ (off <= j /\ j < off')
    BY <1>1, <1>2, <1>5, <2>2 DEF Unfinished
  <2>4. \A j \in 0 .. n - 1 : runs[j] = (IF j < off' /\ ~Unfinished(j)' THEN 1 ELSE 0)
    BY <1>1, <2>1, <2>3 DEF LoopInv, Work
  <2> QED
    BY <1>0, <2>1, <2>4 DEF Work
<1> QED
  BY <1>6, <1>7, <1>8, <1>9 DEF LoopInv

LEMMA LoopSpawnFails == ASSUME LoopInv, P!SpawnFails PROVE LoopInv'
<1>0. /\ pc = "spawn" /\ i < num_threads /\ P!Advance
      /\ args' = [args EXCEPT ![i] = [start |-> off, end |-> P!ChunkEnd, join |-> FALSE,
                                      result |-> P!Range(off, P!ChunkEnd)]]
      /\ runs' = P!Executed(off, P!ChunkEnd)
      /\ UNCHANGED <<fn, n, num_threads, pc, thread, pheap, result>>
  BY DEF P!SpawnFails
<1>1. /\ i \in Nat /\ i \in Chunks /\ n \in Nat /\ off \in Nat /\ off' \in 0 .. n /\ off <= off'
      /\ i' = i + 1 /\ off' = P!ChunkEnd
      /\ n <= MaxN /\ i' \in 0 .. MaxThreads /\ off' \in 0 .. MaxN /\ off \in 0 .. MaxN
  BY <1>0, SpawnIs
<1> DEFINE k == [start |-> off, end |-> off', join |-> FALSE, result |-> P!Range(off, off')]
<1>2. /\ k \in [start : 0 .. MaxN, end : 0 .. MaxN, join : BOOLEAN, result : Seq(Nat)]
      /\ k.start = off /\ k.end = off' /\ k.join = FALSE /\ k.result = P!Range(off, off')
  <2>1. P!Range(off, off') \in Seq(Nat)
    BY <1>1, Ranges
  <2> QED
    BY <1>1, <2>1
<1>3. args' = [args EXCEPT ![i] = k]
  BY <1>0, <1>1
<1> HIDE DEF k
<1>4. args \in [Chunks -> [start : 0 .. MaxN, end : 0 .. MaxN, join : BOOLEAN, result : Seq(Nat)]]
      /\ runs \in [0 .. n - 1 -> Nat]
  BY DEF LoopInv, P!TypeOK, Chunks
<1>5. /\ args' \in [Chunks -> [start : 0 .. MaxN, end : 0 .. MaxN, join : BOOLEAN, result : Seq(Nat)]]
      /\ args'[i] = k /\ \A c \in Chunks : c # i => args'[c] = args[c]
  BY <1>1, <1>2, <1>3, <1>4
<1>6. /\ runs' \in [0 .. n - 1 -> Nat]
      /\ \A j \in 0 .. n - 1 : runs'[j] = (IF j >= off /\ j < off' THEN runs[j] + 1 ELSE runs[j])
  BY <1>0, <1>1, <1>4 DEF P!Executed
<1>7. P!TypeOK'
  BY <1>0, <1>1, <1>5, <1>6 DEF LoopInv, P!TypeOK, Chunks
<1>8. LoopPlaces'
  BY <1>0, SpawnPlaces
<1>9. thread[i] = "none"
  BY <1>0, <1>1 DEF LoopInv, HandedOutChunks, HandedOut
<1>10. HandedOutChunks'
  BY <1>0, <1>2, <1>5, <1>9, SpawnChunks
<1>11. Work'
  <2>1. pheap = "live"
    BY <1>0 DEF LoopInv, LoopPlaces
  <2>2. \A j \in 0 .. n - 1 : Unfinished(j)' <=> Unfinished(j)
    BY <1>0, <1>1, <1>5, <1>9 DEF Unfinished
  <2>3. \A j \in 0 .. n - 1 : j >= off => ~Unfinished(j)
    BY <1>1, ChunksAre DEF Unfinished
  <2>4. \A j \in 0 .. n - 1 : runs[j] = (IF j < off /\ ~Unfinished(j) THEN 1 ELSE 0)
    BY <2>1 DEF LoopInv, Work
  <2>5. \A j \in 0 .. n - 1 : runs'[j] = (IF j < off' /\ ~Unfinished(j)' THEN 1 ELSE 0)
    <3> SUFFICES ASSUME NEW j \in 0 .. n - 1
                 PROVE  runs'[j] = (IF j < off' /\ ~Unfinished(j)' THEN 1 ELSE 0)
      OBVIOUS
    <3>1. (Unfinished(j)' <=> Unfinished(j)) /\ (j >= off => ~Unfinished(j))
      BY <2>2, <2>3
    <3>2. CASE j >= off
      <4>1. runs[j] = 0 /\ ~Unfinished(j)'
        BY <1>1, <2>4, <3>1, <3>2
      <4> QED
        BY <1>1, <1>6, <3>2, <4>1
    <3>3. CASE j < off
      <4>1. runs'[j] = runs[j] /\ j < off'
        BY <1>1, <1>6, <3>3
      <4> QED
        BY <2>4, <3>1, <3>3, <4>1
    <3> QED
      BY <1>1, <3>2, <3>3
  <2> QED
    BY <1>0, <2>1, <2>5 DEF Work
<1> QED
  BY <1>7, <1>8, <1>10, <1>11 DEF LoopInv

LEMMA LoopWorker == ASSUME LoopInv, NEW w \in Chunks, P!Worker(w) PROVE LoopInv'
<1>0. /\ thread[w] = "started"
      /\ runs' = P!Executed(args[w].start, args[w].end)
      /\ args' = [args EXCEPT ![w].result = P!Range(args[w].start, args[w].end)]
      /\ thread' = [thread EXCEPT ![w] = "finished"]
      /\ UNCHANGED <<fn, n, num_threads, pc, i, off, pheap, result>>
  BY DEF P!Worker
<1>1. /\ n \in Nat /\ off \in Nat /\ runs \in [0 .. n - 1 -> Nat]
      /\ args \in [Chunks -> [start : 0 .. MaxN, end : 0 .. MaxN, join : BOOLEAN, result : Seq(Nat)]]
      /\ thread \in [Chunks -> {"none", "started", "finished"}]
  BY LoopsAssumption DEF LoopInv, P!TypeOK, Chunks
<1>2. /\ w \in 0 .. HandedOut - 1 /\ args[w].start \in Nat /\ args[w].end \in Nat
      /\ args[w].start <= args[w].end /\ args[w].end <= off
  BY <1>0, ChunksAre
<1>3. P!Range(args[w].start, args[w].end) \in Seq(Nat)
  BY <1>2, Ranges
<1>4. /\ args' \in [Chunks -> [start : 0 .. MaxN, end : 0 .. MaxN, join : BOOLEAN, result : Seq(Nat)]]
      /\ args'[w].result = P!Range(args[w].start, args[w].end)
      /\ \A c \in Chunks : /\ c # w => args'[c] = args[c]
                           /\ args'[c].start = args[c].start /\ args'[c].end = args[c].end
                           /\ args'[c].join = args[c].join
  BY <1>0, <1>1, <1>3
<1>5. /\ thread' \in [Chunks -> {"none", "started", "finished"}]
      /\ thread'[w] = "finished" /\ \A c \in Chunks : c # w => thread'[c] = thread[c]
  BY <1>0, <1>1
<1>6. /\ runs' \in [0 .. n - 1 -> Nat]
      /\ \A j \in 0 .. n - 1 :
           runs'[j] = (IF j >= args[w].start /\ j < args[w].end THEN runs[j] + 1 ELSE runs[j])
  BY <1>0, <1>1, <1>2 DEF P!Executed
<1>7. P!TypeOK'
  BY <1>0, <1>4, <1>5, <1>6 DEF LoopInv, P!TypeOK, Chunks
<1>8. LoopPlaces'
  BY <1>0 DEF LoopInv, LoopPlaces, Share
<1>9. HandedOut' = HandedOut /\ HandedOut \in Nat /\ 0 .. HandedOut - 1 \subseteq Chunks
  BY <1>0, LoopsAssumption DEF HandedOut, LoopInv, P!TypeOK, LoopPlaces, Chunks
<1>10. HandedOutChunks'
  <2>1. HandedOutChunks
    BY DEF LoopInv
  <2>2. \A c \in Chunks : c >= HandedOut => thread'[c] = "none"
    BY <1>2, <1>5, <1>9, <2>1 DEF HandedOutChunks, Chunks
  <2>3. ASSUME NEW c \in 0 .. HandedOut - 1
        PROVE  /\ args'[c].start = (IF c = 0 THEN 0 ELSE args'[c - 1].end)
               /\ args'[c].start <= args'[c].end /\ args'[c].end <= off
               /\ args'[c].join <=> thread'[c] # "none"
               /\ thread'[c] # "started" => args'[c].result = P!Range(args'[c].start, args'[c].end)
    <3>1. c \in Chunks /\ (c # 0 => c - 1 \in Chunks)
      BY <1>9, LoopsAssumption DEF Chunks
    <3>2. /\ args[c].start = (IF c = 0 THEN 0 ELSE args[c - 1].end)
          /\ args[c].start <= args[c].end /\ args[c].end <= off
          /\ args[c].join <=> thread[c] # "none"
          /\ thread[c] # "started" => args[c].result = P!Range(args[c].start, args[c].end)
      BY <2>1 DEF HandedOutChunks
    <3>3. args'[c].join <=> thread'[c] # "none"
      BY <1>0, <1>4, <1>5, <3>1, <3>2
    <3>4. thread'[c] # "started" => args'[c].result = P!Range(args'[c].start, args'[c].end)
      BY <1>4, <1>5, <3>1, <3>2
    <3> QED
      BY <1>4, <3>1, <3>2, <3>3, <3>4
  <2>4. HandedOut > 0 => args'[HandedOut - 1].end = off
    <3>1. HandedOut > 0 => HandedOut - 1 \in Chunks
      BY <1>9
    <3> QED
      BY <1>4, <2>1, <3>1 DEF HandedOutChunks
  <2>5. \A c, d \in 0 .. HandedOut - 1 : c < d => args'[c].end <= args'[d].start
    BY <1>4, <1>9, <2>1 DEF HandedOutChunks
  <2> QED
    BY <1>0, <1>9, <2>2, <2>3, <2>4, <2>5 DEF HandedOutChunks, P!Range
<1>11. Work'
  <2>1. pheap \in {"none", "live", "freed"} /\ HandedOut # 0
    BY <1>2, <1>9 DEF LoopInv, P!TypeOK
  <2>2. pheap # "none" /\ pc # "call"
    BY <2>1 DEF LoopInv, LoopPlaces, HandedOut
  <2>3. pheap # "freed"
    BY <1>0 DEF LoopInv, Work
  <2>4. ASSUME NEW j \in 0 .. n - 1
        PROVE  runs'[j] = (IF j < off /\ ~Unfinished(j)' THEN 1 ELSE 0)
    <3>1. runs[j] = (IF j < off /\ ~Unfinished(j) THEN 1 ELSE 0)
      BY <2>2 DEF LoopInv, Work
    <3>2. CASE j >= args[w].start /\ j < args[w].end
      <4>1. Unfinished(j)
        BY <1>0, <3>2 DEF Unfinished
      <4>2. ~Unfinished(j)'
        <5> SUFFICES ASSUME NEW c \in Chunks, thread'[c] = "started", args'[c].start <= j, j < args'[c].end
                     PROVE  FALSE
          BY DEF Unfinished
        <5>1. c # w /\ thread[c] = "started" /\ args[c].start <= j /\ j < args[c].end
          BY <1>4, <1>5
        <5> QED
          BY <1>0, <3>2, <5>1, ChunksAre
      <4>3. j < off
        BY <1>1, <1>2, <3>2
      <4> QED
        BY <1>6, <3>1, <3>2, <4>1, <4>2, <4>3
    <3>3. CASE ~(j >= args[w].start /\ j < args[w].end)
      <4>1. Unfinished(j)' <=> Unfinished(j)
        <5>1. Unfinished(j) => Unfinished(j)'
          <6> SUFFICES ASSUME NEW c \in Chunks, thread[c] = "started", args[c].start <= j, j < args[c].end
                       PROVE  Unfinished(j)'
            BY DEF Unfinished
          <6>1. c # w
            BY <3>3, <1>2
          <6> QED
            BY <1>4, <1>5, <6>1 DEF Unfinished
        <5>2. Unfinished(j)' => Unfinished(j)
          BY <1>4, <1>5 DEF Unfinished
        <5> QED
          BY <5>1, <5>2
      <4>2. runs'[j] = runs[j]
        BY <1>6, <3>3
      <4> QED
        BY <3>1, <4>1, <4>2
    <3> QED
      BY <3>2, <3>3
  <2>5. pc = "join" => \A c \in 0 .. i - 1 : thread'[c] # "started"
    <3>1. pc = "join" => 0 .. i - 1 \subseteq Chunks
      BY LoopsAssumption DEF LoopInv, P!TypeOK, Chunks, LoopPlaces
    <3> QED
      BY <1>5, <3>1 DEF LoopInv, Work
  <2>6. pc = "join" => Joined' = Joined
    <3>1. pc = "join" /\ i # 0 => i - 1 \in Chunks
      BY LoopsAssumption DEF LoopInv, P!TypeOK, Chunks, LoopPlaces
    <3> QED
      BY <1>0, <1>4, <3>1 DEF Joined
  <2>7. pc = "join" => result = P!Range(0, Joined)
    BY DEF LoopInv, Work
  <2> QED
    BY <1>0, <2>2, <2>3, <2>4, <2>5, <2>6, <2>7 DEF Work, P!Range
<1> QED
  BY <1>7, <1>8, <1>10, <1>11 DEF LoopInv

LEMMA LoopStartsJoining == ASSUME LoopInv, P!StartsJoining PROVE LoopInv'
<1>0. /\ pc = "spawn" /\ i = num_threads /\ pc' = "join" /\ i' = 0
      /\ UNCHANGED <<fn, n, num_threads, off, args, thread, pheap, runs, result>>
  BY DEF P!StartsJoining
<1>1. num_threads \in Nat \ {0} /\ n \in Nat /\ pheap = "live" /\ off = Share(n, num_threads, num_threads)
  BY <1>0, LoopsAssumption DEF LoopInv, LoopPlaces, P!TypeOK
<1>2. off = n
  BY <1>1, Shares
<1>3. P!TypeOK'
  BY <1>0, LoopsAssumption DEF LoopInv, P!TypeOK
<1>4. LoopPlaces'
  BY <1>0, <1>1, <1>2 DEF LoopInv, LoopPlaces
<1>5. HandedOut' = HandedOut
  BY <1>0, <1>1 DEF HandedOut
<1>6. HandedOutChunks'
  <2>1. HandedOutChunks
    BY DEF LoopInv
  <2>2. /\ \A c \in Chunks : c >= HandedOut' => thread'[c] = "none"
        /\ HandedOut' > 0 => args'[HandedOut' - 1].end = off'
        /\ \A c, d \in 0 .. HandedOut' - 1 : c < d => args'[c].end <= args'[d].start
    BY <1>0, <1>5, <2>1 DEF HandedOutChunks
  <2>3. \A c \in 0 .. HandedOut' - 1 :
          /\ args'[c].start = (IF c = 0 THEN 0 ELSE args'[c - 1].end)
          /\ args'[c].start <= args'[c].end /\ args'[c].end <= off'
          /\ args'[c].join <=> thread'[c] # "none"
    BY <1>0, <1>5, <2>1 DEF HandedOutChunks
  <2>4. \A c \in 0 .. HandedOut' - 1 :
          thread'[c] # "started" => args'[c].result = P!Range(args'[c].start, args'[c].end)
    BY <1>0, <1>5, <2>1 DEF HandedOutChunks
  <2> QED
    BY <2>2, <2>3, <2>4 DEF HandedOutChunks, P!Range, Chunks
<1>7. Work'
  <2>1. result = <<>> /\ Joined' = 0
    BY <1>0 DEF LoopInv, LoopPlaces, Joined
  <2>2. result' = P!Range(0, Joined')
    BY <1>0, <2>1, Ranges
  <2>3. \A j \in 0 .. n - 1 : Unfinished(j)' <=> Unfinished(j)
    BY <1>0 DEF Unfinished
  <2> QED
    BY <1>0, <1>1, <2>2, <2>3 DEF LoopInv, Work, P!Range
<1> QED
  BY <1>3, <1>4, <1>6, <1>7 DEF LoopInv

LEMMA LoopJoins == ASSUME LoopInv, P!Joins PROVE LoopInv'
<1>0. /\ pc = "join" /\ i < num_threads /\ (args[i].join => thread[i] = "finished")
      /\ result' = result \o args[i].result /\ i' = i + 1
      /\ UNCHANGED <<fn, n, num_threads, pc, off, args, thread, pheap, runs>>
  BY DEF P!Joins
<1>1. pheap = "live" /\ pc = "join" /\ HandedOut = num_threads /\ HandedOut' = num_threads
  BY <1>0 DEF LoopInv, LoopPlaces, HandedOut
<1>2. /\ i \in Nat /\ num_threads \in Nat /\ num_threads <= MaxThreads /\ MaxThreads \in Nat
      /\ i \in 0 .. num_threads - 1 /\ i \in Chunks /\ (i + 1) - 1 = i /\ i + 1 # 0
  BY <1>0, LoopsAssumption DEF LoopInv, P!TypeOK, Chunks
<1>3. /\ args[i].start = (IF i = 0 THEN 0 ELSE args[i - 1].end) /\ args[i].start <= args[i].end
      /\ args[i].join <=> thread[i] # "none"
      /\ thread[i] # "started" => args[i].result = P!Range(args[i].start, args[i].end)
  BY <1>1, <1>2 DEF LoopInv, HandedOutChunks
<1>4. thread[i] # "started"
  BY <1>0, <1>3
<1>5. Joined = args[i].start /\ Joined' = args[i].end
  BY <1>0, <1>2, <1>3 DEF Joined
<1>6. args[i].start \in Nat /\ args[i].end \in Nat
  BY <1>2, LoopsAssumption DEF LoopInv, P!TypeOK, Chunks
<1>7. result' = P!Range(0, args[i].end)
  <2>1. result = P!Range(0, args[i].start)
    BY <1>0, <1>5 DEF LoopInv, Work
  <2> QED
    BY <1>0, <1>3, <1>4, <1>6, <2>1, Ranges
<1>8. result' \in Seq(Nat)
  BY <1>6, <1>7, Ranges
<1>9. P!TypeOK'
  <2>1. i' \in 0 .. MaxThreads
    BY <1>0, <1>2
  <2>2. UNCHANGED <<fn, n, num_threads, pc, off, args, thread, pheap, runs>>
    BY <1>0
  <2> QED
    BY <1>8, <2>1, <2>2 DEF LoopInv, P!TypeOK
<1>10. LoopPlaces'
  BY <1>0, <1>1, <1>2 DEF LoopInv, LoopPlaces
<1>11. HandedOutChunks'
  BY <1>0, <1>1 DEF LoopInv, HandedOutChunks, P!Range
<1>12. Work'
  <2>1. \A c \in 0 .. (i + 1) - 1 : thread[c] # "started"
    <3>1. \A c \in 0 .. (i + 1) - 1 : c = i \/ c \in 0 .. i - 1
      BY <1>2
    <3> QED
      BY <1>0, <1>4, <3>1 DEF LoopInv, Work
  <2>2. \A j \in 0 .. n - 1 : Unfinished(j)' <=> Unfinished(j)
    BY <1>0 DEF Unfinished
  <2>3. result' = P!Range(0, Joined')
    BY <1>5, <1>7
  <2> QED
    BY <1>0, <1>1, <2>1, <2>2, <2>3 DEF LoopInv, Work, P!Range
<1> QED
  BY <1>9, <1>10, <1>11, <1>12 DEF LoopInv

LEMMA LoopReturns == ASSUME LoopInv, P!Returns PROVE LoopInv'
<1>0. /\ pc = "join" /\ i = num_threads /\ pheap' = "freed" /\ pc' = "returned"
      /\ UNCHANGED <<fn, n, num_threads, i, off, args, thread, runs, result>>
  BY DEF P!Returns
<1>1. pheap = "live" /\ HandedOut = num_threads /\ HandedOut' = num_threads /\ off = n
      /\ num_threads \in Nat \ {0} /\ n \in Nat \ {0}
  BY <1>0, LoopsAssumption DEF LoopInv, LoopPlaces, HandedOut, P!TypeOK
<1>2. P!TypeOK'
  BY <1>0 DEF LoopInv, P!TypeOK
<1>3. LoopPlaces'
  BY <1>0, <1>1 DEF LoopInv, LoopPlaces
<1>4. HandedOutChunks'
  BY <1>0, <1>1 DEF LoopInv, HandedOutChunks, P!Range
<1>5. \A c \in Chunks : thread[c] # "started"
  <2>1. \A c \in Chunks : c >= num_threads \/ c \in 0 .. i - 1
    BY <1>0, <1>1, LoopsAssumption DEF Chunks
  <2> QED
    BY <1>0, <1>1, <2>1 DEF LoopInv, HandedOutChunks, Work
<1>6. result = P!Range(0, n)
  <2>1. Joined = n
    BY <1>0, <1>1 DEF LoopInv, HandedOutChunks, Joined
  <2> QED
    BY <1>0, <2>1 DEF LoopInv, Work
<1>7. Work'
  <2>1. \A j \in 0 .. n - 1 : Unfinished(j)' <=> Unfinished(j)
    BY <1>0 DEF Unfinished
  <2> QED
    BY <1>0, <1>1, <1>5, <1>6, <2>1 DEF LoopInv, Work, P!Range
<1> QED
  BY <1>2, <1>3, <1>4, <1>7 DEF LoopInv

LEMMA LoopStutter == ASSUME LoopInv, UNCHANGED ParallelVars PROVE LoopInv'
<1> USE DEF ParallelVars
<1>1. P!TypeOK'
  BY DEF LoopInv, P!TypeOK
<1>2. LoopPlaces'
  BY DEF LoopInv, LoopPlaces, Share
<1>3. HandedOut' = HandedOut
  BY DEF HandedOut
<1>4. HandedOutChunks'
  BY <1>3 DEF LoopInv, HandedOutChunks, P!Range
<1>5. \A j \in 0 .. n - 1 : Unfinished(j)' <=> Unfinished(j)
  BY DEF Unfinished
<1>6. Joined' = Joined /\ (P!SequentialResult' <=> P!SequentialResult)
  BY DEF Joined, P!SequentialResult, P!Range
<1>7. Work'
  BY <1>5, <1>6 DEF LoopInv, Work, P!Range
<1> QED
  BY <1>1, <1>2, <1>4, <1>7 DEF LoopInv

LEMMA LoopNext == ASSUME LoopInv, [P!Next]_P!vars PROVE LoopInv'
<1>1. \A c \in DOMAIN thread : P!Worker(c) => LoopInv'
  <2>1. DOMAIN thread = Chunks
    BY DEF LoopInv, P!TypeOK, Chunks
  <2> QED
    BY <2>1, LoopWorker
<1>2. UNCHANGED P!vars => LoopInv'
  BY LoopStutter DEF P!vars, ParallelVars
<1>3. P!Caller => LoopInv'
  BY LoopReturnsAtOnce, LoopRunsInline, LoopBegins, LoopSpawnOk, LoopSpawnFails,
     LoopStartsJoining, LoopJoins, LoopReturns DEF P!Caller
<1> QED
  BY <1>1, <1>2, <1>3 DEF P!Next, P!Terminated

LEMMA LoopInvSequential == LoopInv => ParallelIsSequential
<1> SUFFICES ASSUME LoopInv PROVE P!SequentialResult /\ P!ArgsOutliveThreads
  BY DEF ParallelIsSequential, P!ParallelIsSequential
<1>1. P!ArgsOutliveThreads
  <2>1. DOMAIN thread = Chunks
    BY DEF LoopInv, P!TypeOK, Chunks
  <2> QED
    BY <2>1 DEF LoopInv, Work, P!ArgsOutliveThreads
<1>2. P!SequentialResult
  <2>1. CASE pc # "returned"
    BY <2>1 DEF P!SequentialResult
  <2>2. CASE pc = "returned" /\ pheap = "none"
    BY <2>2 DEF LoopInv, Work
  <2>3. CASE pc = "returned" /\ pheap # "none"
    <3>1. pheap = "freed" /\ off = n /\ num_threads # 0
      BY <2>3, LoopsAssumption DEF LoopInv, P!TypeOK, LoopPlaces
    <3>2. \A j \in 0 .. n - 1 : ~Unfinished(j) /\ j < off
      BY <3>1, LoopsAssumption DEF LoopInv, Work, Unfinished, P!TypeOK
    <3>3. \A j \in 0 .. n - 1 : runs[j] = 1
      BY <3>1, <3>2 DEF LoopInv, Work
    <3> QED
      BY <3>1, <3>3 DEF P!SequentialResult, LoopInv, Work
  <2> QED
    BY <2>1, <2>2, <2>3
<1> QED
  BY <1>1, <1>2

(***************************************************************************)
(* parallel.c, for any number of iterations and of threads, whichever      *)
(* allocations and thread creations fail and however the threads           *)
(* interleave: when parallel_for or parallel_reduce returns, every index   *)
(* was processed exactly once, parallel_reduce has combined the partial    *)
(* results in order, and args[] is freed only when no thread needs it.     *)
(***************************************************************************)
THEOREM Sequential == P!Spec => []ParallelIsSequential
<1>1. P!Init => LoopInv
  BY LoopStart
<1>2. LoopInv /\ [P!Next]_P!vars => LoopInv'
  BY LoopNext
<1>3. LoopInv => ParallelIsSequential
  BY LoopInvSequential
<1> QED
  BY <1>1, <1>2, <1>3, PTL DEF P!Spec

-----------------------------------------------------------------------------
(* Pipeline: the items *)

Items == PRODUCERS * ITEMS_PER_PRODUCER

\* The items of one producer arrive in order; they are the first of its items.
Ordered(s) == \A k, l \in 1 .. Len(s) : k < l /\ s[k].producer_id = s[l].producer_id
                                          => s[k].value < s[l].value
FirstOf(s, upto) ==
    /\ \A k \in 1 .. Len(s) : s[k].value <= upto[s[k].producer_id]
    /\ \A p \in L!Producers : \A v \in 1 .. upto[p] :
         \E k \in 1 .. Len(s) : s[k].producer_id = p /\ s[k].value = v

LEMMA ItemIs == \A e \in L!WorkItems : /\ e.producer_id \in L!Producers
                                       /\ e.value \in Nat /\ e.value \in 1 .. ITEMS_PER_PRODUCER
BY PipelineAssumption DEF L!WorkItems

LEMMA ItemsCount == IsFiniteSet(L!WorkItems) /\ Cardinality(L!WorkItems) = Items
<1> DEFINE I == 1 .. ITEMS_PER_PRODUCER
           X == L!Producers \X I
           f == [x \in X |-> [producer_id |-> x[1], value |-> x[2]]]
<1>1. /\ IsFiniteSet(L!Producers) /\ Cardinality(L!Producers) = PRODUCERS
      /\ IsFiniteSet(I) /\ Cardinality(I) = ITEMS_PER_PRODUCER
  <2>1. PRODUCERS \in Nat /\ PRODUCERS - 1 \in Int /\ ITEMS_PER_PRODUCER \in Int /\ ITEMS_PER_PRODUCER \in Nat
    BY PipelineAssumption
  <2>2. /\ IsFiniteSet(0 .. PRODUCERS - 1)
        /\ Cardinality(0 .. PRODUCERS - 1) = IF 0 > PRODUCERS - 1 THEN 0 ELSE PRODUCERS - 1 - 0 + 1
        /\ IsFiniteSet(I)
        /\ Cardinality(I) = IF 1 > ITEMS_PER_PRODUCER THEN 0 ELSE ITEMS_PER_PRODUCER - 1 + 1
    BY <2>1, FS_Interval
  <2> QED
    BY <2>1, <2>2 DEF L!Producers
<1>2. IsFiniteSet(X) /\ Cardinality(X) = PRODUCERS * ITEMS_PER_PRODUCER
  <2> HIDE DEF I
  <2> QED
    BY <1>1, FS_Product
<1>3. f \in Bijection(X, L!WorkItems)
  <2>1. f \in [X -> L!WorkItems]
    BY DEF L!WorkItems
  <2>2. \A x, y \in X : f[x] = f[y] => x = y
    <3> SUFFICES ASSUME NEW x \in X, NEW y \in X, f[x] = f[y] PROVE x = y
      OBVIOUS
    <3>1. f[x].producer_id = x[1] /\ f[x].value = x[2] /\ f[y].producer_id = y[1] /\ f[y].value = y[2]
      OBVIOUS
    <3>2. x = <<x[1], x[2]>> /\ y = <<y[1], y[2]>>
      OBVIOUS
    <3> QED
      BY <3>1, <3>2
  <2>3. \A e \in L!WorkItems : \E x \in X : f[x] = e
    <3> SUFFICES ASSUME NEW e \in L!WorkItems PROVE \E x \in X : f[x] = e
      OBVIOUS
    <3>1. e = [producer_id |-> e.producer_id, value |-> e.value] /\ <<e.producer_id, e.value>> \in X
      BY DEF L!WorkItems
    <3>2. f[<<e.producer_id, e.value>>] = e
      BY <3>1
    <3> QED
      BY <3>1, <3>2
  <2> HIDE DEF f, X
  <2> QED
    BY <2>1, <2>2, <2>3 DEF Bijection, Injection, IsInjective, Surjection
<1>4. ExistsBijection(X, L!WorkItems)
  BY <1>3 DEF ExistsBijection
<1> HIDE DEF X, f
<1> QED
  BY <1>2, <1>4, FS_Bijection DEF Items

\* There are no more than all items, and Items of them are all.
LEMMA AllItems ==
  ASSUME NEW s \in Seq(L!WorkItems), Ordered(s)
  PROVE  /\ Len(s) <= Items
         /\ Len(s) = Items => {s[k] : k \in 1 .. Len(s)} = L!WorkItems
<1>1. Len(s) \in Nat /\ s \in [1 .. Len(s) -> L!WorkItems]
  OBVIOUS
<1>2. ASSUME NEW k \in 1 .. Len(s), NEW l \in 1 .. Len(s), s[k] = s[l] PROVE k = l
  <2>1. s[k] \in L!WorkItems /\ s[k].value \in Nat
    BY ItemIs
  <2>2. ~(k < l) /\ ~(l < k)
    BY <1>2, <2>1 DEF Ordered
  <2> QED
    BY <1>1, <2>2
<1>3. s \in Injection(1 .. Len(s), L!WorkItems)
  BY <1>1, <1>2 DEF Injection, IsInjective
<1>4. Cardinality(1 .. Len(s)) = Len(s)
  BY <1>1, FS_Interval
<1>5. /\ Len(s) <= Cardinality(L!WorkItems)
      /\ Len(s) = Cardinality(L!WorkItems) => s \in Surjection(1 .. Len(s), L!WorkItems)
  BY <1>3, <1>4, ItemsCount, FS_Injection
<1>6. s \in Surjection(1 .. Len(s), L!WorkItems) => {s[k] : k \in 1 .. Len(s)} = L!WorkItems
  BY <1>1 DEF Surjection
<1> QED
  BY <1>5, <1>6, ItemsCount

LEMMA PushItem ==
  ASSUME NEW s \in Seq(L!WorkItems), NEW e \in L!WorkItems, Ordered(s),
         NEW u \in [L!Producers -> 0 .. ITEMS_PER_PRODUCER], NEW w, FirstOf(s, u),
         e.value = u[e.producer_id] + 1, w = [u EXCEPT ![e.producer_id] = @ + 1]
  PROVE  Ordered(Append(s, e)) /\ FirstOf(Append(s, e), w)
<1> DEFINE t == Append(s, e)
           p == e.producer_id
<1>1. /\ Len(s) \in Nat /\ t \in Seq(L!WorkItems) /\ Len(t) = Len(s) + 1 /\ t[Len(s) + 1] = e
      /\ \A k \in 1 .. Len(s) : t[k] = s[k]
      /\ \A k \in 1 .. Len(t) : k \in 1 .. Len(s) \/ k = Len(s) + 1
  OBVIOUS
<1>2. p \in L!Producers /\ w[p] = u[p] + 1 /\ \A q \in L!Producers : q # p => w[q] = u[q]
  BY ItemIs
<1>3. \A q \in L!Producers : u[q] \in Nat /\ w[q] \in Nat /\ u[q] <= w[q]
  BY <1>2, PipelineAssumption
<1>4. \A k \in 1 .. Len(s) : s[k].producer_id \in L!Producers /\ s[k].value \in Nat
  BY ItemIs
<1> HIDE DEF t, p
<1>5. Ordered(t)
  <2> SUFFICES ASSUME NEW k \in 1 .. Len(t), NEW l \in 1 .. Len(t), k < l,
                      t[k].producer_id = t[l].producer_id
               PROVE  t[k].value < t[l].value
    BY DEF Ordered
  <2>1. k \in 1 .. Len(s)
    BY <1>1
  <2>2. CASE l \in 1 .. Len(s)
    BY <1>1, <2>1, <2>2 DEF Ordered
  <2>3. CASE l = Len(s) + 1
    <3>1. s[k].producer_id = p /\ s[k].value <= u[p]
      BY <1>1, <2>1, <2>3 DEF FirstOf, p
    <3>2. t[l].value = u[p] + 1 /\ t[k].value = s[k].value
      BY <1>1, <2>1, <2>3 DEF p
    <3> QED
      BY <1>2, <1>3, <1>4, <2>1, <3>1, <3>2
  <2> QED
    BY <1>1, <2>2, <2>3
<1>6. \A k \in 1 .. Len(t) : t[k].value <= w[t[k].producer_id]
  <2> SUFFICES ASSUME NEW k \in 1 .. Len(t) PROVE t[k].value <= w[t[k].producer_id]
    OBVIOUS
  <2>1. CASE k \in 1 .. Len(s)
    <3>1. s[k].value <= u[s[k].producer_id]
      BY <2>1 DEF FirstOf
    <3> QED
      BY <1>1, <1>3, <1>4, <2>1, <3>1
  <2>2. CASE k = Len(s) + 1
    BY <1>1, <1>2, <1>3, <2>2 DEF p
  <2> QED
    BY <1>1, <2>1, <2>2
<1>7. ASSUME NEW q \in L!Producers, NEW v \in 1 .. w[q]
      PROVE  \E k \in 1 .. Len(t) : t[k].producer_id = q /\ t[k].value = v
  <2>1. CASE v \in 1 .. u[q]
    <3>1. PICK k \in 1 .. Len(s) : s[k].producer_id = q /\ s[k].value = v
      BY <2>1 DEF FirstOf
    <3> QED
      BY <1>1, <3>1
  <2>2. CASE v \notin 1 .. u[q]
    <3>1. q = p /\ v = u[p] + 1
      BY <1>2, <1>3, <2>2
    <3> QED
      BY <1>1, <3>1 DEF p
  <2> QED
    BY <2>1, <2>2
<1> QED
  BY <1>5, <1>6, <1>7 DEF FirstOf, t

\* An element that is pushed or popped keeps its place in the order of arrival.
LEMMA Arrives ==
  ASSUME NEW s \in Seq(L!WorkItems), NEW t \in Seq(L!WorkItems)
  PROVE  /\ s \o t \in Seq(L!WorkItems)
         /\ \A e \in L!WorkItems : s \o Append(t, e) = Append(s \o t, e)
         /\ t # <<>> => Append(s, Head(t)) \o Tail(t) = s \o t
<1>1. s \o t \in Seq(L!WorkItems)
  OBVIOUS
<1>2. ASSUME NEW e \in L!WorkItems PROVE s \o Append(t, e) = Append(s \o t, e)
  <2>1. <<e>> \in Seq(L!WorkItems)
    OBVIOUS
  <2>2. Append(t, e) = t \o <<e>> /\ Append(s \o t, e) = (s \o t) \o <<e>>
    BY <1>1, AppendIsConcat
  <2>3. (s \o t) \o <<e>> = s \o (t \o <<e>>)
    BY <2>1, ConcatAssociative
  <2> QED
    BY <2>2, <2>3
<1>3. ASSUME t # <<>> PROVE Append(s, Head(t)) \o Tail(t) = s \o t
  <2> DEFINE h == Head(t)
             r == Tail(t)
  <2>0. h \in L!WorkItems /\ r \in Seq(L!WorkItems) /\ <<h>> \in Seq(L!WorkItems) /\ Len(t) # 0
    BY <1>3, HeadTailProperties, EmptySeq
  <2>1. h \in L!WorkItems /\ r \in Seq(L!WorkItems) /\ t = <<h>> \o r /\ <<h>> \in Seq(L!WorkItems)
    <3> DEFINE c == <<h>> \o r
    <3>1. /\ c \in Seq(L!WorkItems) /\ Len(t) \in Nat /\ Len(r) = Len(t) - 1 /\ Len(c) = Len(t)
          /\ \A k \in 1 .. Len(r) : r[k] = t[k + 1]
          /\ \A k \in 1 .. Len(c) : c[k] = IF k = 1 THEN h ELSE r[k - 1]
      BY <2>0
    <3>2. \A k \in 1 .. Len(t) : c[k] = t[k]
      BY <3>1
    <3> HIDE DEF c
    <3>3. c = t
      BY <3>1, <3>2, SeqEqual
    <3> QED
      BY <2>0, <3>3 DEF c
  <2> HIDE DEF h, r
  <2>2. Append(s, h) = s \o <<h>>
    BY <2>1, AppendIsConcat
  <2>3. (s \o <<h>>) \o r = s \o (<<h>> \o r)
    BY <2>1, ConcatAssociative
  <2> QED
    BY <2>1, <2>2, <2>3 DEF h, r
<1> QED
  BY <1>1, <1>2, <1>3


-----------------------------------------------------------------------------
(* Pipeline: the inductive invariant *)

Running == {"create", "pop", "consume", "join"}
Callers == L!Producers \cup {Main}

PipeTypes ==
    /\ open \in BOOLEAN /\ closed \in BOOLEAN
    /\ queue \in Seq(L!WorkItems) /\ got \in Seq(L!WorkItems)
    /\ made \in 0 .. PRODUCERS
    /\ mpc \in Running \cup {"init", "destroy", "exit"}
    /\ ppc \in [L!Producers -> {"unborn", "loop", "push", "ended", "killed"}]
    /\ sent \in [L!Producers -> 0 .. ITEMS_PER_PRODUCER]
    /\ call = [t \in Callers |-> call[t]]
    /\ ret = [t \in Callers |-> ret[t]]

\* The main thread against the queue and the producers.
PipePlaces ==
    /\ mpc = "init" => /\ got = <<>> /\ queue = <<>>
                       /\ \A p \in L!Producers : sent[p] = 0
    /\ mpc \in Running => open /\ ~closed
    /\ mpc \in {"join", "destroy"} => ~L!Consumes
    /\ mpc = "join" => \A p \in L!Producers : p < made => ppc[p] = "ended"
    /\ mpc = "destroy" => \A p \in L!Producers : ppc[p] = "ended"
    /\ \A p \in L!Producers : ppc[p] \in {"loop", "push"} => mpc \in Running

\* A producer inside bq_push pushes its next item.
PipeCalls == \A p \in L!Producers :
    ppc[p] = "push" => /\ sent[p] < ITEMS_PER_PRODUCER
                       /\ call[p] = L!F!PushOf([producer_id |-> p, value |-> sent[p] + 1])

PipeStream == Ordered(got \o queue) /\ FirstOf(got \o queue, sent)

PipeInv == PipeTypes /\ PipePlaces /\ PipeCalls /\ PipeStream

\* When main has all items it expects, they are all there are.
LEMMA Complete ==
  ASSUME PipeTypes, PipeStream, ~L!Consumes
  PROVE  /\ queue = <<>>
         /\ {got[k] : k \in DOMAIN got} = L!WorkItems
         /\ Len(got) = Items
<1> DEFINE s == got \o queue
<1>1. /\ s \in Seq(L!WorkItems) /\ Len(s) = Len(got) + Len(queue)
      /\ Len(got) \in Nat /\ Len(queue) \in Nat /\ DOMAIN got = 1 .. Len(got)
  BY DEF PipeTypes
<1>2. Items \in Nat /\ ~(Len(got) < Items)
  BY PipelineAssumption DEF L!Consumes, Items
<1>3. Ordered(s)
  BY DEF PipeStream
<1> HIDE DEF s
<1>4. Len(s) <= Items /\ (Len(s) = Items => {s[k] : k \in 1 .. Len(s)} = L!WorkItems)
  BY <1>1, <1>3, AllItems
<1>5. Len(queue) = 0 /\ Len(got) = Items /\ Len(s) = Items
  BY <1>1, <1>2, <1>4
<1>6. queue = <<>>
  BY <1>5, EmptySeq DEF PipeTypes
<1>7. s = got
  BY <1>6, ConcatEmptySeq DEF s, PipeTypes
<1> QED
  BY <1>1, <1>4, <1>5, <1>6, <1>7, ItemsCount

LEMMA PipeStart ==
  ASSUME L!Init
  PROVE  PipeInv
<1>1. /\ got = <<>> /\ queue = <<>> /\ mpc = "init" /\ made = 0 /\ open = FALSE /\ closed = FALSE
      /\ ppc = [p \in L!Producers |-> "unborn"] /\ sent = [p \in L!Producers |-> 0]
      /\ call = [t \in Callers |-> L!F!Idle] /\ ret = [t \in Callers |-> L!F!Result("ERR_OK", NULL)]
  BY DEF L!Init, L!F!Init, Callers
<1>2. got \o queue = <<>>
  BY <1>1
<1>3. Len(<<>>) = 0 /\ 1 .. Len(<<>>) = {} /\ 1 .. 0 = {}
  OBVIOUS
<1>4. Ordered(<<>>)
  BY <1>3 DEF Ordered
<1>5. FirstOf(<<>>, sent)
  BY <1>1, <1>3 DEF FirstOf
<1>6. PipeTypes
  <2>1. call = [t \in Callers |-> call[t]]
    BY <1>1
  <2>2. ret = [t \in Callers |-> ret[t]]
    BY <1>1
  <2>3. made \in 0 .. PRODUCERS /\ sent \in [L!Producers -> 0 .. ITEMS_PER_PRODUCER]
    BY <1>1, PipelineAssumption
  <2>4. queue \in Seq(L!WorkItems) /\ got \in Seq(L!WorkItems)
    BY <1>1
  <2>5. /\ ppc \in [L!Producers -> {"unborn", "loop", "push", "ended", "killed"}]
        /\ mpc \in Running \cup {"init", "destroy", "exit"}
        /\ open \in BOOLEAN /\ closed \in BOOLEAN
    BY <1>1
  <2> QED
    BY <2>1, <2>2, <2>3, <2>4, <2>5 DEF PipeTypes
<1>7. PipePlaces /\ PipeCalls
  BY <1>1 DEF PipePlaces, PipeCalls, Running
<1> QED
  BY <1>2, <1>4, <1>5, <1>6, <1>7 DEF PipeInv, PipeStream


\* A step that leaves what was pushed and what was sent alone leaves the stream.
LEMMA SameStream ==
  ASSUME PipeStream, got' \o queue' = got \o queue, sent' = sent
  PROVE  PipeStream'
<1>1. Ordered(got \o queue) /\ FirstOf(got \o queue, sent)
  BY DEF PipeStream
<1>2. Ordered(got' \o queue') /\ FirstOf(got' \o queue', sent')
  BY <1>1
<1> QED
  BY <1>2 DEF PipeStream, Ordered, FirstOf

\* The steps of the main thread that leave the queue and the producers alone.
LEMMA MainMoves ==
  ASSUME PipeInv, L!CreateThread \/ L!CreateFails \/ L!MainPop \/ L!MainJoins \/ L!JoinThread
  PROVE  PipeInv'
<1>1. /\ UNCHANGED <<open, queue, closed, ret, got, sent>>
      /\ mpc \in Running /\ mpc' \in Running \cup {"exit"}
      /\ call' = call \/ call' = [call EXCEPT ![Main] = L!F!PopCall]
  BY DEF L!CreateThread, L!CreateFails, L!MainPop, L!MainJoins, L!JoinThread, L!MainAt, Running
<1>2. PipeStream'
  BY <1>1, SameStream DEF PipeInv
<1>3. call' = [t \in Callers |-> call'[t]] /\ \A p \in L!Producers : call'[p] = call[p]
  <2>1. Main \in Callers /\ \A p \in L!Producers : p # Main /\ p \in Callers
    BY PipelineAssumption DEF L!Producers, Callers
  <2> QED
    BY <1>1, <2>1 DEF PipeInv, PipeTypes
<1>4. made' \in 0 .. PRODUCERS
  BY PipelineAssumption DEF PipeInv, PipeTypes, L!CreateThread, L!CreateFails, L!MainPop, L!MainJoins, L!JoinThread
<1>5. /\ ppc' \in [L!Producers -> {"unborn", "loop", "push", "ended", "killed"}]
      /\ \A p \in L!Producers : ppc'[p] = ppc[p] \/ ppc'[p] = "loop" \/ ppc'[p] = "killed"
  BY DEF PipeInv, PipeTypes, L!CreateThread, L!CreateFails, L!MainPop, L!MainJoins, L!JoinThread
<1>6. PipeTypes'
  <2>1. ret' = [t \in Callers |-> ret'[t]]
    BY <1>1 DEF PipeInv, PipeTypes
  <2>2. (open \in BOOLEAN)' /\ (closed \in BOOLEAN)'
    BY <1>1 DEF PipeInv, PipeTypes
  <2>3. (queue \in Seq(L!WorkItems))' /\ (got \in Seq(L!WorkItems))' /\ (sent \in [L!Producers -> 0 .. ITEMS_PER_PRODUCER])'
    BY <1>1 DEF PipeInv, PipeTypes, L!WorkItems, L!Producers
  <2>4. (mpc \in Running \cup {"init", "destroy", "exit"})'
    BY <1>1 DEF Running
  <2> QED
    BY <1>3, <1>4, <1>5, <2>1, <2>2, <2>3, <2>4 DEF PipeTypes
<1>7. PipeCalls'
  BY <1>1, <1>3, <1>5 DEF PipeInv, PipeCalls
<1>8. PipePlaces'
  <2>1. (mpc \in Running => open /\ ~closed)' /\ mpc' # "init" /\ mpc' # "destroy"
    BY <1>1 DEF PipeInv, PipePlaces, Running
  <2>2. mpc' = "join" => ~L!Consumes'
    BY <1>1 DEF PipeInv, PipePlaces, L!CreateThread, L!CreateFails, L!MainPop, L!MainJoins, L!JoinThread,
                L!MainAt, L!Consumes, Running
  <2>3. mpc' = "join" => \A p \in L!Producers : p < made' => ppc'[p] = "ended"
    <3> SUFFICES ASSUME mpc' = "join", NEW p \in L!Producers, p < made' PROVE ppc'[p] = "ended"
      OBVIOUS
    <3>0. p \in Nat /\ made \in Nat
      BY PipelineAssumption DEF PipeInv, PipeTypes, L!Producers
    <3>1. CASE L!MainJoins
      BY <3>0, <3>1 DEF L!MainJoins
    <3>2. CASE L!JoinThread
      <4>1. mpc = "join" /\ made' = made + 1 /\ ppc[made] = "ended" /\ ppc' = ppc
        BY <3>2 DEF L!JoinThread, L!MainAt
      <4>2. p = made \/ p < made
        BY <3>0, <4>1
      <4> QED
        BY <4>1, <4>2 DEF PipeInv, PipePlaces
    <3>3. L!MainJoins \/ L!JoinThread
      BY DEF L!CreateThread, L!CreateFails, L!MainPop, L!MainAt
    <3> QED
      BY <3>1, <3>2, <3>3
  <2>4. ASSUME NEW p \in L!Producers, ppc'[p] \in {"loop", "push"} PROVE mpc' \in Running
    BY <1>1, <2>4 DEF L!CreateThread, L!CreateFails, L!MainPop, L!MainJoins, L!JoinThread, L!MainAt, Running
  <2> QED
    BY <2>1, <2>2, <2>3, <2>4 DEF PipePlaces
<1> QED
  BY <1>2, <1>6, <1>7, <1>8 DEF PipeInv


LEMMA MainInits ==
  ASSUME PipeInv, L!MainInit
  PROVE  PipeInv'
<1>1. /\ open' \in BOOLEAN /\ closed' = FALSE /\ queue' = <<>> /\ queue = <<>>
      /\ UNCHANGED <<call, ret, made, got, ppc, sent>>
      /\ mpc = "init" /\ mpc' = IF open' THEN "create" ELSE "exit"
  BY DEF PipeInv, PipePlaces, L!MainInit, L!F!Create
<1>2. PipeStream'
  BY <1>1, SameStream DEF PipeInv
<1>3. PipeTypes'
  <2>1. mpc' \in Running \cup {"init", "destroy", "exit"}
    BY <1>1 DEF Running
  <2>2. queue' \in Seq(L!WorkItems)
    BY <1>1
  <2> QED
    BY <1>1, <2>1, <2>2 DEF PipeInv, PipeTypes
<1>4. PipeCalls'
  BY <1>1 DEF PipeInv, PipeCalls
<1>5. PipePlaces'
  <2>1. \A p \in L!Producers : ppc[p] \notin {"loop", "push"}
    BY <1>1 DEF PipeInv, PipePlaces, Running
  <2>2. CASE open' = TRUE
    BY <1>1, <2>1, <2>2 DEF PipePlaces, Running
  <2>3. CASE open' = FALSE
    BY <1>1, <2>1, <2>3 DEF PipePlaces, Running
  <2> QED
    BY <1>1, <2>2, <2>3
<1> QED
  BY <1>2, <1>3, <1>4, <1>5 DEF PipeInv

\* bq_pop returns an element: nobody has closed the queue.
LEMMA MainTakes ==
  ASSUME PipeInv, L!MainPopped
  PROVE  PipeInv'
<1>1. mpc = "pop" /\ open /\ ~closed /\ made' = made /\ ppc' = ppc /\ sent' = sent
  BY DEF PipeInv, PipePlaces, L!MainPopped, L!MainAt, Running
<1>2. /\ L!F!Dequeue(Main) /\ mpc' = "consume" /\ got' = Append(got, ret'[Main].out)
  BY <1>1 DEF L!MainPopped, L!MainAt, L!F!Drained
<1>3. /\ queue # <<>> /\ queue' = Tail(queue) /\ open' = open /\ closed' = closed
      /\ call' = [call EXCEPT ![Main] = L!F!Idle]
      /\ ret' = [ret EXCEPT ![Main] = L!F!Result("ERR_OK", Head(queue))]
  BY <1>2 DEF L!F!Dequeue, L!F!Return
<1>4. Main \in Callers /\ \A p \in L!Producers : p # Main /\ p \in Callers
  BY PipelineAssumption DEF L!Producers, Callers
<1>5. ret'[Main].out = Head(queue)
  BY <1>3, <1>4 DEF PipeInv, PipeTypes, L!F!Result
<1>6. Head(queue) \in L!WorkItems /\ queue' \in Seq(L!WorkItems) /\ got' \in Seq(L!WorkItems)
      /\ got' \o queue' = got \o queue
  <2>1. queue \in Seq(L!WorkItems) /\ got \in Seq(L!WorkItems)
    BY DEF PipeInv, PipeTypes
  <2>2. Append(got, Head(queue)) \o Tail(queue) = got \o queue
    BY <1>3, <2>1, Arrives
  <2>3. Head(queue) \in L!WorkItems /\ Tail(queue) \in Seq(L!WorkItems)
    BY <1>3, <2>1, HeadTailProperties
  <2> QED
    BY <1>2, <1>3, <1>5, <2>1, <2>2, <2>3
<1>7. PipeStream'
  BY <1>1, <1>6, SameStream DEF PipeInv
<1>8. PipeTypes'
  <2>1. call' = [t \in Callers |-> call'[t]]
    BY <1>3, <1>4 DEF PipeInv, PipeTypes
  <2>2. ret' = [t \in Callers |-> ret'[t]]
    BY <1>3, <1>4 DEF PipeInv, PipeTypes
  <2>3. mpc' \in Running \cup {"init", "destroy", "exit"}
    BY <1>2 DEF Running
  <2> QED
    BY <1>1, <1>3, <1>6, <2>1, <2>2, <2>3 DEF PipeInv, PipeTypes
<1>9. PipeCalls'
  <2>1. \A p \in L!Producers : call'[p] = call[p]
    BY <1>3, <1>4 DEF PipeInv, PipeTypes
  <2> QED
    BY <1>1, <2>1 DEF PipeInv, PipeCalls
<1>10. PipePlaces'
  BY <1>1, <1>2, <1>3 DEF PipePlaces, Running
<1> QED
  BY <1>7, <1>8, <1>9, <1>10 DEF PipeInv

\* The queue is closed when every producer has ended, and destroyed empty.
LEMMA MainEnds ==
  ASSUME PipeInv, L!MainClose \/ L!MainDestroy
  PROVE  PipeInv'
<1>1. /\ UNCHANGED <<call, ret, made, got, ppc, sent>> /\ open' \in BOOLEAN /\ closed' \in BOOLEAN
      /\ mpc' \in {"destroy", "exit"}
      /\ mpc' = "destroy" => ~L!Consumes
  BY DEF PipeInv, PipeTypes, PipePlaces, L!MainClose, L!MainDestroy, L!F!Close, L!F!Destroy, L!MainAt
<1>2. \A p \in L!Producers : ppc[p] = "ended"
  <2>1. \A p \in L!Producers : p < PRODUCERS
    BY PipelineAssumption DEF L!Producers
  <2> QED
    BY <2>1 DEF PipeInv, PipePlaces, L!MainClose, L!MainDestroy, L!MainAt
<1>3. queue' = queue
  <2>1. CASE L!MainClose
    BY <2>1 DEF L!MainClose, L!F!Close
  <2>2. CASE L!MainDestroy
    <3>1. ~L!Consumes /\ queue' = <<>>
      BY <2>2 DEF PipeInv, PipePlaces, L!MainDestroy, L!F!Destroy, L!MainAt
    <3> QED
      BY <3>1, Complete DEF PipeInv
  <2> QED
    BY <2>1, <2>2
<1>4. PipeStream'
  BY <1>1, <1>3, SameStream DEF PipeInv
<1>5. PipeTypes'
  <2>1. mpc' \in Running \cup {"init", "destroy", "exit"}
    BY <1>1
  <2> QED
    BY <1>1, <1>3, <2>1 DEF PipeInv, PipeTypes
<1>6. PipeCalls'
  BY <1>1 DEF PipeInv, PipeCalls
<1>7. PipePlaces'
  <2>1. (~L!Consumes)' = ~L!Consumes
    BY <1>1 DEF L!Consumes
  <2> QED
    BY <1>1, <1>2, <2>1 DEF PipePlaces, Running
<1> QED
  BY <1>4, <1>5, <1>6, <1>7 DEF PipeInv

LEMMA ProducerMoves ==
  ASSUME PipeInv, NEW p \in L!Producers, L!ProducerPush(p) \/ L!ProducerEnds(p)
  PROVE  PipeInv'
<1>1. /\ UNCHANGED <<open, queue, closed, ret, mpc, made, got, sent>> /\ ppc[p] = "loop"
      /\ \A q \in L!Producers : q # p => ppc'[q] = ppc[q]
      /\ ppc' \in [L!Producers -> {"unborn", "loop", "push", "ended", "killed"}]
      /\ \A q \in L!Producers : (ppc'[q] = "ended") \/ ppc[q] # "ended"
  BY DEF PipeInv, PipeTypes, L!ProducerPush, L!ProducerEnds
<1>2. p \in Callers /\ Main \in Callers
  BY DEF Callers
<1>3. PipeStream'
  BY <1>1, SameStream DEF PipeInv
<1>4. mpc \in Running
  BY <1>1 DEF PipeInv, PipePlaces
<1>5. PipeTypes'
  <2>1. call' = [t \in Callers |-> call'[t]]
    BY <1>2 DEF PipeInv, PipeTypes, L!ProducerPush, L!ProducerEnds
  <2> QED
    BY <1>1, <2>1 DEF PipeInv, PipeTypes
<1>6. PipeCalls'
  <2> SUFFICES ASSUME NEW q \in L!Producers, ppc'[q] = "push"
               PROVE  /\ sent'[q] < ITEMS_PER_PRODUCER
                      /\ call'[q] = L!F!PushOf([producer_id |-> q, value |-> sent'[q] + 1])
    BY DEF PipeCalls
  <2>1. CASE q = p
    BY <1>1, <1>2, <2>1 DEF PipeInv, PipeTypes, L!ProducerPush, L!ProducerEnds
  <2>2. CASE q # p
    <3>1. call'[q] = call[q]
      BY <1>2, <2>2 DEF PipeInv, PipeTypes, L!ProducerPush, L!ProducerEnds, Callers
    <3> QED
      BY <1>1, <2>2, <3>1 DEF PipeInv, PipeCalls
  <2> QED
    BY <2>1, <2>2
<1>7. PipePlaces'
  <2>1. mpc \notin {"init", "destroy"}
    BY <1>4 DEF Running
  <2>2. (~L!Consumes)' = ~L!Consumes
    BY <1>1 DEF L!Consumes
  <2> QED
    BY <1>1, <1>4, <2>1, <2>2 DEF PipeInv, PipePlaces
<1> QED
  BY <1>3, <1>5, <1>6, <1>7 DEF PipeInv

LEMMA ProducerPushes ==
  ASSUME PipeInv, NEW p \in L!Producers, L!ProducerPushed(p)
  PROVE  PipeInv'
<1> DEFINE e == [producer_id |-> p, value |-> sent[p] + 1]
<1>0. p \in Callers /\ Main \in Callers
  BY DEF Callers
<1>1. /\ ppc[p] = "push" /\ sent[p] < ITEMS_PER_PRODUCER /\ call[p] = L!F!PushOf(e)
      /\ UNCHANGED <<open, closed, mpc, made, got>>
      /\ sent' = [sent EXCEPT ![p] = @ + 1] /\ ppc' = [ppc EXCEPT ![p] = "loop"]
      /\ queue' = Append(queue, e)
      /\ call' = [call EXCEPT ![p] = L!F!Idle]
      /\ ret' = [ret EXCEPT ![p] = L!F!Result("ERR_OK", NULL)]
  BY DEF PipeInv, PipeCalls, L!ProducerPushed, L!F!Enqueue, L!F!Return, L!F!PushOf
<1>2. /\ e \in L!WorkItems /\ e.producer_id = p /\ e.value = sent[p] + 1
      /\ sent[p] + 1 \in 0 .. ITEMS_PER_PRODUCER
  BY <1>1, PipelineAssumption DEF PipeInv, PipeTypes, L!WorkItems
<1> HIDE DEF e
<1>3. queue' \in Seq(L!WorkItems) /\ got' \o queue' = Append(got \o queue, e) /\ got \o queue \in Seq(L!WorkItems)
  BY <1>1, <1>2, Arrives DEF PipeInv, PipeTypes
<1>4. PipeStream'
  <2>1. /\ sent \in [L!Producers -> 0 .. ITEMS_PER_PRODUCER]
        /\ Ordered(got \o queue) /\ FirstOf(got \o queue, sent)
    BY DEF PipeInv, PipeTypes, PipeStream
  <2>2. e.value = sent[e.producer_id] + 1 /\ sent' = [sent EXCEPT ![e.producer_id] = @ + 1]
    BY <1>1, <1>2
  <2>3. Ordered(Append(got \o queue, e)) /\ FirstOf(Append(got \o queue, e), sent')
    BY <1>2, <1>3, <2>1, <2>2, PushItem
  <2>4. Ordered(got' \o queue') /\ FirstOf(got' \o queue', sent')
    BY <1>3, <2>3
  <2> QED
    BY <2>4 DEF PipeStream, Ordered, FirstOf
<1>5. mpc \in Running
  BY <1>1 DEF PipeInv, PipePlaces
<1>6. PipeTypes'
  <2>1. call' = [t \in Callers |-> call'[t]]
    BY <1>0, <1>1 DEF PipeInv, PipeTypes
  <2>2. ret' = [t \in Callers |-> ret'[t]]
    BY <1>0, <1>1 DEF PipeInv, PipeTypes
  <2>3. sent' \in [L!Producers -> 0 .. ITEMS_PER_PRODUCER]
    BY <1>1, <1>2 DEF PipeInv, PipeTypes
  <2>4. ppc' \in [L!Producers -> {"unborn", "loop", "push", "ended", "killed"}]
    BY <1>1 DEF PipeInv, PipeTypes
  <2> QED
    BY <1>1, <1>3, <2>1, <2>2, <2>3, <2>4 DEF PipeInv, PipeTypes
<1>7. \A q \in L!Producers : q # p => ppc'[q] = ppc[q] /\ sent'[q] = sent[q] /\ call'[q] = call[q]
  BY <1>1 DEF PipeInv, PipeTypes, Callers
<1>8. ppc'[p] = "loop"
  BY <1>1 DEF PipeInv, PipeTypes
<1>9. PipeCalls'
  BY <1>7, <1>8 DEF PipeInv, PipeCalls
<1>10. PipePlaces'
  <2>1. mpc \notin {"init", "destroy"}
    BY <1>5 DEF Running
  <2>2. (~L!Consumes)' = ~L!Consumes
    BY <1>1 DEF L!Consumes
  <2> QED
    BY <1>1, <1>5, <1>7, <1>8, <2>1, <2>2 DEF PipeInv, PipePlaces
<1> QED
  BY <1>4, <1>6, <1>9, <1>10 DEF PipeInv

LEMMA PipeStep ==
  ASSUME PipeInv, [L!Next]_(L!vars)
  PROVE  PipeInv'
<1>1. CASE UNCHANGED L!vars
  <2>1. UNCHANGED <<open, queue, closed, call, ret, mpc, made, got, ppc, sent>>
    BY <1>1 DEF L!vars, L!own
  <2>2. PipeTypes'
    BY <2>1 DEF PipeInv, PipeTypes
  <2>3. PipePlaces' /\ PipeCalls'
    BY <2>1 DEF PipeInv, PipePlaces, PipeCalls, L!Consumes
  <2>4. PipeStream'
    BY <2>1, SameStream DEF PipeInv
  <2> QED
    BY <2>2, <2>3, <2>4 DEF PipeInv
<1>2. CASE L!MainThread
  BY <1>2, MainMoves, MainInits, MainTakes, MainEnds DEF L!MainThread
<1>3. CASE \E p \in L!Producers : L!Producer(p)
  BY <1>3, ProducerMoves, ProducerPushes DEF L!Producer
<1> QED
  BY <1>1, <1>2, <1>3 DEF L!Next

LEMMA PipeExact ==
  ASSUME PipeInv
  PROVE  PipelineIsExact
<1> DEFINE s == got \o queue
<1>1. s \in Seq(L!WorkItems) /\ DOMAIN s = 1 .. Len(s) /\ Ordered(s) /\ FirstOf(s, sent)
  BY DEF PipeInv, PipeTypes, PipeStream
<1>2. \A k \in 1 .. Len(s) : s[k].value \in Nat /\ 1 <= s[k].value
  BY <1>1, ItemIs
<1> HIDE DEF s
<1>3. \A k, l \in DOMAIN s : k < l /\ s[k].producer_id = s[l].producer_id => s[k].value < s[l].value
  BY <1>1 DEF Ordered
<1>4. ASSUME NEW p \in L!Producers
      PROVE  {s[k].value : k \in {l \in DOMAIN s : s[l].producer_id = p}} = 1 .. sent[p]
  <2>0. sent[p] \in Nat
    BY PipelineAssumption DEF PipeInv, PipeTypes
  <2>1. \A k \in DOMAIN s : s[k].producer_id = p => s[k].value \in 1 .. sent[p]
    BY <1>1, <1>2, <2>0 DEF FirstOf
  <2>2. \A v \in 1 .. sent[p] : \E k \in DOMAIN s : s[k].producer_id = p /\ s[k].value = v
    BY <1>1 DEF FirstOf
  <2> QED
    BY <2>1, <2>2
<1>5. \A p \in L!Producers : ppc[p] = "push" => open /\ ~closed
  BY DEF PipeInv, PipePlaces
<1>6. ASSUME mpc = "destroy"
      PROVE  /\ queue = <<>> /\ \A p \in L!Producers : ppc[p] = "ended"
             /\ {got[k] : k \in DOMAIN got} = L!WorkItems /\ Len(got) = Items
  <2>1. ~L!Consumes /\ \A p \in L!Producers : ppc[p] = "ended"
    BY <1>6 DEF PipeInv, PipePlaces
  <2> QED
    BY <2>1, Complete DEF PipeInv
<1> QED
  BY <1>3, <1>4, <1>5, <1>6 DEF PipelineIsExact, L!PipelineIsExact, s, Items

(***************************************************************************)
(* pipeline_demo.c for any number of producers and of items, and a queue   *)
(* of any capacity: no push fails; what main has and what is queued are    *)
(* the first items of every producer, once and in its order; when main     *)
(* destroys the queue, it has all items and no producer is left.           *)
(***************************************************************************)
THEOREM Pipelined == L!Spec => []PipelineIsExact
<1>1. L!Init => PipeInv
  BY PipeStart
<1>2. PipeInv /\ [L!Next]_(L!vars) => PipeInv'
  BY PipeStep
<1>3. PipeInv => PipelineIsExact
  BY PipeExact
<1> QED
  BY <1>1, <1>2, <1>3, PTL DEF L!Spec
=============================================================================
