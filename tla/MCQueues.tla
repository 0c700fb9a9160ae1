------------------------------ MODULE MCQueues ------------------------------
(***************************************************************************)
(* The two concurrent queues of src/src/hpc for TLC under fair scheduling: *)
(* the lock-free ring, and the progress of the blocking queue.  They share *)
(* nothing, so a behaviour exercises one of them, its subject.             *)
(***************************************************************************)
EXTENDS SpscQueue

CONSTANTS Threads, Values, BqCapacity, NULL, Garbage    \* the blocking queue's

VARIABLES subject, bdata, bhead, len, closed, pc, elem, ret

B == INSTANCE BlockingQueue WITH Capacity <- BqCapacity, data <- bdata, head <- bhead

BqVars == <<bdata, bhead, len, closed, pc, elem, ret>>
QueueVars == <<subject, vars, BqVars>>

Ring(A) == subject = "ring" /\ A /\ UNCHANGED <<subject, BqVars>>
Blocking(A) == subject = "blocking" /\ A /\ UNCHANGED <<subject, vars>>

QueueInit == subject \in {"ring", "blocking"} /\ Init /\ B!Init

QueueNext == Ring(Next) \/ Blocking(B!Next)

\* The fairness of SpscQueue and of BlockingQueue.
QueueSpec ==
    /\ QueueInit /\ [][QueueNext]_QueueVars
    /\ WF_QueueVars(Ring(PushCopy \/ PushPublish))
    /\ WF_QueueVars(Ring(PopCopy \/ PopPublish))
    /\ WF_QueueVars(Ring(PushFull(Len(head)) \/ PushFree(Len(head))))
    /\ WF_QueueVars(Ring(PopEmpty(Len(tail)) \/ PopSome(Len(tail))))
    /\ \A t \in Threads : WF_QueueVars(Blocking(B!Push(t) \/ B!Pop(t)))

-----------------------------------------------------------------------------
(* Properties: SpscQueue's, and *)

(***************************************************************************)
(* blocking_queue.c: after bq_close every blocked call returns.            *)
(***************************************************************************)
CloseReleasesAll == B!CloseReleasesAll

(***************************************************************************)
(* blocking_queue.c: elements and free slots are served to the threads     *)
(* that are inside a call.                                                 *)
(***************************************************************************)
CallsProgress == B!CallsProgress
=============================================================================
