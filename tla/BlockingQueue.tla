---------------------------- MODULE BlockingQueue ----------------------------
(***************************************************************************)
(* src/src/hpc/blocking_queue.c: a bounded MPMC queue in a ring buffer,    *)
(* guarded by one mutex, with the condition variables not_empty and        *)
(* not_full.                                                               *)
(*                                                                         *)
(* The mutex protects every field, so what a thread does between taking    *)
(* it (or getting it back from pthread_cond_wait) and releasing it (or     *)
(* giving it up in pthread_cond_wait) is one step.  A thread that waits    *)
(* for the mutex is at "push" or "pop"; one in a condition variable's wait *)
(* set is at "waitNotFull" or "waitNotEmpty".  A wake-up moves it back to  *)
(* the mutex, where it evaluates its while condition again: between the    *)
(* two, any other thread may run.                                          *)
(*                                                                         *)
(* Bytes, elem_size and the overflow guard of bq_init are left out: an     *)
(* element is a member of Values.                                          *)
(***************************************************************************)
EXTENDS Integers, Sequences, FiniteSets

CONSTANTS Threads,    \* threads that call the queue; each may push and pop
          Values,     \* elements
          Capacity,   \* the capacity bq_init is given
          NULL,       \* the null pointer
          Garbage     \* the content of malloc'ed memory nobody wrote

ASSUME ThreadsAssumption == IsFiniteSet(Threads)
ASSUME CapacityAssumption == Capacity \in Nat \ {0}
ASSUME ValuesAssumption == NULL \notin Values /\ Garbage \notin Values

VARIABLES data,       \* q->data: the slots, or NULL
          head,       \* q->head: index of the oldest element
          len,        \* q->len
          closed,     \* q->closed
          pc,         \* where each thread is
          elem,       \* the argument of each thread's push
          ret         \* what each thread's last call returned

vars == <<data, head, len, closed, pc, elem, ret>>

Slots == 0 .. Capacity - 1
Cells == Values \cup {Garbage}

ASSUME NullAssumption == NULL \notin [Slots -> Cells]

PcLabels == {"idle", "push", "pop", "waitNotFull", "waitNotEmpty"}
Codes == {"ERR_OK", "ERR_INVALID_ARG", "ERR_UNSUPPORTED", "ERR_NOT_FOUND"}

At(l) == {t \in Threads : pc[t] = l}

Result(code, v) == [code |-> code, out |-> v]

Return(t, code, v) == ret' = [ret EXCEPT ![t] = Result(code, v)]

Init == /\ data = NULL
        /\ head = 0
        /\ len = 0
        /\ closed = FALSE
        /\ pc = [t \in Threads |-> "idle"]
        /\ elem = [t \in Threads |-> NULL]
        /\ ret = [t \in Threads |-> Result("ERR_OK", NULL)]

-----------------------------------------------------------------------------
\* bq_init clears the whole structure, then malloc may fail.
BqInit == /\ data = NULL
          /\ head' = 0
          /\ len' = 0
          /\ closed' = FALSE
          /\ data' \in {NULL, [i \in Slots |-> Garbage]}
          /\ UNCHANGED <<pc, elem, ret>>

\* bq_destroy: "No thread may be blocked in push/pop" (blocking_queue.h), so
\* the caller destroys the queue when no thread is inside a call.  head and
\* closed keep their values.
BqDestroy == /\ data # NULL
             /\ At("idle") = Threads
             /\ data' = NULL
             /\ len' = 0
             /\ UNCHANGED <<head, closed, pc, elem, ret>>

-----------------------------------------------------------------------------
\* The early return of bq_push and bq_pop.
InvalidArg(t, p) == /\ pc[t] = "idle"
                    /\ data = NULL \/ p = NULL
                    /\ Return(t, "ERR_INVALID_ARG", NULL)
                    /\ UNCHANGED <<data, head, len, closed, pc, elem>>

BqPushCall(t, e) == /\ pc[t] = "idle"
                    /\ data # NULL
                    /\ pc' = [pc EXCEPT ![t] = "push"]
                    /\ elem' = [elem EXCEPT ![t] = e]
                    /\ UNCHANGED <<data, head, len, closed, ret>>

BqPopCall(t) == /\ pc[t] = "idle"
                /\ data # NULL
                /\ pc' = [pc EXCEPT ![t] = "pop"]
                /\ UNCHANGED <<data, head, len, closed, elem, ret>>

(***************************************************************************)
(* pthread_cond_signal wakes one thread of the wait set, if there is one.  *)
(* The caller t leaves its call in the same step.  SignalTo(t, w, l) says  *)
(* where the threads are afterwards; w is the label of the wait set and l  *)
(* the label a woken thread goes to.                                       *)
(***************************************************************************)
SignalTo(t, w, l) ==
    \/ /\ At(w) = {}
       /\ pc' = [pc EXCEPT ![t] = "idle"]
    \/ \E u \in At(w) : pc' = [pc EXCEPT ![t] = "idle", ![u] = l]

\* The while loop of bq_push: give up the mutex and join not_full's wait set.
PushWait(t) == /\ pc[t] = "push"
               /\ len = Capacity
               /\ ~closed
               /\ pc' = [pc EXCEPT ![t] = "waitNotFull"]
               /\ UNCHANGED <<data, head, len, closed, elem, ret>>

PushClosed(t) == /\ pc[t] = "push"
                 /\ closed
                 /\ pc' = [pc EXCEPT ![t] = "idle"]
                 /\ elem' = [elem EXCEPT ![t] = NULL]
                 /\ Return(t, "ERR_UNSUPPORTED", NULL)
                 /\ UNCHANGED <<data, head, len, closed>>

\* Mutant: signals only on the transition from empty.
PushOkSignalsIfEmpty(t) ==
    /\ pc[t] = "push" /\ len # Capacity /\ ~closed
    /\ data' = [data EXCEPT ![(head + len) % Capacity] = elem[t]]
    /\ len' = len + 1
    /\ IF len = 0 THEN SignalTo(t, "waitNotEmpty", "pop")
                  ELSE pc' = [pc EXCEPT ![t] = "idle"]
    /\ elem' = [elem EXCEPT ![t] = NULL]
    /\ Return(t, "ERR_OK", NULL)
    /\ UNCHANGED <<head, closed>>

\* Mutant: a woken producer does not look at len again (if for while).
PushOkUnchecked(t) ==
    /\ pc[t] = "push" /\ ~closed
    /\ data' = [data EXCEPT ![(head + len) % Capacity] = elem[t]]
    /\ len' = len + 1
    /\ SignalTo(t, "waitNotEmpty", "pop")
    /\ elem' = [elem EXCEPT ![t] = NULL]
    /\ Return(t, "ERR_OK", NULL)
    /\ UNCHANGED <<head, closed>>

PushOk(t) == /\ pc[t] = "push"
             /\ len # Capacity
             /\ ~closed
             /\ data' = [data EXCEPT ![(head + len) % Capacity] = elem[t]]
             /\ len' = len + 1
             /\ SignalTo(t, "waitNotEmpty", "pop")
             /\ elem' = [elem EXCEPT ![t] = NULL]
             /\ Return(t, "ERR_OK", NULL)
             /\ UNCHANGED <<head, closed>>

PopWait(t) == /\ pc[t] = "pop"
              /\ len = 0
              /\ ~closed
              /\ pc' = [pc EXCEPT ![t] = "waitNotEmpty"]
              /\ UNCHANGED <<data, head, len, closed, elem, ret>>

\* Mutant: a closed queue reports the end before it is drained.
PopDrainedEarly(t) == /\ pc[t] = "pop"
                      /\ closed
                      /\ pc' = [pc EXCEPT ![t] = "idle"]
                      /\ Return(t, "ERR_NOT_FOUND", NULL)
                      /\ UNCHANGED <<data, head, len, closed, elem>>

PopDrained(t) == /\ pc[t] = "pop"
                 /\ len = 0
                 /\ closed
                 /\ pc' = [pc EXCEPT ![t] = "idle"]
                 /\ Return(t, "ERR_NOT_FOUND", NULL)
                 /\ UNCHANGED <<data, head, len, closed, elem>>

\* Mutant: signals only on the transition from full.
PopOkSignalsIfFull(t) ==
    /\ pc[t] = "pop" /\ len # 0
    /\ Return(t, "ERR_OK", data[head])
    /\ head' = (head + 1) % Capacity
    /\ len' = len - 1
    /\ IF len = Capacity THEN SignalTo(t, "waitNotFull", "push")
                         ELSE pc' = [pc EXCEPT ![t] = "idle"]
    /\ UNCHANGED <<data, closed, elem>>

PopOk(t) == /\ pc[t] = "pop"
            /\ len # 0
            /\ Return(t, "ERR_OK", data[head])
            /\ head' = (head + 1) % Capacity
            /\ len' = len - 1
            /\ SignalTo(t, "waitNotFull", "push")
            /\ UNCHANGED <<data, closed, elem>>

\* Mutant: the producers are forgotten.
BqCloseConsumersOnly == /\ data # NULL
                        /\ closed' = TRUE
                        /\ pc' = [t \in Threads |->
                                    IF pc[t] = "waitNotEmpty" THEN "pop" ELSE pc[t]]
                        /\ UNCHANGED <<data, head, len, elem, ret>>

\* bq_close broadcasts on both condition variables.
BqClose == /\ data # NULL
           /\ closed' = TRUE
           /\ pc' = [t \in Threads |->
                       CASE pc[t] = "waitNotEmpty" -> "pop"
                         [] pc[t] = "waitNotFull"  -> "push"
                         [] OTHER -> pc[t]]
           /\ UNCHANGED <<data, head, len, elem, ret>>

\* pthread_cond_wait may return although nobody signalled.
SpuriousWakeup(t) ==
    /\ \/ /\ pc[t] = "waitNotEmpty"
          /\ pc' = [pc EXCEPT ![t] = "pop"]
       \/ /\ pc[t] = "waitNotFull"
          /\ pc' = [pc EXCEPT ![t] = "push"]
    /\ UNCHANGED <<data, head, len, closed, elem, ret>>

-----------------------------------------------------------------------------
Push(t) == PushWait(t) \/ PushClosed(t) \/ PushOk(t)
Pop(t) == PopWait(t) \/ PopDrained(t) \/ PopOk(t)

Next == \/ BqInit \/ BqDestroy \/ BqClose
        \/ \E t \in Threads : \/ \E p \in Values \cup {NULL} : InvalidArg(t, p)
                              \/ \E e \in Values : BqPushCall(t, e)
                              \/ BqPopCall(t)
                              \/ Push(t)
                              \/ Pop(t)
                              \/ SpuriousWakeup(t)

Spec == Init /\ [][Next]_vars

\* A thread that wants the mutex gets it and runs its critical section: all
\* critical sections are finite.  Nothing obliges anyone to call, to close or
\* to wake up spuriously.
Fairness == \A t \in Threads : WF_vars(Push(t) \/ Pop(t))

FairSpec == Spec /\ Fairness

-----------------------------------------------------------------------------
(* Properties *)

TypeOK == /\ data \in {NULL} \cup [Slots -> Cells]
          /\ head \in Slots
          /\ len \in 0 .. Capacity
          /\ closed \in BOOLEAN
          /\ pc \in [Threads -> PcLabels]
          /\ elem \in [Threads -> Values \cup {NULL}]
          /\ ret \in [Threads -> [code : Codes, out : Cells \cup {NULL}]]

(***************************************************************************)
(* No wake-up is lost on not_empty: while a consumer sleeps there, the     *)
(* queue is open and every element held has a consumer of its own already  *)
(* awake and on its way to the mutex.  pthread_cond_signal (not broadcast) *)
(* in bq_push is enough only because of this.                              *)
(***************************************************************************)
NoLostNotEmpty ==
    At("waitNotEmpty") # {} => ~closed /\ len <= Cardinality(At("pop"))

(***************************************************************************)
(* The same for not_full, signalled by bq_pop: while a producer sleeps,    *)
(* every free slot has a producer awake for it.                            *)
(***************************************************************************)
NoLostNotFull ==
    At("waitNotFull") # {} => ~closed /\ Capacity - len <= Cardinality(At("push"))

(***************************************************************************)
(* No wake-up of bq_push, bq_pop or bq_close is lost: nobody sleeps in     *)
(* pthread_cond_wait beside an element, a free slot or a close meant for   *)
(* it.                                                                     *)
(***************************************************************************)
NoLostWakeups == NoLostNotEmpty /\ NoLostNotFull

(***************************************************************************)
(* A queue that was closed releases everyone: each call under way returns, *)
(* whatever the others do (bq_close "wakes all blocked threads").          *)
(***************************************************************************)
CloseReleasesAll ==
    \A t \in Threads : closed /\ pc[t] # "idle" ~> pc[t] = "idle"

(***************************************************************************)
(* A non-empty queue serves its consumers: if a consumer is inside bq_pop  *)
(* while the queue holds elements, an element is handed out (len drops     *)
(* under a consumer's step) or the queue is left empty by the others.      *)
(***************************************************************************)
ConsumersProgress ==
    \A n \in 1 .. Capacity :
        (len = n /\ At("pop") \cup At("waitNotEmpty") # {}) ~> len # n

\* And a queue with a free slot serves its producers, or is closed.
ProducersProgress ==
    \A n \in 0 .. Capacity - 1 :
        (len = n /\ ~closed /\ At("push") \cup At("waitNotFull") # {})
            ~> (len # n \/ closed)

(***************************************************************************)
(* No bq_push and no bq_pop is left behind for ever beside a free slot or  *)
(* an element it could use.                                                *)
(***************************************************************************)
CallsProgress == ConsumersProgress /\ ProducersProgress

-----------------------------------------------------------------------------
(* Refinement: the queue implements ClosableFifo.                          *)

Contents == IF data = NULL THEN <<>>
            ELSE [i \in 1 .. len |-> data[(head + i - 1) % Capacity]]

Calls == [t \in Threads |->
            CASE pc[t] \in {"push", "waitNotFull"} -> [op |-> "push", elem |-> elem[t]]
              [] pc[t] \in {"pop", "waitNotEmpty"} -> [op |-> "pop", elem |-> NULL]
              [] OTHER -> [op |-> "none", elem |-> NULL]]

Fifo == INSTANCE ClosableFifo
            WITH open <- data # NULL, queue <- Contents, call <- Calls

(***************************************************************************)
(* Every behaviour of the ring with its mutex and condition variables is   *)
(* one of the abstract queue: elements leave in the order they entered,    *)
(* each exactly once, no uninitialised slot is ever handed out, the bound  *)
(* is kept, a push takes effect only on an open queue and ERR_NOT_FOUND is *)
(* returned only on a closed and drained one.                              *)
(***************************************************************************)
ImplementsFifo == Fifo!Spec

-----------------------------------------------------------------------------
(* The threads are interchangeable: a reduction for TLC. *)
LOCAL INSTANCE TLC
ThreadSymmetry == Permutations(Threads)
=============================================================================
