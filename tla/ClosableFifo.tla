---------------------------- MODULE ClosableFifo ----------------------------
(***************************************************************************)
(* What a bounded, closable FIFO promises to the threads that share it.    *)
(* A call is invoked, takes effect at one instant, and returns a result.   *)
(* Blocking is the absence of an instant at which the call may take        *)
(* effect: a push on a full open queue and a pop on an empty open queue    *)
(* have none.                                                              *)
(*                                                                         *)
(* Nothing here knows of slots, indices, locks or condition variables.     *)
(***************************************************************************)
EXTENDS Naturals, Sequences

CONSTANTS Threads,   \* the callers
          Values,    \* what may be enqueued
          Capacity,  \* the most elements held at once
          NULL       \* the null pointer, no value

VARIABLES open,      \* the queue has storage: between init and destroy
          queue,     \* the elements held, oldest first
          closed,    \* close was called since the last init
          call,      \* per thread, the call under way
          ret        \* per thread, the result of its last call

vars == <<open, queue, closed, call, ret>>

Idle == [op |-> "none", elem |-> NULL]
PushOf(v) == [op |-> "push", elem |-> v]
PopCall == [op |-> "pop", elem |-> NULL]

Result(code, v) == [code |-> code, out |-> v]

Init == /\ open = FALSE
        /\ queue = <<>>
        /\ closed = FALSE
        /\ call = [t \in Threads |-> Idle]
        /\ ret = [t \in Threads |-> Result("ERR_OK", NULL)]

Return(t, code, v) == /\ call' = [call EXCEPT ![t] = Idle]
                      /\ ret' = [ret EXCEPT ![t] = Result(code, v)]

\* A successful init gives a fresh open queue, a failed one leaves no queue.
Create == /\ ~open
          /\ open' \in BOOLEAN
          /\ closed' = FALSE
          /\ queue' = <<>>
          /\ UNCHANGED <<call, ret>>

\* Destroying drops what was not popped; it needs the threads out of the way.
Destroy == /\ open
           /\ \A t \in Threads : call[t] = Idle
           /\ open' = FALSE
           /\ queue' = <<>>
           /\ UNCHANGED <<closed, call, ret>>

Close == /\ open
         /\ closed' = TRUE
         /\ UNCHANGED <<open, queue, call, ret>>

Invoke(t) == /\ open
             /\ call[t] = Idle
             /\ \E c \in {PopCall} \cup {PushOf(v) : v \in Values} :
                  call' = [call EXCEPT ![t] = c]
             /\ UNCHANGED <<open, queue, closed, ret>>

\* A call without a queue or with a null pointer fails at once.
Refuse(t) == /\ call[t] = Idle
             /\ ret' = [ret EXCEPT ![t] = Result("ERR_INVALID_ARG", NULL)]
             /\ UNCHANGED <<open, queue, closed, call>>

Enqueue(t) == /\ call[t].op = "push"
              /\ ~closed
              /\ Len(queue) < Capacity
              /\ queue' = Append(queue, call[t].elem)
              /\ Return(t, "ERR_OK", NULL)
              /\ UNCHANGED <<open, closed>>

RefuseClosed(t) == /\ call[t].op = "push"
                   /\ closed
                   /\ Return(t, "ERR_UNSUPPORTED", NULL)
                   /\ UNCHANGED <<open, queue, closed>>

\* Elements still held are handed out after a close too.
Dequeue(t) == /\ call[t].op = "pop"
              /\ queue # <<>>
              /\ queue' = Tail(queue)
              /\ Return(t, "ERR_OK", Head(queue))
              /\ UNCHANGED <<open, closed>>

Drained(t) == /\ call[t].op = "pop"
              /\ closed
              /\ queue = <<>>
              /\ Return(t, "ERR_NOT_FOUND", NULL)
              /\ UNCHANGED <<open, queue, closed>>

Next == \/ Create \/ Destroy \/ Close
        \/ \E t \in Threads : \/ Invoke(t) \/ Refuse(t)
                              \/ Enqueue(t) \/ RefuseClosed(t)
                              \/ Dequeue(t) \/ Drained(t)

Spec == Init /\ [][Next]_vars
=============================================================================
