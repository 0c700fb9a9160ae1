------------------------------ MODULE Pipeline ------------------------------
(***************************************************************************)
(* src/examples/pipeline_demo.c over the promise of the blocking queue,    *)
(* ClosableFifo: producers push their numbered items, the main thread pops *)
(* as many as they will push, joins them, closes and destroys the queue.   *)
(* A call of bq_push or bq_pop is its invocation and, when the queue lets  *)
(* it take effect, its effect.                                             *)
(***************************************************************************)
EXTENDS Integers, Sequences

CONSTANTS PRODUCERS, ITEMS_PER_PRODUCER, QUEUE_CAP,   \* 3, 1000 and 32 in the code
          Main,        \* the main thread
          NULL

VARIABLES open, queue, closed, call, ret,   \* the queue's, see ClosableFifo
          mpc,         \* where main is
          made,        \* threads created or joined: p in the code
          got,         \* the items popped, in order: total and per_producer
          ppc, sent    \* per producer: where it is, i

own == <<mpc, made, got, ppc, sent>>
vars == <<open, queue, closed, call, ret, own>>

Producers == 0 .. PRODUCERS - 1

\* WorkItem
WorkItems == [producer_id : Producers, value : 1 .. ITEMS_PER_PRODUCER]

F == INSTANCE ClosableFifo WITH Threads <- Producers \cup {Main}, Values <- WorkItems,
                                Capacity <- QUEUE_CAP

Init == /\ F!Init
        /\ mpc = "init" /\ made = 0 /\ got = <<>>
        /\ ppc = [p \in Producers |-> "unborn"] /\ sent = [p \in Producers |-> 0]

MainAt(from, to) == mpc = from /\ mpc' = to

\* bq_init may fail; the program ends.
MainInit == /\ F!Create
            /\ mpc = "init" /\ mpc' = IF open' THEN "create" ELSE "exit"
            /\ UNCHANGED <<made, got, ppc, sent>>

CreateThread == /\ MainAt("create", "create") /\ made < PRODUCERS
                /\ ppc' = [ppc EXCEPT ![made] = "loop"]
                /\ made' = made + 1
                /\ UNCHANGED <<open, queue, closed, call, ret, got, sent>>

\* pthread_create fails: main returns, which ends every thread.
CreateFails == /\ MainAt("create", "exit") /\ made < PRODUCERS
               /\ ppc' = [p \in Producers |-> "killed"]
               /\ UNCHANGED <<open, queue, closed, call, ret, made, got, sent>>

\* Mutant: one item fewer.
ConsumesShort == Len(got) < PRODUCERS * ITEMS_PER_PRODUCER - 1

Consumes == Len(got) < PRODUCERS * ITEMS_PER_PRODUCER

MainPop == /\ \/ MainAt("create", "pop") /\ made = PRODUCERS
              \/ mpc = "consume" /\ mpc' = "pop"
           /\ Consumes
           /\ call' = [call EXCEPT ![Main] = F!PopCall]
           /\ UNCHANGED <<open, queue, closed, ret, made, got, ppc, sent>>

\* bq_pop has returned an element, or an error, which ends the loop.
MainPopped == /\ \/ F!Dequeue(Main) /\ MainAt("pop", "consume")
                    /\ got' = Append(got, ret'[Main].out)
                 \/ F!Drained(Main) /\ MainAt("pop", "join") /\ UNCHANGED got
              /\ UNCHANGED <<made, ppc, sent>>

MainJoins == /\ MainAt("consume", "join") /\ ~Consumes
             /\ made' = 0
             /\ UNCHANGED <<open, queue, closed, call, ret, got, ppc, sent>>

JoinThread == /\ MainAt("join", "join") /\ made < PRODUCERS
              /\ ppc[made] = "ended"
              /\ made' = made + 1
              /\ UNCHANGED <<open, queue, closed, call, ret, got, ppc, sent>>

MainClose == /\ MainAt("join", "destroy") /\ made = PRODUCERS
             /\ F!Close
             /\ UNCHANGED <<made, got, ppc, sent>>

MainDestroy == /\ MainAt("destroy", "exit")
               /\ F!Destroy
               /\ UNCHANGED <<made, got, ppc, sent>>

\* The loop of producer_main.
ProducerPush(p) == /\ ppc[p] = "loop" /\ sent[p] < ITEMS_PER_PRODUCER
                   /\ call' = [call EXCEPT ![p] = F!PushOf([producer_id |-> p, value |-> sent[p] + 1])]
                   /\ ppc' = [ppc EXCEPT ![p] = "push"]
                   /\ UNCHANGED <<open, queue, closed, ret, mpc, made, got, sent>>

ProducerPushed(p) == /\ ppc[p] = "push"
                     /\ F!Enqueue(p)
                     /\ sent' = [sent EXCEPT ![p] = @ + 1]
                     /\ ppc' = [ppc EXCEPT ![p] = "loop"]
                     /\ UNCHANGED <<mpc, made, got>>

ProducerEnds(p) == /\ ppc[p] = "loop" /\ sent[p] = ITEMS_PER_PRODUCER
                   /\ ppc' = [ppc EXCEPT ![p] = "ended"]
                   /\ UNCHANGED <<open, queue, closed, call, ret, mpc, made, got, sent>>

MainThread == \/ MainInit \/ CreateThread \/ CreateFails \/ MainPop \/ MainPopped
              \/ MainJoins \/ JoinThread \/ MainClose \/ MainDestroy
Producer(p) == ProducerPush(p) \/ ProducerPushed(p) \/ ProducerEnds(p)

Next == MainThread \/ (\E p \in Producers : Producer(p)) \/ (mpc = "exit" /\ UNCHANGED vars)

Spec == Init /\ [][Next]_vars

-----------------------------------------------------------------------------
(***************************************************************************)
(* pipeline_demo.c: no push fails, since the queue is closed only after    *)
(* every producer ended; when the queue is destroyed, nobody uses it,      *)
(* nothing is left in it and main has every item of every producer exactly *)
(* once, those of one producer in order.  That main, blocked in bq_pop or  *)
(* in a join, and producers, blocked on the full queue, never wait for     *)
(* each other is TLC's check for deadlock: only an ended program stutters. *)
(***************************************************************************)
PipelineIsExact ==
    /\ LET pushed == got \o queue
       IN /\ \A k, l \in DOMAIN pushed :
               k < l /\ pushed[k].producer_id = pushed[l].producer_id
                 => pushed[k].value < pushed[l].value
          /\ \A p \in Producers :
               {pushed[k].value : k \in {l \in DOMAIN pushed : pushed[l].producer_id = p}} = 1 .. sent[p]
    /\ \A p \in Producers : ppc[p] = "push" => open /\ ~closed
    /\ mpc = "destroy" =>
         /\ queue = <<>> /\ \A p \in Producers : ppc[p] = "ended"
         /\ {got[k] : k \in DOMAIN got} = WorkItems /\ Len(got) = PRODUCERS * ITEMS_PER_PRODUCER
=============================================================================
