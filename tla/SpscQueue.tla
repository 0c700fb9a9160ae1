------------------------------ MODULE SpscQueue ------------------------------
(***************************************************************************)
(* src/src/hpc/spsc.c: the lock-free single-producer single-consumer ring, *)
(* under the C11 memory model its memory_order_* arguments ask for.        *)
(*                                                                         *)
(* Each of the atomics head and tail has one writer, so its modification   *)
(* order is the sequence of that thread's stores.  A load by the other     *)
(* thread may return any store that is not older than one it has seen      *)
(* already: the other thread may lag arbitrarily far behind.  A thread     *)
(* always reads its own last store.                                        *)
(*                                                                         *)
(* A store with memory_order_release carries the number of slot accesses   *)
(* its thread made before it (clk); a load with memory_order_acquire that  *)
(* returns it orders these accesses before everything the loading thread   *)
(* does next.  A slot access that is not ordered after the other thread's  *)
(* last conflicting access of the slot is a data race, and what a racing   *)
(* read returns is arbitrary.                                              *)
(*                                                                         *)
(* The producer's n-th element is the number n.                            *)
(***************************************************************************)
EXTENDS Integers, Sequences

CONSTANTS Capacity,  \* the capacity spsc_init is given
          MaxPush    \* bound: elements pushed between an init and a destroy

\* spsc_init refuses a capacity of 0.
ASSUME CapacityAssumption == Capacity \in Nat \ {0}
ASSUME MaxPushAssumption == MaxPush \in Nat

VARIABLES data,      \* q->data is not NULL
          slot,      \* per slot, the element written last (0: none yet)
          slotRead,  \* per slot, the number of the last read of it (0: none)
          head,      \* stores to q->head: their values and clocks
          tail,      \* stores to q->tail
          prod,      \* the producer: pc, the newest head store it has seen,
                     \* and the consumer's accesses ordered before it
          cons,      \* the consumer, likewise
          pushed,    \* how many pushes returned true
          popped,    \* the elements pops returned, in order
          race       \* a data race has happened

vars == <<data, slot, slotRead, head, tail, prod, cons, pushed, popped, race>>

\* Mutant: no slot is left empty.
SlotsNoSpare == Capacity

\* q->slots
Slots == Capacity + 1
Index == 0 .. Slots - 1

Last(s) == s[Len(s)]
Larger(a, b) == IF a >= b THEN a ELSE b

Store(v, c) == [val |-> v, clk |-> c]
Fresh == [pc |-> "idle", seen |-> 1, clk |-> 0]

\* The elements in the ring: those pushed and not popped.
Held == pushed - Len(popped)

Init == /\ data = FALSE
        /\ slot = [i \in Index |-> 0]
        /\ slotRead = [i \in Index |-> 0]
        /\ head = <<Store(0, 0)>>
        /\ tail = <<Store(0, 0)>>
        /\ prod = Fresh
        /\ cons = Fresh
        /\ pushed = 0
        /\ popped = <<>>
        /\ race = FALSE

-----------------------------------------------------------------------------
\* spsc_init; the threads that use the queue are created afterwards, so its
\* relaxed stores are ordered before their first loads.  malloc may fail.
SpscInit == /\ ~data
            /\ \/ /\ data' = TRUE
                  /\ slot' = [i \in Index |-> 0]
                  /\ slotRead' = [i \in Index |-> 0]
                  /\ head' = <<Store(0, 0)>>
                  /\ tail' = <<Store(0, 0)>>
                  /\ prod' = Fresh
                  /\ cons' = Fresh
                  /\ pushed' = 0
                  /\ popped' = <<>>
               \/ UNCHANGED <<data, slot, slotRead, head, tail, prod, cons, pushed, popped>>
            /\ UNCHANGED race

\* spsc_destroy: "Both threads must be done with the queue."
SpscDestroy == /\ data
               /\ prod.pc = "idle" /\ cons.pc = "idle"
               /\ data' = FALSE
               /\ UNCHANGED <<slot, slotRead, head, tail, prod, cons, pushed, popped, race>>

-----------------------------------------------------------------------------
(* spsc_push, called by the producer *)

PushTail == Last(tail).val
PushNext == (PushTail + 1) % Slots

\* Mutant: the load is relaxed.
SeeHeadRelaxed(k) == [prod EXCEPT !.seen = k]

\* The acquire load of head returns its k-th store.
SeeHead(k) == [prod EXCEPT !.seen = k, !.clk = Larger(@, head[k].clk)]

\* "full": spsc_push returns false.
PushFull(k) == /\ data
               /\ prod.pc = "idle"
               /\ pushed < MaxPush
               /\ PushNext = head[k].val
               /\ prod' = SeeHead(k)
               /\ UNCHANGED <<data, slot, slotRead, head, tail, cons, pushed, popped, race>>

\* Mutant: the check for a full ring is missing.
PushFreeUnchecked(k) ==
    /\ data /\ prod.pc = "idle" /\ pushed < MaxPush
    /\ prod' = [SeeHead(k) EXCEPT !.pc = "copy"]
    /\ UNCHANGED <<data, slot, slotRead, head, tail, cons, pushed, popped, race>>

\* Mutant: compares tail, not next, with head: an empty ring refuses pushes.
PushFreeUnlessEmpty(k) ==
    /\ data /\ prod.pc = "idle" /\ pushed < MaxPush
    /\ PushTail # head[k].val
    /\ prod' = [SeeHead(k) EXCEPT !.pc = "copy"]
    /\ UNCHANGED <<data, slot, slotRead, head, tail, cons, pushed, popped, race>>

PushFree(k) == /\ data
               /\ prod.pc = "idle"
               /\ pushed < MaxPush
               /\ PushNext # head[k].val
               /\ prod' = [SeeHead(k) EXCEPT !.pc = "copy"]
               /\ UNCHANGED <<data, slot, slotRead, head, tail, cons, pushed, popped, race>>

\* memcpy into the slot at tail.
PushCopy == /\ prod.pc = "copy"
            /\ slot' = [slot EXCEPT ![PushTail] = pushed + 1]
            /\ race' = (race \/ slotRead[PushTail] > prod.clk)
            /\ prod' = [prod EXCEPT !.pc = "publish"]
            /\ UNCHANGED <<data, slotRead, head, tail, cons, pushed, popped>>

\* The release store of tail: every slot written so far is published.
PushPublish == /\ prod.pc = "publish"
               /\ tail' = Append(tail, Store(PushNext, pushed + 1))
               /\ pushed' = pushed + 1
               /\ prod' = [prod EXCEPT !.pc = "idle"]
               /\ UNCHANGED <<data, slot, slotRead, head, cons, popped, race>>

-----------------------------------------------------------------------------
(* spsc_pop, called by the consumer *)

PopHead == Last(head).val

SeeTail(k) == [cons EXCEPT !.seen = k, !.clk = Larger(@, tail[k].clk)]

\* "empty": spsc_pop returns false.
PopEmpty(k) == /\ data
               /\ cons.pc = "idle"
               /\ PopHead = tail[k].val
               /\ cons' = SeeTail(k)
               /\ UNCHANGED <<data, slot, slotRead, head, tail, prod, pushed, popped, race>>

PopSome(k) == /\ data
              /\ cons.pc = "idle"
              /\ PopHead # tail[k].val
              /\ cons' = [SeeTail(k) EXCEPT !.pc = "copy"]
              /\ UNCHANGED <<data, slot, slotRead, head, tail, prod, pushed, popped, race>>

\* memcpy out of the slot at head; a racing read may return anything.
PopCopy == /\ cons.pc = "copy"
           /\ LET racy == slot[PopHead] > cons.clk IN
              /\ race' = (race \/ racy)
              /\ \E v \in {slot[PopHead]} \cup (IF racy THEN {0} ELSE {}) :
                    popped' = Append(popped, v)
           /\ slotRead' = [slotRead EXCEPT ![PopHead] = Len(popped) + 1]
           /\ cons' = [cons EXCEPT !.pc = "publish"]
           /\ UNCHANGED <<data, slot, head, tail, prod, pushed>>

\* The release store of head: the slots read so far may be reused.
PopPublish == /\ cons.pc = "publish"
              /\ head' = Append(head, Store((PopHead + 1) % Slots, Len(popped)))
              /\ cons' = [cons EXCEPT !.pc = "idle"]
              /\ UNCHANGED <<data, slot, slotRead, tail, prod, pushed, popped, race>>

-----------------------------------------------------------------------------
\* spsc_len, from one load of each index.
SpscLen(h, t) == (t + Slots - h) % Slots

\* Its relaxed load still obeys coherence: later loads are not older.
LenByProducer(k) == /\ data
                    /\ prod.pc = "idle"
                    /\ prod' = [prod EXCEPT !.seen = k]
                    /\ UNCHANGED <<data, slot, slotRead, head, tail, cons, pushed, popped, race>>

LenByConsumer(k) == /\ data
                    /\ cons.pc = "idle"
                    /\ cons' = [cons EXCEPT !.seen = k]
                    /\ UNCHANGED <<data, slot, slotRead, head, tail, prod, pushed, popped, race>>

HeadLoads == prod.seen .. Len(head)
TailLoads == cons.seen .. Len(tail)

Producer == \/ \E k \in HeadLoads : PushFull(k) \/ PushFree(k) \/ LenByProducer(k)
            \/ PushCopy \/ PushPublish

Consumer == \/ \E k \in TailLoads : PopEmpty(k) \/ PopSome(k) \/ LenByConsumer(k)
            \/ PopCopy \/ PopPublish

Next == SpscInit \/ SpscDestroy \/ Producer \/ Consumer

Spec == Init /\ [][Next]_vars

(***************************************************************************)
(* Fairness: both threads run, their callers retry until they succeed (as  *)
(* the header asks and the tests do), and a store becomes visible to the   *)
(* other thread in a finite time: a load that is repeated for ever returns *)
(* the newest store at some point.                                         *)
(***************************************************************************)
Fairness ==
    /\ WF_vars(PushCopy \/ PushPublish)
    /\ WF_vars(PopCopy \/ PopPublish)
    /\ WF_vars(PushFull(Len(head)) \/ PushFree(Len(head)))
    /\ WF_vars(PopEmpty(Len(tail)) \/ PopSome(Len(tail)))

FairSpec == Spec /\ Fairness

-----------------------------------------------------------------------------
(* Properties *)

Thread == [pc : {"idle", "copy", "publish"}, seen : Nat \ {0}, clk : Nat]
Stores == Seq([val : Index, clk : Nat])

TypeOK == /\ data \in BOOLEAN
          /\ slot \in [Index -> Nat]
          /\ slotRead \in [Index -> Nat]
          /\ head \in Stores /\ tail \in Stores
          /\ head # <<>> /\ tail # <<>>
          /\ prod \in Thread /\ cons \in Thread
          /\ prod.seen <= Len(head) /\ cons.seen <= Len(tail)
          /\ pushed \in Nat
          /\ popped \in Seq(Nat)
          /\ race \in BOOLEAN

(***************************************************************************)
(* The two memcpy calls never race: a slot is overwritten only after the   *)
(* read of its previous element happened before, and read only after its   *)
(* write happened before, however stale the loads of head and tail are.    *)
(***************************************************************************)
NoDataRace == ~race

(***************************************************************************)
(* First in, first out, exactly once: the n-th successful pop returns the  *)
(* n-th element pushed, and the ring never holds more than its capacity.   *)
(***************************************************************************)
FifoDelivery == /\ TypeOK
                /\ \A n \in 1 .. Len(popped) : popped[n] = n
                /\ Held \in 0 .. Capacity

(***************************************************************************)
(* The answers "full" and "empty" are honest with respect to what the      *)
(* caller has seen.  Equal indices mean what they should although they     *)
(* wrap: a refused push saw a head that left Capacity elements, a refused  *)
(* pop saw a tail that left none.  (The k-th store of head is made by the  *)
(* (k-1)-th pop, and likewise for tail.)                                   *)
(***************************************************************************)
HonestRefusals ==
    /\ \A k \in HeadLoads :
         data /\ prod.pc = "idle" /\ PushNext = head[k].val => pushed - (k - 1) = Capacity
    /\ \A k \in TailLoads :
         data /\ cons.pc = "idle" /\ PopHead = tail[k].val => k - 1 = Len(popped)

(***************************************************************************)
(* spsc_len is "approximate", but not arbitrarily so: the producer never   *)
(* reads less than what the ring holds and the consumer never more, which  *)
(* is what each needs to decide whether to wait.                           *)
(***************************************************************************)
LenIsOneSided ==
    /\ data /\ prod.pc = "idle" =>
         \A k \in HeadLoads : SpscLen(head[k].val, PushTail) >= Held
    /\ data /\ cons.pc = "idle" =>
         \A k \in TailLoads : SpscLen(PopHead, tail[k].val) <= Held

(***************************************************************************)
(* What spsc_push, spsc_pop and spsc_len answer is true of what the caller *)
(* has seen, and errs on the safe side of what there is.                   *)
(***************************************************************************)
HonestAnswers == HonestRefusals /\ LenIsOneSided

(***************************************************************************)
(* Every element pushed is popped, and a producer that was refused gets    *)
(* its element in, unless the queue is destroyed first.                    *)
(***************************************************************************)
EverythingDelivered ==
    data ~> (Len(popped) = MaxPush \/ ~data)
=============================================================================
