------------------------------- MODULE RingBuf -------------------------------
(***************************************************************************)
(* src/src/containers/ringbuf.c: the circular buffer, in size_t of Width   *)
(* bits.  malloc, which is external, may fail and never gives more than    *)
(* PTRDIFF_MAX bytes.                                                      *)
(***************************************************************************)
EXTENDS Integers, Sequences

CONSTANTS Width,      \* bits of size_t
          Elems,      \* what is stored
          ElemSizes,  \* element sizes asked for, not 0
          Caps,       \* capacities asked for, not 0
          NULL, Garbage

VARIABLES data,       \* r->data: the element in each slot, or NULL
          elem_size, cap, head, len,
          bytes,      \* the size of the block behind data
          queue       \* history: the bounded queue the calls should have built

vars == <<data, elem_size, cap, head, len, bytes, queue>>

SizeMax == 2 ^ Width - 1
PtrdiffMax == SizeMax \div 2
Wrap(x) == x % (SizeMax + 1)

Init == /\ data = NULL
        /\ elem_size = 0 /\ cap = 0 /\ head = 0 /\ len = 0
        /\ bytes = 0
        /\ queue = <<>>

\* malloc and the guards of ringbuf_init let the request through.
RingBufInit(es, c) == /\ data = NULL
                      /\ c <= SizeMax \div es
                      /\ Wrap(c * es) <= PtrdiffMax
                      /\ data' = [p \in 0 .. c - 1 |-> Garbage]
                      /\ bytes' = Wrap(c * es)
                      /\ elem_size' = es /\ cap' = c /\ head' = 0 /\ len' = 0
                      /\ queue' = <<>>

RingBufDestroy == /\ data # NULL
                  /\ data' = NULL
                  /\ bytes' = 0
                  /\ cap' = 0 /\ len' = 0
                  /\ queue' = <<>>
                  /\ UNCHANGED <<elem_size, head>>

TailIndex == Wrap(head + len) % cap

\* A full ring refuses (ERR_OVERFLOW).
RingBufPush(e) == /\ data # NULL
                  /\ len # cap
                  /\ data' = [data EXCEPT ![TailIndex] = e]
                  /\ len' = len + 1
                  /\ queue' = Append(queue, e)
                  /\ UNCHANGED <<elem_size, cap, head, bytes>>

\* Mutant: the head stays at the newest element.
OverwriteOldestInPlace(e) ==
    /\ data' = [data EXCEPT ![head] = e]
    /\ queue' = Append(Tail(queue), e)
    /\ UNCHANGED <<elem_size, cap, head, len, bytes>>

\* Full: the oldest element gives way to the newest.
OverwriteOldest(e) == /\ data' = [data EXCEPT ![head] = e]
                      /\ head' = (head + 1) % cap
                      /\ queue' = Append(Tail(queue), e)
                      /\ UNCHANGED <<elem_size, cap, len, bytes>>

RingBufPushOverwrite(e) == /\ data # NULL
                           /\ \/ len < cap /\ RingBufPush(e)
                              \/ ~(len < cap) /\ OverwriteOldest(e)

\* An empty ring refuses (ERR_NOT_FOUND).
RingBufPop == /\ data # NULL
              /\ len # 0
              /\ head' = (head + 1) % cap
              /\ len' = len - 1
              /\ queue' = Tail(queue)
              /\ UNCHANGED <<data, elem_size, cap, bytes>>

Next == \/ \E es \in ElemSizes, c \in Caps : RingBufInit(es, c)
        \/ RingBufDestroy \/ RingBufPop
        \/ \E e \in Elems : RingBufPush(e) \/ RingBufPushOverwrite(e)

Spec == Init /\ [][Next]_vars

-----------------------------------------------------------------------------
(* Properties *)

\* What pops would return, one after the other.
Contents == [k \in 1 .. len |-> data[(head + k - 1) % cap]]

(***************************************************************************)
(* The ring is a bounded queue, wherever its head is: ringbuf_pop returns  *)
(* the elements in the order they came in, without those that              *)
(* ringbuf_push_overwrite dropped; and its slots lie inside its block      *)
(* whatever sizes ringbuf_init was asked for.                              *)
(***************************************************************************)
IsQueue == data # NULL => /\ Contents = queue
                          /\ len \in 0 .. cap /\ head \in 0 .. cap - 1
                          /\ cap * elem_size <= bytes
=============================================================================
