----------------------------- MODULE LeakDetect -----------------------------
(***************************************************************************)
(* src/src/memory/leak_detect.c: wrappers around malloc, calloc, realloc   *)
(* and free that keep a list of records, newest first.  The heap below     *)
(* them is external: it hands out any address that is not in use, so an    *)
(* address comes back after a free, and any allocation may fail, that of a *)
(* record included.  File names, lines and the printed text are left out.  *)
(***************************************************************************)
EXTENDS Integers, Sequences, FiniteSets

CONSTANTS Addrs,         \* addresses the heap may return
          Sizes,         \* sizes asked of malloc and calloc
          ReallocSizes,  \* sizes asked of realloc
          MaxAllocs,     \* bound: records made between an init and a shutdown
          NULL

VARIABLES up,         \* between leak_detect_init and leak_detect_shutdown
          records,    \* the list from g_head
          allocs,     \* g_total_allocs
          frees,      \* g_total_frees
          heap,       \* the heap: address -> size, for the blocks in use
          untracked   \* history: blocks in use whose record could not be made

vars == <<up, records, allocs, frees, heap, untracked>>

InUse == DOMAIN heap
Nothing == [a \in {} |-> 0]
With(a, size) == [x \in InUse \cup {a} |-> IF x = a THEN size ELSE heap[x]]
Without(a) == [x \in InUse \ {a} |-> heap[x]]

Init == /\ up = FALSE
        /\ records = <<>> /\ allocs = 0 /\ frees = 0
        /\ heap = Nothing /\ untracked = {}

\* What is in use from before was never recorded.
LeakDetectInit == /\ ~up
                  /\ up' = TRUE
                  /\ records' = <<>> /\ allocs' = 0 /\ frees' = 0
                  /\ untracked' = InUse
                  /\ UNCHANGED heap

\* record_add, whose own malloc may fail.
RecordAdd(a, size) ==
    \/ /\ allocs < MaxAllocs
       /\ records' = <<[ptr |-> a, size |-> size]>> \o records
       /\ allocs' = allocs + 1
       /\ UNCHANGED untracked
    \/ /\ untracked' = untracked \cup {a}
       /\ UNCHANGED <<records, allocs>>

\* leak_detect_malloc and leak_detect_calloc, when the heap has memory.
Alloc(a, size) == /\ up
                  /\ a \notin InUse
                  /\ heap' = With(a, size)
                  /\ RecordAdd(a, size)
                  /\ UNCHANGED <<up, frees>>

RecordsOf(a) == {k \in DOMAIN records : records[k].ptr = a}
First(S) == CHOOSE k \in S : \A l \in S : k <= l
DropAt(k) == SubSeq(records, 1, k - 1) \o SubSeq(records, k + 1, Len(records))

\* realloc(NULL, size)
ReallocNull(a, size) == Alloc(a, size)

\* The record found before the realloc is brought up to date after it.
ReallocRecord(k, a, size) == [records EXCEPT ![k] = [ptr |-> a, size |-> size]]

\* realloc of p succeeds, in place or at another address a.
ReallocOk(p, a, size) ==
    /\ up
    /\ p \in InUse
    /\ size > 0
    /\ a = p \/ a \notin InUse
    /\ heap' = [x \in (InUse \ {p}) \cup {a} |-> IF x = a THEN size ELSE heap[x]]
    /\ IF RecordsOf(p) # {}
         THEN /\ records' = ReallocRecord(First(RecordsOf(p)), a, size)
              /\ UNCHANGED <<allocs, untracked>>
         ELSE \/ /\ allocs < MaxAllocs
                 /\ records' = <<[ptr |-> a, size |-> size]>> \o records
                 /\ allocs' = allocs + 1
                 /\ untracked' = untracked \ {p}
              \/ /\ untracked' = (untracked \ {p}) \cup {a}
                 /\ UNCHANGED <<records, allocs>>
    /\ UNCHANGED <<up, frees>>

\* realloc(p, 0) with glibc frees p and returns NULL; the function returns
\* before it looks at the record.
ReallocZero(p) == /\ up
                  /\ p \in InUse
                  /\ 0 \in ReallocSizes
                  /\ heap' = Without(p)
                  /\ untracked' = untracked \ {p}
                  /\ UNCHANGED <<up, records, allocs, frees>>

\* record_remove, then free.
LeakDetectFree(p) ==
    /\ up
    /\ p \in InUse
    /\ IF RecordsOf(p) # {}
         THEN records' = DropAt(First(RecordsOf(p))) /\ frees' = frees + 1
         ELSE UNCHANGED <<records, frees>>
    /\ heap' = Without(p)
    /\ untracked' = untracked \ {p}
    /\ UNCHANGED <<up, allocs>>

\* What leak_detect_report returns.
LeakDetectReport == Len(records)

LeakDetectShutdown == /\ up
                      /\ up' = FALSE
                      /\ records' = <<>>
                      /\ UNCHANGED <<allocs, frees, heap, untracked>>

Next == \/ LeakDetectInit \/ LeakDetectShutdown
        \/ \E a \in Addrs, size \in Sizes : Alloc(a, size)
        \/ \E a \in Addrs, size \in ReallocSizes :
              ReallocNull(a, size) \/ \E p \in Addrs : ReallocOk(p, a, size)
        \/ \E p \in Addrs : LeakDetectFree(p)

\* The same with callers that also shrink blocks to nothing.
NextWithZero == Next \/ \E p \in Addrs : ReallocZero(p)

Spec == Init /\ [][Next]_vars

SpecWithZero == Init /\ [][NextWithZero]_vars

-----------------------------------------------------------------------------
(* Properties *)

TypeOK == /\ up \in BOOLEAN
          /\ records \in Seq([ptr : Addrs, size : Nat])
          /\ allocs \in 0 .. MaxAllocs /\ frees \in 0 .. allocs
          /\ InUse \subseteq Addrs /\ untracked \subseteq InUse

(***************************************************************************)
(* The list is the heap: every block in use has exactly one record, with   *)
(* its size, unless memory for the record was missing; the report counts   *)
(* no block that was freed, though addresses are reused and blocks move;   *)
(* and the totals it prints differ by the number of records.               *)
(***************************************************************************)
ReportIsExact ==
    /\ TypeOK
    /\ up => /\ LeakDetectReport = Cardinality(InUse \ untracked)
             /\ allocs - frees = Len(records)
             /\ \A a \in InUse \ untracked :
                  \E k \in RecordsOf(a) : records[k].size = heap[a] /\ RecordsOf(a) = {k}

(***************************************************************************)
(* leak_detect.c: after a realloc that returned NULL "original pointer     *)
(* stays live and tracked": a record stands for a block in use.            *)
(***************************************************************************)
TrackedIsLive == \A k \in DOMAIN records : records[k].ptr \in InUse
=============================================================================
