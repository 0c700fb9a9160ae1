-------------------------------- MODULE Pool --------------------------------
(***************************************************************************)
(* src/src/memory/pool.c: fixed-size blocks on a free list that is         *)
(* threaded through the blocks themselves.  Addresses are offsets into the *)
(* buffer; word[b] is the pointer-sized word at the start of block b,      *)
(* which belongs to the list while b is free and to the user while it is   *)
(* not.                                                                    *)
(***************************************************************************)
EXTENDS Integers, FiniteSets

CONSTANTS BlockSize,   \* bytes of a block, not 0
          BlockCount,  \* the number of blocks, not 0
          NULL,
          Data         \* what a user may write over the word, not NULL

VARIABLES buf,        \* p->buf is not NULL
          free_list,  \* p->free_list
          word,
          held        \* history: blocks handed out and not given back

vars == <<buf, free_list, word, held>>

Span == BlockSize * BlockCount
Blocks == {k * BlockSize : k \in 0 .. BlockCount - 1}

\* Pointers a caller may pass: inside the buffer, before and behind it.
Pointers == -BlockSize .. Span + BlockSize

Init == /\ buf = FALSE
        /\ free_list = NULL
        /\ word = [b \in Blocks |-> Data]
        /\ held = {}

\* The loop threads the blocks from the last to the first.
PoolInit == /\ ~buf
            /\ buf' = TRUE
            /\ word' = [b \in Blocks |-> IF b + BlockSize \in Blocks THEN b + BlockSize ELSE NULL]
            /\ free_list' = 0
            /\ held' = {}

\* An exhausted pool returns NULL and changes nothing.
PoolAlloc == /\ free_list # NULL
             /\ held' = held \cup {free_list}
             /\ free_list' = word[free_list]
             /\ UNCHANGED <<buf, word>>

\* The user of a block fills it.
UserWrites(b) == /\ b \in held
                 /\ word' = [word EXCEPT ![b] = Data]
                 /\ UNCHANGED <<buf, free_list, held>>

\* The checks of pool_free; a pointer that fails them is ignored.
Belongs(ptr) == buf /\ ptr >= 0 /\ ptr < Span /\ ptr % BlockSize = 0

\* A pointer to a block must come from pool_alloc (pool.h); any other pointer
\* may be passed.
PoolFree(ptr) == /\ Belongs(ptr)
                 /\ ptr \in Blocks => ptr \in held
                 /\ word' = [p \in DOMAIN word \cup {ptr} |->
                               IF p = ptr THEN free_list ELSE word[p]]
                 /\ free_list' = ptr
                 /\ held' = held \ {ptr}
                 /\ UNCHANGED buf

PoolDestroy == /\ buf
               /\ buf' = FALSE
               /\ free_list' = NULL
               /\ held' = {}
               /\ word' = [b \in Blocks |-> Data]

Next == \/ PoolInit \/ PoolAlloc \/ PoolDestroy
        \/ \E b \in Blocks : UserWrites(b)
        \/ \E ptr \in Pointers : PoolFree(ptr)

Spec == Init /\ [][Next]_vars

-----------------------------------------------------------------------------
(* Properties *)

TypeOK == /\ buf \in BOOLEAN
          /\ free_list \in Blocks \cup {NULL}
          /\ word \in [Blocks -> Blocks \cup {NULL, Data}]
          /\ held \subseteq Blocks

\* The k-th element of the free list, NULL behind its end.
Chain == LET f[k \in 0 .. BlockCount] ==
               IF k = 0 THEN free_list
               ELSE IF f[k - 1] \in Blocks THEN word[f[k - 1]] ELSE NULL
         IN  f

(***************************************************************************)
(* The free list is exactly the blocks nobody holds, each once: a held     *)
(* block is never handed out a second time, none is lost, and what users   *)
(* wrote into their blocks is never followed as a link.                    *)
(***************************************************************************)
FreeListIsExact ==
    /\ TypeOK
    /\ buf => /\ {Chain[k] : k \in 0 .. BlockCount} \ {NULL} = Blocks \ held
              /\ Chain[BlockCount - Cardinality(held)] = NULL
=============================================================================
