-------------------------------- MODULE Arena --------------------------------
(***************************************************************************)
(* src/src/memory/arena.c: the bump allocator.  size_t has Width bits, so  *)
(* that every sum that could wrap does.  The backing buffer lies at an     *)
(* address that is a multiple of MallocAlign, the strongest alignment      *)
(* malloc promises (16 on the platforms built for).                        *)
(***************************************************************************)
EXTENDS Integers, FiniteSets

CONSTANTS Width,        \* bits of size_t
          MallocAlign,  \* alignment of malloc'ed memory
          Caps,         \* capacities arena_init is asked for
          MaxBlocks     \* bound: allocations between two resets

VARIABLES base,    \* the address of a->buf, 0 for NULL
          cap, pos,
          blocks   \* history: the blocks handed out since the last reset

vars == <<base, cap, pos, blocks>>

SizeMax == 2 ^ Width - 1
SizeT == 0 .. SizeMax
Wrap(x) == x % (SizeMax + 1)

PowersOfTwo == {2 ^ k : k \in 0 .. Width - 1}

Init == base = 0 /\ cap = 0 /\ pos = 0 /\ blocks = {}

\* malloc returned the address b (a failure leaves no arena).
ArenaInit(c, b) == /\ base = 0
                   /\ base' = b
                   /\ cap' = c
                   /\ pos' = 0
                   /\ blocks' = {}

\* (pos + align - 1) & ~(align - 1), for a power of two, in size_t
Aligned(align) == LET x == Wrap(pos + align - 1) IN x - (x % align)

\* Mutant: the rounding may wrap around.
AcceptsWrapped(size, align) ==
    /\ size # 0
    /\ align \in PowersOfTwo
    /\ Aligned(align) <= cap
    /\ size <= cap - Aligned(align)

Accepts(size, align) ==
    /\ size # 0
    /\ align \in PowersOfTwo
    /\ pos <= SizeMax - (align - 1)
    /\ Aligned(align) <= cap
    /\ size <= cap - Aligned(align)

\* A refused request (NULL) changes nothing.
ArenaAlloc(size, align) ==
    /\ base # 0
    /\ Cardinality(blocks) < MaxBlocks
    /\ Accepts(size, align)
    /\ pos' = Wrap(Aligned(align) + size)
    /\ blocks' = blocks \cup {[at |-> Aligned(align), size |-> size, align |-> align]}
    /\ UNCHANGED <<base, cap>>

\* Every block is given up with the reset.
ArenaReset == /\ base # 0
              /\ pos' = 0
              /\ blocks' = {}
              /\ UNCHANGED <<base, cap>>

ArenaDestroy == /\ base # 0
                /\ base' = 0 /\ cap' = 0 /\ pos' = 0
                /\ blocks' = {}

Next == \/ \E c \in Caps, k \in 1 .. 2 : ArenaInit(c, k * MallocAlign)
        \/ \E size \in SizeT, align \in SizeT : ArenaAlloc(size, align)
        \/ ArenaReset \/ ArenaDestroy

Spec == Init /\ [][Next]_vars

-----------------------------------------------------------------------------
(* Properties *)

(***************************************************************************)
(* The position never leaves the buffer.                                   *)
(***************************************************************************)
TypeOK == /\ base \in Nat
          /\ cap \in SizeT /\ pos \in 0 .. cap
          /\ blocks \subseteq [at : SizeT, size : SizeT \ {0}, align : PowersOfTwo]

(***************************************************************************)
(* Blocks lie inside the buffer and do not overlap, whatever sizes and     *)
(* alignments are asked for, SIZE_MAX included: no sum wraps around.       *)
(***************************************************************************)
BlocksAreDisjoint ==
    /\ TypeOK
    /\ \A b \in blocks : b.at + b.size <= cap
    /\ \A b, d \in blocks : b # d => b.at + b.size <= d.at \/ d.at + d.size <= b.at

Address(b) == base + b.at

(***************************************************************************)
(* Alignment up to malloc's own is honoured: offsets are rounded up, and   *)
(* the buffer is that well aligned.                                        *)
(***************************************************************************)
AlignedUpToMalloc ==
    \A b \in blocks : b.align <= MallocAlign => Address(b) % b.align = 0
=============================================================================
