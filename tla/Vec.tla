--------------------------------- MODULE Vec ---------------------------------
(***************************************************************************)
(* src/src/containers/vec.c: the growable array, in size_t of Width bits.  *)
(* The heap behind v->alloc is external: it may refuse any request, and it *)
(* keeps the contents of a block it resizes, so elements are left out and  *)
(* the question is whether an element's bytes lie inside the block.        *)
(***************************************************************************)
EXTENDS Integers

CONSTANTS Width,         \* bits of size_t
          ElemSizes,     \* element sizes asked for, not 0
          VecInitialCap  \* VEC_INITIAL_CAP

VARIABLES elem_size,  \* 0 before vec_init and after vec_destroy
          cap, len,
          bytes       \* the size of the block behind v->data

vars == <<elem_size, cap, len, bytes>>

SizeMax == 2 ^ Width - 1
SizeT == 0 .. SizeMax
Wrap(x) == x % (SizeMax + 1)

Init == elem_size = 0 /\ cap = 0 /\ len = 0 /\ bytes = 0

\* vec_init and vec_init_a
VecInit(es) == /\ elem_size = 0
               /\ elem_size' = es /\ cap' = 0 /\ len' = 0 /\ bytes' = 0

VecDestroy == /\ elem_size # 0
              /\ elem_size' = 0 /\ cap' = 0 /\ len' = 0 /\ bytes' = 0

\* Mutant: the product may wrap around.
CanReserveUnchecked(c) == TRUE

\* The guard of vec_reserve against a product that wraps.
CanReserve(c) == c <= SizeMax \div elem_size

\* vec_reserve grows the block; a smaller request changes nothing.
Reserved(c) == /\ c > cap
               /\ CanReserve(c)
               /\ cap' = c
               /\ bytes' = Wrap(c * elem_size)

VecReserve(c) == /\ elem_size # 0
                 /\ Reserved(c)
                 /\ UNCHANGED <<elem_size, len>>

GrownCap == IF cap = 0 THEN VecInitialCap ELSE Wrap(cap * 2)

\* When the array cannot grow, vec_push returns an error and nothing changes.
VecPush == /\ elem_size # 0
           /\ \/ len # cap /\ UNCHANGED <<cap, bytes>>
              \/ len = cap /\ GrownCap > cap /\ Reserved(GrownCap)
           /\ len' = len + 1
           /\ UNCHANGED elem_size

VecPop == /\ bytes # 0
          /\ len # 0
          /\ len' = len - 1
          /\ UNCHANGED <<elem_size, cap, bytes>>

VecClear == /\ elem_size # 0
            /\ len' = 0
            /\ UNCHANGED <<elem_size, cap, bytes>>

Next == \/ \E es \in ElemSizes : VecInit(es)
        \/ \E c \in SizeT : VecReserve(c)
        \/ VecDestroy \/ VecPush \/ VecPop \/ VecClear

Spec == Init /\ [][Next]_vars

-----------------------------------------------------------------------------
(* Properties *)

(***************************************************************************)
(* Every element vec_push wrote and vec_at gives out lies inside the block *)
(* the allocator returned, whatever was reserved, SIZE_MAX included.       *)
(***************************************************************************)
FitsItsBlock == /\ elem_size \in SizeT /\ cap \in SizeT
                /\ len \in 0 .. cap
                /\ cap * elem_size <= bytes
=============================================================================
