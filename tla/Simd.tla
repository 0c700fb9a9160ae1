-------------------------------- MODULE Simd --------------------------------
(***************************************************************************)
(* src/src/hpc/simd_ops.c: each kernel is a loop over vectors of Lanes     *)
(* elements and a loop over what is left; a build without SIMD has the     *)
(* second only.  The arrays hold integers, of which sums are exact, so     *)
(* what counts is which elements a kernel reads and writes.                *)
(***************************************************************************)
EXTENDS Integers

CONSTANTS Lanes,    \* 4 in the code
          MaxN,     \* bound: lengths of the arrays
          InA, InB, \* a and b
          Scalar    \* s of simd_scale_f32

VARIABLES op, n,    \* the kernel and its argument
          vector,   \* whether the build has the vector loop
          idx,      \* i
          dst,      \* the destination, with one element behind the n-th
          acc, sum, \* vsum and sum
          kpc

vars == <<op, n, vector, idx, dst, acc, sum, kpc>>

Ops == {"add", "mul", "scale", "dot", "sum"}

Init == /\ op \in Ops /\ n \in 0 .. MaxN /\ vector \in BOOLEAN
        /\ idx = 0 /\ dst = [k \in 1 .. MaxN + 1 |-> 0]
        /\ acc = [l \in 1 .. Lanes |-> 0] /\ sum = 0
        /\ kpc = IF n = 0 THEN "done" ELSE "vector"

\* What one element contributes.
Element(k) == CASE op = "add" -> InA[k] + InB[k]
                [] op \in {"mul", "dot"} -> InA[k] * InB[k]
                [] op = "scale" -> InA[k] * Scalar
                [] op = "sum" -> InA[k]

\* f[1] + ... + f[m]
Summed(f, m) == LET s[k \in 0 .. m] == IF k = 0 THEN 0 ELSE s[k - 1] + f[k] IN s[m]

Stores == op \in {"add", "mul", "scale"}

\* Mutant: a last, incomplete vector is processed as well.
WholeVectorAny == idx < n

WholeVector == idx + Lanes <= n

VectorStep == /\ kpc = "vector" /\ vector /\ WholeVector
              /\ idx' = idx + Lanes
              /\ IF Stores
                 THEN /\ dst' = [k \in DOMAIN dst |-> IF k \in idx + 1 .. idx + Lanes THEN Element(k) ELSE dst[k]]
                      /\ UNCHANGED acc
                 ELSE /\ acc' = [l \in 1 .. Lanes |-> acc[l] + Element(idx + l)]
                      /\ UNCHANGED dst
              /\ UNCHANGED <<op, n, vector, sum, kpc>>

\* The lanes are added up before the tail.
Horizontal == /\ kpc = "vector" /\ ~(vector /\ WholeVector)
              /\ sum' = Summed(acc, Lanes)
              /\ kpc' = "tail"
              /\ UNCHANGED <<op, n, vector, idx, dst, acc>>

TailStep == /\ kpc = "tail" /\ idx < n
            /\ idx' = idx + 1
            /\ IF Stores THEN dst' = [dst EXCEPT ![idx + 1] = Element(idx + 1)] /\ UNCHANGED sum
                         ELSE sum' = sum + Element(idx + 1) /\ UNCHANGED dst
            /\ UNCHANGED <<op, n, vector, acc, kpc>>

Return == /\ kpc = "tail" /\ idx >= n
          /\ kpc' = "done"
          /\ UNCHANGED <<op, n, vector, idx, dst, acc, sum>>

Next == VectorStep \/ Horizontal \/ TailStep \/ Return \/ (kpc = "done" /\ UNCHANGED vars)

Spec == Init /\ [][Next]_vars

(***************************************************************************)
(* simd_add_f32 and its siblings: for every length, also one that is not a *)
(* multiple of the vector, and with or without SIMD, each element is       *)
(* processed once and the element behind the last is left alone.           *)
(***************************************************************************)
KernelIsExact ==
    kpc = "done" =>
      /\ \A k \in DOMAIN dst : dst[k] = IF Stores /\ k <= n THEN Element(k) ELSE 0
      /\ ~Stores => sum = Summed([k \in 1 .. n |-> Element(k)], n)
=============================================================================
