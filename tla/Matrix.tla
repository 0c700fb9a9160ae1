------------------------------- MODULE Matrix -------------------------------
(***************************************************************************)
(* src/src/math/matx.c: one call of a matrix operation.  Matrices are flat *)
(* buffers with rows and columns; the three arguments may share a buffer,  *)
(* and the loops read and write the elements in the code's order, so that  *)
(* what an operation does to its own input shows.  Elements are integers   *)
(* that tell the places apart.                                             *)
(***************************************************************************)
EXTENDS Integers, Sequences, SequencesExt, FiniteSetsExt

CONSTANTS MaxDim,    \* bound: rows and columns
          SizeMax,   \* SIZE_MAX
          MATX_DEFAULT_BLOCK

VARIABLES fn,        \* the operation, and the block size
          a, b, o,   \* the arguments: [buf, rows, cols]
          mem,       \* buffer -> its elements
          ret        \* "none" before the call

vars == <<fn, a, b, o, mem, ret>>

Elementwise == {"add", "sub", "hadamard", "scale", "map"}
Fns == {<<f, 0>> : f \in Elementwise \cup {"add_row", "col_sums", "mul", "transpose", "init", "fill"}}
       \cup {<<"mul_blocked", s>> : s \in 0 .. MaxDim + 1}

Mat(buf, rows, cols) == [buf |-> buf, rows |-> rows, cols |-> cols]
Size(m) == m.rows * m.cols

\* The shapes an operation wants of b and of out, for r x k matrices a.
Wanted(f, r, k, c) ==
    CASE f \in Elementwise -> << <<r, k>>, <<r, k>> >>
      [] f = "add_row" -> << <<1, k>>, <<r, k>> >>
      [] f = "col_sums" -> << <<1, k>>, <<1, k>> >>
      [] f \in {"mul", "mul_blocked"} -> << <<k, c>>, <<r, c>> >>
      [] f = "transpose" -> << <<r, k>>, <<k, r>> >>
      [] f \in {"init", "fill"} -> << <<r, k>>, <<r, k>> >>

\* Arguments of the wanted shapes, or with an output of another; buffers are
\* shared by arguments of one size.
Init == /\ fn \in Fns
        /\ \E r, k, c \in 1 .. MaxDim, wrong \in BOOLEAN, bb \in 1 .. 2, ob \in 1 .. 3 :
             LET w == Wanted(fn[1], r, k, c)
             IN /\ a = Mat(1, r, k)
                /\ b = Mat(bb, w[1][1], w[1][2])
                /\ o = IF wrong THEN Mat(ob, w[2][2], w[2][1] + 1) ELSE Mat(ob, w[2][1], w[2][2])
                /\ bb = 1 => Size(a) = Size(b)
                /\ ob = 1 => Size(a) = Size(o)
                /\ ob = 2 => Size(b) = Size(o) /\ bb = 2
        /\ mem = [m \in 1 .. 3 |-> [k \in 1 .. 3 * MaxDim * MaxDim |->
                    CASE m = 1 -> k [] m = 2 -> 11 * k - 20 [] m = 3 -> 7]]
        /\ ret = "none"

At(m, mm, r, c) == mm[m.buf][(r - 1) * m.cols + c]
Put(mm, m, r, c, v) == [mm EXCEPT ![m.buf][(r - 1) * m.cols + c] = v]
Cells(rows, cols) == [k \in 1 .. rows * cols |-> <<(k - 1) \div cols + 1, ((k - 1) % cols) + 1>>]

\* checked_count: the number of elements, in size_t.
CheckedCount(rows, cols) == IF rows = 0 \/ cols = 0 THEN "INVALID_ARG"
                            ELSE IF rows > SizeMax \div cols THEN "OVERFLOW"
                            ELSE IF rows * cols > SizeMax \div 4 THEN "OVERFLOW" ELSE "OK"

\* check_elementwise
CheckElementwise == a.rows = b.rows /\ a.cols = b.cols /\ o.rows = a.rows /\ o.cols = a.cols

\* check_mul
CheckMul == /\ a.cols = b.rows /\ o.rows = a.rows /\ o.cols = b.cols
            /\ o.buf # a.buf /\ o.buf # b.buf

Combine(f, x, y) == CASE f = "add" -> x + y [] f = "sub" -> x - y [] f = "hadamard" -> x * y
                      [] f = "scale" -> 5 * x [] f = "map" -> x * x

ElementwiseLoop == FoldLeft(LAMBDA mm, k : [mm EXCEPT ![o.buf][k] = Combine(fn[1], mm[a.buf][k], mm[b.buf][k])],
                            mem, [k \in 1 .. Size(a) |-> k])

AddRowLoop == FoldLeft(LAMBDA mm, x : Put(mm, o, x[1], x[2], At(a, mm, x[1], x[2]) + mm[b.buf][x[2]]),
                       mem, Cells(a.rows, a.cols))

\* memset of the output
Zeroed == [mem EXCEPT ![o.buf] = [k \in DOMAIN @ |-> IF k <= Size(o) THEN 0 ELSE @[k]]]

\* matx_fill, with the value 9
FillLoop == [mem EXCEPT ![o.buf] = [k \in DOMAIN @ |-> IF k <= Size(o) THEN 9 ELSE @[k]]]

ColSumsLoop == FoldLeft(LAMBDA mm, x : Put(mm, o, 1, x[2], At(o, mm, 1, x[2]) + At(a, mm, x[1], x[2])),
                        Zeroed, Cells(a.rows, a.cols))

\* A loop over the sequence s, and the indices between two bounds.
Nest(s, Body(_)) == FlattenSeq([x \in DOMAIN s |-> Body(s[x])])
Upto(lo, hi) == [x \in 1 .. hi - lo + 1 |-> lo + x - 1]

\* The innermost statement of both products, for all of its visits in order.
Product(visits) ==
    FoldLeft(LAMBDA mm, v : Put(mm, o, v[1], v[3], At(o, mm, v[1], v[3]) + At(a, mm, v[1], v[2]) * At(b, mm, v[2], v[3])),
             Zeroed, visits)

MulVisits(it, kt, jt) ==
    Nest(Upto(it[1], it[2]), LAMBDA i : Nest(Upto(kt[1], kt[2]), LAMBDA k :
        [x \in 1 .. jt[2] - jt[1] + 1 |-> <<i, k, jt[1] + x - 1>>]))

MulLoop == Product(MulVisits(<<1, a.rows>>, <<1, a.cols>>, <<1, b.cols>>))

\* The tiles of a dimension: first and last index; the last may be smaller.
Tiles(dim, block) == [t \in 1 .. (dim + block - 1) \div block |->
                        <<(t - 1) * block + 1, IF t * block < dim THEN t * block ELSE dim>>]

MulBlockedLoop ==
    LET block == IF fn[2] = 0 THEN MATX_DEFAULT_BLOCK ELSE fn[2]
    IN Product(Nest(Tiles(a.rows, block), LAMBDA it : Nest(Tiles(a.cols, block), LAMBDA kt :
                 Nest(Tiles(b.cols, block), LAMBDA jt : MulVisits(it, kt, jt)))))

TransposeLoop == FoldLeft(LAMBDA mm, x : Put(mm, o, x[2], x[1], At(a, mm, x[1], x[2])),
                          mem, Cells(a.rows, a.cols))

Run(f, check, result) == /\ ret = "none" /\ fn[1] \in f
                         /\ ret' = IF check THEN "OK" ELSE "INVALID_ARG"
                         /\ mem' = IF check THEN result ELSE mem
                         /\ UNCHANGED <<fn, a, b, o>>

SameShape == o.rows = a.rows /\ o.cols = a.cols

Next == \/ Run({"add", "sub", "hadamard"}, CheckElementwise, ElementwiseLoop)
        \/ Run({"scale", "map"}, SameShape, ElementwiseLoop)
        \/ Run({"add_row"}, b.rows = 1 /\ b.cols = a.cols /\ SameShape, AddRowLoop)
        \/ Run({"col_sums"}, o.rows = 1 /\ o.cols = a.cols /\ o.buf # a.buf, ColSumsLoop)
        \/ Run({"mul"}, CheckMul, MulLoop)
        \/ Run({"mul_blocked"}, CheckMul, MulBlockedLoop)
        \/ Run({"transpose"}, o.rows = a.cols /\ o.cols = a.rows /\ o.buf # a.buf, TransposeLoop)
        \/ Run({"init"}, CheckedCount(o.rows, o.cols) = "OK", Zeroed)
        \/ Run({"fill"}, TRUE, FillLoop)
        \/ ret # "none" /\ UNCHANGED vars

\* The mathematical result, from the arguments as they were.
Before(m, r, c) == LET k == (r - 1) * m.cols + c
                   IN CASE m.buf = 1 -> k [] m.buf = 2 -> 11 * k - 20 [] m.buf = 3 -> 7
Expected(r, c) ==
    CASE fn[1] \in Elementwise -> Combine(fn[1], Before(a, r, c), Before(b, r, c))
      [] fn[1] = "add_row" -> Before(a, r, c) + Before(b, 1, c)
      [] fn[1] = "col_sums" -> MapThenSumSet(LAMBDA x : Before(a, x, c), 1 .. a.rows)
      [] fn[1] \in {"mul", "mul_blocked"} ->
           MapThenSumSet(LAMBDA x : Before(a, r, x) * Before(b, x, c), 1 .. a.cols)
      [] fn[1] = "transpose" -> Before(a, c, r)
      [] fn[1] = "init" -> 0
      [] fn[1] = "fill" -> 9

(***************************************************************************)
(* matx.c: an operation that returns ERR_OK has computed the mathematical  *)
(* result from the arguments as they were, whichever of them share their   *)
(* buffers and however the product is tiled (a block larger than the       *)
(* matrix, not dividing it, or the default); a size that is accepted fits  *)
(* in size_t in bytes; nothing behind the output is written.               *)
(***************************************************************************)
OperationIsExact ==
    /\ ret = "OK" =>
         /\ \A r \in 1 .. o.rows, c \in 1 .. o.cols : At(o, mem, r, c) = Expected(r, c)
         /\ \A k \in Size(o) + 1 .. 3 * MaxDim * MaxDim :
              mem[o.buf][k] = Before([o EXCEPT !.cols = 0], 1, k)
    /\ fn[1] = "init" => \A rows, cols \in 0 .. SizeMax :
         CheckedCount(rows, cols) = "OK" <=> rows * cols \in 1 .. SizeMax \div 4
=============================================================================
