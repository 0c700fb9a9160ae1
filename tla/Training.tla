------------------------------ MODULE Training ------------------------------
(***************************************************************************)
(* src/src/ml/nn.c under the training loop of src/examples/ml_demo.c: two  *)
(* dense layers, per batch two forward passes, the loss, two backward      *)
(* passes and two Adam steps.  Any allocation may fail, and the loop looks *)
(* at no result.  Numbers are left out: a matrix is known by its rows and  *)
(* by the batches its contents were computed from.  Batches may differ in  *)
(* size, as nn.h allows.                                                   *)
(***************************************************************************)
EXTENDS Integers, Sequences

CONSTANTS Batches,     \* sizes of batches
          MaxRounds,   \* bound
          Null

VARIABLES round, rows, \* the batch at hand and its size
          step,        \* the next call of the loop body, 0 before dense_init
          layer,       \* 1 and 2: caches and gradients
          act,         \* the loop's matrices bx, h, logits, dlogits, dh
          applied,     \* layer -> the batches in its last update
          fine         \* every call of this round returned ERR_OK

vars == <<round, rows, step, layer, act, applied, fine>>

M(r, from) == [rows |-> r, from |-> from]

\* A matrix from calloc.
Fresh(r) == M(r, {})

NewLayer == [x |-> Null, z |-> Null, dw |-> {}, db |-> {}]
Buffers == {"bx", "h", "logits", "dlogits", "dh"}

Init == /\ round = 0 /\ rows = 0 /\ step = 0
        /\ layer = [l \in 1 .. 2 |-> NewLayer]
        /\ act = [m \in Buffers |-> Fresh(0)]
        /\ applied = [l \in 1 .. 2 |-> {}] /\ fine = TRUE

\* dense_init, adam_init: on a failed allocation everything is destroyed
\* again and the program ends.
DenseInit == /\ step = 0
             /\ step' \in {1, 99}
             /\ UNCHANGED <<round, rows, layer, act, applied, fine>>

\* dataset_batch into matrices of the batch's size.
NextBatch == /\ step = 1 /\ round < MaxRounds
             /\ round' = round + 1
             /\ \E n \in Batches :
                  /\ rows' = n
                  /\ act' = [m \in Buffers |-> IF m = "bx" THEN M(n, {round'})
                                               ELSE IF n = rows THEN act[m] ELSE Fresh(n)]
             /\ fine' = TRUE /\ step' = 2
             /\ UNCHANGED <<layer, applied>>

\* Mutant: a matrix that is there is taken to have the right shape.
EnsureShapeAny(m, n) == IF m # Null THEN {m} ELSE {Null, Fresh(n)}

\* ensure_shape: what the matrix may be afterwards, Null if calloc failed.
EnsureShape(m, n) == IF m # Null /\ m.rows = n THEN {m} ELSE {Null, Fresh(n)}

\* dense_forward of layer l.
Forward(l, in, out) ==
    LET n == act[in].rows
    IN /\ \E x \in EnsureShape(layer[l].x, n) :
            \/ /\ x = Null                                  \* the first cache fails
               /\ layer' = [layer EXCEPT ![l].x = Null]
               /\ fine' = FALSE /\ UNCHANGED act
            \/ /\ x # Null
               /\ \E z \in EnsureShape(layer[l].z, n) :
                    \/ /\ z = Null                          \* the second cache fails
                       /\ layer' = [layer EXCEPT ![l].x = x, ![l].z = Null]
                       /\ fine' = FALSE /\ UNCHANGED act
                    \/ /\ z # Null
                       /\ layer' = [layer EXCEPT ![l].x = [x EXCEPT !.from = act[in].from],
                                                 ![l].z = [z EXCEPT !.from = act[in].from]]
                       /\ act' = [act EXCEPT ![out].from = act[in].from]
                       /\ UNCHANGED fine
       /\ UNCHANGED <<round, rows, applied>>

\* loss_softmax_xent, from the logits and the batch's own targets.
Loss == /\ act' = [act EXCEPT !["dlogits"].from = act["logits"].from \cup {round}]
        /\ UNCHANGED <<round, rows, layer, applied, fine>>

\* dense_backward of layer l; dx is NULL for the first layer.
Backward(l, dout, dx) ==
    LET c == layer[l]
        from == c.x.from \cup c.z.from \cup act[dout].from
        Filled == layer' = [layer EXCEPT ![l].dw = from, ![l].db = from]
        refused == IF c.x = Null \/ c.z = Null THEN TRUE ELSE act[dout].rows # c.x.rows
    IN /\ \/ refused /\ fine' = FALSE /\ UNCHANGED <<layer, act>>    \* ERR_INVALID_ARG
          \/ /\ ~refused
             /\ \/ fine' = FALSE /\ UNCHANGED <<layer, act>>    \* no memory for dz or xt
                \/ dx # Null /\ Filled /\ fine' = FALSE /\ UNCHANGED act    \* nor for wt
                \/ /\ Filled
                   /\ act' = IF dx = Null THEN act ELSE [act EXCEPT ![dx].from = from]
                   /\ UNCHANGED fine
       /\ UNCHANGED <<round, rows, applied>>

\* adam_step: the weights move by what the gradients hold.
AdamStep(l) == /\ applied' = [applied EXCEPT ![l] = layer[l].dw \cup layer[l].db]
               /\ UNCHANGED <<round, rows, layer, act, fine>>

Then(n, A) == step = n /\ A /\ step' = IF n = 8 THEN 1 ELSE n + 1

Done == step = 99 \/ (step = 1 /\ round = MaxRounds)

Next == \/ DenseInit \/ NextBatch
        \/ Then(2, Forward(1, "bx", "h"))
        \/ Then(3, Forward(2, "h", "logits"))
        \/ Then(4, Loss)
        \/ Then(5, Backward(2, "dlogits", "dh"))
        \/ Then(6, Backward(1, "dh", Null))
        \/ Then(7, AdamStep(2))
        \/ Then(8, AdamStep(1))
        \/ Done /\ UNCHANGED vars

Spec == Init /\ [][Next]_vars

(***************************************************************************)
(* nn.c: after a round in which every call succeeded both layers have      *)
(* moved by the gradients of that batch and no other, although the caches, *)
(* gradients and buffers of earlier, possibly failed rounds and of other   *)
(* batch sizes are reused; the two caches of a layer belong to one forward *)
(* pass and have its rows whenever backward would accept them; and the two *)
(* gradients of a layer are never of different passes.                     *)
(***************************************************************************)
UpdateIsOfTheBatch ==
    /\ step = 1 /\ round > 0 /\ fine => \A l \in 1 .. 2 : applied[l] = {round}
    /\ \A l \in 1 .. 2 :
         LET c == layer[l]
         IN /\ c.dw = c.db
            /\ c.x # Null /\ c.z # Null => c.x = c.z
            /\ fine /\ step = l + 2 => c.x = M(rows, {round})
=============================================================================
