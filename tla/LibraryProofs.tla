--------------------------- MODULE LibraryProofs ---------------------------
(***************************************************************************)
(* Theorems about the network trained batch by batch, the allocators, the  *)
(* framebuffer and the vector kernels, each of them a sequential program.  *)
(*                                                                         *)
(* Trained: every update is of the gradients of the batch just pushed.     *)
(* Allocated: the arena and the pool never hand out a byte twice, and the  *)
(* leak detector's list is of the blocks it did not lose.                  *)
(* Drawn: the shapes are exact and stay inside the framebuffer.            *)
(* Kernels: the vector kernels process each element once and no other.     *)
(***************************************************************************)
EXTENDS ContainerProofs

-----------------------------------------------------------------------------
(* The training loop *)

Mats == [rows : Nat, from : SUBSET Nat]
LayerRecs == [x : Mats \cup {NULL}, z : Mats \cup {NULL}, dw : SUBSET Nat, db : SUBSET Nat]

\* Every matrix of the loop has the rows of the batch at hand.
TrainType == /\ round \in Nat /\ rows \in Nat /\ fine \in BOOLEAN
             /\ layer \in [1 .. 2 -> LayerRecs]
             /\ act \in [T!Buffers -> Mats] /\ \A m \in T!Buffers : act[m].rows = rows
             /\ applied \in [1 .. 2 -> SUBSET Nat]

\* The caches and the gradients of a layer are those of one pass.
CacheInv == \A l \in 1 .. 2 : /\ layer[l].dw = layer[l].db
                              /\ layer[l].x # NULL /\ layer[l].z # NULL => layer[l].x = layer[l].z

\* What the calls of a round have computed so far, when all went well.
RoundInv == fine /\ round > 0 =>
              /\ step \in 2 .. 8 => act["bx"].from = {round}
              /\ step \in 3 .. 8 => act["h"].from = {round} /\ layer[1].x = T!M(rows, {round})
              /\ step \in 4 .. 8 => act["logits"].from = {round} /\ layer[2].x = T!M(rows, {round})
              /\ step \in 3 .. 8 => layer[1].z = T!M(rows, {round})
              /\ step \in 4 .. 8 => layer[2].z = T!M(rows, {round})
              /\ step \in 5 .. 8 => act["dlogits"].from = {round}
              /\ step \in 6 .. 8 => act["dh"].from = {round} /\ layer[2].dw = {round}
              /\ step \in 7 .. 8 => layer[1].dw = {round}
              /\ step = 8 => applied[2] = {round}
              /\ step = 1 => applied[1] = {round} /\ applied[2] = {round}

StepInv == step \in Int /\ (step \in 2 .. 8 => round > 0) /\ (step = 0 => round = 0)

TrainInv == TrainType /\ CacheInv /\ RoundInv /\ StepInv

\* ensure_shape: a matrix of the rows asked for, or none.
LEMMA ShapeIs ==
  ASSUME NEW m \in Mats \cup {NULL}, NEW r \in Nat, NEW u \in T!EnsureShape(m, r), u # NULL
  PROVE  u \in Mats /\ u.rows = r
BY DEF T!EnsureShape, T!Fresh, T!M, Mats

\* dense_forward: both caches are of this pass, or the layer cannot go back.
LEMMA ForwardIs ==
  ASSUME TrainType, NEW l \in 1 .. 2, NEW i \in T!Buffers, NEW j \in T!Buffers, T!Forward(l, i, j)
  PROVE  /\ round' = round /\ rows' = rows /\ applied' = applied
         /\ layer' \in [1 .. 2 -> LayerRecs]
         /\ act' \in [T!Buffers -> Mats] /\ \A m \in T!Buffers : act'[m].rows = rows
         /\ \A k \in 1 .. 2 : k # l => layer'[k] = layer[k]
         /\ layer'[l].dw = layer[l].dw /\ layer'[l].db = layer[l].db
         /\ layer'[l].x # NULL /\ layer'[l].z # NULL => layer'[l].x = layer'[l].z
         /\ \A m \in T!Buffers : m # j => act'[m] = act[m]
         /\ fine' \in BOOLEAN
         /\ fine' => /\ fine /\ act'[j].from = act[i].from
                     /\ layer'[l].x = T!M(rows, act[i].from)
                     /\ layer'[l].z = T!M(rows, act[i].from)
<1>0. /\ round' = round /\ rows' = rows /\ applied' = applied
      /\ layer \in [1 .. 2 -> LayerRecs] /\ act \in [T!Buffers -> Mats]
      /\ layer[l] \in LayerRecs /\ act[i] \in Mats /\ act[j] \in Mats
      /\ act[i].rows = rows /\ rows \in Nat /\ fine \in BOOLEAN
      /\ \A m \in T!Buffers : act[m].rows = rows
  BY DEF T!Forward, TrainType
<1>1. layer[l].x \in Mats \cup {NULL} /\ layer[l].z \in Mats \cup {NULL} /\ NULL \notin Mats
  BY <1>0, TrainingAssumption DEF LayerRecs, Mats
<1>2. PICK u \in T!EnsureShape(layer[l].x, rows) :
        \/ /\ u = NULL
           /\ layer' = [layer EXCEPT ![l].x = NULL]
           /\ fine' = FALSE /\ act' = act
        \/ /\ u # NULL
           /\ \E w \in T!EnsureShape(layer[l].z, rows) :
                \/ /\ w = NULL
                   /\ layer' = [layer EXCEPT ![l].x = u, ![l].z = NULL]
                   /\ fine' = FALSE /\ act' = act
                \/ /\ w # NULL
                   /\ layer' = [layer EXCEPT ![l].x = [u EXCEPT !.from = act[i].from],
                                             ![l].z = [w EXCEPT !.from = act[i].from]]
                   /\ act' = [act EXCEPT ![j].from = act[i].from]
                   /\ fine' = fine
  BY <1>0 DEF T!Forward
<1>3. CASE u = NULL /\ layer' = [layer EXCEPT ![l].x = NULL] /\ fine' = FALSE /\ act' = act
  <2>1. layer'[l] = [layer[l] EXCEPT !.x = NULL] /\ \A k \in 1 .. 2 : k # l => layer'[k] = layer[k]
    BY <1>0, <1>3
  <2>2. /\ layer'[l] \in LayerRecs /\ layer'[l].x = NULL
        /\ layer'[l].dw = layer[l].dw /\ layer'[l].db = layer[l].db
    BY <1>0, <2>1 DEF LayerRecs
  <2>3. layer' \in [1 .. 2 -> LayerRecs]
    BY <1>0, <1>3, <2>1, <2>2
  <2> QED
    BY <1>0, <1>3, <2>1, <2>2, <2>3
<1>4. ASSUME u # NULL, NEW w \in T!EnsureShape(layer[l].z, rows),
             w = NULL, layer' = [layer EXCEPT ![l].x = u, ![l].z = NULL], fine' = FALSE, act' = act
      PROVE  /\ layer' \in [1 .. 2 -> LayerRecs] /\ layer'[l].z = NULL
             /\ \A k \in 1 .. 2 : k # l => layer'[k] = layer[k]
             /\ layer'[l].dw = layer[l].dw /\ layer'[l].db = layer[l].db
  <2>0. u \in Mats
    BY <1>0, <1>1, <1>4, ShapeIs
  <2>1. layer'[l] = [layer[l] EXCEPT !.x = u, !.z = NULL] /\ \A k \in 1 .. 2 : k # l => layer'[k] = layer[k]
    BY <1>0, <1>4
  <2>2. /\ layer'[l] \in LayerRecs /\ layer'[l].z = NULL
        /\ layer'[l].dw = layer[l].dw /\ layer'[l].db = layer[l].db
    BY <1>0, <2>0, <2>1 DEF LayerRecs
  <2>3. layer' \in [1 .. 2 -> LayerRecs]
    BY <1>0, <1>4, <2>1, <2>2
  <2> QED
    BY <2>1, <2>2, <2>3
<1>5. ASSUME u # NULL, NEW w \in T!EnsureShape(layer[l].z, rows), w # NULL,
             layer' = [layer EXCEPT ![l].x = [u EXCEPT !.from = act[i].from],
                                    ![l].z = [w EXCEPT !.from = act[i].from]],
             act' = [act EXCEPT ![j].from = act[i].from]
      PROVE  /\ layer' \in [1 .. 2 -> LayerRecs]
             /\ \A k \in 1 .. 2 : k # l => layer'[k] = layer[k]
             /\ layer'[l].dw = layer[l].dw /\ layer'[l].db = layer[l].db
             /\ layer'[l].x = T!M(rows, act[i].from)
             /\ layer'[l].z = T!M(rows, act[i].from)
             /\ act' \in [T!Buffers -> Mats] /\ \A m \in T!Buffers : act'[m].rows = rows
             /\ \A m \in T!Buffers : m # j => act'[m] = act[m]
             /\ act'[j].from = act[i].from
  <2> DEFINE f == act[i].from
             g == T!M(rows, f)
  <2>0. u \in Mats /\ u.rows = rows /\ w \in Mats /\ w.rows = rows
    BY <1>0, <1>1, <1>5, ShapeIs
  <2>1. f \in SUBSET Nat /\ g \in Mats
    BY <1>0 DEF Mats, T!M
  <2>2. [u EXCEPT !.from = f] = g /\ [w EXCEPT !.from = f] = g
    BY <2>0, <2>1 DEF Mats, T!M
  <2>3. layer' = [layer EXCEPT ![l].x = g, ![l].z = g]
    BY <1>5, <2>2
  <2> HIDE DEF g
  <2>4. layer'[l] = [layer[l] EXCEPT !.x = g, !.z = g] /\ \A k \in 1 .. 2 : k # l => layer'[k] = layer[k]
    BY <1>0, <2>3
  <2>5. /\ layer'[l] \in LayerRecs /\ layer'[l].x = g /\ layer'[l].z = g
        /\ layer'[l].dw = layer[l].dw /\ layer'[l].db = layer[l].db
    BY <1>0, <2>1, <2>4 DEF LayerRecs
  <2>6. layer' \in [1 .. 2 -> LayerRecs]
    BY <1>0, <2>3, <2>4, <2>5
  <2>7. act'[j] = [act[j] EXCEPT !.from = f] /\ \A m \in T!Buffers : m # j => act'[m] = act[m]
    BY <1>0, <1>5
  <2>8. act'[j] \in Mats /\ act'[j].from = f /\ act'[j].rows = act[j].rows
    BY <1>0, <2>1, <2>7 DEF Mats
  <2>9. act' \in [T!Buffers -> Mats] /\ \A m \in T!Buffers : act'[m].rows = rows
    BY <1>0, <1>5, <2>7, <2>8
  <2> QED
    BY <2>4, <2>5, <2>6, <2>7, <2>8, <2>9 DEF g
<1>6. CASE u # NULL /\ \E w \in T!EnsureShape(layer[l].z, rows) :
                           w = NULL /\ layer' = [layer EXCEPT ![l].x = u, ![l].z = NULL]
                                    /\ fine' = FALSE /\ act' = act
  BY <1>0, <1>4, <1>6
<1>7. CASE u # NULL /\ \E w \in T!EnsureShape(layer[l].z, rows) :
                           /\ w # NULL
                           /\ layer' = [layer EXCEPT ![l].x = [u EXCEPT !.from = act[i].from],
                                                     ![l].z = [w EXCEPT !.from = act[i].from]]
                           /\ act' = [act EXCEPT ![j].from = act[i].from]
                           /\ fine' = fine
  <2>1. PICK w \in T!EnsureShape(layer[l].z, rows) :
          /\ u # NULL /\ w # NULL /\ fine' = fine
          /\ layer' = [layer EXCEPT ![l].x = [u EXCEPT !.from = act[i].from],
                                    ![l].z = [w EXCEPT !.from = act[i].from]]
          /\ act' = [act EXCEPT ![j].from = act[i].from]
    BY <1>7
  <2>2. /\ layer' \in [1 .. 2 -> LayerRecs]
        /\ \A k \in 1 .. 2 : k # l => layer'[k] = layer[k]
        /\ layer'[l].dw = layer[l].dw /\ layer'[l].db = layer[l].db
        /\ layer'[l].x = T!M(rows, act[i].from)
        /\ layer'[l].z = T!M(rows, act[i].from)
        /\ act' \in [T!Buffers -> Mats] /\ \A m \in T!Buffers : act'[m].rows = rows
        /\ \A m \in T!Buffers : m # j => act'[m] = act[m]
        /\ act'[j].from = act[i].from
    BY <1>5, <2>1
  <2> QED
    BY <1>0, <2>1, <2>2
<1> QED
  BY <1>2, <1>3, <1>6, <1>7

\* dense_backward fills both gradients of a layer, or none.
LEMMA BackwardIs ==
  ASSUME TrainType, NEW l \in 1 .. 2, NEW i \in T!Buffers, NEW j \in T!Buffers \cup {NULL},
         T!Backward(l, i, j)
  PROVE  /\ round' = round /\ rows' = rows /\ applied' = applied
         /\ layer' \in [1 .. 2 -> LayerRecs]
         /\ act' \in [T!Buffers -> Mats] /\ \A m \in T!Buffers : act'[m].rows = rows
         /\ \A k \in 1 .. 2 : k # l => layer'[k] = layer[k]
         /\ layer'[l].x = layer[l].x /\ layer'[l].z = layer[l].z
         /\ layer[l].dw = layer[l].db => layer'[l].dw = layer'[l].db
         /\ \A m \in T!Buffers : m # j => act'[m] = act[m]
         /\ fine' \in BOOLEAN
         /\ fine' => /\ fine
                     /\ layer'[l].dw = layer[l].x.from \cup layer[l].z.from \cup act[i].from
                     /\ j # NULL => act'[j].from = layer[l].x.from \cup layer[l].z.from \cup act[i].from
<1> DEFINE f == layer[l].x.from \cup layer[l].z.from \cup act[i].from
<1>0. /\ round' = round /\ rows' = rows /\ applied' = applied
      /\ layer \in [1 .. 2 -> LayerRecs] /\ act \in [T!Buffers -> Mats]
      /\ layer[l] \in LayerRecs /\ act[i] \in Mats
      /\ rows \in Nat /\ fine \in BOOLEAN
      /\ \A m \in T!Buffers : act[m].rows = rows
  BY DEF T!Backward, TrainType
<1>1. \/ layer' = layer /\ act' = act /\ fine' = FALSE
      \/ /\ layer[l].x # NULL /\ layer[l].z # NULL
         /\ layer' = [layer EXCEPT ![l].dw = f, ![l].db = f]
         /\ \/ fine' = FALSE /\ act' = act
            \/ fine' = fine /\ act' = IF j = NULL THEN act ELSE [act EXCEPT ![j].from = f]
  BY DEF T!Backward
<1>2. CASE layer' = layer /\ act' = act /\ fine' = FALSE
  BY <1>0, <1>2
<1>3. ASSUME layer[l].x # NULL /\ layer[l].z # NULL, layer' = [layer EXCEPT ![l].dw = f, ![l].db = f]
      PROVE  /\ layer' \in [1 .. 2 -> LayerRecs]
             /\ \A k \in 1 .. 2 : k # l => layer'[k] = layer[k]
             /\ layer'[l].x = layer[l].x /\ layer'[l].z = layer[l].z
             /\ layer'[l].dw = f /\ layer'[l].db = f /\ f \in SUBSET Nat
  <2>1. layer[l].x \in Mats /\ layer[l].z \in Mats
    BY <1>0, <1>3 DEF LayerRecs
  <2>2. f \in SUBSET Nat
    BY <1>0, <2>1 DEF Mats
  <2> HIDE DEF f
  <2>3. layer'[l] = [layer[l] EXCEPT !.dw = f, !.db = f] /\ \A k \in 1 .. 2 : k # l => layer'[k] = layer[k]
    BY <1>0, <1>3
  <2>4. /\ layer'[l] \in LayerRecs /\ layer'[l].x = layer[l].x /\ layer'[l].z = layer[l].z
        /\ layer'[l].dw = f /\ layer'[l].db = f
    BY <1>0, <2>2, <2>3 DEF LayerRecs
  <2>5. layer' \in [1 .. 2 -> LayerRecs]
    BY <1>0, <1>3, <2>3, <2>4
  <2> QED
    BY <2>2, <2>3, <2>4, <2>5
<1> HIDE DEF f
<1>4. ASSUME f \in SUBSET Nat, act' = IF j = NULL THEN act ELSE [act EXCEPT ![j].from = f]
      PROVE  /\ act' \in [T!Buffers -> Mats] /\ \A m \in T!Buffers : act'[m].rows = rows
             /\ \A m \in T!Buffers : m # j => act'[m] = act[m]
             /\ j # NULL => act'[j].from = f
  <2>1. CASE j = NULL
    BY <1>0, <1>4, <2>1
  <2>2. CASE j # NULL
    <3>1. j \in T!Buffers /\ act[j] \in Mats /\ act' = [act EXCEPT ![j].from = f]
      BY <1>0, <1>4, <2>2
    <3>2. act'[j] = [act[j] EXCEPT !.from = f] /\ \A m \in T!Buffers : m # j => act'[m] = act[m]
      BY <1>0, <3>1
    <3>3. act'[j] \in Mats /\ act'[j].from = f /\ act'[j].rows = act[j].rows
      BY <1>4, <3>1, <3>2 DEF Mats
    <3>4. act' \in [T!Buffers -> Mats] /\ \A m \in T!Buffers : act'[m].rows = rows
      BY <1>0, <3>1, <3>2, <3>3
    <3> QED
      BY <3>2, <3>3, <3>4
  <2> QED
    BY <2>1, <2>2
<1>5. CASE /\ layer[l].x # NULL /\ layer[l].z # NULL
           /\ layer' = [layer EXCEPT ![l].dw = f, ![l].db = f]
           /\ \/ fine' = FALSE /\ act' = act
              \/ fine' = fine /\ act' = IF j = NULL THEN act ELSE [act EXCEPT ![j].from = f]
  <2>1. /\ layer' \in [1 .. 2 -> LayerRecs]
        /\ \A k \in 1 .. 2 : k # l => layer'[k] = layer[k]
        /\ layer'[l].x = layer[l].x /\ layer'[l].z = layer[l].z
        /\ layer'[l].dw = f /\ layer'[l].db = f /\ f \in SUBSET Nat
    BY <1>3, <1>5
  <2>2. CASE fine' = FALSE /\ act' = act
    BY <1>0, <2>1, <2>2
  <2>3. CASE fine' = fine /\ act' = IF j = NULL THEN act ELSE [act EXCEPT ![j].from = f]
    <3>1. /\ act' \in [T!Buffers -> Mats] /\ \A m \in T!Buffers : act'[m].rows = rows
          /\ \A m \in T!Buffers : m # j => act'[m] = act[m]
          /\ j # NULL => act'[j].from = f
      BY <1>4, <2>1, <2>3
    <3> QED
      BY <1>0, <2>1, <2>3, <3>1 DEF f
  <2> QED
    BY <1>5, <2>2, <2>3
<1> QED
  BY <1>1, <1>2, <1>5 DEF f

LEMMA TrainInit == T!Init => TrainInv
<1> SUFFICES ASSUME T!Init PROVE TrainInv
  OBVIOUS
<1>1. /\ round = 0 /\ rows = 0 /\ step = 0 /\ fine = TRUE
      /\ layer = [l \in 1 .. 2 |-> [x |-> NULL, z |-> NULL, dw |-> {}, db |-> {}]]
      /\ act = [m \in T!Buffers |-> [rows |-> 0, from |-> {}]]
      /\ applied = [l \in 1 .. 2 |-> {}]
  BY DEF T!Init, T!NewLayer, T!Fresh, T!M
<1>2. TrainType
  BY <1>1 DEF TrainType, LayerRecs, Mats
<1>3. CacheInv
  BY <1>1 DEF CacheInv
<1> QED
  BY <1>1, <1>2, <1>3 DEF TrainInv, RoundInv, StepInv

LEMMA TrainForward ==
  ASSUME TrainInv,
         \/ step = 2 /\ T!Forward(1, "bx", "h") /\ step' = 3
         \/ step = 3 /\ T!Forward(2, "h", "logits") /\ step' = 4
  PROVE  TrainInv'
<1>0. TrainType /\ CacheInv /\ RoundInv /\ StepInv /\ round \in Nat /\ rows \in Nat
      /\ "bx" \in T!Buffers /\ "h" \in T!Buffers /\ "logits" \in T!Buffers /\ round > 0
  BY DEF TrainInv, TrainType, T!Buffers, StepInv
<1>a. PICK l \in 1 .. 2, i \in T!Buffers, j \in T!Buffers :
        /\ T!Forward(l, i, j) /\ step = l + 1 /\ step' = l + 2
        /\ l = 1 => i = "bx" /\ j = "h"
        /\ l = 2 => i = "h" /\ j = "logits"
  <2>1. CASE step = 2 /\ T!Forward(1, "bx", "h") /\ step' = 3
    BY <1>0, <2>1
  <2>2. CASE step = 3 /\ T!Forward(2, "h", "logits") /\ step' = 4
    BY <1>0, <2>2
  <2> QED
    BY <2>1, <2>2
<1>1. /\ round' = round /\ rows' = rows /\ applied' = applied
      /\ layer' \in [1 .. 2 -> LayerRecs]
      /\ act' \in [T!Buffers -> Mats] /\ \A m \in T!Buffers : act'[m].rows = rows
      /\ \A k \in 1 .. 2 : k # l => layer'[k] = layer[k]
      /\ layer'[l].dw = layer[l].dw /\ layer'[l].db = layer[l].db
      /\ layer'[l].x # NULL /\ layer'[l].z # NULL => layer'[l].x = layer'[l].z
      /\ \A m \in T!Buffers : m # j => act'[m] = act[m]
      /\ fine' \in BOOLEAN
      /\ fine' => /\ fine /\ act'[j].from = act[i].from
                  /\ layer'[l].x = T!M(rows, act[i].from)
                  /\ layer'[l].z = T!M(rows, act[i].from)
  BY <1>0, <1>a, ForwardIs
<1>2. TrainType'
  BY <1>0, <1>1 DEF TrainType, LayerRecs, Mats, T!Buffers
<1>3. CacheInv'
  BY <1>0, <1>1 DEF CacheInv
<1>4. RoundInv'
  <2> SUFFICES ASSUME fine' PROVE
        /\ step' \in 2 .. 8 => act'["bx"].from = {round}
        /\ step' \in 3 .. 8 => act'["h"].from = {round} /\ layer'[1].x = T!M(rows, {round})
        /\ step' \in 4 .. 8 => act'["logits"].from = {round} /\ layer'[2].x = T!M(rows, {round})
        /\ step' \in 3 .. 8 => layer'[1].z = T!M(rows, {round})
        /\ step' \in 4 .. 8 => layer'[2].z = T!M(rows, {round})
        /\ step' \in 3 .. 4
    BY <1>0, <1>1 DEF RoundInv, T!M
  <2>1. CASE l = 1
    <3>1. step = 2 /\ step' = 3 /\ i = "bx" /\ j = "h"
      BY <1>a, <2>1
    <3>2. fine /\ act["bx"].from = {round}
      BY <1>0, <1>1, <3>1 DEF RoundInv
    <3> QED
      BY <1>0, <1>1, <2>1, <3>1, <3>2
  <2>2. CASE l = 2
    <3>1. step = 3 /\ step' = 4 /\ i = "h" /\ j = "logits"
      BY <1>a, <2>2
    <3>2. fine /\ act["bx"].from = {round} /\ act["h"].from = {round}
          /\ layer[1].x = T!M(rows, {round}) /\ layer[1].z = T!M(rows, {round})
      BY <1>0, <1>1, <3>1 DEF RoundInv
    <3> QED
      BY <1>0, <1>1, <2>2, <3>1, <3>2
  <2> QED
    BY <2>1, <2>2
<1>5. StepInv'
  BY <1>0, <1>1, <1>a DEF StepInv
<1> QED
  BY <1>2, <1>3, <1>4, <1>5 DEF TrainInv

LEMMA TrainBackward ==
  ASSUME TrainInv,
         \/ step = 5 /\ T!Backward(2, "dlogits", "dh") /\ step' = 6
         \/ step = 6 /\ T!Backward(1, "dh", NULL) /\ step' = 7
  PROVE  TrainInv'
<1>0. TrainType /\ CacheInv /\ RoundInv /\ StepInv /\ round \in Nat /\ rows \in Nat
      /\ "bx" \in T!Buffers /\ "h" \in T!Buffers /\ "logits" \in T!Buffers
      /\ "dlogits" \in T!Buffers /\ "dh" \in T!Buffers /\ round > 0
      /\ "dh" # NULL /\ "bx" # NULL /\ "h" # NULL /\ "logits" # NULL /\ "dlogits" # NULL
  BY TrainingAssumption DEF TrainInv, TrainType, T!Buffers, StepInv
<1>a. PICK l \in 1 .. 2, i \in T!Buffers, j \in T!Buffers \cup {NULL} :
        /\ T!Backward(l, i, j) /\ step = 7 - l /\ step' = 8 - l
        /\ l = 2 => i = "dlogits" /\ j = "dh"
        /\ l = 1 => i = "dh" /\ j = NULL
  <2>1. CASE step = 5 /\ T!Backward(2, "dlogits", "dh") /\ step' = 6
    BY <1>0, <2>1
  <2>2. CASE step = 6 /\ T!Backward(1, "dh", NULL) /\ step' = 7
    BY <1>0, <2>2
  <2> QED
    BY <2>1, <2>2
<1>1. /\ round' = round /\ rows' = rows /\ applied' = applied
      /\ layer' \in [1 .. 2 -> LayerRecs]
      /\ act' \in [T!Buffers -> Mats] /\ \A m \in T!Buffers : act'[m].rows = rows
      /\ \A k \in 1 .. 2 : k # l => layer'[k] = layer[k]
      /\ layer'[l].x = layer[l].x /\ layer'[l].z = layer[l].z
      /\ layer[l].dw = layer[l].db => layer'[l].dw = layer'[l].db
      /\ \A m \in T!Buffers : m # j => act'[m] = act[m]
      /\ fine' \in BOOLEAN
      /\ fine' => /\ fine
                  /\ layer'[l].dw = layer[l].x.from \cup layer[l].z.from \cup act[i].from
                  /\ j # NULL => act'[j].from = layer[l].x.from \cup layer[l].z.from \cup act[i].from
  BY <1>0, <1>a, BackwardIs
<1>2. TrainType'
  BY <1>0, <1>1 DEF TrainType, LayerRecs, Mats, T!Buffers
<1>3. CacheInv'
  BY <1>0, <1>1 DEF CacheInv
<1>4. RoundInv'
  <2> SUFFICES ASSUME fine' PROVE
        /\ act'["bx"].from = {round}
        /\ act'["h"].from = {round} /\ layer'[1].x = T!M(rows, {round})
        /\ act'["logits"].from = {round} /\ layer'[2].x = T!M(rows, {round})
        /\ layer'[1].z = T!M(rows, {round})
        /\ layer'[2].z = T!M(rows, {round})
        /\ act'["dlogits"].from = {round}
        /\ act'["dh"].from = {round} /\ layer'[2].dw = {round}
        /\ step' = 7 => layer'[1].dw = {round}
        /\ step' \in 6 .. 7
    BY <1>0, <1>1 DEF RoundInv, T!M
  <2>0. T!M(rows, {round}).from = {round}
    BY DEF T!M
  <2>1. CASE l = 2
    <3>1. step = 5 /\ step' = 6 /\ i = "dlogits" /\ j = "dh"
      BY <1>a, <2>1
    <3>2. fine /\ act["bx"].from = {round} /\ act["h"].from = {round}
          /\ layer[1].x = T!M(rows, {round}) /\ layer[1].z = T!M(rows, {round})
          /\ layer[2].x = T!M(rows, {round}) /\ layer[2].z = T!M(rows, {round})
          /\ act["logits"].from = {round} /\ act["dlogits"].from = {round}
      BY <1>0, <1>1, <3>1 DEF RoundInv
    <3>3. layer[2].x.from \cup layer[2].z.from \cup act["dlogits"].from = {round}
      BY <2>0, <3>2
    <3>4. layer'[2].dw = {round} /\ act'["dh"].from = {round}
      BY <1>0, <1>1, <2>1, <3>1, <3>3
    <3> QED
      BY <1>0, <1>1, <2>1, <3>1, <3>2, <3>4
  <2>2. CASE l = 1
    <3>1. step = 6 /\ step' = 7 /\ i = "dh" /\ j = NULL
      BY <1>a, <2>2
    <3>2. fine /\ act["bx"].from = {round} /\ act["h"].from = {round}
          /\ layer[1].x = T!M(rows, {round}) /\ layer[1].z = T!M(rows, {round})
          /\ layer[2].x = T!M(rows, {round}) /\ layer[2].z = T!M(rows, {round})
          /\ act["logits"].from = {round} /\ act["dlogits"].from = {round}
          /\ act["dh"].from = {round} /\ layer[2].dw = {round}
      BY <1>0, <1>1, <3>1 DEF RoundInv
    <3>3. layer[1].x.from \cup layer[1].z.from \cup act["dh"].from = {round}
      BY <2>0, <3>2
    <3>4. layer'[1].dw = {round}
      BY <1>0, <1>1, <2>2, <3>1, <3>3
    <3> QED
      BY <1>0, <1>1, <2>2, <3>1, <3>2, <3>4
  <2> QED
    BY <2>1, <2>2
<1>5. StepInv'
  BY <1>0, <1>1, <1>a DEF StepInv
<1> QED
  BY <1>2, <1>3, <1>4, <1>5 DEF TrainInv

\* dataset_batch: the matrices of another batch size are new ones.
LEMMA TrainBatch ==
  ASSUME TrainInv, T!NextBatch
  PROVE  TrainInv'
<1>0. TrainType /\ CacheInv /\ RoundInv /\ round \in Nat /\ rows \in Nat
      /\ act \in [T!Buffers -> Mats] /\ \A m \in T!Buffers : act[m].rows = rows
  BY DEF TrainInv, TrainType
<1>1. PICK r \in Batches :
        /\ rows' = r
        /\ act' = [m \in T!Buffers |-> IF m = "bx" THEN T!M(r, {round'})
                                       ELSE IF r = rows THEN act[m] ELSE T!Fresh(r)]
  BY DEF T!NextBatch
<1>2. round' = round + 1 /\ fine' = TRUE /\ step' = 2 /\ layer' = layer /\ applied' = applied
  BY DEF T!NextBatch
<1>3. r \in Nat /\ round' \in Nat /\ round' > 0
  BY <1>0, <1>2, TrainingAssumption
<1>4. T!M(r, {round'}) \in Mats /\ T!M(r, {round'}).rows = r /\ T!M(r, {round'}).from = {round'}
  BY <1>3 DEF T!M, Mats
<1>5. T!Fresh(r) \in Mats /\ T!Fresh(r).rows = r
  BY <1>3 DEF T!Fresh, T!M, Mats
<1>6. act' \in [T!Buffers -> Mats] /\ \A m \in T!Buffers : act'[m].rows = r
  <2>1. ASSUME NEW m \in T!Buffers PROVE act'[m] \in Mats /\ act'[m].rows = r
    BY <1>0, <1>1, <1>4, <1>5
  <2>2. act' = [m \in T!Buffers |-> act'[m]]
    BY <1>1
  <2> QED
    BY <2>1, <2>2
<1>7. act'["bx"].from = {round'}
  BY <1>1, <1>4 DEF T!Buffers
<1>8. TrainType'
  BY <1>0, <1>1, <1>2, <1>3, <1>6 DEF TrainType, LayerRecs, Mats, T!Buffers
<1>9. CacheInv'
  BY <1>0, <1>2 DEF CacheInv
<1>10. RoundInv'
  BY <1>2, <1>7 DEF RoundInv
<1>11. StepInv'
  BY <1>2, <1>3 DEF StepInv
<1> QED
  BY <1>8, <1>9, <1>10, <1>11 DEF TrainInv

\* loss_softmax_xent
LEMMA TrainLoss ==
  ASSUME TrainInv, step = 4, T!Loss, step' = 5
  PROVE  TrainInv'
<1>0. /\ TrainType /\ CacheInv /\ RoundInv /\ StepInv /\ round \in Nat /\ round > 0
      /\ act \in [T!Buffers -> Mats] /\ \A m \in T!Buffers : act[m].rows = rows
      /\ "dlogits" \in T!Buffers /\ "logits" \in T!Buffers /\ "bx" \in T!Buffers /\ "h" \in T!Buffers
  BY DEF TrainInv, TrainType, StepInv, T!Buffers
<1> DEFINE f == act["logits"].from \cup {round}
<1>1. /\ act' = [act EXCEPT !["dlogits"].from = f]
      /\ round' = round /\ rows' = rows /\ layer' = layer /\ applied' = applied /\ fine' = fine
  BY DEF T!Loss
<1>2. f \in SUBSET Nat
  BY <1>0 DEF Mats
<1>3. fine => f = {round}
  BY <1>0 DEF RoundInv
<1> HIDE DEF f
<1>4. act'["dlogits"] = [act["dlogits"] EXCEPT !.from = f] /\ \A m \in T!Buffers : m # "dlogits" => act'[m] = act[m]
  BY <1>0, <1>1
<1>5. act'["dlogits"] \in Mats /\ act'["dlogits"].rows = rows /\ act'["dlogits"].from = f
  BY <1>0, <1>2, <1>4 DEF Mats
<1>6. act' \in [T!Buffers -> Mats] /\ \A m \in T!Buffers : act'[m].rows = rows
  BY <1>0, <1>1, <1>4, <1>5
<1>7. TrainType'
  BY <1>0, <1>1, <1>6 DEF TrainType, LayerRecs, Mats, T!Buffers
<1>8. CacheInv'
  BY <1>0, <1>1 DEF CacheInv
<1>9. RoundInv'
  BY <1>0, <1>1, <1>3, <1>4, <1>5 DEF RoundInv, T!M
<1>10. StepInv'
  BY <1>0, <1>1 DEF StepInv
<1> QED
  BY <1>7, <1>8, <1>9, <1>10 DEF TrainInv

\* adam_step, of the second layer and then of the first
LEMMA TrainAdam ==
  ASSUME TrainInv,
         \/ step = 7 /\ T!AdamStep(2) /\ step' = 8
         \/ step = 8 /\ T!AdamStep(1) /\ step' = 1
  PROVE  TrainInv'
<1>0. /\ TrainType /\ CacheInv /\ RoundInv /\ StepInv /\ round \in Nat
      /\ layer \in [1 .. 2 -> LayerRecs] /\ applied \in [1 .. 2 -> SUBSET Nat] /\ round > 0
  BY DEF TrainInv, TrainType, StepInv
<1>a. PICK l \in 1 .. 2 : /\ T!AdamStep(l)
                          /\ l = 2 => step = 7 /\ step' = 8
                          /\ l = 1 => step = 8 /\ step' = 1
  BY DEF TrainInv
<1>1. /\ applied' = [applied EXCEPT ![l] = layer[l].dw \cup layer[l].db]
      /\ round' = round /\ rows' = rows /\ layer' = layer /\ act' = act /\ fine' = fine
  BY <1>a DEF T!AdamStep
<1>2. layer[l].dw = layer[l].db /\ layer[l].dw \in SUBSET Nat
  BY <1>0 DEF CacheInv, LayerRecs
<1>3. applied' = [applied EXCEPT ![l] = layer[l].dw]
  BY <1>1, <1>2
<1>4. /\ applied' \in [1 .. 2 -> SUBSET Nat] /\ applied'[l] = layer[l].dw
      /\ \A k \in 1 .. 2 : k # l => applied'[k] = applied[k]
  BY <1>0, <1>2, <1>3
<1>5. TrainType'
  BY <1>0, <1>1, <1>4 DEF TrainType, LayerRecs, Mats, T!Buffers
<1>6. CacheInv'
  BY <1>0, <1>1 DEF CacheInv
<1>7. RoundInv'
  <2>1. CASE l = 2
    BY <1>0, <1>1, <1>a, <1>4, <2>1 DEF RoundInv, T!M
  <2>2. CASE l = 1
    <3>1. step = 8 /\ step' = 1
      BY <1>a, <2>2
    <3>2. fine => applied'[1] = {round} /\ applied'[2] = {round}
      BY <1>0, <1>4, <2>2, <3>1 DEF RoundInv
    <3> QED
      BY <1>1, <3>1, <3>2 DEF RoundInv, T!M
  <2> QED
    BY <2>1, <2>2
<1>8. StepInv'
  BY <1>0, <1>1, <1>a DEF StepInv
<1> QED
  BY <1>5, <1>6, <1>7, <1>8 DEF TrainInv

LEMMA TrainNext == TrainInv /\ [T!Next]_(T!vars) => TrainInv'
<1> SUFFICES ASSUME TrainInv, [T!Next]_(T!vars) PROVE TrainInv'
  OBVIOUS
<1>0. TrainType /\ CacheInv /\ RoundInv /\ StepInv /\ round \in Nat
  BY DEF TrainInv, TrainType
<1>a. ASSUME round' = round, rows' = rows, layer' = layer, act' = act,
             applied' = applied, fine' = fine
      PROVE  TrainType' /\ CacheInv'
  BY <1>0, <1>a DEF TrainType, LayerRecs, Mats, T!Buffers, CacheInv
<1>1. CASE T!DenseInit
  <2>1. /\ step = 0 /\ step' \in {1, 99} /\ round = 0 /\ round' = 0
        /\ round' = round /\ rows' = rows /\ layer' = layer /\ act' = act
        /\ applied' = applied /\ fine' = fine
    BY <1>0, <1>1 DEF T!DenseInit, StepInv
  <2>2. RoundInv' /\ StepInv'
    BY <2>1 DEF RoundInv, StepInv
  <2> QED
    BY <2>1, <2>2, <1>a DEF TrainInv
<1>2. CASE UNCHANGED T!vars
  <2>1. /\ round' = round /\ rows' = rows /\ layer' = layer /\ act' = act
        /\ applied' = applied /\ fine' = fine /\ step' = step
    BY <1>2 DEF T!vars
  <2>2. RoundInv' /\ StepInv'
    BY <1>0, <2>1 DEF RoundInv, StepInv, T!M
  <2> QED
    BY <2>1, <2>2, <1>a DEF TrainInv
<1>3. CASE T!Then(2, T!Forward(1, "bx", "h"))
  BY <1>3, TrainForward DEF T!Then
<1>4. CASE T!Then(3, T!Forward(2, "h", "logits"))
  BY <1>4, TrainForward DEF T!Then
<1>5. CASE T!Then(4, T!Loss)
  BY <1>5, TrainLoss DEF T!Then
<1>6. CASE T!Then(5, T!Backward(2, "dlogits", "dh"))
  BY <1>6, TrainBackward DEF T!Then
<1>7. CASE T!Then(6, T!Backward(1, "dh", NULL))
  BY <1>7, TrainBackward DEF T!Then
<1>8. CASE T!Then(7, T!AdamStep(2))
  BY <1>8, TrainAdam DEF T!Then
<1>9. CASE T!Then(8, T!AdamStep(1))
  BY <1>9, TrainAdam DEF T!Then
<1> QED
  BY <1>1, <1>2, <1>3, <1>4, <1>5, <1>6, <1>7, <1>8, <1>9, TrainBatch DEF T!Next

LEMMA TrainIsExact == TrainInv => UpdateIsOfTheBatch
<1> SUFFICES ASSUME TrainInv PROVE T!UpdateIsOfTheBatch
  BY DEF UpdateIsOfTheBatch
<1>0. CacheInv /\ RoundInv /\ StepInv /\ round \in Nat
  BY DEF TrainInv, TrainType
<1>1. step = 1 /\ round > 0 /\ fine => \A l \in 1 .. 2 : applied[l] = {round}
  BY <1>0 DEF RoundInv
<1>2. ASSUME NEW l \in 1 .. 2
      PROVE  fine /\ step = l + 2 => layer[l].x = T!M(rows, {round})
  <2>1. CASE l = 1
    BY <1>0, <2>1 DEF RoundInv, StepInv
  <2>2. CASE l = 2
    BY <1>0, <2>2 DEF RoundInv, StepInv
  <2> QED
    BY <2>1, <2>2
<1>3. \A l \in 1 .. 2 : /\ layer[l].dw = layer[l].db
                        /\ layer[l].x # NULL /\ layer[l].z # NULL => layer[l].x = layer[l].z
  BY <1>0 DEF CacheInv
<1> QED
  BY <1>1, <1>2, <1>3 DEF T!UpdateIsOfTheBatch

(***************************************************************************)
(* nn.c: a round of the training loop in which every call succeeded has    *)
(* moved both layers by the gradients of its batch alone, and a layer's    *)
(* caches and gradients are never of two passes, for any number of rounds, *)
(* batches of any sizes and any failed allocations in between.             *)
(***************************************************************************)
THEOREM Trained == T!Spec => []UpdateIsOfTheBatch
<1>1. T!Spec => []TrainInv
  BY TrainInit, TrainNext, PTL DEF T!Spec
<1> QED
  BY <1>1, TrainIsExact, PTL

-----------------------------------------------------------------------------
(* The arena *)

\* Multiples of d leave no remainder, and the sum of two is a multiple.
LEMMA Multiple ==
  ASSUME NEW d \in Nat \ {0}, NEW k \in Nat
  PROVE  d * k \in Nat /\ (d * k) % d = 0
<1>1. d * k \in Nat
  BY Product
<1>2. (d * k) \div d \in Nat /\ (d * k) % d \in 0 .. d - 1 /\ d * k = d * ((d * k) \div d) + ((d * k) % d)
  BY <1>1, Division
<1> DEFINE q == (d * k) \div d
           r == (d * k) % d
<1>3. q \in Nat /\ r \in 0 .. d - 1 /\ d * k = d * q + r
  BY <1>2
<1> HIDE DEF q, r
<1>4. ASSUME k < q PROVE FALSE
  <2>1. (k + 1) * d <= q * d
    BY <1>3, <1>4, Monotone
  <2>2. (k + 1) * d = d * k + d /\ q * d = d * q
    BY <1>3, Z3
  <2> QED
    BY <1>1, <1>3, <2>1, <2>2
<1>5. ASSUME q < k PROVE FALSE
  <2>1. (q + 1) * d <= k * d
    BY <1>3, <1>5, Monotone
  <2>2. (q + 1) * d = d * q + d /\ k * d = d * k /\ d * q \in Nat
    BY <1>3, Z3
  <2> QED
    BY <1>1, <1>3, <2>1, <2>2
<1>6. q = k
  BY <1>3, <1>4, <1>5
<1>7. r = 0
  BY <1>1, <1>3, <1>6
<1> QED
  BY <1>1, <1>7 DEF r

LEMMA MultiplesAdd ==
  ASSUME NEW d \in Nat \ {0}, NEW i \in Nat, NEW j \in Nat, i % d = 0, j % d = 0
  PROVE  (i + j) % d = 0
<1>1. /\ i \div d \in Nat /\ i = d * (i \div d)
      /\ j \div d \in Nat /\ j = d * (j \div d)
  <2>1. i \div d \in Nat /\ d * (i \div d) \in Nat /\ i = d * (i \div d) + (i % d)
    BY Division, Product
  <2>2. j \div d \in Nat /\ d * (j \div d) \in Nat /\ j = d * (j \div d) + (j % d)
    BY Division, Product
  <2> QED
    BY <2>1, <2>2
<1>2. \A u, w \in Nat : d * u + d * w = d * (u + w)
  BY Z3
<1>3. i + j = d * ((i \div d) + (j \div d))
  BY <1>1, <1>2
<1>4. (i \div d) + (j \div d) \in Nat
  BY <1>1
<1> QED
  BY <1>3, <1>4, Multiple

\* A multiple of a multiple is a multiple.
LEMMA MultipleOf ==
  ASSUME NEW d \in Nat \ {0}, NEW m \in Nat, m % d = 0, NEW k \in Nat
  PROVE  k * m \in Nat /\ (k * m) % d = 0
<1>1. m \div d \in Nat /\ m = d * (m \div d)
  <2>1. m \div d \in Nat /\ d * (m \div d) \in Nat /\ m = d * (m \div d) + (m % d)
    BY Division, Product
  <2> QED
    BY <2>1
<1>2. \A u \in Nat : k * (d * u) = d * (k * u) /\ k * u \in Nat
  BY Z3
<1>3. k * m = d * (k * (m \div d)) /\ k * (m \div d) \in Nat
  BY <1>1, <1>2
<1> QED
  BY <1>3, Multiple

\* Rounding down to a multiple of d.
LEMMA RoundedDown ==
  ASSUME NEW u \in Nat, NEW d \in Nat \ {0}
  PROVE  u - (u % d) \in Nat /\ (u - (u % d)) % d = 0 /\ u - (u % d) <= u /\ u - (u % d) > u - d
<1>1. u \div d \in Nat /\ u % d \in 0 .. d - 1 /\ u = d * (u \div d) + (u % d)
  BY Division
<1>2. d * (u \div d) \in Nat /\ (d * (u \div d)) % d = 0
  BY <1>1, Multiple
<1>3. u - (u % d) = d * (u \div d)
  BY <1>1, <1>2
<1> QED
  BY <1>1, <1>2, <1>3

(***************************************************************************)
(* What the arena's two properties need: blocks end before the position,   *)
(* lie at offsets that are multiples of their alignment, and the buffer is *)
(* where malloc puts buffers.                                              *)
(***************************************************************************)
ArenaInv ==
    /\ A!TypeOK
    /\ base % MallocAlign = 0
    /\ \A s \in ablocks : s.at + s.size <= pos /\ s.at % s.align = 0
    /\ \A s, t \in ablocks : s # t => s.at + s.size <= t.at \/ t.at + t.size <= s.at

LEMMA AlignIs ==
  ASSUME NEW d \in A!PowersOfTwo
  PROVE  d \in Nat \ {0} /\ (d <= MallocAlign => MallocAlign % d = 0)
BY AllocatorsAssumption DEF A!PowersOfTwo

LEMMA ArenaInit == A!Init => ArenaInv
<1> SUFFICES ASSUME A!Init PROVE ArenaInv
  OBVIOUS
<1>1. base = 0 /\ acap = 0 /\ pos = 0 /\ ablocks = {} /\ A!SizeMax \in Nat
  BY SizeIs DEF A!Init
<1>2. base % MallocAlign = 0
  <2>1. MallocAlign \in Nat \ {0} /\ 0 < MallocAlign
    BY AllocatorsAssumption
  <2> QED
    BY <1>1, <2>1, Remainder
<1> QED
  BY <1>1, <1>2 DEF ArenaInv, A!TypeOK, A!SizeT

\* arena_alloc: no sum wraps, and the block begins behind the position.
LEMMA ArenaAllocated ==
  ASSUME ArenaInv, NEW i \in A!SizeT, NEW d \in A!SizeT, A!ArenaAlloc(i, d)
  PROVE  ArenaInv'
<1> DEFINE p == A!Aligned(d)
           k == [at |-> p, size |-> i, align |-> d]
<1>0. /\ base \in Nat /\ acap \in 0 .. A!SizeMax /\ pos \in 0 .. acap /\ A!SizeMax \in Nat
      /\ ablocks \subseteq [at : A!SizeT, size : A!SizeT \ {0}, align : A!PowersOfTwo]
      /\ base % MallocAlign = 0
      /\ \A s \in ablocks : s.at + s.size <= pos /\ s.at % s.align = 0
      /\ \A s, t \in ablocks : s # t => s.at + s.size <= t.at \/ t.at + t.size <= s.at
  BY SizeIs DEF ArenaInv, A!TypeOK, A!SizeT
<1>1. /\ i # 0 /\ d \in A!PowersOfTwo /\ pos <= A!SizeMax - (d - 1)
      /\ p <= acap /\ i <= acap - p
      /\ pos' = A!Wrap(p + i) /\ ablocks' = ablocks \cup {k} /\ base' = base /\ acap' = acap
  BY DEF A!ArenaAlloc, A!Accepts
<1>2. d \in Nat \ {0} /\ i \in Nat \ {0}
  BY <1>0, <1>1, AlignIs DEF A!SizeT
<1>3. p \in Nat /\ p % d = 0 /\ pos <= p
  <2> DEFINE u == pos + d - 1
  <2>1. u \in Nat /\ u <= A!SizeMax
    BY <1>0, <1>1, <1>2
  <2>2. A!Wrap(u) = u
    BY <2>1, WrapIs, SizeIs
  <2>3. p = u - (u % d)
    BY <2>2 DEF A!Aligned
  <2> HIDE DEF p
  <2>4. u - (u % d) \in Nat /\ (u - (u % d)) % d = 0 /\ u - (u % d) > u - d
    BY <1>2, <2>1, RoundedDown
  <2> QED
    BY <1>0, <1>2, <2>3, <2>4
<1> HIDE DEF p
<1>4. pos' = p + i /\ p + i <= acap
  <2>1. p + i \in Nat /\ p + i <= A!SizeMax /\ p + i <= acap
    BY <1>0, <1>1, <1>2, <1>3
  <2>2. A!Wrap(p + i) = p + i
    BY <2>1, WrapIs, SizeIs
  <2> QED
    BY <1>1, <2>1, <2>2
<1>5. p \in A!SizeT /\ k \in [at : A!SizeT, size : A!SizeT \ {0}, align : A!PowersOfTwo]
      /\ k.at = p /\ k.size = i /\ k.align = d
  BY <1>0, <1>1, <1>2, <1>3 DEF A!SizeT
<1> HIDE DEF k
<1>6. \A s \in ablocks : s.at \in Nat /\ s.size \in Nat /\ s.at + s.size <= p
  BY <1>0, <1>3 DEF A!SizeT
<1>7. \A s \in ablocks' : s.at + s.size <= pos' /\ s.at % s.align = 0
  <2> TAKE s \in ablocks'
  <2>1. CASE s \in ablocks
    BY <1>0, <1>2, <1>3, <1>4, <1>6, <2>1
  <2>2. CASE s = k
    BY <1>2, <1>3, <1>4, <1>5, <2>2
  <2> QED
    BY <1>1, <2>1, <2>2
<1>8. \A s, t \in ablocks' : s # t => s.at + s.size <= t.at \/ t.at + t.size <= s.at
  BY <1>0, <1>1, <1>5, <1>6
<1>9. /\ base' \in Nat /\ acap' \in 0 .. A!SizeMax /\ pos' \in 0 .. acap'
      /\ ablocks' \subseteq [at : A!SizeT, size : A!SizeT \ {0}, align : A!PowersOfTwo]
      /\ base' % MallocAlign = 0
  BY <1>0, <1>1, <1>2, <1>3, <1>4, <1>5
<1> QED
  BY <1>7, <1>8, <1>9 DEF ArenaInv, A!TypeOK, A!SizeT, A!SizeMax, A!PowersOfTwo

LEMMA ArenaNext == ArenaInv /\ [A!Next]_(A!vars) => ArenaInv'
<1> SUFFICES ASSUME ArenaInv, [A!Next]_(A!vars) PROVE ArenaInv'
  OBVIOUS
<1>0. /\ base \in Nat /\ acap \in 0 .. A!SizeMax /\ A!SizeMax \in Nat /\ base % MallocAlign = 0
  BY SizeIs DEF ArenaInv, A!TypeOK, A!SizeT
<1>a. ASSUME base' \in Nat, base' % MallocAlign = 0, acap' \in 0 .. A!SizeMax, pos' = 0, ablocks' = {}
      PROVE  ArenaInv'
  BY <1>0, <1>a DEF ArenaInv, A!TypeOK, A!SizeT, A!SizeMax, A!PowersOfTwo
<1>1. ASSUME NEW c \in ArenaCaps, NEW k \in 1 .. 2, A!ArenaInit(c, k * MallocAlign)
      PROVE  ArenaInv'
  <2>1. k \in Nat /\ MallocAlign \in Nat \ {0} /\ MallocAlign = MallocAlign * 1 /\ 1 \in Nat
    BY AllocatorsAssumption
  <2>2. MallocAlign % MallocAlign = 0
    BY <2>1, Multiple
  <2>3. k * MallocAlign \in Nat /\ (k * MallocAlign) % MallocAlign = 0
    BY <2>1, <2>2, MultipleOf
  <2>4. c \in 0 .. A!SizeMax
    BY AllocatorsAssumption DEF A!SizeMax
  <2> QED
    BY <1>1, <1>a, <2>3, <2>4 DEF A!ArenaInit
<1>2. CASE A!ArenaReset
  BY <1>0, <1>2, <1>a DEF A!ArenaReset
<1>3. CASE A!ArenaDestroy
  <2>1. 0 \in Nat /\ MallocAlign \in Nat \ {0} /\ 0 < MallocAlign
    BY AllocatorsAssumption
  <2>2. 0 % MallocAlign = 0
    BY <2>1, Remainder
  <2> QED
    BY <1>0, <1>3, <1>a, <2>1, <2>2 DEF A!ArenaDestroy
<1>4. CASE UNCHANGED A!vars
  BY <1>4 DEF A!vars, ArenaInv, A!TypeOK, A!SizeT, A!SizeMax, A!PowersOfTwo
<1> QED
  BY <1>1, <1>2, <1>3, <1>4, ArenaAllocated DEF A!Next

LEMMA ArenaIsSound == ArenaInv => A!BlocksAreDisjoint /\ A!AlignedUpToMalloc
<1> SUFFICES ASSUME ArenaInv PROVE A!BlocksAreDisjoint /\ A!AlignedUpToMalloc
  OBVIOUS
<1>0. /\ base \in Nat /\ acap \in Nat /\ pos \in 0 .. acap /\ base % MallocAlign = 0
      /\ \A s \in ablocks : /\ s.at \in Nat /\ s.size \in Nat /\ s.align \in A!PowersOfTwo
                            /\ s.at + s.size <= pos /\ s.at % s.align = 0
  BY SizeIs DEF ArenaInv, A!TypeOK, A!SizeT
<1>1. A!BlocksAreDisjoint
  <2>1. \A s \in ablocks : s.at + s.size <= acap
    BY <1>0
  <2> QED
    BY <2>1 DEF A!BlocksAreDisjoint, ArenaInv
<1>2. A!AlignedUpToMalloc
  <2> SUFFICES ASSUME NEW s \in ablocks, s.align <= MallocAlign
               PROVE  (base + s.at) % s.align = 0
    BY DEF A!AlignedUpToMalloc, A!Address
  <2>1. s.align \in Nat \ {0} /\ MallocAlign % s.align = 0 /\ MallocAlign \in Nat \ {0}
    BY <1>0, AlignIs, AllocatorsAssumption
  <2>2. base = (base \div MallocAlign) * MallocAlign /\ base \div MallocAlign \in Nat
    <3>1. base \div MallocAlign \in Nat /\ base = MallocAlign * (base \div MallocAlign) + (base % MallocAlign)
      BY <1>0, <2>1, Division
    <3>2. MallocAlign * (base \div MallocAlign) = (base \div MallocAlign) * MallocAlign
          /\ MallocAlign * (base \div MallocAlign) \in Nat
      BY <2>1, <3>1, Product
    <3> QED
      BY <1>0, <3>1, <3>2
  <2>3. base % s.align = 0
    BY <2>1, <2>2, MultipleOf
  <2> QED
    BY <1>0, <2>1, <2>3, MultiplesAdd
<1> QED
  BY <1>1, <1>2

-----------------------------------------------------------------------------
(* The pool *)

LEMMA PoolCard == \A Q : P!Cardinality(Q) = Cardinality(Q)
BY DEF P!Cardinality, Cardinality

\* c is the free list: from free_list on along the words, then NULL.
FreeChain(c) == /\ c \in Seq(P!Blocks)
                /\ free_list = IF c = <<>> THEN NULL ELSE c[1]
                /\ \A k \in 1 .. Len(c) : word[c[k]] = IF k = Len(c) THEN NULL ELSE c[k + 1]
                /\ \A k, l \in 1 .. Len(c) : k # l => c[k] # c[l]
                /\ {c[k] : k \in 1 .. Len(c)} = P!Blocks \ held
                /\ Len(c) + Cardinality(held) = BlockCount

PoolInv == /\ P!TypeOK
           /\ IsFiniteSet(held)
           /\ buf => \E c \in Seq(P!Blocks) : FreeChain(c)
           /\ ~buf => free_list = NULL

LEMMA BlocksAre ==
  /\ BlockSize \in Nat \ {0} /\ BlockCount \in Nat \ {0} /\ P!Span \in Nat
  /\ NULL \notin P!Blocks /\ P!Blocks \subseteq Nat
  /\ \A k \in 0 .. BlockCount - 1 : k * BlockSize \in P!Blocks
  /\ \A k, l \in Nat : k * BlockSize = l * BlockSize => k = l
<1>1. BlockSize \in Nat \ {0} /\ BlockCount \in Nat \ {0} /\ NULL \notin Int
  BY AllocatorsAssumption
<1>2. \A k \in Nat : k * BlockSize \in Nat
  BY <1>1, Product
<1>3. P!Span \in Nat
  BY <1>1, Product DEF P!Span
<1>4. P!Blocks \subseteq Nat
  BY <1>1, <1>2 DEF P!Blocks
<1>5. ASSUME NEW k \in Nat, NEW l \in Nat, k < l
      PROVE  k * BlockSize # l * BlockSize
  <2>1. (k + 1) * BlockSize <= l * BlockSize
    BY <1>1, <1>5, Monotone
  <2>2. (k + 1) * BlockSize = k * BlockSize + BlockSize
    BY <1>1, Z3
  <2> QED
    BY <1>1, <1>2, <2>1, <2>2
<1>6. \A k, l \in Nat : k * BlockSize = l * BlockSize => k = l
  BY <1>5
<1> QED
  BY <1>1, <1>3, <1>4, <1>6 DEF P!Blocks

\* A pointer that passes the checks of pool_free is a block.
LEMMA BelongsIsBlock ==
  ASSUME NEW i \in Int, P!Belongs(i)
  PROVE  i \in P!Blocks
<1>1. i \in Nat /\ i < P!Span /\ i % BlockSize = 0 /\ BlockSize \in Nat \ {0} /\ BlockCount \in Nat
  BY BlocksAre DEF P!Belongs
<1> DEFINE k == i \div BlockSize
<1>2. k \in Nat /\ i = BlockSize * k
  <2>1. k \in Nat /\ BlockSize * k \in Nat /\ i = BlockSize * k + (i % BlockSize)
    BY <1>1, Division, Product
  <2> QED
    BY <1>1, <2>1
<1> HIDE DEF k
<1>3. i = k * BlockSize
  BY <1>1, <1>2, Product
<1>4. k < BlockCount
  <2> SUFFICES ASSUME BlockCount <= k PROVE FALSE
    BY <1>1, <1>2
  <2>1. BlockCount * BlockSize <= k * BlockSize /\ BlockCount * BlockSize = BlockSize * BlockCount
    BY <1>1, <1>2, Monotone, Product
  <2> QED
    BY <1>1, <1>3, <2>1 DEF P!Span
<1>5. k \in 0 .. BlockCount - 1
  BY <1>1, <1>2, <1>4
<1> QED
  BY <1>3, <1>5, BlocksAre

\* pool_init threads the blocks in order.
LEMMA PoolOpened ==
  ASSUME PoolInv, P!PoolInit
  PROVE  PoolInv'
<1> DEFINE c == [k \in 1 .. BlockCount |-> (k - 1) * BlockSize]
<1>0. /\ BlockSize \in Nat \ {0} /\ BlockCount \in Nat \ {0} /\ NULL \notin P!Blocks
      /\ \A k \in 0 .. BlockCount - 1 : k * BlockSize \in P!Blocks
      /\ \A k, l \in Nat : k * BlockSize = l * BlockSize => k = l
  BY BlocksAre
<1>1. /\ word' = [i \in P!Blocks |-> IF i + BlockSize \in P!Blocks THEN i + BlockSize ELSE NULL]
      /\ buf' = TRUE /\ free_list' = 0 /\ held' = {}
  BY DEF P!PoolInit
<1>2. c \in Seq(P!Blocks) /\ Len(c) = BlockCount /\ \A k \in 1 .. BlockCount : c[k] = (k - 1) * BlockSize
  <2>1. \A k \in 1 .. BlockCount : k - 1 \in 0 .. BlockCount - 1
    BY <1>0
  <2>2. \A k \in 1 .. BlockCount : (k - 1) * BlockSize \in P!Blocks
    BY <1>0, <2>1
  <2>3. c \in [1 .. BlockCount -> P!Blocks]
    BY <2>2
  <2> QED
    BY <1>0, <2>3
<1> HIDE DEF c
<1>3. \A k \in Nat : (k + 1) * BlockSize = k * BlockSize + BlockSize
  BY <1>0, Z3
<1>4. c # <<>> /\ c[1] = 0
  <2>1. 1 \in 1 .. BlockCount /\ (1 - 1) * BlockSize = 0
    BY <1>0, Z3
  <2> QED
    BY <1>0, <1>2, <2>1
<1>5. ASSUME NEW k \in 1 .. Len(c)
      PROVE  word'[c[k]] = IF k = Len(c) THEN NULL ELSE c[k + 1]
  <2>1. k - 1 \in Nat /\ k \in Nat /\ (k - 1) + 1 = k /\ c[k] = (k - 1) * BlockSize /\ c[k] \in P!Blocks
    BY <1>2
  <2>2. c[k] + BlockSize = k * BlockSize
    BY <1>3, <2>1
  <2>3. CASE k = Len(c)
    <3>1. ASSUME k * BlockSize \in P!Blocks PROVE FALSE
      <4>1. PICK l \in 0 .. BlockCount - 1 : k * BlockSize = l * BlockSize
        BY <3>1 DEF P!Blocks
      <4>2. l \in Nat /\ k = l
        BY <1>0, <2>1, <4>1
      <4> QED
        BY <1>0, <1>2, <2>3, <4>1, <4>2
    <3> QED
      BY <1>1, <2>1, <2>2, <2>3, <3>1
  <2>4. CASE k # Len(c)
    <3>1. k + 1 \in 1 .. BlockCount /\ k \in 0 .. BlockCount - 1 /\ (k + 1) - 1 = k
      BY <1>0, <1>2, <2>4
    <3>2. c[k + 1] = k * BlockSize /\ k * BlockSize \in P!Blocks
      BY <1>0, <1>2, <3>1
    <3> QED
      BY <1>1, <2>1, <2>2, <2>4, <3>2
  <2> QED
    BY <2>3, <2>4
<1>6. \A k, l \in 1 .. Len(c) : k # l => c[k] # c[l]
  <2> SUFFICES ASSUME NEW k \in 1 .. Len(c), NEW l \in 1 .. Len(c), c[k] = c[l] PROVE k = l
    OBVIOUS
  <2>1. k - 1 \in Nat /\ l - 1 \in Nat /\ (k - 1) * BlockSize = (l - 1) * BlockSize
    BY <1>2
  <2>2. k - 1 = l - 1
    BY <1>0, <2>1
  <2> QED
    BY <1>2, <2>2
<1>7. {c[k] : k \in 1 .. Len(c)} = P!Blocks
  <2>1. ASSUME NEW i \in P!Blocks PROVE \E k \in 1 .. Len(c) : i = c[k]
    <3>1. PICK l \in 0 .. BlockCount - 1 : i = l * BlockSize
      BY DEF P!Blocks
    <3>2. l + 1 \in 1 .. Len(c) /\ (l + 1) - 1 = l
      BY <1>0, <1>2, <3>1
    <3>3. c[l + 1] = i
      BY <1>2, <3>1, <3>2
    <3> QED
      BY <3>2, <3>3
  <2> QED
    BY <1>2, <2>1
<1>8. Cardinality({}) = 0 /\ IsFiniteSet({})
  BY FS_EmptySet
<1>9. /\ free_list' = IF c = <<>> THEN NULL ELSE c[1]
      /\ {c[k] : k \in 1 .. Len(c)} = P!Blocks \ held'
      /\ Len(c) + Cardinality(held') = BlockCount
  BY <1>0, <1>1, <1>2, <1>4, <1>7, <1>8
<1>10. FreeChain(c)'
  BY <1>2, <1>5, <1>6, <1>9 DEF FreeChain, P!Blocks
<1>11. /\ buf' \in BOOLEAN /\ free_list' \in P!Blocks \cup {NULL}
       /\ word' \in [P!Blocks -> P!Blocks \cup {NULL, Data}] /\ held' \subseteq P!Blocks
  BY <1>0, <1>1, <1>2, <1>4
<1> QED
  BY <1>1, <1>2, <1>8, <1>10, <1>11 DEF PoolInv, P!TypeOK, P!Blocks

\* pool_alloc takes the first block off the list.
LEMMA PoolAllocated ==
  ASSUME PoolInv, P!PoolAlloc
  PROVE  PoolInv'
<1>0. /\ free_list # NULL /\ held' = held \cup {free_list} /\ free_list' = word[free_list]
      /\ buf' = buf /\ word' = word
  BY DEF P!PoolAlloc
<1>1. buf = TRUE /\ IsFiniteSet(held) /\ held \subseteq P!Blocks
      /\ word \in [P!Blocks -> P!Blocks \cup {NULL, Data}]
  BY <1>0 DEF PoolInv, P!TypeOK
<1>2. PICK c \in Seq(P!Blocks) : FreeChain(c)
  BY <1>1 DEF PoolInv
<1>3. /\ free_list = IF c = <<>> THEN NULL ELSE c[1]
      /\ \A k \in 1 .. Len(c) : word[c[k]] = IF k = Len(c) THEN NULL ELSE c[k + 1]
      /\ \A k, l \in 1 .. Len(c) : k # l => c[k] # c[l]
      /\ {c[k] : k \in 1 .. Len(c)} = P!Blocks \ held
      /\ Len(c) + Cardinality(held) = BlockCount
  BY <1>2 DEF FreeChain
<1>4. c # <<>> /\ free_list = c[1] /\ 1 \in 1 .. Len(c) /\ Len(c) \in Nat
  BY <1>0, <1>2, <1>3
<1>5. free_list \in P!Blocks /\ free_list \notin held
  BY <1>3, <1>4
<1> DEFINE d == Tail(c)
<1>6. /\ d \in Seq(P!Blocks) /\ Len(d) = Len(c) - 1
      /\ \A k \in 1 .. Len(d) : d[k] = c[k + 1]
  BY <1>2, <1>4, HeadTailProperties
<1> HIDE DEF d
<1>7. \A k \in 1 .. Len(d) : k + 1 \in 1 .. Len(c) /\ k \in 1 .. Len(c)
  BY <1>4, <1>6
<1>8. free_list' = IF d = <<>> THEN NULL ELSE d[1]
  <2>1. CASE Len(c) = 1
    <3>1. d = <<>> /\ word[c[1]] = NULL
      BY <1>3, <1>4, <1>6, <2>1
    <3> QED
      BY <1>0, <1>4, <3>1
  <2>2. CASE Len(c) # 1
    <3>1. 1 \in 1 .. Len(d) /\ d # <<>>
      BY <1>4, <1>6, <2>2
    <3>2. word[c[1]] = c[1 + 1] /\ d[1] = c[1 + 1]
      BY <1>3, <1>4, <1>6, <2>2, <3>1
    <3> QED
      BY <1>0, <1>4, <3>1, <3>2
  <2> QED
    BY <2>1, <2>2
<1>9. \A k \in 1 .. Len(d) : word'[d[k]] = IF k = Len(d) THEN NULL ELSE d[k + 1]
  <2> SUFFICES ASSUME NEW k \in 1 .. Len(d)
               PROVE  word[d[k]] = IF k = Len(d) THEN NULL ELSE d[k + 1]
    BY <1>0
  <2>1. word[d[k]] = IF k + 1 = Len(c) THEN NULL ELSE c[(k + 1) + 1]
    BY <1>3, <1>6, <1>7
  <2>2. CASE k = Len(d)
    BY <1>4, <1>6, <2>1, <2>2
  <2>3. CASE k # Len(d)
    <3>1. k + 1 \in 1 .. Len(d) /\ k + 1 # Len(c)
      BY <1>4, <1>6, <2>3
    <3> QED
      BY <1>6, <2>1, <2>3, <3>1
  <2> QED
    BY <2>2, <2>3
<1>10. \A k, l \in 1 .. Len(d) : k # l => d[k] # d[l]
  <2> TAKE k, l \in 1 .. Len(d)
  <2>1. k # l => k + 1 # l + 1
    OBVIOUS
  <2> QED
    BY <1>3, <1>6, <1>7, <2>1
<1>11. {d[k] : k \in 1 .. Len(d)} = P!Blocks \ held'
  <2>1. ASSUME NEW i \in P!Blocks \ held' PROVE \E k \in 1 .. Len(d) : i = d[k]
    <3>1. i \in P!Blocks \ held /\ i # c[1]
      BY <1>0, <1>4, <2>1
    <3>2. PICK l \in 1 .. Len(c) : i = c[l]
      BY <1>3, <3>1
    <3>3. l - 1 \in 1 .. Len(d) /\ (l - 1) + 1 = l
      BY <1>4, <1>6, <3>1, <3>2
    <3> QED
      BY <1>6, <3>2, <3>3
  <2>2. ASSUME NEW k \in 1 .. Len(d) PROVE d[k] \in P!Blocks \ held'
    <3>1. k + 1 \in 1 .. Len(c) /\ k + 1 # 1 /\ d[k] = c[k + 1]
      BY <1>6, <1>7
    <3>2. d[k] \in P!Blocks \ held
      BY <1>3, <3>1
    <3>3. d[k] # c[1]
      BY <1>3, <1>4, <3>1
    <3> QED
      BY <1>0, <1>4, <3>2, <3>3
  <2> QED
    BY <2>1, <2>2
<1>12. Len(d) + Cardinality(held') = BlockCount /\ IsFiniteSet(held')
  <2>1. Cardinality(held') = Cardinality(held) + 1 /\ IsFiniteSet(held') /\ Cardinality(held) \in Nat
    BY <1>0, <1>1, <1>5, FS_AddElement, FS_CardinalityType
  <2> QED
    BY <1>3, <1>4, <1>6, <2>1
<1>13. FreeChain(d)'
  BY <1>6, <1>8, <1>9, <1>10, <1>11, <1>12 DEF FreeChain, P!Blocks
<1>14. free_list' \in P!Blocks \cup {NULL}
  <2>1. d # <<>> => 1 \in 1 .. Len(d)
    BY <1>6
  <2> QED
    BY <1>6, <1>8, <2>1
<1>15. /\ buf' \in BOOLEAN /\ word' \in [P!Blocks -> P!Blocks \cup {NULL, Data}]
       /\ held' \subseteq P!Blocks /\ buf' = TRUE
  BY <1>0, <1>1, <1>5
<1> QED
  BY <1>6, <1>12, <1>13, <1>14, <1>15 DEF PoolInv, P!TypeOK, P!Blocks

\* pool_free puts the block before the list.
LEMMA PoolFreed ==
  ASSUME PoolInv, NEW i \in Int, P!PoolFree(i)
  PROVE  PoolInv'
<1>0. i \in P!Blocks /\ i \in held /\ buf = TRUE
  BY BelongsIsBlock DEF P!PoolFree, P!Belongs, PoolInv, P!TypeOK
<1>1. IsFiniteSet(held) /\ held \subseteq P!Blocks
      /\ word \in [P!Blocks -> P!Blocks \cup {NULL, Data}] /\ free_list \in P!Blocks \cup {NULL}
  BY DEF PoolInv, P!TypeOK
<1>2. /\ word' = [p \in P!Blocks |-> IF p = i THEN free_list ELSE word[p]]
      /\ free_list' = i /\ held' = held \ {i} /\ buf' = buf
  <2>1. DOMAIN word \cup {i} = P!Blocks
    BY <1>0, <1>1
  <2> QED
    BY <2>1 DEF P!PoolFree
<1>3. PICK c \in Seq(P!Blocks) : FreeChain(c)
  BY <1>0 DEF PoolInv
<1>4. /\ free_list = IF c = <<>> THEN NULL ELSE c[1]
      /\ \A k \in 1 .. Len(c) : word[c[k]] = IF k = Len(c) THEN NULL ELSE c[k + 1]
      /\ \A k, l \in 1 .. Len(c) : k # l => c[k] # c[l]
      /\ {c[k] : k \in 1 .. Len(c)} = P!Blocks \ held
      /\ Len(c) + Cardinality(held) = BlockCount
      /\ Len(c) \in Nat
  BY <1>3 DEF FreeChain
<1>5. \A k \in 1 .. Len(c) : c[k] # i
  BY <1>0, <1>4
<1> DEFINE d == <<i>> \o c
<1>6. /\ d \in Seq(P!Blocks) /\ Len(d) = Len(c) + 1 /\ d[1] = i
      /\ \A k \in 1 .. Len(c) : d[k + 1] = c[k]
  <2>1. <<i>> \in Seq(P!Blocks) /\ Len(<<i>>) = 1 /\ <<i>>[1] = i
    BY <1>0
  <2>2. /\ d \in Seq(P!Blocks) /\ Len(d) = 1 + Len(c)
        /\ \A k \in 1 .. 1 + Len(c) : d[k] = IF k <= 1 THEN <<i>>[k] ELSE c[k - 1]
    BY <1>3, <2>1, ConcatProperties
  <2> HIDE DEF d
  <2>3. \A k \in 1 .. Len(c) : k + 1 \in 1 .. 1 + Len(c) /\ ~(k + 1 <= 1) /\ (k + 1) - 1 = k
    BY <1>4
  <2>4. 1 \in 1 .. 1 + Len(c) /\ 1 <= 1
    BY <1>4
  <2>5. d[1] = i
    BY <2>1, <2>2, <2>4
  <2>6. \A k \in 1 .. Len(c) : d[k + 1] = c[k]
    BY <2>2, <2>3
  <2> QED
    BY <1>4, <2>2, <2>5, <2>6
<1> HIDE DEF d
<1>7. \A k \in 1 .. Len(d) : k = 1 \/ (k - 1 \in 1 .. Len(c) /\ d[k] = c[k - 1])
  <2> TAKE k \in 1 .. Len(d)
  <2>1. CASE k # 1
    <3>1. k - 1 \in 1 .. Len(c) /\ (k - 1) + 1 = k
      BY <1>4, <1>6, <2>1
    <3> QED
      BY <1>6, <3>1
  <2> QED
    BY <2>1
<1>8. free_list' = IF d = <<>> THEN NULL ELSE d[1]
  BY <1>2, <1>4, <1>6
<1>9. \A k \in 1 .. Len(d) : word'[d[k]] = IF k = Len(d) THEN NULL ELSE d[k + 1]
  <2> TAKE k \in 1 .. Len(d)
  <2>1. CASE k = 1
    <3>1. word'[d[k]] = free_list
      BY <1>0, <1>2, <1>6, <2>1
    <3>2. CASE c = <<>>
      BY <1>4, <1>6, <2>1, <3>1, <3>2
    <3>3. CASE c # <<>>
      <4>1. 1 \in 1 .. Len(c) /\ k # Len(d) /\ k + 1 = 1 + 1
        BY <1>3, <1>4, <1>6, <2>1, <3>3
      <4>2. d[1 + 1] = c[1]
        BY <1>6, <4>1
      <4> QED
        BY <1>4, <3>1, <3>3, <4>1, <4>2
    <3> QED
      BY <3>2, <3>3
  <2>2. CASE k # 1
    <3>1. k - 1 \in 1 .. Len(c) /\ d[k] = c[k - 1] /\ c[k - 1] # i /\ c[k - 1] \in P!Blocks
      BY <1>3, <1>5, <1>7, <2>2
    <3>2. word'[d[k]] = word[c[k - 1]]
      BY <1>2, <3>1
    <3>3. word[c[k - 1]] = IF k - 1 = Len(c) THEN NULL ELSE c[(k - 1) + 1]
      BY <1>4, <3>1
    <3>4. CASE k = Len(d)
      BY <1>4, <1>6, <3>2, <3>3, <3>4
    <3>5. CASE k # Len(d)
      <4>1. k \in 1 .. Len(c) /\ k - 1 # Len(c) /\ (k - 1) + 1 = k
        BY <1>4, <1>6, <2>2, <3>5
      <4>2. d[k + 1] = c[k]
        BY <1>6, <4>1
      <4> QED
        BY <3>2, <3>3, <3>5, <4>1, <4>2
    <3> QED
      BY <3>4, <3>5
  <2> QED
    BY <2>1, <2>2
<1>10. \A k, l \in 1 .. Len(d) : k # l => d[k] # d[l]
  <2> TAKE k, l \in 1 .. Len(d)
  <2>1. k # l => k - 1 # l - 1
    OBVIOUS
  <2>2. k = 1 \/ (k - 1 \in 1 .. Len(c) /\ d[k] = c[k - 1])
    BY <1>7
  <2>3. l = 1 \/ (l - 1 \in 1 .. Len(c) /\ d[l] = c[l - 1])
    BY <1>7
  <2> QED
    BY <1>4, <1>5, <1>6, <2>1, <2>2, <2>3
<1>11. {d[k] : k \in 1 .. Len(d)} = P!Blocks \ held'
  <2>1. ASSUME NEW j \in P!Blocks \ held' PROVE \E k \in 1 .. Len(d) : j = d[k]
    <3>1. CASE j = i
      <4>1. 1 \in 1 .. Len(d)
        BY <1>4, <1>6
      <4> QED
        BY <1>6, <3>1, <4>1
    <3>2. CASE j # i
      <4>1. PICK l \in 1 .. Len(c) : j = c[l]
        BY <1>2, <1>4, <2>1, <3>2
      <4>2. l + 1 \in 1 .. Len(d) /\ d[l + 1] = j
        BY <1>4, <1>6, <4>1
      <4> QED
        BY <4>2
    <3> QED
      BY <3>1, <3>2
  <2>2. ASSUME NEW k \in 1 .. Len(d) PROVE d[k] \in P!Blocks \ held'
    <3>1. CASE k = 1
      BY <1>0, <1>2, <1>6, <3>1
    <3>2. CASE k # 1
      <4>1. k - 1 \in 1 .. Len(c) /\ d[k] = c[k - 1]
        BY <1>7, <3>2
      <4>2. c[k - 1] \in P!Blocks \ held
        BY <1>4, <4>1
      <4> QED
        BY <1>2, <4>1, <4>2
    <3> QED
      BY <3>1, <3>2
  <2> QED
    BY <2>1, <2>2
<1>12. Len(d) + Cardinality(held') = BlockCount /\ IsFiniteSet(held')
  <2>1. Cardinality(held') = Cardinality(held) - 1 /\ IsFiniteSet(held') /\ Cardinality(held) \in Nat
    BY <1>0, <1>1, <1>2, FS_RemoveElement, FS_CardinalityType
  <2> QED
    BY <1>4, <1>6, <2>1
<1>13. FreeChain(d)'
  BY <1>6, <1>8, <1>9, <1>10, <1>11, <1>12 DEF FreeChain, P!Blocks
<1>14. /\ buf' \in BOOLEAN /\ word' \in [P!Blocks -> P!Blocks \cup {NULL, Data}]
       /\ held' \subseteq P!Blocks /\ buf' = TRUE /\ free_list' \in P!Blocks \cup {NULL}
  BY <1>0, <1>1, <1>2
<1> QED
  BY <1>6, <1>12, <1>13, <1>14 DEF PoolInv, P!TypeOK, P!Blocks

LEMMA PoolInit == P!Init => PoolInv
BY FS_EmptySet DEF P!Init, PoolInv, P!TypeOK

LEMMA PoolNext == PoolInv /\ [P!Next]_(P!vars) => PoolInv'
<1> SUFFICES ASSUME PoolInv, [P!Next]_(P!vars) PROVE PoolInv'
  OBVIOUS
<1>1. ASSUME NEW i \in P!Blocks, P!UserWrites(i)
      PROVE  PoolInv'
  <2>0. /\ i \in held /\ word' = [word EXCEPT ![i] = Data]
        /\ buf' = buf /\ free_list' = free_list /\ held' = held
    BY <1>1 DEF P!UserWrites
  <2>1. /\ P!TypeOK /\ IsFiniteSet(held) /\ word \in [P!Blocks -> P!Blocks \cup {NULL, Data}]
        /\ ~buf => free_list = NULL
    BY DEF PoolInv, P!TypeOK
  <2>2. ASSUME NEW c \in Seq(P!Blocks), FreeChain(c)
        PROVE  FreeChain(c)'
    <3>1. /\ free_list = IF c = <<>> THEN NULL ELSE c[1]
          /\ \A k \in 1 .. Len(c) : word[c[k]] = IF k = Len(c) THEN NULL ELSE c[k + 1]
          /\ \A k, l \in 1 .. Len(c) : k # l => c[k] # c[l]
          /\ {c[k] : k \in 1 .. Len(c)} = P!Blocks \ held
          /\ Len(c) + Cardinality(held) = BlockCount
      BY <2>2 DEF FreeChain
    <3>2. \A k \in 1 .. Len(c) : c[k] # i /\ c[k] \in P!Blocks
      BY <2>0, <3>1
    <3>3. \A k \in 1 .. Len(c) : word'[c[k]] = word[c[k]]
      BY <2>0, <2>1, <3>2
    <3>4. \A k \in 1 .. Len(c) : word'[c[k]] = IF k = Len(c) THEN NULL ELSE c[k + 1]
      BY <3>1, <3>3
    <3>5. free_list' = IF c = <<>> THEN NULL ELSE c[1]
      BY <2>0, <3>1
    <3>6. {c[k] : k \in 1 .. Len(c)} = P!Blocks \ held' /\ Len(c) + Cardinality(held') = BlockCount
      BY <2>0, <3>1
    <3> QED
      BY <2>2, <3>1, <3>4, <3>5, <3>6 DEF FreeChain, P!Blocks
  <2>3. buf' => \E c \in Seq(P!Blocks) : FreeChain(c)'
    BY <2>0, <2>2 DEF PoolInv
  <2>4. /\ buf' \in BOOLEAN /\ free_list' \in P!Blocks \cup {NULL}
        /\ word' \in [P!Blocks -> P!Blocks \cup {NULL, Data}] /\ held' \subseteq P!Blocks
    BY <2>0, <2>1 DEF P!TypeOK
  <2> QED
    BY <2>0, <2>1, <2>3, <2>4 DEF PoolInv, P!TypeOK, P!Blocks
<1>2. CASE P!PoolDestroy
  <2>1. /\ buf' = FALSE /\ free_list' = NULL /\ held' = {} /\ word' = [p \in P!Blocks |-> Data]
    BY <1>2 DEF P!PoolDestroy
  <2> QED
    BY <2>1, FS_EmptySet DEF PoolInv, P!TypeOK, P!Blocks
<1>3. CASE UNCHANGED P!vars
  <2>1. buf' = buf /\ free_list' = free_list /\ word' = word /\ held' = held
    BY <1>3 DEF P!vars
  <2> QED
    BY <2>1 DEF PoolInv, P!TypeOK, P!Blocks, FreeChain
<1>4. ASSUME NEW i \in P!Pointers, P!PoolFree(i)
      PROVE  PoolInv'
  <2>1. i \in Int
    BY BlocksAre DEF P!Pointers
  <2> QED
    BY <1>4, <2>1, PoolFreed
<1> QED
  BY <1>1, <1>2, <1>3, <1>4, PoolOpened, PoolAllocated DEF P!Next

\* Chain, which is defined by recursion, is the list and then NULL.
LEMMA ChainIs ==
  ASSUME NEW c \in Seq(P!Blocks), FreeChain(c)
  PROVE  /\ \A k \in 0 .. BlockCount : P!Chain[k] = IF k < Len(c) THEN c[k + 1] ELSE NULL
<1> DEFINE N == 0 .. BlockCount
           g == [k \in N |-> IF k < Len(c) THEN c[k + 1] ELSE NULL]
           Eq(f) == f = [k \in N |-> IF k = 0 THEN free_list
                                     ELSE IF f[k - 1] \in P!Blocks THEN word[f[k - 1]] ELSE NULL]
<1>0. BlockCount \in Nat /\ NULL \notin P!Blocks /\ Len(c) \in Nat
  BY BlocksAre
<1>1. /\ free_list = IF c = <<>> THEN NULL ELSE c[1]
      /\ \A k \in 1 .. Len(c) : word[c[k]] = IF k = Len(c) THEN NULL ELSE c[k + 1]
  BY DEF FreeChain
<1>2. ASSUME NEW k \in N
      PROVE  g[k] = IF k = 0 THEN free_list
                    ELSE IF g[k - 1] \in P!Blocks THEN word[g[k - 1]] ELSE NULL
  <2>1. CASE k = 0
    <3>1. c = <<>> <=> ~(0 < Len(c))
      BY <1>0
    <3> QED
      BY <1>1, <2>1, <3>1
  <2>2. CASE k # 0
    <3>0. k - 1 \in N /\ (k - 1) + 1 = k
      BY <1>0, <2>2
    <3>1. CASE k - 1 < Len(c)
      <4>1. k \in 1 .. Len(c) /\ g[k - 1] = c[k] /\ c[k] \in P!Blocks
        BY <1>0, <2>2, <3>0, <3>1
      <4>2. word[c[k]] = IF k = Len(c) THEN NULL ELSE c[k + 1]
        BY <1>1, <4>1
      <4>3. g[k] = IF k = Len(c) THEN NULL ELSE c[k + 1]
        BY <1>0, <4>1
      <4> HIDE DEF g
      <4> QED
        BY <2>2, <4>1, <4>2, <4>3
    <3>2. CASE ~(k - 1 < Len(c))
      <4>1. g[k - 1] = NULL /\ g[k] = NULL
        BY <1>0, <3>0, <3>2
      <4> HIDE DEF g
      <4> QED
        BY <1>0, <2>2, <4>1
    <3> QED
      BY <3>1, <3>2
  <2> QED
    BY <2>1, <2>2
<1>3. Eq(g)
  <2> DEFINE r == [k \in N |-> IF k = 0 THEN free_list
                               ELSE IF g[k - 1] \in P!Blocks THEN word[g[k - 1]] ELSE NULL]
  <2>1. g = [k \in N |-> g[k]]
    OBVIOUS
  <2>2. \A k \in N : g[k] = r[k]
    BY <1>2
  <2>3. g = r
    <3> HIDE DEF r
    <3>1. DOMAIN r = N /\ r = [k \in N |-> r[k]]
      BY DEF r
    <3> HIDE DEF g, N
    <3>2. g = [k \in N |-> r[k]]
      BY <2>1, <2>2
    <3> QED
      BY <3>1, <3>2
  <2> QED
    BY <2>3
<1>4. P!Chain = CHOOSE f : Eq(f)
  BY DEF P!Chain
<1>5. Eq(P!Chain)
  <2> HIDE DEF Eq, g
  <2> QED
    BY <1>3, <1>4
<1> DEFINE h == P!Chain
<1>6. h = [k \in N |-> IF k = 0 THEN free_list
                       ELSE IF h[k - 1] \in P!Blocks THEN word[h[k - 1]] ELSE NULL]
  BY <1>5
<1> HIDE DEF h, Eq
<1>7. \A k \in N : h[k] = IF k = 0 THEN free_list
                          ELSE IF h[k - 1] \in P!Blocks THEN word[h[k - 1]] ELSE NULL
  BY <1>6
<1> DEFINE wrong == {k \in N : h[k] # g[k]}
<1>8. wrong = {}
  <2> SUFFICES ASSUME wrong # {} PROVE FALSE
    OBVIOUS
  <2>1. wrong \subseteq Nat
    BY <1>0
  <2> DEFINE m == B!Smallest(wrong)
  <2>2. m \in wrong /\ \A l \in wrong : m <= l
    <3> HIDE DEF wrong
    <3> QED
      BY <2>1, SmallestIs
  <2> HIDE DEF m
  <2>3. m \in N /\ h[m] # g[m]
    BY <2>2
  <2>4. m # 0
    BY <1>2, <1>7, <2>3
  <2>5. m - 1 \in N /\ m - 1 \notin wrong
    BY <1>0, <2>2, <2>3, <2>4
  <2>6. h[m - 1] = g[m - 1]
    BY <2>5
  <2> HIDE DEF g
  <2>7. h[m] = IF g[m - 1] \in P!Blocks THEN word[g[m - 1]] ELSE NULL
    BY <1>7, <2>3, <2>4, <2>6
  <2>8. g[m] = IF g[m - 1] \in P!Blocks THEN word[g[m - 1]] ELSE NULL
    BY <1>2, <2>3, <2>4
  <2> QED
    BY <2>3, <2>7, <2>8
<1>9. \A k \in N : h[k] = g[k]
  BY <1>8
<1> QED
  BY <1>9 DEF h

LEMMA PoolIsExact == PoolInv => P!FreeListIsExact
<1> SUFFICES ASSUME PoolInv, buf
             PROVE  /\ {P!Chain[k] : k \in 0 .. BlockCount} \ {NULL} = P!Blocks \ held
                    /\ P!Chain[BlockCount - Cardinality(held)] = NULL
  BY PoolCard DEF P!FreeListIsExact, PoolInv
<1>1. PICK c \in Seq(P!Blocks) : FreeChain(c)
  BY DEF PoolInv
<1>2. /\ {c[k] : k \in 1 .. Len(c)} = P!Blocks \ held
      /\ Len(c) + Cardinality(held) = BlockCount /\ Cardinality(held) \in Nat
      /\ Len(c) \in Nat /\ BlockCount \in Nat /\ NULL \notin P!Blocks
  BY <1>1, BlocksAre, FS_CardinalityType DEF FreeChain, PoolInv
<1>3. \A k \in 0 .. BlockCount : P!Chain[k] = IF k < Len(c) THEN c[k + 1] ELSE NULL
  BY <1>1, ChainIs
<1>4. ASSUME NEW i \in P!Blocks \ held PROVE \E k \in 0 .. BlockCount : i = P!Chain[k]
  <2>1. PICK l \in 1 .. Len(c) : i = c[l]
    BY <1>2
  <2>2. l - 1 \in 0 .. BlockCount /\ l - 1 < Len(c) /\ (l - 1) + 1 = l
    BY <1>2, <2>1
  <2> QED
    BY <1>3, <2>1, <2>2
<1>5. ASSUME NEW k \in 0 .. BlockCount PROVE P!Chain[k] \in (P!Blocks \ held) \cup {NULL}
  <2>1. CASE k < Len(c)
    <3>1. k + 1 \in 1 .. Len(c)
      BY <1>2, <2>1
    <3> QED
      BY <1>2, <1>3, <2>1, <3>1
  <2>2. CASE ~(k < Len(c))
    BY <1>3, <2>2
  <2> QED
    BY <2>1, <2>2
<1>6. P!Chain[BlockCount - Cardinality(held)] = NULL
  <2>1. BlockCount - Cardinality(held) = Len(c) /\ Len(c) \in 0 .. BlockCount /\ ~(Len(c) < Len(c))
    BY <1>2
  <2> QED
    BY <1>3, <2>1
<1> QED
  BY <1>2, <1>4, <1>5, <1>6

-----------------------------------------------------------------------------
(* The leak detector *)

LEMMA LeakCard == \A Q : L!Cardinality(Q) = Cardinality(Q)
BY DEF L!Cardinality, Cardinality

LeakRecs == [ptr : Addrs, size : Nat]

\* The records r are those of the blocks Q, each once, with the sizes in h.
ListIs(r, Q, h) == /\ r \in Seq(LeakRecs)
                   /\ \A k, l \in 1 .. Len(r) : k # l => r[k].ptr # r[l].ptr
                   /\ \A i \in Q : \E k \in 1 .. Len(r) : r[k].ptr = i
                   /\ \A k \in 1 .. Len(r) : r[k].ptr \in Q /\ r[k].size = h[r[k].ptr]

\* There are as many records as blocks.
LEMMA ListCounts ==
  ASSUME NEW r, NEW Q, NEW h, ListIs(r, Q, h)
  PROVE  Len(r) \in Nat /\ Cardinality(Q) = Len(r)
<1> DEFINE f == [k \in 1 .. Len(r) |-> r[k].ptr]
<1>1. /\ Len(r) \in Nat
      /\ \A k, l \in 1 .. Len(r) : k # l => r[k].ptr # r[l].ptr
      /\ \A i \in Q : \E k \in 1 .. Len(r) : r[k].ptr = i
      /\ \A k \in 1 .. Len(r) : r[k].ptr \in Q
  BY DEF ListIs
<1>2. IsFiniteSet(1 .. Len(r)) /\ Cardinality(1 .. Len(r)) = Len(r)
  BY <1>1, FS_Interval
<1>3. f \in [1 .. Len(r) -> Q] /\ \A k \in 1 .. Len(r) : f[k] = r[k].ptr
  BY <1>1
<1> HIDE DEF f
<1>4. f \in Bijection(1 .. Len(r), Q)
  BY <1>1, <1>3 DEF Bijection, Injection, Surjection, IsInjective
<1> QED
  BY <1>1, <1>2, <1>4, FS_Bijection DEF ExistsBijection

\* A new first element.
LEMMA SequenceGrows ==
  ASSUME NEW Q, NEW r \in Seq(Q), NEW e \in Q
  PROVE  /\ <<e>> \o r \in Seq(Q) /\ Len(<<e>> \o r) = Len(r) + 1 /\ (<<e>> \o r)[1] = e
         /\ \A k \in 1 .. Len(r) : (<<e>> \o r)[k + 1] = r[k]
<1> DEFINE d == <<e>> \o r
<1>1. <<e>> \in Seq(Q) /\ Len(<<e>>) = 1 /\ <<e>>[1] = e /\ Len(r) \in Nat
  OBVIOUS
<1>2. /\ d \in Seq(Q) /\ Len(d) = 1 + Len(r)
      /\ \A k \in 1 .. 1 + Len(r) : d[k] = IF k <= 1 THEN <<e>>[k] ELSE r[k - 1]
  BY <1>1, ConcatProperties
<1> HIDE DEF d
<1>3. d[1] = e
  <2>1. 1 \in 1 .. 1 + Len(r) /\ 1 <= 1
    BY <1>1
  <2> QED
    BY <1>1, <1>2, <2>1
<1>4. \A k \in 1 .. Len(r) : d[k + 1] = r[k]
  <2> TAKE k \in 1 .. Len(r)
  <2>1. k + 1 \in 1 .. 1 + Len(r) /\ ~(k + 1 <= 1) /\ (k + 1) - 1 = k
    BY <1>1
  <2> QED
    BY <1>2, <2>1
<1>5. Len(d) = Len(r) + 1
  BY <1>1, <1>2
<1> QED
  BY <1>2, <1>3, <1>4, <1>5 DEF d

\* d is the list r with a record of i before its own; g is the heap it is of.
Grown(r, Q, h, i, d, g) ==
  /\ ListIs(r, Q, h) /\ i \notin Q
  /\ \A j \in Q : g[j] = h[j]
  /\ d \in Seq(LeakRecs) /\ Len(d) = Len(r) + 1
  /\ d[1].ptr = i /\ d[1].size = g[i]
  /\ \A k \in 1 .. Len(r) : d[k + 1] = r[k]

\* record_add
LEMMA ListGrows ==
  ASSUME NEW r, NEW Q, NEW h, NEW i, NEW d, NEW g, Grown(r, Q, h, i, d, g)
  PROVE  ListIs(d, Q \cup {i}, g)
<1>a. /\ ListIs(r, Q, h) /\ i \notin Q
      /\ \A j \in Q : g[j] = h[j]
      /\ d \in Seq(LeakRecs) /\ Len(d) = Len(r) + 1
      /\ d[1].ptr = i /\ d[1].size = g[i]
      /\ \A k \in 1 .. Len(r) : d[k + 1] = r[k]
  BY DEF Grown
<1> USE <1>a
<1>0. /\ r \in Seq(LeakRecs) /\ Len(r) \in Nat
      /\ \A k, l \in 1 .. Len(r) : k # l => r[k].ptr # r[l].ptr
      /\ \A j \in Q : \E k \in 1 .. Len(r) : r[k].ptr = j
      /\ \A k \in 1 .. Len(r) : r[k].ptr \in Q /\ r[k].size = h[r[k].ptr]
  BY DEF ListIs
<1>3. 1 \in 1 .. Len(d)
  BY <1>0
<1>4. ASSUME NEW k \in 1 .. Len(d)
      PROVE  k = 1 \/ (k - 1 \in 1 .. Len(r) /\ d[k] = r[k - 1])
  <2>1. CASE k # 1
    <3>1. k - 1 \in 1 .. Len(r) /\ (k - 1) + 1 = k
      BY <1>0, <2>1
    <3>2. d[(k - 1) + 1] = r[k - 1]
      BY <3>1
    <3> QED
      BY <3>1, <3>2
  <2> QED
    BY <2>1
<1>5. \A k \in 1 .. Len(r) : k + 1 \in 1 .. Len(d)
  BY <1>0
<1>6. \A k, l \in 1 .. Len(d) : k # l => d[k].ptr # d[l].ptr
  <2> TAKE k, l \in 1 .. Len(d)
  <2>1. k # l => k - 1 # l - 1
    OBVIOUS
  <2>2. k = 1 \/ (k - 1 \in 1 .. Len(r) /\ d[k] = r[k - 1])
    BY <1>4
  <2>3. l = 1 \/ (l - 1 \in 1 .. Len(r) /\ d[l] = r[l - 1])
    BY <1>4
  <2> QED
    BY <1>0, <2>1, <2>2, <2>3
<1>7. \A j \in Q \cup {i} : \E k \in 1 .. Len(d) : d[k].ptr = j
  <2> TAKE j \in Q \cup {i}
  <2>1. CASE j = i
    BY <1>3, <2>1
  <2>2. CASE j \in Q
    <3>1. PICK k \in 1 .. Len(r) : r[k].ptr = j
      BY <1>0, <2>2
    <3>2. k + 1 \in 1 .. Len(d) /\ d[k + 1].ptr = j
      BY <1>5, <3>1
    <3> QED
      BY <3>2
  <2> QED
    BY <2>1, <2>2
<1>8. \A k \in 1 .. Len(d) : d[k].ptr \in Q \cup {i} /\ d[k].size = g[d[k].ptr]
  <2> TAKE k \in 1 .. Len(d)
  <2>1. CASE k = 1
    BY <2>1
  <2>2. CASE k # 1
    <3>1. k - 1 \in 1 .. Len(r) /\ d[k] = r[k - 1]
      BY <1>4, <2>2
    <3>2. r[k - 1].ptr \in Q /\ r[k - 1].size = h[r[k - 1].ptr]
      BY <1>0, <3>1
    <3>3. g[r[k - 1].ptr] = h[r[k - 1].ptr]
      BY <3>2
    <3> QED
      BY <3>1, <3>2, <3>3
  <2> QED
    BY <2>1, <2>2
<1> QED
  BY <1>6, <1>7, <1>8 DEF ListIs

\* d is the list r with its record m now one of i.
Relocated(r, Q, h, m, i, d, g) ==
  /\ ListIs(r, Q, h) /\ m \in 1 .. Len(r)
  /\ i = r[m].ptr \/ i \notin Q
  /\ \A j \in Q \ {r[m].ptr} : g[j] = h[j]
  /\ d \in Seq(LeakRecs) /\ Len(d) = Len(r)
  /\ d[m].ptr = i /\ d[m].size = g[i]
  /\ \A k \in 1 .. Len(r) : k # m => d[k] = r[k]

\* leak_detect_realloc brings the record it found up to date.
LEMMA ListMoves ==
  ASSUME NEW r, NEW Q, NEW h, NEW m, NEW i, NEW d, NEW g, Relocated(r, Q, h, m, i, d, g)
  PROVE  ListIs(d, (Q \ {r[m].ptr}) \cup {i}, g)
<1>a. /\ ListIs(r, Q, h) /\ m \in 1 .. Len(r)
      /\ i = r[m].ptr \/ i \notin Q
      /\ \A j \in Q \ {r[m].ptr} : g[j] = h[j]
      /\ d \in Seq(LeakRecs) /\ Len(d) = Len(r)
      /\ d[m].ptr = i /\ d[m].size = g[i]
      /\ \A k \in 1 .. Len(r) : k # m => d[k] = r[k]
  BY DEF Relocated
<1> USE <1>a
<1> DEFINE p == r[m].ptr
<1>0. /\ r \in Seq(LeakRecs) /\ Len(r) \in Nat
      /\ \A k, l \in 1 .. Len(r) : k # l => r[k].ptr # r[l].ptr
      /\ \A j \in Q : \E k \in 1 .. Len(r) : r[k].ptr = j
      /\ \A k \in 1 .. Len(r) : r[k].ptr \in Q /\ r[k].size = h[r[k].ptr]
  BY DEF ListIs
<1>3. \A k \in 1 .. Len(r) : k # m => r[k].ptr # p /\ r[k].ptr # i
  BY <1>0
<1>4. \A k, l \in 1 .. Len(d) : k # l => d[k].ptr # d[l].ptr
  BY <1>0, <1>3
<1>5. \A j \in (Q \ {p}) \cup {i} : \E k \in 1 .. Len(d) : d[k].ptr = j
  <2> TAKE j \in (Q \ {p}) \cup {i}
  <2>1. CASE j = i
    BY <2>1
  <2>2. CASE j \in Q \ {p}
    <3>1. PICK k \in 1 .. Len(r) : r[k].ptr = j
      BY <1>0, <2>2
    <3> QED
      BY <2>2, <3>1
  <2> QED
    BY <2>1, <2>2
<1>6. \A k \in 1 .. Len(d) : d[k].ptr \in (Q \ {p}) \cup {i} /\ d[k].size = g[d[k].ptr]
  <2> TAKE k \in 1 .. Len(d)
  <2>1. CASE k = m
    BY <2>1
  <2>2. CASE k # m
    BY <1>0, <1>3, <2>2
  <2> QED
    BY <2>1, <2>2
<1> QED
  BY <1>4, <1>5, <1>6 DEF ListIs

\* What is left of a sequence without its m-th element.
LEMMA SequenceDrops ==
  ASSUME NEW Q, NEW r \in Seq(Q), NEW m \in 1 .. Len(r)
  PROVE  LET d == SubSeq(r, 1, m - 1) \o SubSeq(r, m + 1, Len(r))
         IN  /\ d \in Seq(Q) /\ Len(d) = Len(r) - 1
             /\ \A k \in 1 .. Len(r) - 1 : d[k] = IF k < m THEN r[k] ELSE r[k + 1]
<1> DEFINE u == SubSeq(r, 1, m - 1)
           w == SubSeq(r, m + 1, Len(r))
<1>0. Len(r) \in Nat /\ \A k \in 1 .. Len(r) : r[k] \in Q
  OBVIOUS
<1>1. /\ u \in Seq(Q) /\ Len(u) = m - 1 /\ \A k \in 1 .. m - 1 : u[k] = r[k]
  <2>1. \A k \in 1 .. m - 1 : r[k] \in Q
    BY <1>0
  <2>2. /\ u \in Seq(Q) /\ Len(u) = IF 1 <= m - 1 THEN (m - 1) - 1 + 1 ELSE 0
        /\ \A k \in 1 .. (m - 1) - 1 + 1 : u[k] = r[1 + k - 1]
    BY <1>0, <2>1, SubSeqProperties
  <2> HIDE DEF u
  <2>3. \A k \in 1 .. m - 1 : 1 + k - 1 = k /\ k \in 1 .. (m - 1) - 1 + 1
    BY <1>0
  <2> QED
    BY <1>0, <2>2, <2>3
<1>2. /\ w \in Seq(Q) /\ Len(w) = Len(r) - m /\ \A k \in 1 .. Len(r) - m : w[k] = r[m + k]
  <2>1. \A k \in m + 1 .. Len(r) : r[k] \in Q
    BY <1>0
  <2>2. /\ w \in Seq(Q) /\ Len(w) = IF m + 1 <= Len(r) THEN Len(r) - (m + 1) + 1 ELSE 0
        /\ \A k \in 1 .. Len(r) - (m + 1) + 1 : w[k] = r[(m + 1) + k - 1]
    BY <1>0, <2>1, SubSeqProperties
  <2> HIDE DEF w
  <2>3. \A k \in 1 .. Len(r) - m : (m + 1) + k - 1 = m + k /\ k \in 1 .. Len(r) - (m + 1) + 1
    BY <1>0
  <2> QED
    BY <1>0, <2>2, <2>3
<1> HIDE DEF u, w
<1> DEFINE d == u \o w
<1>3. /\ d \in Seq(Q) /\ Len(d) = Len(r) - 1
      /\ \A k \in 1 .. Len(r) - 1 : d[k] = IF k < m THEN r[k] ELSE r[k + 1]
  <2>1. /\ d \in Seq(Q) /\ Len(d) = Len(u) + Len(w)
        /\ \A k \in 1 .. Len(u) + Len(w) : d[k] = IF k <= Len(u) THEN u[k] ELSE w[k - Len(u)]
    <3>1. u \in Seq(Q) /\ w \in Seq(Q)
      BY <1>1, <1>2
    <3> QED
      BY <3>1, ConcatProperties
  <2> HIDE DEF d
  <2>2. Len(u) + Len(w) = Len(r) - 1
    BY <1>0, <1>1, <1>2
  <2>3. ASSUME NEW k \in 1 .. Len(r) - 1 PROVE d[k] = IF k < m THEN r[k] ELSE r[k + 1]
    <3>1. CASE k < m
      <4>1. k \in 1 .. m - 1 /\ k <= Len(u)
        BY <1>0, <1>1, <3>1
      <4> QED
        BY <1>1, <2>1, <2>2, <3>1, <4>1
    <3>2. CASE ~(k < m)
      <4>1. k - Len(u) \in 1 .. Len(r) - m /\ ~(k <= Len(u)) /\ m + (k - Len(u)) = k + 1
        BY <1>0, <1>1, <3>2
      <4> QED
        BY <1>2, <2>1, <2>2, <3>2, <4>1
    <3> QED
      BY <3>1, <3>2
  <2> QED
    BY <2>1, <2>2, <2>3
<1> QED
  BY <1>3 DEF u, w

\* record_remove
LEMMA ListDrops ==
  ASSUME NEW r, NEW Q, NEW h, ListIs(r, Q, h), NEW m \in 1 .. Len(r),
         NEW g, \A j \in Q \ {r[m].ptr} : g[j] = h[j],
         NEW d, d \in Seq(LeakRecs), Len(d) = Len(r) - 1,
         \A k \in 1 .. Len(r) - 1 : d[k] = IF k < m THEN r[k] ELSE r[k + 1]
  PROVE  ListIs(d, Q \ {r[m].ptr}, g)
<1> DEFINE p == r[m].ptr
<1>0. /\ r \in Seq(LeakRecs) /\ Len(r) \in Nat
      /\ \A k, l \in 1 .. Len(r) : k # l => r[k].ptr # r[l].ptr
      /\ \A j \in Q : \E k \in 1 .. Len(r) : r[k].ptr = j
      /\ \A k \in 1 .. Len(r) : r[k].ptr \in Q /\ r[k].size = h[r[k].ptr]
  BY DEF ListIs
<1>3. /\ d \in Seq(LeakRecs) /\ Len(d) = Len(r) - 1
      /\ \A k \in 1 .. Len(r) - 1 : d[k] = IF k < m THEN r[k] ELSE r[k + 1]
  OBVIOUS
\* The place in r of the k-th record that stays.
<1> DEFINE at == [k \in 1 .. Len(d) |-> IF k < m THEN k ELSE k + 1]
<1>b. \A k \in 1 .. Len(d) : at[k] = IF k < m THEN k ELSE k + 1
  OBVIOUS
<1> HIDE DEF at
<1>4. ASSUME NEW k \in 1 .. Len(d)
      PROVE  at[k] \in 1 .. Len(r) /\ at[k] # m /\ d[k] = r[at[k]]
  <2>1. k \in 1 .. Len(r) - 1 /\ d[k] = IF k < m THEN r[k] ELSE r[k + 1]
    BY <1>3
  <2>2. CASE k < m
    BY <1>0, <1>b, <2>1, <2>2
  <2>3. CASE ~(k < m)
    <3>1. at[k] = k + 1 /\ d[k] = r[k + 1] /\ k + 1 \in 1 .. Len(r) /\ k + 1 # m
      BY <1>0, <1>b, <2>1, <2>3
    <3> QED
      BY <3>1
  <2> QED
    BY <2>2, <2>3
<1>5. \A k, l \in 1 .. Len(d) : k # l => at[k] # at[l]
  BY <1>0, <1>3, <1>b
<1>6. \A l \in 1 .. Len(r) : l # m => \E k \in 1 .. Len(d) : at[k] = l
  <2> TAKE l \in 1 .. Len(r)
  <2>1. CASE l < m
    <3>1. l \in 1 .. Len(d) /\ at[l] = l
      BY <1>0, <1>3, <1>b, <2>1
    <3> QED
      BY <3>1
  <2>2. CASE l > m
    <3>1. l - 1 \in 1 .. Len(d) /\ at[l - 1] = l
      BY <1>0, <1>3, <1>b, <2>2
    <3> QED
      BY <3>1
  <2> QED
    BY <1>0, <2>1, <2>2
<1>7. \A k, l \in 1 .. Len(d) : k # l => d[k].ptr # d[l].ptr
  <2> TAKE k, l \in 1 .. Len(d)
  <2>1. /\ at[k] \in 1 .. Len(r) /\ d[k] = r[at[k]]
        /\ at[l] \in 1 .. Len(r) /\ d[l] = r[at[l]]
    BY <1>4
  <2>2. k # l => at[k] # at[l]
    BY <1>5
  <2> QED
    BY <1>0, <2>1, <2>2
<1>8. \A j \in Q \ {p} : \E k \in 1 .. Len(d) : d[k].ptr = j
  <2> TAKE j \in Q \ {p}
  <2>1. PICK l \in 1 .. Len(r) : r[l].ptr = j
    BY <1>0
  <2>2. PICK k \in 1 .. Len(d) : at[k] = l
    BY <1>6, <2>1
  <2> QED
    BY <1>4, <2>1, <2>2
<1>9. \A k \in 1 .. Len(d) : d[k].ptr \in Q \ {p} /\ d[k].size = g[d[k].ptr]
  <2> TAKE k \in 1 .. Len(d)
  <2>1. at[k] \in 1 .. Len(r) /\ at[k] # m /\ d[k] = r[at[k]]
    BY <1>4
  <2>2. r[at[k]].ptr # p /\ r[at[k]].ptr \in Q
    BY <1>0, <2>1
  <2>3. r[at[k]].size = h[r[at[k]].ptr]
    BY <1>0, <2>1
  <2>4. r[at[k]].ptr \in Q \ {r[m].ptr}
    BY <2>2
  <2>5. g[r[at[k]].ptr] = h[r[at[k]].ptr]
    BY <2>4
  <2> QED
    BY <2>1, <2>3, <2>4, <2>5
<1>10. ListIs(d, Q \ {p}, g)
  BY <1>3, <1>7, <1>8, <1>9 DEF ListIs
<1> QED
  BY <1>10

LEMMA ListStays ==
  ASSUME NEW r, NEW Q, NEW h, ListIs(r, Q, h), NEW g, \A j \in Q : g[j] = h[j]
  PROVE  ListIs(r, Q, g)
BY DEF ListIs

\* The block of a record is recorded nowhere else.
LEMMA OneRecord ==
  ASSUME NEW Q, ListIs(records, Q, heap), NEW i
  PROVE  /\ L!RecordsOf(i) # {} <=> i \in Q
         /\ i \in Q => /\ L!First(L!RecordsOf(i)) \in 1 .. Len(records)
                       /\ records[L!First(L!RecordsOf(i))].ptr = i
                       /\ L!RecordsOf(i) = {L!First(L!RecordsOf(i))}
<1>0. /\ records \in Seq(LeakRecs) /\ DOMAIN records = 1 .. Len(records)
      /\ \A k, l \in 1 .. Len(records) : k # l => records[k].ptr # records[l].ptr
      /\ \A j \in Q : \E k \in 1 .. Len(records) : records[k].ptr = j
      /\ \A k \in 1 .. Len(records) : records[k].ptr \in Q
  BY DEF ListIs
<1>1. L!RecordsOf(i) # {} <=> i \in Q
  BY <1>0 DEF L!RecordsOf
<1>2. ASSUME i \in Q
      PROVE  /\ L!First(L!RecordsOf(i)) \in 1 .. Len(records)
             /\ records[L!First(L!RecordsOf(i))].ptr = i
             /\ L!RecordsOf(i) = {L!First(L!RecordsOf(i))}
  <2>1. PICK k \in 1 .. Len(records) : records[k].ptr = i
    BY <1>0, <1>2
  <2>2. L!RecordsOf(i) = {k}
    BY <1>0, <2>1 DEF L!RecordsOf
  <2>3. L!First({k}) = k
    <3>1. k <= k
      OBVIOUS
    <3>2. \A l \in {k} : l = k /\ \A m \in {k} : l <= m
      BY <3>1
    <3>3. L!First({k}) = CHOOSE l \in {k} : \A m \in {k} : l <= m
      BY DEF L!First
    <3> QED
      BY <3>2, <3>3
  <2> QED
    BY <2>1, <2>2, <2>3
<1> QED
  BY <1>1, <1>2

LeakInv == /\ L!TypeOK
           /\ up => /\ ListIs(records, L!InUse \ untracked, heap)
                    /\ allocs - frees = Len(records)

LEMMA LeakInit == L!Init => LeakInv
<1> SUFFICES ASSUME L!Init PROVE LeakInv
  OBVIOUS
<1>1. DOMAIN heap = {}
  BY DEF L!Init, L!Nothing
<1>2. MaxAllocs \in Nat
  BY AllocatorsAssumption
<1> QED
  <2>1. up = FALSE /\ records = <<>> /\ allocs = 0 /\ frees = 0 /\ untracked = {}
    BY DEF L!Init
  <2>2. records \in Seq([ptr : Addrs, size : Nat])
    BY <2>1
  <2>3. allocs \in 0 .. MaxAllocs /\ frees \in 0 .. allocs
    BY <1>2, <2>1
  <2>4. up \in BOOLEAN /\ ~up /\ (DOMAIN heap) \subseteq Addrs /\ untracked \subseteq DOMAIN heap
    BY <1>1, <2>1
  <2> QED
    BY <2>2, <2>3, <2>4 DEF LeakInv, L!TypeOK, L!InUse

\* The new type invariant, from its parts.
LEMMA LeakMakes ==
  ASSUME up' \in BOOLEAN, records' \in Seq(LeakRecs),
         allocs' \in 0 .. MaxAllocs, frees' \in 0 .. allocs',
         (DOMAIN heap') \subseteq Addrs, untracked' \subseteq DOMAIN heap',
         up' => /\ ListIs(records', (DOMAIN heap') \ untracked', heap')
                /\ allocs' - frees' = Len(records')
  PROVE  LeakInv'
BY DEF LeakInv, L!TypeOK, L!InUse, ListIs, LeakRecs

LEMMA LeakFacts ==
  ASSUME LeakInv
  PROVE  /\ up \in BOOLEAN /\ records \in Seq(LeakRecs) /\ Len(records) \in Nat
         /\ allocs \in Nat /\ allocs <= MaxAllocs /\ MaxAllocs \in Nat
         /\ frees \in Nat /\ frees <= allocs
         /\ (DOMAIN heap) \subseteq Addrs /\ untracked \subseteq DOMAIN heap
         /\ up => ListIs(records, (DOMAIN heap) \ untracked, heap) /\ allocs - frees = Len(records)
BY AllocatorsAssumption DEF LeakInv, L!TypeOK, L!InUse, LeakRecs

\* record_add puts a record before the others.
LEMMA Recorded ==
  ASSUME NEW Q, ListIs(records, Q, heap), NEW i \in Addrs, NEW s \in Nat, i \notin Q,
         heap'[i] = s, \A j \in Q : heap'[j] = heap[j],
         records' = <<[ptr |-> i, size |-> s]>> \o records
  PROVE  ListIs(records', Q \cup {i}, heap') /\ Len(records') = Len(records) + 1
<1> DEFINE e == [ptr |-> i, size |-> s]
<1>1. e \in LeakRecs /\ e.ptr = i /\ e.size = s
  BY DEF LeakRecs
<1>2. records' = <<e>> \o records
  OBVIOUS
<1> HIDE DEF e
<1>3. records \in Seq(LeakRecs)
  BY DEF ListIs
<1>4. /\ records' \in Seq(LeakRecs) /\ Len(records') = Len(records) + 1 /\ records'[1] = e
      /\ \A k \in 1 .. Len(records) : records'[k + 1] = records[k]
  BY <1>1, <1>2, <1>3, SequenceGrows
<1>5. ListIs(records, Q, heap) /\ i \notin Q /\ \A j \in Q : heap'[j] = heap[j]
  OBVIOUS
<1>6. records'[1].ptr = i /\ records'[1].size = heap'[i]
  BY <1>1, <1>4
<1>7. Grown(records, Q, heap, i, records', heap')
  BY <1>4, <1>5, <1>6 DEF Grown
<1>8. ListIs(records', Q \cup {i}, heap')
  BY <1>7, ListGrows
<1> QED
  BY <1>4, <1>8

\* leak_detect_malloc, leak_detect_calloc and realloc(NULL, ...)
LEMMA LeakAllocated ==
  ASSUME LeakInv, NEW i \in Addrs, NEW s \in Nat, L!Alloc(i, s)
  PROVE  LeakInv'
<1> DEFINE Q == (DOMAIN heap) \ untracked
<1>0. /\ records \in Seq(LeakRecs) /\ Len(records) \in Nat
      /\ allocs \in Nat /\ allocs <= MaxAllocs /\ MaxAllocs \in Nat
      /\ frees \in Nat /\ frees <= allocs
      /\ (DOMAIN heap) \subseteq Addrs /\ untracked \subseteq DOMAIN heap
      /\ up = TRUE /\ ListIs(records, Q, heap) /\ allocs - frees = Len(records)
  BY LeakFacts DEF L!Alloc
<1>1. /\ i \notin DOMAIN heap /\ up' = up /\ frees' = frees
      /\ heap' = [j \in (DOMAIN heap) \cup {i} |-> IF j = i THEN s ELSE heap[j]]
  BY DEF L!Alloc, L!InUse, L!With
<1>2. /\ DOMAIN heap' = (DOMAIN heap) \cup {i} /\ heap'[i] = s
      /\ \A j \in Q : heap'[j] = heap[j]
      /\ i \notin Q /\ i \notin untracked
  BY <1>0, <1>1
<1>3. CASE /\ allocs < MaxAllocs /\ records' = <<[ptr |-> i, size |-> s]>> \o records
           /\ allocs' = allocs + 1 /\ untracked' = untracked
  <2>1. ListIs(records', Q \cup {i}, heap') /\ Len(records') = Len(records) + 1
    BY <1>0, <1>2, <1>3, Recorded
  <2>2. (DOMAIN heap') \ untracked' = Q \cup {i}
    BY <1>2, <1>3
  <2>3. ListIs(records', (DOMAIN heap') \ untracked', heap') /\ records' \in Seq(LeakRecs)
    BY <2>1, <2>2 DEF ListIs
  <2>4. /\ allocs' \in 0 .. MaxAllocs /\ frees' \in 0 .. allocs' /\ allocs' - frees' = Len(records')
    BY <1>0, <1>1, <1>3, <2>1
  <2>5. (DOMAIN heap') \subseteq Addrs /\ untracked' \subseteq DOMAIN heap' /\ up' \in BOOLEAN
    BY <1>0, <1>1, <1>2, <1>3
  <2> QED
    BY <2>3, <2>4, <2>5, LeakMakes
<1>4. CASE untracked' = untracked \cup {i} /\ records' = records /\ allocs' = allocs
  <2>1. ListIs(records', Q, heap')
    BY <1>0, <1>2, <1>4, ListStays
  <2>2. (DOMAIN heap') \ untracked' = Q
    BY <1>2, <1>4
  <2>3. ListIs(records', (DOMAIN heap') \ untracked', heap') /\ records' \in Seq(LeakRecs)
    BY <1>0, <1>4, <2>1, <2>2
  <2>4. /\ allocs' \in 0 .. MaxAllocs /\ frees' \in 0 .. allocs' /\ allocs' - frees' = Len(records')
    BY <1>0, <1>1, <1>4
  <2>5. (DOMAIN heap') \subseteq Addrs /\ untracked' \subseteq DOMAIN heap' /\ up' \in BOOLEAN
    BY <1>0, <1>1, <1>2, <1>4
  <2> QED
    BY <2>3, <2>4, <2>5, LeakMakes
<1> QED
  BY <1>3, <1>4 DEF L!Alloc, L!RecordAdd

\* leak_detect_realloc, in place or not, of a block that is recorded or not
LEMMA LeakMoved ==
  ASSUME LeakInv, NEW p \in Addrs, NEW i \in Addrs, NEW s \in Nat, L!ReallocOk(p, i, s)
  PROVE  LeakInv'
<1> DEFINE Q == (DOMAIN heap) \ untracked
<1>0. /\ records \in Seq(LeakRecs) /\ Len(records) \in Nat
      /\ allocs \in Nat /\ allocs <= MaxAllocs /\ MaxAllocs \in Nat
      /\ frees \in Nat /\ frees <= allocs
      /\ (DOMAIN heap) \subseteq Addrs /\ untracked \subseteq DOMAIN heap
      /\ up = TRUE /\ ListIs(records, Q, heap) /\ allocs - frees = Len(records)
  BY LeakFacts DEF L!ReallocOk
<1>1. /\ p \in DOMAIN heap /\ (i = p \/ i \notin DOMAIN heap) /\ up' = up /\ frees' = frees
      /\ heap' = [j \in ((DOMAIN heap) \ {p}) \cup {i} |-> IF j = i THEN s ELSE heap[j]]
  BY DEF L!ReallocOk, L!InUse
<1>2. /\ DOMAIN heap' = ((DOMAIN heap) \ {p}) \cup {i} /\ heap'[i] = s
      /\ \A j \in Q \ {p} : heap'[j] = heap[j]
      /\ (DOMAIN heap') \subseteq Addrs /\ up' \in BOOLEAN
  BY <1>0, <1>1
<1>a. /\ L!RecordsOf(p) # {} <=> p \in Q
      /\ p \in Q => /\ L!First(L!RecordsOf(p)) \in 1 .. Len(records)
                    /\ records[L!First(L!RecordsOf(p))].ptr = p
  BY <1>0, OneRecord
<1>3. CASE /\ p \in Q /\ records' = L!ReallocRecord(L!First(L!RecordsOf(p)), i, s)
           /\ allocs' = allocs /\ untracked' = untracked
  <2> DEFINE m == L!First(L!RecordsOf(p))
  <2>0. m \in 1 .. Len(records) /\ records[m].ptr = p
    BY <1>a, <1>3
  <2>1. records' = [records EXCEPT ![m] = [ptr |-> i, size |-> s]]
    BY <1>3 DEF L!ReallocRecord
  <2> HIDE DEF m
  <2>2. i = records[m].ptr \/ i \notin Q
    BY <1>1, <2>0
  <2>3. ListIs(records', (Q \ {p}) \cup {i}, heap') /\ Len(records') = Len(records)
    <3>1. /\ ListIs(records, Q, heap) /\ heap'[i] = s
          /\ \A j \in Q \ {records[m].ptr} : heap'[j] = heap[j]
      BY <1>0, <1>2, <2>0
    <3>2. [ptr |-> i, size |-> s] \in LeakRecs
      BY DEF LeakRecs
    <3>3. /\ records' \in Seq(LeakRecs) /\ Len(records') = Len(records)
          /\ records'[m].ptr = i /\ records'[m].size = heap'[i]
          /\ \A k \in 1 .. Len(records) : k # m => records'[k] = records[k]
      BY <1>0, <2>0, <2>1, <3>1, <3>2
    <3> HIDE DEF Q
    <3>4. ListIs(records', (Q \ {records[m].ptr}) \cup {i}, heap')
      <4>1. Relocated(records, Q, heap, m, i, records', heap')
        BY <2>0, <2>2, <3>1, <3>3 DEF Relocated
      <4> QED
        BY <4>1, ListMoves
    <3> QED
      BY <2>0, <3>3, <3>4
  <2>4. (DOMAIN heap') \ untracked' = (Q \ {p}) \cup {i}
    BY <1>0, <1>1, <1>2, <1>3
  <2>5. ListIs(records', (DOMAIN heap') \ untracked', heap') /\ records' \in Seq(LeakRecs)
    BY <2>3, <2>4 DEF ListIs
  <2>6. /\ allocs' \in 0 .. MaxAllocs /\ frees' \in 0 .. allocs' /\ allocs' - frees' = Len(records')
    BY <1>0, <1>1, <1>3, <2>3
  <2>7. untracked' \subseteq DOMAIN heap'
    BY <1>0, <1>2, <1>3
  <2> QED
    BY <1>2, <2>5, <2>6, <2>7, LeakMakes
<1>b. ASSUME p \notin Q PROVE p \in untracked /\ Q \ {p} = Q /\ i \notin Q
  BY <1>0, <1>1, <1>b
<1>4. CASE /\ p \notin Q /\ allocs < MaxAllocs
           /\ records' = <<[ptr |-> i, size |-> s]>> \o records
           /\ allocs' = allocs + 1 /\ untracked' = untracked \ {p}
  <2>1. ListIs(records', Q \cup {i}, heap') /\ Len(records') = Len(records) + 1
    BY <1>0, <1>2, <1>4, <1>b, Recorded
  <2>2. (DOMAIN heap') \ untracked' = Q \cup {i}
    BY <1>0, <1>1, <1>2, <1>4, <1>b
  <2>3. ListIs(records', (DOMAIN heap') \ untracked', heap') /\ records' \in Seq(LeakRecs)
    BY <2>1, <2>2 DEF ListIs
  <2>4. /\ allocs' \in 0 .. MaxAllocs /\ frees' \in 0 .. allocs' /\ allocs' - frees' = Len(records')
    BY <1>0, <1>1, <1>4, <2>1
  <2>5. untracked' \subseteq DOMAIN heap'
    BY <1>0, <1>2, <1>4
  <2> QED
    BY <1>2, <2>3, <2>4, <2>5, LeakMakes
<1>5. CASE /\ p \notin Q /\ untracked' = (untracked \ {p}) \cup {i}
           /\ records' = records /\ allocs' = allocs
  <2>1. ListIs(records', Q, heap')
    BY <1>0, <1>2, <1>5, <1>b, ListStays
  <2>2. (DOMAIN heap') \ untracked' = Q
    BY <1>0, <1>1, <1>2, <1>5, <1>b
  <2>3. ListIs(records', (DOMAIN heap') \ untracked', heap') /\ records' \in Seq(LeakRecs)
    BY <1>0, <1>5, <2>1, <2>2
  <2>4. /\ allocs' \in 0 .. MaxAllocs /\ frees' \in 0 .. allocs' /\ allocs' - frees' = Len(records')
    BY <1>0, <1>1, <1>5
  <2>5. untracked' \subseteq DOMAIN heap'
    BY <1>0, <1>2, <1>5
  <2> QED
    BY <1>2, <2>3, <2>4, <2>5, LeakMakes
<1>6. CASE p \in Q
  BY <1>3, <1>6, <1>a DEF L!ReallocOk
<1>7. CASE p \notin Q
  BY <1>4, <1>5, <1>7, <1>a DEF L!ReallocOk
<1> QED
  BY <1>6, <1>7

\* leak_detect_free
LEMMA LeakFreed ==
  ASSUME LeakInv, NEW p \in Addrs, L!LeakDetectFree(p)
  PROVE  LeakInv'
<1> DEFINE Q == (DOMAIN heap) \ untracked
<1>0. /\ records \in Seq(LeakRecs) /\ Len(records) \in Nat
      /\ allocs \in Nat /\ allocs <= MaxAllocs /\ MaxAllocs \in Nat
      /\ frees \in Nat /\ frees <= allocs
      /\ (DOMAIN heap) \subseteq Addrs /\ untracked \subseteq DOMAIN heap
      /\ up = TRUE /\ ListIs(records, Q, heap) /\ allocs - frees = Len(records)
  BY LeakFacts DEF L!LeakDetectFree
<1>1. /\ p \in DOMAIN heap /\ up' = up /\ allocs' = allocs /\ untracked' = untracked \ {p}
      /\ heap' = [j \in (DOMAIN heap) \ {p} |-> heap[j]]
  BY DEF L!LeakDetectFree, L!InUse, L!Without
<1>2. /\ DOMAIN heap' = (DOMAIN heap) \ {p} /\ \A j \in Q \ {p} : heap'[j] = heap[j]
      /\ (DOMAIN heap') \subseteq Addrs /\ up' \in BOOLEAN /\ untracked' \subseteq DOMAIN heap'
      /\ (DOMAIN heap') \ untracked' = Q \ {p}
  BY <1>0, <1>1
<1>a. /\ L!RecordsOf(p) # {} <=> p \in Q
      /\ p \in Q => /\ L!First(L!RecordsOf(p)) \in 1 .. Len(records)
                    /\ records[L!First(L!RecordsOf(p))].ptr = p
  BY <1>0, OneRecord
<1>3. CASE p \in Q
  <2> DEFINE m == L!First(L!RecordsOf(p))
             d == SubSeq(records, 1, m - 1) \o SubSeq(records, m + 1, Len(records))
  <2>0. m \in 1 .. Len(records) /\ records[m].ptr = p
    BY <1>a, <1>3
  <2>1. records' = d /\ frees' = frees + 1
    BY <1>3, <1>a DEF L!LeakDetectFree, L!DropAt
  <2> HIDE DEF m
  <2>2. /\ d \in Seq(LeakRecs) /\ Len(d) = Len(records) - 1
        /\ \A k \in 1 .. Len(records) - 1 : d[k] = IF k < m THEN records[k] ELSE records[k + 1]
    BY <1>0, <2>0, SequenceDrops
  <2> HIDE DEF d
  <2>3. ListIs(d, Q \ {p}, heap')
    BY <1>0, <1>2, <2>0, <2>2, ListDrops
  <2>4. /\ allocs' \in 0 .. MaxAllocs /\ frees' \in 0 .. allocs' /\ allocs' - frees' = Len(records')
    BY <1>0, <1>1, <2>0, <2>1, <2>2
  <2> QED
    BY <1>2, <2>1, <2>2, <2>3, <2>4, LeakMakes
<1>4. CASE p \notin Q
  <2>1. records' = records /\ frees' = frees /\ Q \ {p} = Q
    BY <1>4, <1>a DEF L!LeakDetectFree
  <2>2. ListIs(records', Q \ {p}, heap')
    BY <1>0, <1>2, <2>1, ListStays
  <2>3. /\ allocs' \in 0 .. MaxAllocs /\ frees' \in 0 .. allocs' /\ allocs' - frees' = Len(records')
    BY <1>0, <1>1, <2>1
  <2> QED
    BY <1>0, <1>2, <2>1, <2>2, <2>3, LeakMakes
<1> QED
  BY <1>3, <1>4

LEMMA LeakNext == LeakInv /\ [L!Next]_(L!vars) => LeakInv'
<1> SUFFICES ASSUME LeakInv, [L!Next]_(L!vars) PROVE LeakInv'
  OBVIOUS
<1>0. /\ up \in BOOLEAN /\ records \in Seq(LeakRecs)
      /\ allocs \in 0 .. MaxAllocs /\ frees \in 0 .. allocs /\ MaxAllocs \in Nat
      /\ (DOMAIN heap) \subseteq Addrs /\ untracked \subseteq DOMAIN heap
  BY LeakFacts
<1>1. CASE L!LeakDetectInit
  <2>1. /\ up' = TRUE /\ records' = <<>> /\ allocs' = 0 /\ frees' = 0
        /\ untracked' = DOMAIN heap /\ heap' = heap
    BY <1>1 DEF L!LeakDetectInit, L!InUse
  <2>2. ListIs(<<>>, {}, heap')
    BY DEF ListIs
  <2>3. (DOMAIN heap') \ untracked' = {}
    BY <2>1
  <2>4. /\ up' \in BOOLEAN /\ records' \in Seq(LeakRecs)
        /\ allocs' \in 0 .. MaxAllocs /\ frees' \in 0 .. allocs'
        /\ (DOMAIN heap') \subseteq Addrs /\ untracked' \subseteq DOMAIN heap'
    BY <1>0, <2>1
  <2>5. ListIs(records', (DOMAIN heap') \ untracked', heap') /\ allocs' - frees' = Len(records')
    <3>1. ListIs(records', (DOMAIN heap') \ untracked', heap')
      BY <2>1, <2>2, <2>3
    <3>2. Len(records') = 0 /\ allocs' = 0 /\ frees' = 0
      BY <2>1
    <3> QED
      BY <3>1, <3>2
  <2> QED
    BY <2>4, <2>5, LeakMakes
<1>2. CASE L!LeakDetectShutdown
  <2>1. /\ up' = FALSE /\ records' = <<>> /\ allocs' = allocs /\ frees' = frees
        /\ untracked' = untracked /\ heap' = heap
    BY <1>2 DEF L!LeakDetectShutdown
  <2> QED
    <3>1. allocs' \in 0 .. MaxAllocs /\ frees' \in 0 .. allocs'
      BY <1>0, <2>1
    <3>2. (DOMAIN heap') \subseteq Addrs /\ untracked' \subseteq DOMAIN heap'
      BY <1>0, <2>1
    <3>3. up' \in BOOLEAN /\ ~up'
      BY <2>1
    <3>4. records' \in Seq(LeakRecs)
      BY <2>1
    <3> QED
      BY <3>1, <3>2, <3>3, <3>4, LeakMakes
<1>3. CASE UNCHANGED L!vars
  BY <1>3 DEF L!vars, LeakInv, L!TypeOK, L!InUse, ListIs, LeakRecs
<1>4. ASSUME NEW i \in Addrs, NEW s \in Sizes, L!Alloc(i, s)
      PROVE  LeakInv'
  <2>1. s \in Nat
    BY AllocatorsAssumption
  <2> QED
    BY <1>4, <2>1, LeakAllocated
<1>5. ASSUME NEW i \in Addrs, NEW s \in ReallocSizes, L!ReallocNull(i, s)
      PROVE  LeakInv'
  <2>1. s \in Nat
    BY AllocatorsAssumption
  <2> QED
    BY <1>5, <2>1, LeakAllocated DEF L!ReallocNull
<1>6. ASSUME NEW i \in Addrs, NEW s \in ReallocSizes, NEW p \in Addrs, L!ReallocOk(p, i, s)
      PROVE  LeakInv'
  <2>1. s \in Nat
    BY AllocatorsAssumption
  <2> QED
    BY <1>6, <2>1, LeakMoved
<1> QED
  BY <1>1, <1>2, <1>3, <1>4, <1>5, <1>6, LeakFreed DEF L!Next

LEMMA LeakIsExact == LeakInv => L!ReportIsExact
<1> SUFFICES ASSUME LeakInv, up
             PROVE  /\ L!LeakDetectReport = L!Cardinality(L!InUse \ untracked)
                    /\ allocs - frees = Len(records)
                    /\ \A i \in L!InUse \ untracked :
                         \E k \in L!RecordsOf(i) : records[k].size = heap[i] /\ L!RecordsOf(i) = {k}
  BY DEF L!ReportIsExact, LeakInv
<1> DEFINE Q == L!InUse \ untracked
<1>1. ListIs(records, Q, heap) /\ allocs - frees = Len(records)
  BY DEF LeakInv
<1>2. L!LeakDetectReport = L!Cardinality(Q)
  BY <1>1, ListCounts, LeakCard DEF L!LeakDetectReport
<1>3. ASSUME NEW i \in Q
      PROVE  \E k \in L!RecordsOf(i) : records[k].size = heap[i] /\ L!RecordsOf(i) = {k}
  <2> DEFINE m == L!First(L!RecordsOf(i))
  <2>1. m \in 1 .. Len(records) /\ records[m].ptr = i /\ L!RecordsOf(i) = {m}
    BY <1>1, OneRecord
  <2> HIDE DEF m
  <2>2. records[m].size = heap[i]
    BY <1>1, <2>1 DEF ListIs
  <2> QED
    BY <2>1, <2>2
<1> QED
  BY <1>1, <1>2, <1>3

(***************************************************************************)
(* arena.c, pool.c, leak_detect.c: for every width of size_t, capacity,    *)
(* alignment of malloc, block size and count, and set of addresses, the    *)
(* arena's blocks are disjoint, inside its buffer and aligned, the pool's  *)
(* free list is the blocks nobody holds, and the detector's list the heap. *)
(***************************************************************************)
THEOREM Allocated == A!Spec /\ P!Spec /\ L!Spec => []AllocatorsAreSound
<1>1. A!Spec => []ArenaInv
  BY ArenaInit, ArenaNext, PTL DEF A!Spec
<1>2. P!Spec => []PoolInv
  BY PoolInit, PoolNext, PTL DEF P!Spec
<1>3. L!Spec => []LeakInv
  BY LeakInit, LeakNext, PTL DEF L!Spec
<1>4. ArenaInv /\ PoolInv /\ LeakInv => AllocatorsAreSound
  BY ArenaIsSound, PoolIsExact, LeakIsExact DEF AllocatorsAreSound
<1> QED
  BY <1>1, <1>2, <1>3, <1>4, PTL

-----------------------------------------------------------------------------
(* The canvas *)

Longest(ax, ay) == IF ay <= ax THEN ax ELSE ay

LEMMA AbsIs ==
  \A u \in Int : /\ C!Abs(u) \in Nat
                 /\ u >= 0 => C!Abs(u) = u
                 /\ u <= 0 => C!Abs(u) = -u
BY DEF C!Abs

LEMMA SignIs ==
  \A u, v \in Int : /\ C!Sign(u, v) \in {1, -1}
                    /\ v - u = C!Sign(u, v) * C!Abs(v - u)
BY DEF C!Abs, C!Sign

LEMMA LongestIs ==
  ASSUME NEW ax \in Nat, NEW ay \in Nat
  PROVE  C!Max({ax, ay}) = Longest(ax, ay)
BY DEF C!Max, Longest

LEMMA Distribute ==
  \A u, v, w \in Int : /\ u * v \in Int /\ u * v = v * u
                       /\ u * (v + w) = u * v + u * w
                       /\ u * (v - w) = u * v - u * w
                       /\ (-u) * v = -(u * v)
BY Z3

\* Bresenham's error, for a line whose longer axis is the first: the place on
\* the longer axis advances in every step and the other one when it is due.
LEMMA Bresenham ==
  ASSUME NEW ax \in Nat, NEW ay \in Nat, ay <= ax,
         NEW i \in 0 .. ax, NEW j \in 0 .. ay, NEW err \in Int,
         err = ax * (j + 1) - ay * (i + 1),
         2 * (ax * j - ay * i) <= ax, -ax <= 2 * (ax * j - ay * i)
  PROVE  /\ 2 * err >= -ay
         /\ i = ax => j = ay
         /\ i < ax =>
              /\ 2 * err <= ax => /\ j < ay
                                  /\ err + ax - ay = ax * (j + 2) - ay * (i + 2)
                                  /\ 2 * (ax * (j + 1) - ay * (i + 1)) <= ax
                                  /\ -ax <= 2 * (ax * (j + 1) - ay * (i + 1))
              /\ 2 * err > ax => /\ err - ay = ax * (j + 1) - ay * (i + 2)
                                 /\ 2 * (ax * j - ay * (i + 1)) <= ax
                                 /\ -ax <= 2 * (ax * j - ay * (i + 1))
<1> DEFINE u == ax * j
           v == ay * i
<1>1. /\ u \in Int /\ v \in Int
      /\ ax * (j + 1) = u + ax /\ ax * (j + 2) = u + 2 * ax
      /\ ay * (i + 1) = v + ay /\ ay * (i + 2) = v + 2 * ay
  BY Z3
<1>2. i = ax => v = ax * ay
  BY Distribute
<1>3. j # ay => j + 1 <= ay
  OBVIOUS
<1>4. j + 1 <= ay => u + ax <= ax * ay
  <2> SUFFICES ASSUME j + 1 <= ay PROVE u + ax <= ax * ay
    OBVIOUS
  <2>1. (j + 1) * ax <= ay * ax
    BY Monotone
  <2>2. (j + 1) * ax = u + ax /\ ay * ax = ax * ay
    BY <1>1, Distribute
  <2> QED
    BY <2>1, <2>2
<1>5. i < ax => v + ay <= ax * ay
  <2> SUFFICES ASSUME i < ax PROVE v + ay <= ax * ay
    OBVIOUS
  <2>1. (i + 1) * ay <= ax * ay
    BY Monotone
  <2>2. (i + 1) * ay = v + ay
    BY <1>1, Distribute
  <2> QED
    BY <2>1, <2>2
<1>6. j = ay => u = ax * ay
  OBVIOUS
<1>7. ax * ay \in Int /\ ax * j = u /\ ay * i = v
  BY Distribute
<1> HIDE DEF u, v
<1>8. err = u + ax - v - ay /\ 2 * (u - v) <= ax /\ -ax <= 2 * (u - v)
  BY <1>1, <1>7
<1>9. 2 * err >= -ay
  BY <1>1, <1>8
<1>10. i = ax => j = ay
  BY <1>1, <1>2, <1>3, <1>4, <1>7, <1>8
<1>11. ASSUME i < ax, 2 * err <= ax
       PROVE  /\ j < ay
              /\ err + ax - ay = ax * (j + 2) - ay * (i + 2)
              /\ 2 * (ax * (j + 1) - ay * (i + 1)) <= ax
              /\ -ax <= 2 * (ax * (j + 1) - ay * (i + 1))
  BY <1>1, <1>3, <1>5, <1>6, <1>7, <1>8, <1>11
<1>12. ASSUME i < ax, 2 * err > ax
       PROVE  /\ err - ay = ax * (j + 1) - ay * (i + 2)
              /\ 2 * (ax * j - ay * (i + 1)) <= ax
              /\ -ax <= 2 * (ax * j - ay * (i + 1))
  BY <1>1, <1>7, <1>8, <1>12
<1>13. 2 * err <= ax \/ 2 * err > ax
  OBVIOUS
<1> QED
  BY <1>9, <1>10, <1>11, <1>12


\* The sides of the rectangle around a line, and the way it runs.
Wide == C!Abs(shape.x1 - shape.x0)
High == C!Abs(shape.y1 - shape.y0)
SignX == C!Sign(shape.x0, shape.x1)
SignY == C!Sign(shape.y0, shape.y1)

\* The place i steps along and j steps down, with the error that belongs to it.
LineAt(i, j) == /\ i \in 0 .. Wide /\ j \in 0 .. High
                /\ px = shape.x0 + SignX * i /\ py = shape.y0 + SignY * j
                /\ perr = Wide * (j + 1) - High * (i + 1)
                /\ 2 * (Wide * j - High * i) <= Longest(Wide, High)
                /\ -Longest(Wide, High) <= 2 * (Wide * j - High * i)

Straight(q) == 2 * C!Abs((shape.x1 - shape.x0) * (q[2] - shape.y0) - (shape.y1 - shape.y0) * (q[1] - shape.x0))
                 <= Longest(Wide, High)

\* How far along the longer axis a point is.
Along(q) == IF High <= Wide THEN SignX * (q[1] - shape.x0) ELSE SignY * (q[2] - shape.y0)

\* Every step along the longer axis has plotted one point.
LinePlotted(m) ==
  /\ IsFiniteSet(plotted) /\ Cardinality(plotted) = m
  /\ \A q \in plotted : Straight(q) /\ Along(q) \in 0 .. m - 1
  /\ m > 0 => <<shape.x0, shape.y0>> \in plotted

LineInv ==
  shape.kind = "line" =>
    IF gpc \in {"create", "draw"}
    THEN /\ \E i, j \in Nat : LineAt(i, j) /\ LinePlotted(IF High <= Wide THEN i ELSE j)
         /\ gpc = "create" => plotted = {}
    ELSE LinePlotted(Longest(Wide, High) + 1) /\ <<shape.x1, shape.y1>> \in plotted

IsLine == /\ shape.x0 \in Int /\ shape.y0 \in Int /\ shape.x1 \in Int /\ shape.y1 \in Int

LEMMA LineTypes ==
  ASSUME IsLine
  PROVE  /\ Wide \in Nat /\ High \in Nat
         /\ SignX \in {1, -1} /\ SignY \in {1, -1}
         /\ shape.x1 = shape.x0 + SignX * Wide /\ shape.y1 = shape.y0 + SignY * High
<1>1. shape.x1 - shape.x0 \in Int /\ shape.y1 - shape.y0 \in Int
  BY DEF IsLine
<1>2. Wide \in Nat /\ High \in Nat
  BY <1>1, AbsIs DEF Wide, High
<1>3. /\ SignX \in {1, -1} /\ shape.x1 - shape.x0 = SignX * Wide
      /\ SignY \in {1, -1} /\ shape.y1 - shape.y0 = SignY * High
  BY SignIs DEF Wide, High, SignX, SignY, IsLine
<1>4. \A u \in Int, s \in {1, -1} : s * u \in Int
  OBVIOUS
<1> QED
  BY <1>2, <1>3, <1>4 DEF IsLine

\* The point under the pen is near the ideal line.
LEMMA PenIsStraight ==
  ASSUME IsLine, NEW i \in Nat, NEW j \in Nat, LineAt(i, j)
  PROVE  /\ Straight(<<px, py>>)
         /\ Along(<<px, py>>) = IF High <= Wide THEN i ELSE j
<1> DEFINE u == Wide * j
           v == High * i
<1>1. /\ Wide \in Nat /\ High \in Nat
      /\ SignX \in {1, -1} /\ SignY \in {1, -1}
      /\ shape.x1 - shape.x0 = SignX * Wide /\ shape.y1 - shape.y0 = SignY * High
  BY LineTypes DEF IsLine
<1>2. px - shape.x0 = SignX * i /\ py - shape.y0 = SignY * j
  BY <1>1 DEF LineAt, IsLine
<1>3. /\ u \in Int /\ v \in Int
      /\ (-Wide) * j = -u /\ Wide * (-j) = -u /\ (-Wide) * (-j) = u
      /\ (-High) * i = -v /\ High * (-i) = -v /\ (-High) * (-i) = v
  BY <1>1, Z3
<1>4. 2 * (u - v) <= Longest(Wide, High) /\ -Longest(Wide, High) <= 2 * (u - v)
  BY DEF LineAt
<1>5. Longest(Wide, High) \in Nat
  BY <1>1 DEF Longest
<1>6. ASSUME NEW s \in {1, -1}, NEW t \in {1, -1}
      PROVE  (s * Wide) * (t * j) - (t * High) * (s * i) \in {u - v, v - u}
  <2>1. CASE s = 1 /\ t = 1
    <3>1. s * Wide = Wide /\ t * j = j /\ t * High = High /\ s * i = i
      BY <1>1, <2>1
    <3> QED
      BY <1>3, <3>1
  <2>2. CASE s = -1 /\ t = 1
    <3>1. s * Wide = -Wide /\ t * j = j /\ t * High = High /\ s * i = -i
      BY <1>1, <2>2
    <3> QED
      BY <1>3, <3>1
  <2>3. CASE s = 1 /\ t = -1
    <3>1. s * Wide = Wide /\ t * j = -j /\ t * High = -High /\ s * i = i
      BY <1>1, <2>3
    <3> QED
      BY <1>3, <3>1
  <2>4. CASE s = -1 /\ t = -1
    <3>1. s * Wide = -Wide /\ t * j = -j /\ t * High = -High /\ s * i = -i
      BY <1>1, <2>4
    <3> QED
      BY <1>3, <3>1
  <2> QED
    BY <2>1, <2>2, <2>3, <2>4
<1> HIDE DEF u, v
<1>7. (shape.x1 - shape.x0) * (py - shape.y0) - (shape.y1 - shape.y0) * (px - shape.x0) \in {u - v, v - u}
  BY <1>1, <1>2, <1>6
<1>8. 2 * C!Abs(u - v) <= Longest(Wide, High) /\ 2 * C!Abs(v - u) <= Longest(Wide, High)
  BY <1>3, <1>4, <1>5 DEF C!Abs
<1>9. Straight(<<px, py>>)
  BY <1>7, <1>8 DEF Straight
<1>10. SignX * (SignX * i) = i /\ SignY * (SignY * j) = j
  BY <1>1
<1>11. Along(<<px, py>>) = IF High <= Wide THEN i ELSE j
  BY <1>2, <1>10 DEF Along
<1> QED
  BY <1>9, <1>11


\* One more point, further along than those before.
LEMMA PlotOne ==
  ASSUME IsLine, NEW i \in Nat, NEW j \in Nat, LineAt(i, j),
         NEW m \in Nat, m = (IF High <= Wide THEN i ELSE j), LinePlotted(m),
         plotted' = plotted \cup {<<px, py>>}, shape' = shape
  PROVE  LinePlotted(m + 1)'
<1>1. /\ Straight(<<px, py>>) /\ Along(<<px, py>>) = m
  BY PenIsStraight
<1>2. <<px, py>> \notin plotted
  BY <1>1 DEF LinePlotted
<1>3. IsFiniteSet(plotted') /\ Cardinality(plotted') = m + 1
  BY <1>2, FS_AddElement DEF LinePlotted
<1>4. \A q \in plotted' : Straight(q)' /\ (Along(q) \in 0 .. m)'
  <2>1. \A q : Straight(q)' = Straight(q) /\ Along(q)' = Along(q)
    BY DEF Straight, Along, Wide, High, SignX, SignY
  <2>2. \A q \in plotted : Straight(q) /\ Along(q) \in 0 .. m - 1
    BY DEF LinePlotted
  <2> QED
    BY <1>1, <2>1, <2>2
<1>5. <<shape.x0, shape.y0>> \in plotted'
  <2>1. CASE m > 0
    BY <2>1 DEF LinePlotted
  <2>2. CASE m = 0
    <3>1. /\ Wide \in Nat /\ High \in Nat /\ Longest(Wide, High) \in Nat
          /\ SignX \in {1, -1} /\ SignY \in {1, -1}
      BY LineTypes DEF Longest
    <3>2. i = 0 /\ j = 0
      <4>1. CASE High <= Wide
        <5>1. i = 0 /\ High * i = 0 /\ 2 * (Wide * j) <= Wide
          BY <2>2, <3>1, <4>1 DEF LineAt, Longest
        <5>2. j >= 1 => Wide * j >= Wide
          BY <3>1, Monotone, Product
        <5>3. Wide * j \in Nat
          BY <3>1, Product
        <5>4. Wide = 0 => j = 0
          BY <3>1, <4>1 DEF LineAt
        <5> QED
          BY <3>1, <5>1, <5>2, <5>3, <5>4
      <4>2. CASE ~(High <= Wide)
        <5>1. j = 0 /\ Wide * j = 0 /\ 2 * (High * i) <= High
          BY <2>2, <3>1, <4>2 DEF LineAt, Longest
        <5>2. i >= 1 => High * i >= High
          BY <3>1, Monotone, Product
        <5>3. High * i \in Nat
          BY <3>1, Product
        <5> QED
          BY <3>1, <4>2, <5>1, <5>2, <5>3
      <4> QED
        BY <4>1, <4>2
    <3>3. px = shape.x0 /\ py = shape.y0
      BY <3>1, <3>2 DEF LineAt, IsLine
    <3> QED
      BY <3>3
  <2> QED
    BY <2>1, <2>2
<1>6. m + 1 - 1 = m /\ (m + 1)' = m + 1
  OBVIOUS
<1> QED
  BY <1>3, <1>4, <1>5, <1>6 DEF LinePlotted


LEMMA LineStepKeeps ==
  ASSUME IsLine, shape.kind = "line", LineInv, C!LineStep
  PROVE  LineInv'
<1>0. gpc = "draw" /\ shape' = shape /\ plotted' = plotted \cup {<<px, py>>}
  BY DEF C!LineStep, C!SetPixels
<1>1. PICK i, j \in Nat : LineAt(i, j) /\ LinePlotted(IF High <= Wide THEN i ELSE j)
  BY <1>0 DEF LineInv
<1>2. /\ Wide \in Nat /\ High \in Nat
      /\ SignX \in {1, -1} /\ SignY \in {1, -1}
      /\ shape.x1 = shape.x0 + SignX * Wide /\ shape.y1 = shape.y0 + SignY * High
  BY LineTypes
<1>3. PICK m \in Nat : m = IF High <= Wide THEN i ELSE j
  OBVIOUS
<1>4. LinePlotted(m + 1)'
  BY <1>0, <1>1, <1>3, PlotOne
<1>5. C!Dx(shape) = Wide /\ C!Dy(shape) = -High
  BY DEF C!Dx, C!Dy, Wide, High
<1>6. /\ i \in 0 .. Wide /\ j \in 0 .. High
      /\ px = shape.x0 + SignX * i /\ py = shape.y0 + SignY * j
      /\ perr = Wide * (j + 1) - High * (i + 1)
  BY <1>1 DEF LineAt
<1>7. /\ px = shape.x1 <=> i = Wide
      /\ py = shape.y1 <=> j = High
  <2>1. SignX * i = SignX * Wide <=> i = Wide
    BY <1>2
  <2>2. SignY * j = SignY * High <=> j = High
    BY <1>2
  <2>3. SignX * i \in Int /\ SignX * Wide \in Int /\ SignY * j \in Int /\ SignY * High \in Int
    BY <1>2
  <2> QED
    BY <1>2, <1>6, <2>1, <2>2, <2>3 DEF IsLine
<1>8. perr \in Int
  <2>1. Wide * (j + 1) \in Int /\ High * (i + 1) \in Int
    BY <1>2, Distribute
  <2> QED
    BY <1>6, <2>1
<1>9. /\ Wide' = Wide /\ High' = High /\ SignX' = SignX /\ SignY' = SignY
      /\ (shape.kind)' = "line"
  BY <1>0 DEF Wide, High, SignX, SignY
<1>10. CASE i = Wide /\ j = High
  <2>1. gpc' = "done" /\ <<shape.x1, shape.y1>> \in plotted'
    BY <1>0, <1>7, <1>10 DEF C!LineStep
  <2>2. m = Longest(Wide, High)
    BY <1>2, <1>3, <1>10 DEF Longest
  <2>3. LinePlotted(Longest(Wide, High) + 1)'
    BY <1>4, <1>9, <2>2 DEF LinePlotted
  <2> QED
    BY <1>0, <2>1, <2>3 DEF LineInv
<1>11. CASE ~(i = Wide /\ j = High)
  <2> DEFINE right == 2 * perr >= -High
             down == 2 * perr <= Wide
  <2>1. /\ gpc' = "draw"
        /\ perr' = perr + (IF right THEN -High ELSE 0) + (IF down THEN Wide ELSE 0)
        /\ px' = IF right THEN px + SignX ELSE px
        /\ py' = IF down THEN py + SignY ELSE py
    BY <1>0, <1>5, <1>7, <1>11 DEF C!LineStep, SignX, SignY
  <2>2. PICK i2 \in Nat, j2 \in Nat :
            /\ i2 = IF right THEN i + 1 ELSE i
            /\ j2 = IF down THEN j + 1 ELSE j
    OBVIOUS
  <2>3. px' = shape.x0 + SignX * i2 /\ py' = shape.y0 + SignY * j2
    <3>1. SignX * (i + 1) = SignX * i + SignX /\ SignY * (j + 1) = SignY * j + SignY
      BY <1>2
    <3>2. SignX * i \in Int /\ SignY * j \in Int
      BY <1>2
    <3> HIDE DEF right, down
    <3>3. px' = shape.x0 + SignX * i2
      <4>1. CASE right
        BY <1>2, <1>6, <2>1, <2>2, <3>1, <3>2, <4>1 DEF IsLine
      <4>2. CASE ~right
        BY <1>6, <2>1, <2>2, <4>2
      <4> QED
        BY <4>1, <4>2
    <3>4. py' = shape.y0 + SignY * j2
      <4>1. CASE down
        BY <1>2, <1>6, <2>1, <2>2, <3>1, <3>2, <4>1 DEF IsLine
      <4>2. CASE ~down
        BY <1>6, <2>1, <2>2, <4>2
      <4> QED
        BY <4>1, <4>2
    <3> QED
      BY <3>3, <3>4
  <2>4. /\ i2 \in 0 .. Wide /\ j2 \in 0 .. High
        /\ perr' = Wide * (j2 + 1) - High * (i2 + 1)
        /\ 2 * (Wide * j2 - High * i2) <= Longest(Wide, High)
        /\ -Longest(Wide, High) <= 2 * (Wide * j2 - High * i2)
        /\ (IF High <= Wide THEN i2 ELSE j2) = m + 1
    <3>1. CASE High <= Wide
      <4>1. 2 * (Wide * j - High * i) <= Wide /\ -Wide <= 2 * (Wide * j - High * i)
        BY <1>1, <3>1 DEF LineAt, Longest
      <4>2. /\ right
            /\ i = Wide => j = High
            /\ i < Wide =>
                /\ down => /\ j < High
                           /\ perr + Wide - High = Wide * (j + 2) - High * (i + 2)
                           /\ 2 * (Wide * (j + 1) - High * (i + 1)) <= Wide
                           /\ -Wide <= 2 * (Wide * (j + 1) - High * (i + 1))
                /\ 2 * perr > Wide =>
                           /\ perr - High = Wide * (j + 1) - High * (i + 2)
                           /\ 2 * (Wide * j - High * (i + 1)) <= Wide
                           /\ -Wide <= 2 * (Wide * j - High * (i + 1))
        BY <1>2, <1>6, <1>8, <3>1, <4>1, Bresenham
      <4>3. i < Wide /\ i2 = i + 1
        BY <1>6, <1>2, <1>11, <2>2, <4>2
      <4>4. Longest(Wide, High) = Wide
        BY <3>1 DEF Longest
      <4>5. CASE down
        <5>1. j2 = j + 1 /\ j < High /\ perr' = perr + -High + Wide
          BY <2>1, <2>2, <4>2, <4>3, <4>5
        <5>2. i2 + 1 = i + 2 /\ j2 + 1 = j + 2 /\ perr + -High + Wide = perr + Wide - High
          BY <1>2, <1>8, <4>3, <5>1
        <5>3. i2 \in 0 .. Wide /\ j2 \in 0 .. High
          BY <1>2, <1>6, <4>3, <5>1
        <5> QED
          BY <1>3, <3>1, <4>2, <4>3, <4>4, <4>5, <5>1, <5>2, <5>3
      <4>6. CASE ~down
        <5>1. j2 = j /\ 2 * perr > Wide /\ perr' = perr + -High + 0
          BY <1>2, <1>8, <2>1, <2>2, <4>2, <4>6
        <5>2. i2 + 1 = i + 2 /\ j2 + 1 = j + 1 /\ perr + -High + 0 = perr - High
          BY <1>2, <1>8, <4>3, <5>1
        <5>3. i2 \in 0 .. Wide /\ j2 \in 0 .. High
          BY <1>2, <1>6, <4>3, <5>1
        <5> QED
          BY <1>3, <3>1, <4>2, <4>3, <4>4, <5>1, <5>2, <5>3
      <4> QED
        BY <4>5, <4>6
    <3>2. CASE ~(High <= Wide)
      <4> DEFINE err == -perr
      <4>0. Wide <= High /\ err \in Int
        BY <1>2, <1>8, <3>2
      <4>9. /\ Wide * j \in Int /\ High * i \in Int
             /\ Wide * (j + 1) \in Int /\ High * (i + 1) \in Int
             /\ Wide * (j + 2) \in Int /\ High * (i + 2) \in Int
        BY <1>2, Distribute
      <4>1. 2 * (High * i - Wide * j) <= High /\ -High <= 2 * (High * i - Wide * j)
        BY <1>1, <1>2, <3>2, <4>9 DEF LineAt, Longest
      <4>2. err = High * (i + 1) - Wide * (j + 1)
        BY <1>6, <4>9
      <4> HIDE DEF err
      <4>3. /\ 2 * err >= -Wide
            /\ j = High => i = Wide
            /\ j < High =>
                /\ 2 * err <= High => /\ i < Wide
                           /\ err + High - Wide = High * (i + 2) - Wide * (j + 2)
                           /\ 2 * (High * (i + 1) - Wide * (j + 1)) <= High
                           /\ -High <= 2 * (High * (i + 1) - Wide * (j + 1))
                /\ 2 * err > High =>
                           /\ err - Wide = High * (i + 1) - Wide * (j + 2)
                           /\ 2 * (High * i - Wide * (j + 1)) <= High
                           /\ -High <= 2 * (High * i - Wide * (j + 1))
        BY <1>2, <1>6, <4>0, <4>1, <4>2, Bresenham
      <4>4. down /\ (right <=> 2 * err <= High)
        BY <1>2, <1>8, <4>3 DEF err
      <4>5. j < High /\ j2 = j + 1
        BY <1>2, <1>6, <1>11, <2>2, <4>3, <4>4
      <4>6. Longest(Wide, High) = High
        BY <3>2 DEF Longest
      <4>7. CASE right
        <5>1. i2 = i + 1 /\ i < Wide /\ perr' = -(err + High - Wide)
          BY <1>2, <1>8, <2>1, <2>2, <4>3, <4>4, <4>5, <4>7 DEF err
        <5>2. i2 + 1 = i + 2 /\ j2 + 1 = j + 2
          BY <4>5, <5>1
        <5>3. i2 \in 0 .. Wide /\ j2 \in 0 .. High
          BY <1>2, <1>6, <4>5, <5>1
        <5>4. perr' = Wide * (j2 + 1) - High * (i2 + 1)
          BY <4>9, <4>3, <4>4, <4>5, <4>7, <5>1, <5>2
        <5>5. /\ 2 * (Wide * j2 - High * i2) <= High
              /\ -High <= 2 * (Wide * j2 - High * i2)
          BY <1>2, <4>9, <4>3, <4>4, <4>5, <4>7, <5>1
        <5> QED
          BY <1>3, <3>2, <4>5, <4>6, <5>3, <5>4, <5>5
      <4>8. CASE ~right
        <5>1. i2 = i /\ 2 * err > High /\ perr' = -(err - Wide)
          BY <1>2, <1>8, <2>1, <2>2, <4>0, <4>3, <4>4, <4>8 DEF err
        <5>2. i2 + 1 = i + 1 /\ j2 + 1 = j + 2
          BY <4>5, <5>1
        <5>3. i2 \in 0 .. Wide /\ j2 \in 0 .. High
          BY <1>2, <1>6, <4>5, <5>1
        <5>4. perr' = Wide * (j2 + 1) - High * (i2 + 1)
          BY <4>9, <4>3, <4>5, <5>1, <5>2
        <5>5. /\ 2 * (Wide * j2 - High * i2) <= High
              /\ -High <= 2 * (Wide * j2 - High * i2)
          BY <1>2, <4>9, <4>3, <4>5, <5>1
        <5> QED
          BY <1>3, <3>2, <4>5, <4>6, <5>3, <5>4, <5>5
      <4> QED
        BY <4>7, <4>8
    <3> QED
      BY <3>1, <3>2
  <2> HIDE DEF right, down
  <2>5. LineAt(i2, j2)'
    BY <1>0, <1>9, <2>3, <2>4 DEF LineAt
  <2>6. LinePlotted(IF High <= Wide THEN i2 ELSE j2)'
    BY <1>4, <1>9, <2>4 DEF LinePlotted
  <2> QED
    BY <2>1, <2>2, <2>5, <2>6 DEF LineInv
<1> QED
  BY <1>10, <1>11


\* The points that are mirrored from the pen, and how far r * r they are.
CircleError == px * px + py * py - shape.r * shape.r

Round(q) == C!Abs(C!Sq(q[1] - shape.x0) + C!Sq(q[2] - shape.y0) - C!Sq(shape.r)) <= shape.r

CircleInv ==
  shape.kind = "circle" =>
    /\ py \in Nat /\ px <= shape.r
    /\ perr = CircleError + 2 * py + 1 - px
    /\ py <= px => -px <= CircleError /\ CircleError <= px
    /\ gpc \in {"create", "draw"} \/ px < py
    /\ \A q \in plotted : Round(q)
    /\ \A u \in 0 .. shape.r : u < py \/ u > px =>
         /\ \E q \in plotted : q[1] = shape.x0 + u
         /\ \E q \in plotted : q[1] = shape.x0 - u

\* The eight points of a turn.
Mirrored == {<<shape.x0 + s * d[1], shape.y0 + t * d[2]>> :
               s \in {1, -1}, t \in {1, -1}, d \in {<<px, py>>, <<py, px>>}}

LEMMA SquareOf ==
  \A s \in {1, -1}, u \in Int : s * u \in Int /\ (s * u) * (s * u) = u * u /\ u * u \in Int
<1> SUFFICES ASSUME NEW s \in {1, -1}, NEW u \in Int
             PROVE  s * u \in Int /\ (s * u) * (s * u) = u * u /\ u * u \in Int
  OBVIOUS
<1>1. s * u = u \/ s * u = -u
  OBVIOUS
<1>2. u * u \in Int /\ (-u) * (-u) = u * u
  BY Z3
<1> QED
  BY <1>1, <1>2

LEMMA MirroredIsRound ==
  ASSUME shape.x0 \in Int, shape.y0 \in Int, shape.r \in Int, px \in Int, py \in Int,
         py <= px, px <= shape.r, -px <= CircleError, CircleError <= px
  PROVE  \A q \in Mirrored : Round(q)
<1>1. /\ px * px \in Int /\ py * py \in Int /\ shape.r * shape.r \in Int
  BY SquareOf
<1>2. CircleError \in Int /\ C!Abs(CircleError) <= shape.r
  BY <1>1 DEF CircleError, C!Abs
<1>3. ASSUME NEW s \in {1, -1}, NEW t \in {1, -1}, NEW d \in {<<px, py>>, <<py, px>>}
      PROVE  Round(<<shape.x0 + s * d[1], shape.y0 + t * d[2]>>)
  <2> DEFINE q == <<shape.x0 + s * d[1], shape.y0 + t * d[2]>>
  <2>1. d[1] \in Int /\ d[2] \in Int /\ d[1] * d[1] + d[2] * d[2] = px * px + py * py
    BY <1>1
  <2>2. /\ s * d[1] \in Int /\ (s * d[1]) * (s * d[1]) = d[1] * d[1]
        /\ t * d[2] \in Int /\ (t * d[2]) * (t * d[2]) = d[2] * d[2]
    BY <2>1, SquareOf
  <2>3. q[1] - shape.x0 = s * d[1] /\ q[2] - shape.y0 = t * d[2]
    BY <2>2
  <2> HIDE DEF q
  <2>4. C!Sq(q[1] - shape.x0) + C!Sq(q[2] - shape.y0) - C!Sq(shape.r) = CircleError
    <3>1. C!Sq(q[1] - shape.x0) = d[1] * d[1] /\ C!Sq(q[2] - shape.y0) = d[2] * d[2]
      BY <2>2, <2>3 DEF C!Sq
    <3>2. C!Sq(shape.r) = shape.r * shape.r
      BY DEF C!Sq
    <3> QED
      BY <2>1, <3>1, <3>2 DEF CircleError
  <2>5. Round(q)
    BY <1>2, <2>4 DEF Round
  <2> QED
    BY <2>5 DEF q
<1> QED
  BY <1>3 DEF Mirrored

\* The midpoint algorithm's error, in a turn.
LEMMA Midpoint ==
  ASSUME NEW u \in Int, NEW v \in Nat, v <= u, NEW rr \in Int, NEW err \in Int,
         NEW e \in Int, e = u * u + v * v - rr, err = e + 2 * v + 1 - u, -u <= e, e <= u
  PROVE  /\ err <= 0 =>
              LET f == u * u + (v + 1) * (v + 1) - rr
              IN /\ err + 2 * (v + 1) + 1 = f + 2 * (v + 1) + 1 - u
                 /\ v + 1 <= u => -u <= f /\ f <= u
         /\ err > 0 =>
              LET f == (u - 1) * (u - 1) + (v + 1) * (v + 1) - rr
              IN /\ err + 2 * ((v + 1) - (u - 1)) + 1 = f + 2 * (v + 1) + 1 - (u - 1)
                 /\ v + 1 <= u - 1 => -(u - 1) <= f /\ f <= u - 1
<1>1. /\ u * u \in Int /\ v * v \in Int
      /\ (v + 1) * (v + 1) = v * v + 2 * v + 1
      /\ (u - 1) * (u - 1) = u * u - 2 * u + 1
  BY Z3
<1> QED
  BY <1>1


LEMMA CircleStepKeeps ==
  ASSUME shape.x0 \in Int, shape.y0 \in Int, shape.r \in Int, px \in Int,
         shape.kind = "circle", CircleInv, C!CircleStep
  PROVE  CircleInv' /\ px' \in Int
<1>0. gpc = "draw" /\ shape' = shape
  BY DEF C!CircleStep
<1>1. /\ py \in Nat /\ px <= shape.r
      /\ perr = CircleError + 2 * py + 1 - px
      /\ py <= px => -px <= CircleError /\ CircleError <= px
      /\ \A q \in plotted : Round(q)
      /\ \A u \in 0 .. shape.r : u < py \/ u > px =>
           /\ \E q \in plotted : q[1] = shape.x0 + u
           /\ \E q \in plotted : q[1] = shape.x0 - u
  BY DEF CircleInv
<1>2. \A q : Round(q)' = Round(q)
  BY <1>0 DEF Round
<1>3. CASE px < py
  <2>1. gpc' = "done" /\ px' = px /\ py' = py /\ perr' = perr /\ plotted' = plotted
    BY <1>3 DEF C!CircleStep
  <2>2. CircleError' = CircleError
    BY <1>0, <2>1 DEF CircleError
  <2> QED
    BY <1>0, <1>1, <1>2, <1>3, <2>1, <2>2 DEF CircleInv
<1>4. CASE ~(px < py)
  <2>1. /\ plotted' = plotted \cup Mirrored /\ py' = py + 1 /\ gpc' = "draw"
        /\ \/ perr <= 0 /\ px' = px /\ perr' = perr + 2 * (py + 1) + 1
           \/ perr > 0 /\ px' = px - 1 /\ perr' = perr + 2 * ((py + 1) - (px - 1)) + 1
    <3>1. plotted' = plotted \cup Mirrored /\ py' = py + 1 /\ gpc' = "draw"
      BY <1>0, <1>4 DEF C!CircleStep, C!SetPixels, Mirrored
    <3>2. IF perr <= 0 THEN px' = px /\ perr' = perr + 2 * py' + 1
                       ELSE px' = px - 1 /\ perr' = perr + 2 * (py' - px') + 1
      BY <1>4 DEF C!CircleStep
    <3>3. perr \in Int
      BY <1>1, SquareOf DEF CircleError
    <3> QED
      BY <3>1, <3>2, <3>3
  <2>2. py <= px /\ -px <= CircleError /\ CircleError <= px
    BY <1>1, <1>4
  <2>3. \A q \in plotted' : Round(q)'
    BY <1>1, <1>2, <2>1, <2>2, MirroredIsRound
  <2>4. /\ px * px \in Int /\ py * py \in Int /\ shape.r * shape.r \in Int
        /\ CircleError \in Int /\ perr \in Int
    BY <1>1, SquareOf DEF CircleError
  <2>5. /\ perr <= 0 =>
             LET f == px * px + (py + 1) * (py + 1) - shape.r * shape.r
             IN /\ perr + 2 * (py + 1) + 1 = f + 2 * (py + 1) + 1 - px
                /\ py + 1 <= px => -px <= f /\ f <= px
        /\ perr > 0 =>
             LET f == (px - 1) * (px - 1) + (py + 1) * (py + 1) - shape.r * shape.r
             IN /\ perr + 2 * ((py + 1) - (px - 1)) + 1 = f + 2 * (py + 1) + 1 - (px - 1)
                /\ py + 1 <= px - 1 => -(px - 1) <= f /\ f <= px - 1
    <3>1. CircleError = px * px + py * py - shape.r * shape.r
      BY DEF CircleError
    <3>2. /\ px \in Int /\ py \in Nat /\ py <= px /\ shape.r * shape.r \in Int /\ perr \in Int
          /\ CircleError \in Int /\ perr = CircleError + 2 * py + 1 - px
          /\ -px <= CircleError /\ CircleError <= px
      BY <1>1, <2>2, <2>4
    <3> QED
      BY <3>1, <3>2, Midpoint
  <2>6. CircleError' = px' * px' + py' * py' - shape.r * shape.r
    BY <1>0 DEF CircleError
  <2>7. /\ perr' = CircleError' + 2 * py' + 1 - px'
        /\ py' <= px' => -px' <= CircleError' /\ CircleError' <= px'
    <3>1. CASE perr <= 0 /\ px' = px /\ perr' = perr + 2 * (py + 1) + 1
      BY <2>1, <2>5, <2>6, <3>1
    <3>2. CASE perr > 0 /\ px' = px - 1 /\ perr' = perr + 2 * ((py + 1) - (px - 1)) + 1
      BY <2>1, <2>5, <2>6, <3>2
    <3> QED
      BY <2>1, <3>1, <3>2
  <2>8. py' \in Nat /\ px' \in Int /\ px' <= shape.r /\ px' >= px - 1
    BY <1>1, <2>1
  <2>9. ASSUME NEW u \in 0 .. shape.r, u < py' \/ u > px'
        PROVE  /\ \E q \in plotted' : q[1] = shape.x0 + u
               /\ \E q \in plotted' : q[1] = shape.x0 - u
    <3>1. CASE u < py \/ u > px
      BY <1>1, <2>1, <3>1
    <3>2. CASE u \in {py, px}
      <4>1. PICK d \in {<<px, py>>, <<py, px>>} : d[1] = u
        BY <3>2
      <4>2. /\ <<shape.x0 + 1 * d[1], shape.y0 + 1 * d[2]>> \in Mirrored
            /\ <<shape.x0 + (-1) * d[1], shape.y0 + 1 * d[2]>> \in Mirrored
        BY DEF Mirrored
      <4>3. shape.x0 + 1 * d[1] = shape.x0 + u /\ shape.x0 + (-1) * d[1] = shape.x0 - u
        BY <4>1
      <4> QED
        BY <2>1, <4>2, <4>3
    <3>3. u < py \/ u > px \/ u \in {py, px}
      BY <1>1, <2>1, <2>8, <2>9
    <3> QED
      BY <3>1, <3>2, <3>3
  <2>10. (shape.kind)' = "circle" /\ (shape.r)' = shape.r /\ (shape.x0)' = shape.x0
    BY <1>0
  <2> QED
    BY <2>1, <2>3, <2>7, <2>8, <2>9, <2>10 DEF CircleInv
<1> QED
  BY <1>3, <1>4


-----------------------------------------------------------------------------
(* What is written into the framebuffer *)

Visible(q) == q[1] \in 0 .. CanvasWidth - 1 /\ q[2] \in 0 .. Height - 1
Offset(q) == q[2] * CanvasWidth + q[1]
OffsetsOf(points) == {Offset(q) : q \in {d \in points : Visible(d)}}

PixelsAre == pixels # NULL => pixels = OffsetsOf(plotted)

CanvasTypes ==
  /\ shape \in C!Shapes /\ px \in Int /\ py \in Int
  /\ plotted \subseteq Int \X Int
  /\ gpc \in {"create", "draw", "done", "destroyed"}
  /\ gpc = "create" => plotted = {} /\ pixels = NULL
  /\ gpc # "create" => CanvasWidth > 0 /\ Height > 0

RowsIn(these) == {<<c, r>> : c \in shape.x0 .. shape.x0 + shape.w - 1, r \in these}
RowsTo(v) == RowsIn(shape.y0 .. v - 1)

RectInv ==
  shape.kind = "rect" =>
    IF gpc \in {"create", "draw"}
    THEN /\ py >= shape.y0 /\ (py = shape.y0 \/ py <= shape.y0 + shape.h)
         /\ plotted = RowsTo(py)
    ELSE plotted = RowsTo(shape.y0 + shape.h)

CanvasInv == CanvasTypes /\ PixelsAre /\ LineInv /\ CircleInv /\ RectInv

LEMMA OffsetInside ==
  ASSUME CanvasWidth > 0, Height > 0
  PROVE  /\ \A q : Visible(q) => Offset(q) \in 0 .. CanvasWidth * Height - 1
         /\ \A k \in 0 .. CanvasWidth * Height - 1 :
              \E u \in 0 .. CanvasWidth - 1, v \in 0 .. Height - 1 : k = v * CanvasWidth + u
<1>1. CanvasWidth \in Nat \ {0} /\ Height \in Nat \ {0} /\ CanvasWidth * Height \in Nat
  <2>1. CanvasWidth \in Nat \ {0} /\ Height \in Nat \ {0}
    BY CanvasAssumption
  <2> QED
    BY <2>1, Product
<1>2. ASSUME NEW q, Visible(q)
      PROVE  Offset(q) \in 0 .. CanvasWidth * Height - 1
  <2>1. q[1] \in 0 .. CanvasWidth - 1 /\ q[2] \in Nat /\ q[2] + 1 \in Nat /\ q[2] + 1 <= Height
    BY <1>1, <1>2 DEF Visible
  <2>2. (q[2] + 1) * CanvasWidth <= Height * CanvasWidth /\ Height * CanvasWidth = CanvasWidth * Height
    BY <1>1, <2>1, Monotone, Product
  <2>3. q[2] * CanvasWidth \in Nat
    BY <1>1, <2>1, Product
  <2>4. (q[2] + 1) * CanvasWidth = q[2] * CanvasWidth + CanvasWidth
    <3>1. CanvasWidth * (q[2] + 1) = CanvasWidth * q[2] + CanvasWidth * 1 /\ CanvasWidth * 1 = CanvasWidth
      BY <1>1, <2>1, Distribute
    <3> QED
      BY <1>1, <2>1, <3>1, Product
  <2> QED
    BY <1>1, <2>1, <2>2, <2>3, <2>4 DEF Offset
<1>3. ASSUME NEW k \in 0 .. CanvasWidth * Height - 1
      PROVE  \E u \in 0 .. CanvasWidth - 1, v \in 0 .. Height - 1 : k = v * CanvasWidth + u
  <2>0. /\ k \div CanvasWidth \in Nat /\ k % CanvasWidth \in 0 .. CanvasWidth - 1
        /\ k = CanvasWidth * (k \div CanvasWidth) + (k % CanvasWidth)
    BY <1>1, Division
  <2>1. PICK v \in Nat, u \in 0 .. CanvasWidth - 1 : k = CanvasWidth * v + u
    BY <2>0, Zenon
  <2>2. k = v * CanvasWidth + u /\ CanvasWidth * v \in Nat
    BY <1>1, <2>1, Product
  <2>3. v < Height
    <3> SUFFICES ASSUME Height <= v PROVE FALSE
      BY <1>1, <2>1
    <3>1. Height * CanvasWidth <= v * CanvasWidth /\ Height * CanvasWidth = CanvasWidth * Height
      BY <1>1, <2>1, Monotone, Product
    <3> QED
      BY <1>1, <2>1, <2>2, <3>1
  <2>4. v \in 0 .. Height - 1
    BY <1>1, <2>3
  <2> QED
    BY <2>2, <2>4, Zenon
<1> QED
  BY <1>2, <1>3

LEMMA InsideIs ==
  \A q \in Int \X Int : C!Inside(q[1], q[2]) <=> Visible(q)
BY CanvasAssumption DEF C!Inside, Visible

\* framebuffer_set_pixel
LEMMA SetPixelsKeeps ==
  ASSUME PixelsAre, plotted \subseteq Int \X Int,
         NEW points, points \subseteq Int \X Int, C!SetPixels(points)
  PROVE  PixelsAre' /\ plotted' \subseteq Int \X Int /\ plotted' = plotted \cup points
<1>1. plotted' = plotted \cup points
  BY DEF C!SetPixels
<1>2. CASE pixels = NULL
  <2>1. pixels' = NULL
    BY <1>2 DEF C!SetPixels
  <2> QED
    BY <1>1, <2>1 DEF PixelsAre
<1>3. CASE pixels # NULL
  <2>1. pixels' = pixels \cup {Offset(q) : q \in {d \in points : C!Inside(d[1], d[2])}}
    BY <1>3 DEF C!SetPixels, Offset
  <2>2. {d \in points : C!Inside(d[1], d[2])} = {d \in points : Visible(d)}
    BY InsideIs
  <2>3. pixels' = OffsetsOf(plotted) \cup OffsetsOf(points)
    BY <1>3, <2>1, <2>2 DEF PixelsAre, OffsetsOf
  <2>4. OffsetsOf(plotted) \cup OffsetsOf(points) = OffsetsOf(plotted \cup points)
    BY DEF OffsetsOf
  <2>5. OffsetsOf(plotted)' = OffsetsOf(plotted')
    BY DEF OffsetsOf, Offset, Visible
  <2> QED
    BY <1>1, <2>3, <2>4, <2>5 DEF PixelsAre
<1> QED
  BY <1>1, <1>2, <1>3

\* What the arguments of a shape are.
LEMMA ArgumentsAre ==
  ASSUME shape \in C!Shapes
  PROVE  /\ shape.kind \in {"line", "circle", "clear", "rect"}
         /\ shape.x0 \in Int /\ shape.y0 \in Int
         /\ shape.kind = "line" => IsLine
         /\ shape.kind = "circle" => shape.r \in Int
         /\ shape.kind = "rect" => shape.w \in Int /\ shape.h \in Int
<1>1. Coords \subseteq Int /\ -1 .. MaxRadius \subseteq Int /\ -1 .. MaxSide \subseteq Int
  BY CanvasAssumption
<1>2. CASE shape \in [kind : {"line"}, x0 : Coords, y0 : Coords, x1 : Coords, y1 : Coords]
  BY <1>1, <1>2 DEF IsLine
<1>3. CASE shape \in [kind : {"circle"}, x0 : Coords, y0 : Coords, r : -1 .. MaxRadius]
  BY <1>1, <1>3
<1>4. CASE shape \in [kind : {"clear"}, x0 : {0}, y0 : {0}]
  BY <1>4
<1>5. CASE shape \in [kind : {"rect"}, x0 : Coords, y0 : Coords, w : -1 .. MaxSide, h : -1 .. MaxSide]
  BY <1>1, <1>5
<1> QED
  BY <1>2, <1>3, <1>4, <1>5 DEF C!Shapes


LEMMA CanvasInit == C!Init => CanvasInv
<1> SUFFICES ASSUME C!Init PROVE CanvasInv
  OBVIOUS
<1>1. /\ shape \in C!Shapes /\ pixels = NULL /\ plotted = {} /\ gpc = "create"
      /\ px = (IF shape.kind = "circle" THEN shape.r ELSE shape.x0)
      /\ py = (IF shape.kind = "circle" THEN 0 ELSE shape.y0)
      /\ perr = (IF shape.kind = "line" THEN C!Dx(shape) + C!Dy(shape)
                 ELSE IF shape.kind = "circle" THEN 1 - shape.r ELSE 0)
  BY DEF C!Init
<1>2. /\ shape.kind \in {"line", "circle", "clear", "rect"}
      /\ shape.x0 \in Int /\ shape.y0 \in Int
      /\ shape.kind = "line" => IsLine
      /\ shape.kind = "circle" => shape.r \in Int
      /\ shape.kind = "rect" => shape.w \in Int /\ shape.h \in Int
  BY <1>1, ArgumentsAre
<1>3. CanvasTypes /\ PixelsAre
  BY <1>1, <1>2 DEF CanvasTypes, PixelsAre
<1>4. ASSUME shape.kind = "line" PROVE LineInv
  <2>1. /\ Wide \in Nat /\ High \in Nat /\ SignX \in {1, -1} /\ SignY \in {1, -1}
        /\ Longest(Wide, High) \in Nat
    BY <1>2, <1>4, LineTypes DEF Longest
  <2>2. px = shape.x0 /\ py = shape.y0 /\ perr = Wide + -High
    BY <1>1, <1>4 DEF C!Dx, C!Dy, Wide, High
  <2>3. LineAt(0, 0)
    BY <1>2, <2>1, <2>2 DEF LineAt
  <2>4. LinePlotted(0)
    BY <1>1, FS_EmptySet DEF LinePlotted
  <2>5. LineAt(0, 0) /\ LinePlotted(IF High <= Wide THEN 0 ELSE 0)
    BY <2>3, <2>4
  <2> QED
    BY <1>1, <2>5 DEF LineInv
<1>5. ASSUME shape.kind = "circle" PROVE CircleInv
  <2>1. px = shape.r /\ py = 0 /\ perr = 1 - shape.r /\ shape.r \in Int
    BY <1>1, <1>2, <1>5
  <2>2. CircleError = 0
    BY <2>1, SquareOf DEF CircleError
  <2> QED
    BY <1>1, <2>1, <2>2 DEF CircleInv
<1>6. ASSUME shape.kind = "rect" PROVE RectInv
  <2>1. py = shape.y0 /\ RowsTo(shape.y0) = {}
    BY <1>1, <1>2, <1>6 DEF RowsTo, RowsIn
  <2> QED
    BY <1>1, <1>2, <2>1 DEF RectInv
<1> QED
  BY <1>3, <1>4, <1>5, <1>6 DEF CanvasInv, LineInv, CircleInv, RectInv

\* framebuffer_fill_rect, one row
LEMMA RectStepKeeps ==
  ASSUME CanvasInv, shape.kind = "rect", C!RectStep
  PROVE  CanvasInv'
<1>1. /\ shape.x0 \in Int /\ shape.y0 \in Int /\ shape.w \in Int /\ shape.h \in Int
      /\ px \in Int /\ py \in Int /\ plotted \subseteq Int \X Int
      /\ CanvasWidth > 0 /\ Height > 0 /\ PixelsAre
      /\ py >= shape.y0 /\ (py = shape.y0 \/ py <= shape.y0 + shape.h) /\ plotted = RowsTo(py)
      /\ shape \in C!Shapes /\ gpc = "draw" /\ shape' = shape /\ px' = px
  BY ArgumentsAre DEF CanvasInv, CanvasTypes, RectInv, C!RectStep
<1>2. CASE py >= shape.y0 + shape.h
  <2>1. gpc' = "done" /\ py' = py /\ pixels' = pixels /\ plotted' = plotted
    BY <1>2 DEF C!RectStep
  <2>2. RowsTo(py) = RowsTo(shape.y0 + shape.h)
    <3>1. shape.y0 .. py - 1 = shape.y0 .. (shape.y0 + shape.h) - 1
      BY <1>1, <1>2
    <3> QED
      BY <3>1 DEF RowsTo
  <2>3. RowsTo(shape.y0 + shape.h)' = RowsTo(shape.y0 + shape.h)
    BY <1>1 DEF RowsTo, RowsIn
  <2>4. CanvasTypes' /\ PixelsAre' /\ RectInv'
    BY <1>1, <2>1, <2>2, <2>3 DEF CanvasTypes, PixelsAre, RectInv, OffsetsOf, Offset, Visible
  <2> QED
    BY <1>1, <2>4 DEF CanvasInv, LineInv, CircleInv
<1>3. CASE ~(py >= shape.y0 + shape.h)
  <2> DEFINE row == {<<c, py>> : c \in shape.x0 .. shape.x0 + shape.w - 1}
  <2>1. gpc' = "draw" /\ py' = py + 1 /\ C!SetPixels(row)
    BY <1>1, <1>3 DEF C!RectStep
  <2>2. row \subseteq Int \X Int
    BY <1>1
  <2> HIDE DEF row
  <2>3. PixelsAre' /\ plotted' \subseteq Int \X Int /\ plotted' = plotted \cup row
    BY <1>1, <2>1, <2>2, SetPixelsKeeps
  <2>4. RowsTo(py) \cup row = RowsTo(py + 1)
    <3>1. shape.y0 .. py + 1 - 1 = shape.y0 .. py - 1 \cup {py}
      BY <1>1
    <3> QED
      BY <3>1 DEF RowsTo, RowsIn, row
  <2>5. RowsTo(py)' = RowsTo(py + 1)
    BY <1>1, <2>1 DEF RowsTo, RowsIn
  <2>6. py' >= shape.y0 /\ py' <= shape.y0 + shape.h
    BY <1>1, <1>3, <2>1
  <2>7. CanvasTypes' /\ RectInv'
    BY <1>1, <2>1, <2>3, <2>4, <2>5, <2>6 DEF CanvasTypes, RectInv
  <2> QED
    BY <1>1, <2>3, <2>7 DEF CanvasInv, LineInv, CircleInv
<1> QED
  BY <1>2, <1>3


LEMMA CanvasNext == CanvasInv /\ [C!Next]_(C!vars) => CanvasInv'
<1> SUFFICES ASSUME CanvasInv, [C!Next]_(C!vars) PROVE CanvasInv'
  OBVIOUS
<1>0. /\ CanvasTypes /\ PixelsAre /\ LineInv /\ CircleInv /\ RectInv
      /\ shape \in C!Shapes /\ px \in Int /\ py \in Int /\ plotted \subseteq Int \X Int
      /\ gpc = "create" => plotted = {} /\ pixels = NULL
      /\ gpc # "create" => CanvasWidth > 0 /\ Height > 0
  BY DEF CanvasInv, CanvasTypes
<1>1. CASE C!FramebufferCreate
  <2>1. /\ gpc = "create" /\ gpc' = "draw" /\ pixels' \in {NULL, {}}
        /\ shape' = shape /\ px' = px /\ py' = py /\ perr' = perr /\ plotted' = plotted
        /\ C!CreateGuard(CanvasWidth, Height) = "OK"
    BY <1>1 DEF C!FramebufferCreate
  <2>2. CanvasWidth > 0 /\ Height > 0
    BY <2>1, CanvasAssumption DEF C!CreateGuard
  <2>3. OffsetsOf(plotted)' = {}
    BY <1>0, <2>1 DEF OffsetsOf
  <2>4. PixelsAre'
    BY <2>1, <2>3 DEF PixelsAre
  <2>5. CanvasTypes'
    BY <1>0, <2>1, <2>2 DEF CanvasTypes
  <2>6. LineInv'
    <3>1. Wide' = Wide /\ High' = High /\ SignX' = SignX /\ SignY' = SignY
      BY <2>1 DEF Wide, High, SignX, SignY
    <3>2. \A i, j : LineAt(i, j)' = LineAt(i, j)
      BY <2>1, <3>1 DEF LineAt
    <3>3. \A m : LinePlotted(m)' = LinePlotted(m)
      BY <2>1, <3>1 DEF LinePlotted, Straight, Along
    <3>4. SUFFICES ASSUME shape.kind = "line"
                   PROVE  \E i, j \in Nat : LineAt(i, j)' /\ LinePlotted(IF High <= Wide THEN i ELSE j)'
      BY <2>1, <3>1 DEF LineInv
    <3>5. PICK i, j \in Nat : LineAt(i, j) /\ LinePlotted(IF High <= Wide THEN i ELSE j)
      BY <1>0, <2>1, <3>4 DEF LineInv
    <3> QED
      BY <3>1, <3>2, <3>3, <3>5
  <2>7. CircleInv'
    BY <1>0, <2>1 DEF CircleInv, CircleError, Round
  <2>8. RectInv'
    BY <1>0, <2>1 DEF RectInv, RowsTo, RowsIn
  <2> QED
    BY <2>4, <2>5, <2>6, <2>7, <2>8 DEF CanvasInv
<1>2. CASE C!Clear
  <2>1. /\ gpc = "draw" /\ gpc' = "done" /\ shape' = shape /\ shape.kind = "clear"
        /\ px' = px /\ py' = py
        /\ pixels' = (IF pixels = NULL THEN NULL ELSE 0 .. CanvasWidth * Height - 1)
        /\ plotted' = {<<c, r>> : c \in 0 .. CanvasWidth - 1, r \in 0 .. Height - 1}
    BY <1>2 DEF C!Clear
  <2>2. /\ \A q : Visible(q) => Offset(q) \in 0 .. CanvasWidth * Height - 1
        /\ \A k \in 0 .. CanvasWidth * Height - 1 :
              \E u \in 0 .. CanvasWidth - 1, v \in 0 .. Height - 1 : k = v * CanvasWidth + u
    BY <1>0, <2>1, OffsetInside
  <2>3. OffsetsOf(plotted') = 0 .. CanvasWidth * Height - 1
    <3>1. OffsetsOf(plotted') \subseteq 0 .. CanvasWidth * Height - 1
      BY <2>2 DEF OffsetsOf
    <3>2. ASSUME NEW k \in 0 .. CanvasWidth * Height - 1 PROVE k \in OffsetsOf(plotted')
      <4>1. PICK u \in 0 .. CanvasWidth - 1, v \in 0 .. Height - 1 : k = v * CanvasWidth + u
        BY <2>2
      <4>2. <<u, v>> \in plotted' /\ Visible(<<u, v>>) /\ Offset(<<u, v>>) = k
        BY <2>1, <4>1 DEF Visible, Offset
      <4> QED
        BY <4>2 DEF OffsetsOf
    <3> QED
      BY <3>1, <3>2
  <2>4. OffsetsOf(plotted)' = OffsetsOf(plotted')
    BY DEF OffsetsOf, Offset, Visible
  <2>5. PixelsAre'
    BY <2>1, <2>3, <2>4 DEF PixelsAre
  <2>6. CanvasTypes'
    <3>1. plotted' \subseteq Int \X Int
      BY <2>1
    <3> QED
      BY <1>0, <2>1, <3>1 DEF CanvasTypes
  <2> QED
    BY <2>1, <2>5, <2>6 DEF CanvasInv, LineInv, CircleInv, RectInv
<1>3. CASE C!LineStep
  <2>1. /\ gpc = "draw" /\ shape.kind = "line" /\ C!SetPixels({<<px, py>>})
        /\ shape' = shape /\ gpc' \in {"draw", "done"}
        /\ px' \in {px, px + C!Sign(shape.x0, shape.x1)} /\ py' \in {py, py + C!Sign(shape.y0, shape.y1)}
    BY <1>3 DEF C!LineStep
  <2>2. IsLine
    BY <1>0, <2>1, ArgumentsAre
  <2>3. LineInv'
    BY <1>0, <1>3, <2>1, <2>2, LineStepKeeps
  <2>4. PixelsAre' /\ plotted' \subseteq Int \X Int
    <3>1. {<<px, py>>} \subseteq Int \X Int
      BY <1>0
    <3> QED
      BY <1>0, <2>1, <3>1, SetPixelsKeeps
  <2>5. px' \in Int /\ py' \in Int
    <3>1. C!Sign(shape.x0, shape.x1) \in Int /\ C!Sign(shape.y0, shape.y1) \in Int
      BY DEF C!Sign
    <3> QED
      BY <1>0, <2>1, <3>1
  <2>6. CanvasTypes'
    BY <1>0, <2>1, <2>4, <2>5 DEF CanvasTypes
  <2> QED
    BY <2>1, <2>3, <2>4, <2>6 DEF CanvasInv, CircleInv, RectInv
<1>4. CASE C!CircleStep
  <2>1. gpc = "draw" /\ shape.kind = "circle" /\ shape' = shape
    BY <1>4 DEF C!CircleStep
  <2>2. shape.x0 \in Int /\ shape.y0 \in Int /\ shape.r \in Int
    BY <1>0, <2>1, ArgumentsAre
  <2>3. CircleInv' /\ px' \in Int
    BY <1>0, <1>4, <2>1, <2>2, CircleStepKeeps
  <2>4. py' \in Int
    BY <2>1, <2>3 DEF CircleInv
  <2>5. PixelsAre' /\ plotted' \subseteq Int \X Int /\ gpc' \in {"draw", "done"}
    <3>1. CASE px < py
      <4>1. pixels' = pixels /\ plotted' = plotted /\ gpc' = "done"
        BY <1>4, <3>1 DEF C!CircleStep
      <4> QED
        BY <1>0, <4>1 DEF PixelsAre, OffsetsOf, Offset, Visible
    <3>2. CASE ~(px < py)
      <4>1. C!SetPixels(Mirrored) /\ gpc' = "draw"
        BY <1>4, <2>1, <3>2 DEF C!CircleStep, Mirrored
      <4>2. Mirrored \subseteq Int \X Int
        <5>1. ASSUME NEW s \in {1, -1}, NEW t \in {1, -1}, NEW d \in {<<px, py>>, <<py, px>>}
              PROVE  <<shape.x0 + s * d[1], shape.y0 + t * d[2]>> \in Int \X Int
          <6>1. d[1] \in Int /\ d[2] \in Int
            BY <1>0
          <6>2. s * d[1] \in Int /\ t * d[2] \in Int
            BY <6>1, SquareOf
          <6> QED
            BY <2>2, <6>2
        <5> QED
          BY <5>1 DEF Mirrored
      <4> QED
        BY <1>0, <4>1, <4>2, SetPixelsKeeps
    <3> QED
      BY <3>1, <3>2
  <2>6. CanvasTypes'
    BY <1>0, <2>1, <2>3, <2>4, <2>5 DEF CanvasTypes
  <2> QED
    BY <2>1, <2>3, <2>5, <2>6 DEF CanvasInv, LineInv, RectInv
<1>5. CASE C!RectStep
  <2>1. shape.kind = "rect"
    BY <1>5 DEF C!RectStep
  <2> QED
    BY <1>5, <2>1, RectStepKeeps
<1>6. CASE C!FramebufferDestroy
  <2>1. /\ gpc = "done" /\ gpc' = "destroyed" /\ pixels' = NULL
        /\ shape' = shape /\ px' = px /\ py' = py /\ perr' = perr /\ plotted' = plotted
    BY <1>6 DEF C!FramebufferDestroy
  <2>2. CanvasTypes' /\ PixelsAre'
    BY <1>0, <2>1 DEF CanvasTypes, PixelsAre
  <2>3. LineInv'
    <3>1. Wide' = Wide /\ High' = High /\ SignX' = SignX /\ SignY' = SignY
      BY <2>1 DEF Wide, High, SignX, SignY
    <3>2. \A m : LinePlotted(m)' = LinePlotted(m)
      BY <2>1, <3>1 DEF LinePlotted, Straight, Along
    <3>3. (Longest(Wide, High) + 1)' = Longest(Wide, High) + 1
      BY <3>1 DEF Longest
    <3>4. LinePlotted(Longest(Wide, High) + 1)' <=> LinePlotted(Longest(Wide, High) + 1)
      BY <2>1, <3>1, <3>3 DEF LinePlotted, Straight, Along
    <3> QED
      BY <1>0, <2>1, <3>4 DEF LineInv
  <2>4. CircleInv'
    BY <1>0, <2>1 DEF CircleInv, CircleError, Round
  <2>5. RectInv'
    BY <1>0, <2>1 DEF RectInv, RowsTo, RowsIn
  <2> QED
    BY <2>2, <2>3, <2>4, <2>5 DEF CanvasInv
<1>7. CASE UNCHANGED C!vars
  <2>1. /\ shape' = shape /\ px' = px /\ py' = py /\ perr' = perr
        /\ pixels' = pixels /\ plotted' = plotted /\ gpc' = gpc
    BY <1>7 DEF C!vars
  <2>2. CanvasTypes' /\ PixelsAre' /\ CircleInv' /\ RectInv'
    BY <1>0, <2>1 DEF CanvasTypes, PixelsAre, OffsetsOf, Offset, Visible, CircleInv, CircleError, Round,
                      RectInv, RowsTo, RowsIn
  <2>3. LineInv'
    BY <1>0, <2>1 DEF LineInv, LineAt, LinePlotted, Straight, Along, Wide, High, SignX, SignY
  <2> QED
    BY <2>2, <2>3 DEF CanvasInv
<1> QED
  BY <1>1, <1>2, <1>3, <1>4, <1>5, <1>6, <1>7 DEF C!Next


-----------------------------------------------------------------------------
(* What the invariant says of each shape *)

\* framebuffer_create: a size passes if its bytes can be counted.
LEMMA GuardIs ==
  \A w, h \in -1 .. MatSizeMax :
    C!CreateGuard(w, h) = "OK" <=> w > 0 /\ h > 0 /\ 4 * w * h <= MatSizeMax
<1> SUFFICES ASSUME NEW w \in -1 .. MatSizeMax, NEW h \in -1 .. MatSizeMax
             PROVE  C!CreateGuard(w, h) = "OK" <=> w > 0 /\ h > 0 /\ 4 * w * h <= MatSizeMax
  OBVIOUS
<1>1. MatSizeMax \in Nat /\ w \in Int /\ h \in Int
  BY CanvasAssumption
<1>2. CASE ~(w > 0 /\ h > 0)
  BY <1>1, <1>2 DEF C!CreateGuard
<1>3. CASE w > 0 /\ h > 0
  <2>1. w \in Nat \ {0} /\ h \in Nat \ {0} /\ w * h \in Nat /\ h * w = w * h
    <3>1. w \in Nat \ {0} /\ h \in Nat \ {0}
      BY <1>1, <1>3
    <3> QED
      BY <3>1, Product
  <2>2. 4 * w * h = 4 * (w * h)
    BY <2>1, Z3
  <2>3. C!CreateGuard(w, h) = "OK" <=> h <= MatSizeMax \div w /\ w * h <= MatSizeMax \div 4
    <3>1. MatSizeMax \div w \in Nat /\ MatSizeMax \div 4 \in Nat
      BY <1>1, <2>1, Division
    <3> QED
      BY <1>1, <1>3, <2>1, <3>1 DEF C!CreateGuard
  <2>4. w * h <= MatSizeMax \div 4 <=> 4 * (w * h) <= MatSizeMax
    <3>1. /\ MatSizeMax \div 4 \in Nat /\ MatSizeMax % 4 \in 0 .. 3
          /\ MatSizeMax = 4 * (MatSizeMax \div 4) + (MatSizeMax % 4)
      BY <1>1, Division
    <3> QED
      BY <2>1, <3>1
  <2>5. w * h <= MatSizeMax => h <= MatSizeMax \div w
    <3> DEFINE d == MatSizeMax \div w
               e == MatSizeMax % w
    <3>1. d \in Nat /\ e \in 0 .. w - 1 /\ MatSizeMax = w * d + e
      BY <1>1, <2>1, Division
    <3> HIDE DEF d, e
    <3>2. SUFFICES ASSUME w * h <= MatSizeMax, d + 1 <= h PROVE FALSE
      BY <1>1, <2>1, <3>1 DEF d
    <3>3. (d + 1) * w <= h * w
      BY <2>1, <3>1, <3>2, Monotone
    <3>4. (d + 1) * w = w * d + w /\ w * d \in Nat
      BY <2>1, <3>1, Z3
    <3> QED
      BY <1>1, <2>1, <3>1, <3>2, <3>3, <3>4
  <2>6. w * h <= 4 * (w * h)
    BY <2>1
  <2> QED
    BY <1>1, <1>3, <2>1, <2>2, <2>3, <2>4, <2>5, <2>6
<1> QED
  BY <1>2, <1>3

LEMMA LineIs == CanvasInv /\ shape.kind = "line" => C!LineIsStraight
<1> SUFFICES ASSUME CanvasInv, shape.kind = "line" PROVE C!LineIsStraight
  OBVIOUS
<1>1. LineInv /\ IsLine /\ gpc \in {"create", "draw", "done", "destroyed"}
  BY ArgumentsAre DEF CanvasInv, CanvasTypes
<1>2. /\ Wide \in Nat /\ High \in Nat /\ Longest(Wide, High) \in Nat
  BY <1>1, LineTypes DEF Longest
<1>3. C!Max({C!Abs(shape.x1 - shape.x0), C!Abs(shape.y1 - shape.y0)}) = Longest(Wide, High)
  BY <1>2, LongestIs DEF Wide, High
<1>4. C!Cardinality(plotted) = Cardinality(plotted)
  BY DEF C!Cardinality, Cardinality
<1>5. CASE gpc \in {"create", "draw"}
  <2>1. PICK i, j \in Nat : LineAt(i, j) /\ LinePlotted(IF High <= Wide THEN i ELSE j)
    BY <1>1, <1>5 DEF LineInv
  <2>2. PICK m \in Nat : m = IF High <= Wide THEN i ELSE j
    OBVIOUS
  <2>3. m <= Longest(Wide, High)
    BY <1>2, <2>1, <2>2 DEF LineAt, Longest
  <2>4. Cardinality(plotted) <= Longest(Wide, High) + 1 /\ \A q \in plotted : Straight(q)
    BY <1>2, <2>1, <2>2, <2>3 DEF LinePlotted
  <2> QED
    BY <1>3, <1>4, <1>5, <2>4 DEF C!LineIsStraight, Straight
<1>6. CASE ~(gpc \in {"create", "draw"})
  <2>1. LinePlotted(Longest(Wide, High) + 1) /\ <<shape.x1, shape.y1>> \in plotted
    BY <1>1, <1>6 DEF LineInv
  <2>2. /\ Cardinality(plotted) = Longest(Wide, High) + 1 /\ \A q \in plotted : Straight(q)
        /\ <<shape.x0, shape.y0>> \in plotted
    BY <1>2, <2>1 DEF LinePlotted
  <2> QED
    BY <1>2, <1>3, <1>4, <2>1, <2>2 DEF C!LineIsStraight, Straight
<1> QED
  BY <1>5, <1>6

LEMMA CircleIs == CanvasInv /\ shape.kind = "circle" => C!CircleIsRound
<1> SUFFICES ASSUME CanvasInv, shape.kind = "circle" PROVE C!CircleIsRound
  OBVIOUS
<1>1. CircleInv /\ shape.r \in Int /\ shape.x0 \in Int /\ px \in Int /\ py \in Int
  BY ArgumentsAre DEF CanvasInv, CanvasTypes
<1>2. \A q \in plotted : Round(q)
  BY <1>1 DEF CircleInv
<1>3. ASSUME gpc = "done", shape.r >= 0, NEW k \in -shape.r .. shape.r
      PROVE  \E q \in plotted : q[1] = shape.x0 + k
  <2>1. px < py
    BY <1>1, <1>3 DEF CircleInv
  <2>2. PICK u \in 0 .. shape.r : k = u \/ k = -u
    BY <1>1, <1>3
  <2>3. u < py \/ u > px
    BY <1>1, <2>1
  <2>4. /\ \E q \in plotted : q[1] = shape.x0 + u
        /\ \E q \in plotted : q[1] = shape.x0 - u
    BY <1>1, <2>3 DEF CircleInv
  <2>5. shape.x0 + k = shape.x0 + u \/ shape.x0 + k = shape.x0 - u
    BY <1>1, <2>2
  <2> QED
    BY <2>4, <2>5
<1> QED
  BY <1>2, <1>3 DEF C!CircleIsRound, Round

LEMMA ShapesAre == CanvasInv => C!ShapesAreExact
<1> SUFFICES ASSUME CanvasInv PROVE C!ShapesAreExact
  OBVIOUS
<1>1. ASSUME pixels # NULL
      PROVE  /\ pixels = {q[2] * CanvasWidth + q[1] :
                            q \in {d \in plotted : d[1] \in 0 .. CanvasWidth - 1 /\ d[2] \in 0 .. Height - 1}}
             /\ pixels \subseteq 0 .. CanvasWidth * Height - 1
  <2>1. CanvasWidth > 0 /\ Height > 0 /\ pixels = OffsetsOf(plotted)
    BY <1>1 DEF CanvasInv, CanvasTypes, PixelsAre
  <2>2. pixels \subseteq 0 .. CanvasWidth * Height - 1
    BY <2>1, OffsetInside DEF OffsetsOf
  <2> QED
    BY <2>1, <2>2 DEF OffsetsOf, Offset, Visible
<1>2. ASSUME shape.kind = "rect", gpc = "done"
      PROVE  plotted = RowsIn(shape.y0 .. shape.y0 + shape.h - 1)
  <2>1. plotted = RowsTo(shape.y0 + shape.h)
    BY <1>2 DEF CanvasInv, RectInv
  <2>2. shape.y0 \in Int /\ shape.h \in Int
    BY <1>2, ArgumentsAre DEF CanvasInv, CanvasTypes
  <2>3. shape.y0 .. (shape.y0 + shape.h) - 1 = shape.y0 .. shape.y0 + shape.h - 1
    BY <2>2
  <2> QED
    BY <2>1, <2>3 DEF RowsTo
<1> QED
  BY <1>1, <1>2, GuardIs, LineIs, CircleIs DEF C!ShapesAreExact, RowsIn

(***************************************************************************)
(* software_renderer.c: what is written lies in the framebuffer and is the *)
(* visible part of the shape; Bresenham's line and the midpoint circle are *)
(* within half a pixel, whatever the end points, the radius and the size.  *)
(***************************************************************************)
THEOREM Drawn == C!Spec => []ShapesAreExact
<1>1. C!Spec => []CanvasInv
  BY CanvasInit, CanvasNext, PTL DEF C!Spec
<1>2. CanvasInv => ShapesAreExact
  BY ShapesAre DEF ShapesAreExact
<1> QED
  BY <1>1, <1>2, PTL

-----------------------------------------------------------------------------
(* The vector kernels *)

\* A set of numbers that holds 0 and with each number the next holds all.
LEMMA AllNumbers ==
  ASSUME NEW Q, 0 \in Q, \A m \in Nat : m \in Q => m + 1 \in Q
  PROVE  \A m \in Nat : m \in Q
<1> DEFINE bad == {m \in Nat : m \notin Q}
<1>1. ASSUME bad # {} PROVE FALSE
  <2>1. PICK m \in bad : \A k \in bad : m <= k
    BY <1>1, LeastOfSet
  <2>2. m \in Nat /\ m \notin Q /\ m # 0
    BY <2>1
  <2>3. m - 1 \in Nat /\ m - 1 \notin bad
    BY <2>1, <2>2
  <2>4. m - 1 \in Q
    BY <2>3
  <2>5. (m - 1) + 1 \in Q /\ (m - 1) + 1 = m
    BY <2>2, <2>3, <2>4
  <2> QED
    BY <2>2, <2>5
<1> QED
  BY <1>1

\* One round of the recursion of Summed.
AddStep(f, s, k) == IF k = 0 THEN 0 ELSE s[k - 1] + f[k]

Adds(f, s, m) == DOMAIN s = 0 .. m /\ \A k \in 0 .. m : s[k] = AddStep(f, s, k)

LEMMA SummedExists ==
  ASSUME NEW f
  PROVE  \A m \in Nat : \E s : s = [k \in 0 .. m |-> AddStep(f, s, k)]
<1> DEFINE Upto(m) == \E s : s = [k \in 0 .. m |-> AddStep(f, s, k)]
           Q == {m \in Nat : Upto(m)}
<1>1. Upto(0)
  <2> DEFINE s == [k \in 0 .. 0 |-> 0]
  <2>1. s = [k \in 0 .. 0 |-> AddStep(f, s, k)]
    BY DEF AddStep
  <2> QED
    BY <2>1
<1>2. ASSUME NEW m \in Nat, Upto(m) PROVE Upto(m + 1)
  <2>1. PICK s : s = [k \in 0 .. m |-> AddStep(f, s, k)]
    BY <1>2
  <2> DEFINE g == [k \in 0 .. m + 1 |-> IF k = m + 1 THEN AddStep(f, s, k) ELSE s[k]]
  <2>2. /\ \A k \in 0 .. m : g[k] = s[k]
        /\ g[m + 1] = AddStep(f, s, m + 1)
        /\ DOMAIN g = 0 .. m + 1 /\ g = [k \in 0 .. m + 1 |-> g[k]]
    OBVIOUS
  <2> HIDE DEF g
  <2>3. \A k \in 0 .. m + 1 : AddStep(f, g, k) = AddStep(f, s, k)
    <3>1. \A k \in 0 .. m + 1 : k = 0 \/ k - 1 \in 0 .. m
      OBVIOUS
    <3> QED
      BY <2>2, <3>1 DEF AddStep
  <2>4. \A k \in 0 .. m : s[k] = AddStep(f, s, k)
    BY <2>1
  <2>5. \A k \in 0 .. m + 1 : g[k] = AddStep(f, g, k)
    <3>1. \A k \in 0 .. m + 1 : k \in 0 .. m \/ k = m + 1
      OBVIOUS
    <3> QED
      BY <3>1, <2>2, <2>3, <2>4
  <2>6. g = [k \in 0 .. m + 1 |-> AddStep(f, g, k)]
    BY <2>2, <2>5
  <2> QED
    BY <2>6
<1> HIDE DEF Upto
<1>3. \A m \in Nat : m \in Q
  <2>1. 0 \in Q /\ \A m \in Nat : m \in Q => m + 1 \in Q
    BY <1>1, <1>2
  <2> HIDE DEF Q
  <2> QED
    BY <2>1, AllNumbers
<1> QED
  BY <1>3 DEF Upto

LEMMA SummedIs ==
  ASSUME NEW f, NEW m \in Nat
  PROVE  \E s : Adds(f, s, m) /\ K!Summed(f, m) = s[m]
<1> DEFINE s == CHOOSE s : s = [k \in 0 .. m |-> AddStep(f, s, k)]
<1>1. K!Summed(f, m) = s[m]
  BY DEF K!Summed, AddStep
<1>2. s = [k \in 0 .. m |-> AddStep(f, s, k)]
  BY SummedExists
<1> HIDE DEF s
<1>3. Adds(f, s, m)
  BY <1>2 DEF Adds
<1> QED
  BY <1>1, <1>3

\* What is added up does not depend on how far it goes on.
LEMMA SumsAgree ==
  ASSUME NEW f, NEW m \in Nat, NEW s, NEW t, Adds(f, s, m), Adds(f, t, m + 1)
  PROVE  \A k \in 0 .. m : s[k] = t[k]
<1> DEFINE Q == {k \in Nat : k <= m => s[k] = t[k]}
<1>1. 0 \in Q
  BY DEF Adds, AddStep
<1>2. ASSUME NEW k \in Nat, k \in Q PROVE k + 1 \in Q
  <2> SUFFICES ASSUME k + 1 <= m PROVE s[k + 1] = t[k + 1]
    OBVIOUS
  <2>1. k + 1 \in 0 .. m /\ k + 1 \in 0 .. m + 1 /\ k + 1 # 0 /\ (k + 1) - 1 = k
    OBVIOUS
  <2>2. s[k + 1] = s[k] + f[k + 1] /\ t[k + 1] = t[k] + f[k + 1]
    BY <2>1 DEF Adds, AddStep
  <2>3. s[k] = t[k]
    BY <1>2
  <2> QED
    BY <2>2, <2>3
<1> HIDE DEF Q
<1>3. \A k \in Nat : k \in Q
  BY <1>1, <1>2, AllNumbers
<1> QED
  BY <1>3 DEF Q

\* A sum of no numbers, and of one more.
LEMMA SummedSteps ==
  ASSUME NEW f, NEW m \in Nat
  PROVE  K!Summed(f, 0) = 0 /\ K!Summed(f, m + 1) = K!Summed(f, m) + f[m + 1]
<1>1. K!Summed(f, 0) = 0
  <2>1. PICK s : Adds(f, s, 0) /\ K!Summed(f, 0) = s[0]
    BY SummedIs
  <2> QED
    BY <2>1 DEF Adds, AddStep
<1>2. PICK s : Adds(f, s, m) /\ K!Summed(f, m) = s[m]
  BY SummedIs
<1>3. PICK t : Adds(f, t, m + 1) /\ K!Summed(f, m + 1) = t[m + 1]
  BY SummedIs
<1>4. s[m] = t[m]
  BY <1>2, <1>3, SumsAgree
<1>5. m + 1 \in 0 .. m + 1 /\ m + 1 # 0 /\ (m + 1) - 1 = m
  OBVIOUS
<1>6. t[m + 1] = t[m] + f[m + 1]
  BY <1>3, <1>5 DEF Adds, AddStep
<1> QED
  BY <1>1, <1>2, <1>3, <1>4, <1>6

LEMMA SummedType ==
  ASSUME NEW f, NEW m \in Nat, \A k \in 1 .. m : f[k] \in Int
  PROVE  \A k \in 0 .. m : K!Summed(f, k) \in Int
<1> DEFINE Q == {k \in Nat : k <= m => K!Summed(f, k) \in Int}
<1>1. 0 \in Q
  BY SummedSteps
<1>2. ASSUME NEW k \in Nat, k \in Q PROVE k + 1 \in Q
  <2> SUFFICES ASSUME k + 1 <= m PROVE K!Summed(f, k + 1) \in Int
    OBVIOUS
  <2>1. K!Summed(f, k) \in Int /\ f[k + 1] \in Int
    BY <1>2
  <2> QED
    BY <2>1, SummedSteps
<1> HIDE DEF Q
<1>3. \A k \in Nat : k \in Q
  BY <1>1, <1>2, AllNumbers
<1> QED
  BY <1>3 DEF Q

\* g holds f's numbers, and to each of them the next of e is added.
Spread(f, g, e, from, m) == /\ \A k \in 1 .. m : f[k] \in Int /\ g[k] = f[k] + e[from + k]
                            /\ \A k \in 1 .. from + m : e[k] \in Int

\* Adding to each lane the element that it is for adds them all.
LEMMA LanesAdd ==
  ASSUME NEW m \in Nat, NEW from \in Nat, NEW f, NEW g, NEW e, Spread(f, g, e, from, m)
  PROVE  K!Summed(g, m) = K!Summed(f, m) + K!Summed(e, from + m) - K!Summed(e, from)
<1>0. /\ \A k \in 1 .. m : f[k] \in Int /\ g[k] = f[k] + e[from + k]
      /\ \A k \in 1 .. from + m : e[k] \in Int
  BY DEF Spread
<1> DEFINE Q == {k \in Nat : k <= m =>
                   K!Summed(g, k) = K!Summed(f, k) + K!Summed(e, from + k) - K!Summed(e, from)}
<1>1. /\ \A k \in 0 .. m : K!Summed(f, k) \in Int
      /\ \A k \in 0 .. from + m : K!Summed(e, k) \in Int
  BY <1>0, SummedType
<1>2. 0 \in Q
  <2>1. K!Summed(g, 0) = 0 /\ K!Summed(f, 0) = 0
    BY SummedSteps
  <2>2. from + 0 = from /\ K!Summed(e, from) \in Int
    BY <1>1
  <2> QED
    BY <2>1, <2>2
<1>3. ASSUME NEW k \in Nat, k \in Q PROVE k + 1 \in Q
  <2> SUFFICES ASSUME k + 1 <= m
               PROVE  K!Summed(g, k + 1) = K!Summed(f, k + 1) + K!Summed(e, from + (k + 1)) - K!Summed(e, from)
    OBVIOUS
  <2>1. K!Summed(g, k) = K!Summed(f, k) + K!Summed(e, from + k) - K!Summed(e, from)
    BY <1>3
  <2>2. /\ k + 1 \in 1 .. m /\ k \in 0 .. m /\ from + k \in 0 .. from + m /\ from \in 0 .. from + m
        /\ from + (k + 1) = (from + k) + 1 /\ from + k \in Nat /\ (from + k) + 1 \in 1 .. from + m
    OBVIOUS
  <2>3. /\ K!Summed(g, k + 1) = K!Summed(g, k) + g[k + 1]
        /\ K!Summed(f, k + 1) = K!Summed(f, k) + f[k + 1]
        /\ K!Summed(e, (from + k) + 1) = K!Summed(e, from + k) + e[(from + k) + 1]
    BY <2>2, SummedSteps
  <2>4. g[k + 1] = f[k + 1] + e[(from + k) + 1] /\ f[k + 1] \in Int /\ e[(from + k) + 1] \in Int
    BY <1>0, <2>2
  <2>5. K!Summed(f, k) \in Int /\ K!Summed(e, from + k) \in Int /\ K!Summed(e, from) \in Int
    BY <1>1, <2>2
  <2> QED
    BY <2>1, <2>2, <2>3, <2>4, <2>5
<1> HIDE DEF Q
<1>4. \A k \in Nat : k \in Q
  BY <1>2, <1>3, AllNumbers
<1> QED
  BY <1>4 DEF Q

LEMMA ZerosAdd ==
  ASSUME NEW m \in Nat, NEW f, \A k \in 1 .. m : f[k] = 0
  PROVE  K!Summed(f, m) = 0
<1> DEFINE Q == {k \in Nat : k <= m => K!Summed(f, k) = 0}
<1>1. 0 \in Q
  BY SummedSteps
<1>2. ASSUME NEW k \in Nat, k \in Q PROVE k + 1 \in Q
  BY <1>2, SummedSteps
<1> HIDE DEF Q
<1>3. \A k \in Nat : k \in Q
  BY <1>1, <1>2, AllNumbers
<1> QED
  BY <1>3 DEF Q

(***************************************************************************)
(* simd_ops.c: what the i first elements contribute is stored, or is in    *)
(* the lanes while the vector loop runs and in the sum after it.           *)
(***************************************************************************)
Contribution(c, k) == CASE c = "add" -> InA[k] + InB[k]
                        [] c \in {"mul", "dot"} -> InA[k] * InB[k]
                        [] c = "scale" -> InA[k] * Scalar
                        [] c = "sum" -> InA[k]

Contributions == [k \in 1 .. n |-> K!Element(k)]

StoredTo(i) == [k \in 1 .. MaxN + 1 |-> IF K!Stores /\ k <= i THEN K!Element(k) ELSE 0]

KernelTypes == /\ op \in K!Ops /\ n \in 0 .. MaxN /\ idx \in 0 .. n
               /\ acc \in [1 .. Lanes -> Int] /\ sum \in Int
               /\ kpc \in {"vector", "tail", "done"}

KernelInv == /\ KernelTypes
             /\ dst = StoredTo(idx)
             /\ ~K!Stores => IF kpc = "vector" THEN K!Summed(acc, Lanes) = K!Summed(Contributions, idx)
                                               ELSE sum = K!Summed(Contributions, idx)
             /\ kpc = "done" => idx = n

LEMMA ElementIs ==
  /\ \A k : K!Element(k) = Contribution(op, k)
  /\ op \in K!Ops => \A k \in 1 .. MaxN : K!Element(k) \in Int
<1>1. \A k : K!Element(k) = Contribution(op, k)
  BY Zenon DEF K!Element, Contribution
<1>2. ASSUME op \in K!Ops, NEW k \in 1 .. MaxN PROVE Contribution(op, k) \in Int
  <2>1. InA[k] \in Int /\ InA[k] + InB[k] \in Int /\ InA[k] * InB[k] \in Int /\ InA[k] * Scalar \in Int
    BY KernelsAssumption
  <2>2. op = "add" \/ op \in {"mul", "dot"} \/ op = "scale" \/ op = "sum"
    BY <1>2 DEF K!Ops
  <2>3. CASE op = "add"
    BY <2>1, <2>3, Zenon DEF Contribution
  <2>4. CASE op \in {"mul", "dot"}
    BY <2>1, <2>4, Zenon DEF Contribution
  <2>5. CASE op = "scale"
    BY <2>1, <2>5, Zenon DEF Contribution
  <2>6. CASE op = "sum"
    BY <2>1, <2>6, Zenon DEF Contribution
  <2> QED
    BY <2>2, <2>3, <2>4, <2>5, <2>6
<1> QED
  BY <1>1, <1>2

LEMMA ElementsKept ==
  ASSUME op' = op
  PROVE  (\A k : K!Element(k)' = K!Element(k)) /\ K!Stores' = K!Stores
<1>1. \A k : K!Element(k)' = Contribution(op, k)
  <2>1. \A k : K!Element(k)' = Contribution(op', k)
    BY Zenon DEF K!Element, Contribution
  <2> QED
    BY <2>1
<1> QED
  BY <1>1, ElementIs DEF K!Stores

LEMMA ContributionsKept ==
  ASSUME op' = op, n' = n
  PROVE  Contributions' = Contributions
BY ElementsKept DEF Contributions

LEMMA ContributionsType ==
  ASSUME KernelTypes
  PROVE  /\ \A k \in 1 .. n : Contributions[k] = K!Element(k) /\ Contributions[k] \in Int
         /\ \A k \in 0 .. n : K!Summed(Contributions, k) \in Int
<1>1. n \in Nat /\ \A k \in 1 .. n : k \in 1 .. MaxN
  BY KernelsAssumption DEF KernelTypes
<1>2. \A k \in 1 .. n : K!Element(k) \in Int
  BY <1>1, ElementIs DEF KernelTypes
<1>3. \A k \in 1 .. n : Contributions[k] = K!Element(k) /\ Contributions[k] \in Int
  BY <1>2 DEF Contributions
<1> QED
  BY <1>1, <1>3, SummedType

LEMMA KernelInit == K!Init => KernelInv
<1> SUFFICES ASSUME K!Init PROVE KernelInv
  OBVIOUS
<1>1. KernelTypes
  BY KernelsAssumption DEF K!Init, KernelTypes
<1>2. dst = StoredTo(idx)
  BY DEF K!Init, StoredTo
<1>3. K!Summed(acc, Lanes) = 0
  BY KernelsAssumption, ZerosAdd DEF K!Init
<1>4. K!Summed(Contributions, idx) = 0 /\ sum = 0
  BY SummedSteps DEF K!Init
<1>5. kpc = "done" => idx = n
  BY DEF K!Init
<1> QED
  BY <1>1, <1>2, <1>3, <1>4, <1>5 DEF KernelInv

LEMMA VectorSteps == KernelInv /\ K!VectorStep => KernelInv'
<1> SUFFICES ASSUME KernelInv, K!VectorStep PROVE KernelInv'
  OBVIOUS
<1>0. Lanes \in Nat \ {0} /\ MaxN \in Nat /\ idx \in Nat /\ n \in Nat /\ n <= MaxN
  BY KernelsAssumption DEF KernelInv, KernelTypes
<1>1. /\ kpc = "vector" /\ idx + Lanes <= n /\ idx' = idx + Lanes
      /\ op' = op /\ n' = n /\ sum' = sum /\ kpc' = kpc
  BY DEF K!VectorStep, K!WholeVector
<1>2. /\ K!Stores => dst' = [k \in DOMAIN dst |-> IF k \in idx + 1 .. idx + Lanes THEN K!Element(k) ELSE dst[k]]
      /\ K!Stores => acc' = acc
      /\ ~K!Stores => acc' = [l \in 1 .. Lanes |-> acc[l] + K!Element(idx + l)]
      /\ ~K!Stores => dst' = dst
  BY DEF K!VectorStep
<1>3. idx' \in 0 .. n
  BY <1>0, <1>1
<1>4. \A l \in 1 .. Lanes : /\ idx + l \in 1 .. n
                            /\ acc[l] \in Int /\ Contributions[idx + l] = K!Element(idx + l)
                            /\ Contributions[idx + l] \in Int
  <2>1. \A l \in 1 .. Lanes : idx + l \in 1 .. n
    BY <1>0, <1>1
  <2> QED
    BY <2>1, ContributionsType DEF KernelInv, KernelTypes
<1>5. acc' \in [1 .. Lanes -> Int]
  <2>1. CASE K!Stores
    BY <1>2, <2>1 DEF KernelInv, KernelTypes
  <2>2. CASE ~K!Stores
    <3>1. \A l \in 1 .. Lanes : acc[l] + K!Element(idx + l) \in Int
      BY <1>4
    <3> QED
      BY <1>2, <2>2, <3>1
  <2> QED
    BY <2>1, <2>2
<1>6. KernelTypes'
  BY <1>1, <1>3, <1>5 DEF KernelInv, KernelTypes
<1>7. dst' = StoredTo(idx)'
  <2>1. StoredTo(idx)' = [k \in 1 .. MaxN + 1 |-> IF K!Stores /\ k <= idx' THEN K!Element(k) ELSE 0]
    BY <1>1, ElementsKept DEF StoredTo
  <2>2. dst = [k \in 1 .. MaxN + 1 |-> IF K!Stores /\ k <= idx THEN K!Element(k) ELSE 0]
    BY DEF KernelInv, StoredTo
  <2>3. CASE K!Stores
    <3>1. \A k \in 1 .. MaxN + 1 : k <= idx + Lanes <=> k <= idx \/ k \in idx + 1 .. idx + Lanes
      BY <1>0
    <3>2. dst' = [k \in 1 .. MaxN + 1 |-> IF k \in idx + 1 .. idx + Lanes THEN K!Element(k)
                                          ELSE IF k <= idx THEN K!Element(k) ELSE 0]
      BY <1>2, <2>2, <2>3
    <3> QED
      BY <1>1, <2>1, <2>3, <3>1, <3>2
  <2>4. CASE ~K!Stores
    BY <1>2, <2>1, <2>2, <2>4
  <2> QED
    BY <2>3, <2>4
<1>8. ASSUME ~K!Stores PROVE K!Summed(acc, Lanes)' = K!Summed(Contributions, idx)'
  <2>1. \A l \in 1 .. Lanes : acc[l] \in Int /\ acc'[l] = acc[l] + Contributions[idx + l]
    BY <1>2, <1>4, <1>8
  <2>2. \A k \in 1 .. idx + Lanes : Contributions[k] \in Int
    <3>1. \A k \in 1 .. idx + Lanes : k \in 1 .. n
      BY <1>0, <1>1
    <3> QED
      BY <3>1, ContributionsType DEF KernelInv
  <2>3. K!Summed(acc', Lanes) = K!Summed(acc, Lanes) + K!Summed(Contributions, idx + Lanes) - K!Summed(Contributions, idx)
    <3>1. Spread(acc, acc', Contributions, idx, Lanes)
      BY <2>1, <2>2 DEF Spread
    <3> QED
      BY <1>0, <3>1, LanesAdd
  <2>4. K!Summed(acc, Lanes) = K!Summed(Contributions, idx)
    BY <1>1, <1>8 DEF KernelInv
  <2>5. K!Summed(Contributions, idx + Lanes) \in Int /\ K!Summed(Contributions, idx) \in Int
    <3>1. idx + Lanes \in 0 .. n /\ idx \in 0 .. n
      BY <1>0, <1>1
    <3> QED
      BY <3>1, ContributionsType DEF KernelInv
  <2>6. K!Summed(acc', Lanes) = K!Summed(Contributions, idx + Lanes)
    BY <2>3, <2>4, <2>5
  <2>7. K!Summed(Contributions, idx)' = K!Summed(Contributions, idx + Lanes)
    BY <1>1, ContributionsKept DEF K!Summed
  <2>8. K!Summed(acc, Lanes)' = K!Summed(acc', Lanes)
    BY DEF K!Summed
  <2> QED
    BY <2>6, <2>7, <2>8
<1>9. K!Stores' = K!Stores
  BY <1>1, ElementsKept
<1> QED
  BY <1>1, <1>6, <1>7, <1>8, <1>9 DEF KernelInv

LEMMA HorizontalSteps == KernelInv /\ K!Horizontal => KernelInv'
<1> SUFFICES ASSUME KernelInv, K!Horizontal PROVE KernelInv'
  OBVIOUS
<1>1. /\ kpc = "vector" /\ kpc' = "tail" /\ sum' = K!Summed(acc, Lanes)
      /\ op' = op /\ n' = n /\ idx' = idx /\ dst' = dst /\ acc' = acc
  BY DEF K!Horizontal
<1>2. sum' \in Int
  <2>1. Lanes \in Nat /\ \A l \in 1 .. Lanes : acc[l] \in Int
    BY KernelsAssumption DEF KernelInv, KernelTypes
  <2>2. Lanes \in 0 .. Lanes
    BY <2>1
  <2> QED
    BY <1>1, <2>1, <2>2, SummedType
<1>3. KernelTypes'
  BY <1>1, <1>2 DEF KernelInv, KernelTypes
<1>4. dst' = StoredTo(idx)' /\ K!Stores' = K!Stores
  BY <1>1, ElementsKept DEF KernelInv, StoredTo
<1>5. K!Summed(Contributions, idx)' = K!Summed(Contributions, idx)
  BY <1>1, ContributionsKept DEF K!Summed
<1> QED
  BY <1>1, <1>3, <1>4, <1>5 DEF KernelInv

LEMMA TailSteps == KernelInv /\ K!TailStep => KernelInv'
<1> SUFFICES ASSUME KernelInv, K!TailStep PROVE KernelInv'
  OBVIOUS
<1>0. MaxN \in Nat /\ idx \in Nat /\ n \in Nat /\ n <= MaxN
  BY KernelsAssumption DEF KernelInv, KernelTypes
<1>1. /\ kpc = "tail" /\ idx < n /\ idx' = idx + 1
      /\ op' = op /\ n' = n /\ acc' = acc /\ kpc' = kpc
      /\ K!Stores => dst' = [dst EXCEPT ![idx + 1] = K!Element(idx + 1)] /\ sum' = sum
      /\ ~K!Stores => sum' = sum + K!Element(idx + 1) /\ dst' = dst
  BY DEF K!TailStep
<1>2. idx + 1 \in 1 .. n /\ idx' \in 0 .. n /\ idx \in 0 .. n /\ idx + 1 \in 1 .. MaxN + 1
  BY <1>0, <1>1
<1>3. K!Element(idx + 1) = Contributions[idx + 1] /\ K!Element(idx + 1) \in Int
  BY <1>2, ContributionsType DEF KernelInv
<1>4. sum' \in Int
  BY <1>1, <1>3 DEF KernelInv, KernelTypes
<1>5. KernelTypes'
  BY <1>1, <1>2, <1>4 DEF KernelInv, KernelTypes
<1>6. dst' = StoredTo(idx)'
  <2>1. StoredTo(idx)' = [k \in 1 .. MaxN + 1 |-> IF K!Stores /\ k <= idx + 1 THEN K!Element(k) ELSE 0]
    BY <1>1, ElementsKept DEF StoredTo
  <2>2. dst = [k \in 1 .. MaxN + 1 |-> IF K!Stores /\ k <= idx THEN K!Element(k) ELSE 0]
    BY DEF KernelInv, StoredTo
  <2>3. CASE K!Stores
    <3>1. \A k \in 1 .. MaxN + 1 : k <= idx + 1 <=> k <= idx \/ k = idx + 1
      BY <1>0
    <3>2. dst' = [k \in 1 .. MaxN + 1 |-> IF k = idx + 1 THEN K!Element(k)
                                          ELSE IF k <= idx THEN K!Element(k) ELSE 0]
      BY <1>1, <1>2, <2>2, <2>3
    <3> QED
      BY <2>1, <2>3, <3>1, <3>2
  <2>4. CASE ~K!Stores
    BY <1>1, <2>1, <2>2, <2>4
  <2> QED
    BY <2>3, <2>4
<1>7. ASSUME ~K!Stores PROVE sum' = K!Summed(Contributions, idx)'
  <2>1. sum = K!Summed(Contributions, idx)
    BY <1>1, <1>7 DEF KernelInv
  <2>2. K!Summed(Contributions, idx + 1) = K!Summed(Contributions, idx) + Contributions[idx + 1]
    BY <1>0, SummedSteps
  <2>3. K!Summed(Contributions, idx)' = K!Summed(Contributions, idx + 1)
    BY <1>1, ContributionsKept DEF K!Summed
  <2> QED
    BY <1>1, <1>3, <1>7, <2>1, <2>2, <2>3
<1>8. K!Stores' = K!Stores
  BY <1>1, ElementsKept
<1> QED
  BY <1>1, <1>5, <1>6, <1>7, <1>8 DEF KernelInv

LEMMA KernelNext == KernelInv /\ [K!Next]_(K!vars) => KernelInv'
<1> SUFFICES ASSUME KernelInv, [K!Next]_(K!vars) PROVE KernelInv'
  OBVIOUS
<1>1. ASSUME op' = op, n' = n, idx' = idx, dst' = dst, acc' = acc, sum' = sum,
             kpc' = kpc \/ (kpc = "tail" /\ idx >= n /\ kpc' = "done")
      PROVE  KernelInv'
  <2>1. idx \in Nat /\ n \in Nat /\ idx <= n
    BY KernelsAssumption DEF KernelInv, KernelTypes
  <2>2. KernelTypes' /\ (kpc' = "done" => idx' = n')
    BY <1>1, <2>1 DEF KernelInv, KernelTypes
  <2>3. dst' = StoredTo(idx)' /\ K!Stores' = K!Stores
    BY <1>1, ElementsKept DEF KernelInv, StoredTo
  <2>4. /\ K!Summed(Contributions, idx)' = K!Summed(Contributions, idx)
        /\ K!Summed(acc, Lanes)' = K!Summed(acc, Lanes)
    BY <1>1, ContributionsKept DEF K!Summed
  <2> QED
    BY <1>1, <2>2, <2>3, <2>4 DEF KernelInv
<1>2. CASE K!VectorStep
  BY <1>2, VectorSteps
<1>3. CASE K!Horizontal
  BY <1>3, HorizontalSteps
<1>4. CASE K!TailStep
  BY <1>4, TailSteps
<1>5. CASE K!Return
  BY <1>1, <1>5 DEF K!Return
<1>6. CASE UNCHANGED K!vars
  BY <1>1, <1>6 DEF K!vars
<1> QED
  BY <1>2, <1>3, <1>4, <1>5, <1>6 DEF K!Next

LEMMA KernelIs == KernelInv => K!KernelIsExact
<1> SUFFICES ASSUME KernelInv, kpc = "done" PROVE K!KernelIsExact
  BY DEF K!KernelIsExact
<1>1. idx = n /\ dst = StoredTo(n) /\ (~K!Stores => sum = K!Summed(Contributions, n))
  BY DEF KernelInv
<1>2. \A k \in DOMAIN dst : dst[k] = IF K!Stores /\ k <= n THEN K!Element(k) ELSE 0
  BY <1>1 DEF StoredTo
<1> QED
  BY <1>1, <1>2 DEF K!KernelIsExact, Contributions

(***************************************************************************)
(* simd_add_f32 and its siblings: whatever the arrays hold, for every      *)
(* length and every width of the vectors, with or without SIMD, each       *)
(* element is processed once and none behind the last is.                  *)
(***************************************************************************)
THEOREM Kernels == K!Spec => []K!KernelIsExact
<1> QED
  BY KernelInit, KernelNext, KernelIs, PTL DEF K!Spec

=============================================================================
