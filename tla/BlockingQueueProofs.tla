------------------------- MODULE BlockingQueueProofs -------------------------
(***************************************************************************)
(* Theorems about BlockingQueue for every finite set of threads and every  *)
(* capacity: type correctness, and that no wake-up is lost.                *)
(***************************************************************************)
EXTENDS BlockingQueue, FiniteSetTheorems, TLAPS

(***************************************************************************)
(* TypeOK is not inductive: bq_push writes through q->data, so the queue   *)
(* must have storage while anyone is inside a call, and it stores elem[t], *)
(* so a producer must be carrying an element.                              *)
(***************************************************************************)
Carrying == \A t \in Threads : pc[t] \in {"push", "waitNotFull"} => elem[t] \in Values
StorageInUse == data = NULL => \A t \in Threads : pc[t] = "idle"

TypeInv == TypeOK /\ Carrying /\ StorageInUse

\* An index reduced modulo the capacity is a slot.
LEMMA ModSlot == \A n \in Nat : n % Capacity \in Slots
BY CapacityAssumption DEF Slots

\* Signalling moves threads between labels, whoever is woken.
LEMMA SignalType ==
  ASSUME NEW t \in Threads, NEW w \in PcLabels, NEW l \in PcLabels,
         pc \in [Threads -> PcLabels], SignalTo(t, w, l)
  PROVE  pc' \in [Threads -> PcLabels]
BY DEF SignalTo, At, PcLabels

\* A freshly loaded program is in a well-typed state.
LEMMA TypeInvInit == Init => TypeInv
<1> SUFFICES ASSUME Init PROVE TypeInv
  OBVIOUS
<1> USE CapacityAssumption DEF Init
<1>1. data \in {NULL} \cup [Slots -> Cells]
  OBVIOUS
<1>2. head \in Slots /\ len \in 0 .. Capacity
  BY DEF Slots
<1>6. closed \in BOOLEAN
  BY Zenon
<1>3. pc \in [Threads -> PcLabels] /\ elem \in [Threads -> Values \cup {NULL}]
  BY DEF PcLabels
<1>4. ret \in [Threads -> [code : Codes, out : Cells \cup {NULL}]]
  BY DEF Codes, Result
<1>5. Carrying /\ StorageInUse
  BY DEF Carrying, StorageInUse
<1> QED
  BY <1>1, <1>2, <1>3, <1>4, <1>5, <1>6 DEF TypeInv, TypeOK

\* A returned result is well typed.
LEMMA ReturnType ==
  ASSUME NEW t \in Threads, NEW c \in Codes, NEW v \in Cells \cup {NULL},
         ret \in [Threads -> [code : Codes, out : Cells \cup {NULL}]],
         Return(t, c, v)
  PROVE  ret' \in [Threads -> [code : Codes, out : Cells \cup {NULL}]]
BY DEF Return, Result

\* Every step keeps the typing invariant, one case per action.
LEMMA TypeInvNext == TypeInv /\ [Next]_vars => TypeInv'
<1> SUFFICES ASSUME TypeInv, [Next]_vars PROVE TypeInv'
  OBVIOUS
<1> USE CapacityAssumption, ValuesAssumption
<1>T. TypeOK /\ Carrying /\ StorageInUse
  BY DEF TypeInv
<1>R. \A t \in Threads, c \in Codes, v \in Cells \cup {NULL} :
        Return(t, c, v) => ret' \in [Threads -> [code : Codes, out : Cells \cup {NULL}]]
  BY <1>T, ReturnType DEF TypeOK
<1>C. {"ERR_OK", "ERR_INVALID_ARG", "ERR_UNSUPPORTED", "ERR_NOT_FOUND"} \subseteq Codes
  BY DEF Codes
<1>1. CASE BqInit
  <2>1. head' \in Slots /\ len' \in 0 .. Capacity
    BY <1>1 DEF BqInit, Slots
  <2>2. closed' \in BOOLEAN
    BY <1>1, Zenon DEF BqInit
  <2>3. data' \in {NULL} \cup [Slots -> Cells]
    BY <1>1 DEF BqInit, Cells
  <2>4. TypeOK'
    BY <2>1, <2>2, <2>3, <1>1, <1>T DEF BqInit, TypeOK
  <2>5. Carrying' /\ StorageInUse'
    BY <1>1, <1>T DEF BqInit, Carrying, StorageInUse
  <2> QED
    BY <2>4, <2>5 DEF TypeInv
<1>2. CASE BqDestroy
  <2>1. TypeOK'
    BY <1>2, <1>T DEF BqDestroy, TypeOK
  <2>2. Carrying' /\ StorageInUse'
    BY <1>2, <1>T DEF BqDestroy, Carrying, StorageInUse, At
  <2> QED
    BY <2>1, <2>2 DEF TypeInv
<1>3. CASE BqClose
  <2>1. pc' \in [Threads -> PcLabels]
    BY <1>3, <1>T DEF BqClose, TypeOK, PcLabels
  <2>2. \A t \in Threads : pc'[t] \in {"push", "waitNotFull"} => pc[t] \in {"push", "waitNotFull"}
    BY <1>3, <1>T DEF BqClose, TypeOK, PcLabels
  <2>3. TypeOK'
    BY <2>1, <1>3, <1>T DEF BqClose, TypeOK
  <2>4. Carrying' /\ StorageInUse'
    BY <2>2, <1>3, <1>T DEF BqClose, Carrying, StorageInUse
  <2> QED
    BY <2>3, <2>4 DEF TypeInv
<1>4. ASSUME NEW t \in Threads, NEW p \in Values \cup {NULL}, InvalidArg(t, p)
      PROVE  TypeInv'
  BY <1>4, <1>T, <1>R, <1>C DEF InvalidArg, TypeInv, TypeOK, Carrying, StorageInUse
<1>5. ASSUME NEW t \in Threads, NEW e \in Values, BqPushCall(t, e)
      PROVE  TypeInv'
  <2>1. TypeOK'
    BY <1>5, <1>T DEF BqPushCall, TypeOK, PcLabels
  <2>2. Carrying' /\ StorageInUse'
    BY <1>5, <1>T DEF BqPushCall, TypeOK, Carrying, StorageInUse
  <2> QED
    BY <2>1, <2>2 DEF TypeInv
<1>6. ASSUME NEW t \in Threads, BqPopCall(t)
      PROVE  TypeInv'
  <2>1. TypeOK'
    BY <1>6, <1>T DEF BqPopCall, TypeOK, PcLabels
  <2>2. Carrying' /\ StorageInUse'
    BY <1>6, <1>T DEF BqPopCall, TypeOK, Carrying, StorageInUse
  <2> QED
    BY <2>1, <2>2 DEF TypeInv
<1>7. ASSUME NEW t \in Threads, PushWait(t)
      PROVE  TypeInv'
  <2>1. TypeOK'
    BY <1>7, <1>T DEF PushWait, TypeOK, PcLabels
  <2>2. Carrying' /\ StorageInUse'
    BY <1>7, <1>T DEF PushWait, TypeOK, Carrying, StorageInUse
  <2> QED
    BY <2>1, <2>2 DEF TypeInv
<1>8. ASSUME NEW t \in Threads, PushClosed(t)
      PROVE  TypeInv'
  <2>1. ret' \in [Threads -> [code : Codes, out : Cells \cup {NULL}]]
    BY <1>8, <1>R, <1>C DEF PushClosed
  <2>2. TypeOK'
    BY <2>1, <1>8, <1>T DEF PushClosed, TypeOK, PcLabels
  <2>3. Carrying' /\ StorageInUse'
    BY <1>8, <1>T DEF PushClosed, TypeOK, Carrying, StorageInUse
  <2> QED
    BY <2>2, <2>3 DEF TypeInv
<1>9. ASSUME NEW t \in Threads, PushOk(t)
      PROVE  TypeInv'
  <2>1. data \in [Slots -> Cells] /\ elem[t] \in Values
    BY <1>9, <1>T DEF PushOk, TypeOK, Carrying, StorageInUse
  <2>2. data' \in [Slots -> Cells]
    BY <2>1, <1>9 DEF PushOk, Cells
  <2>3. len' \in 0 .. Capacity /\ head' \in Slots /\ closed' \in BOOLEAN
    BY <1>9, <1>T DEF PushOk, TypeOK
  <2>4. pc' \in [Threads -> PcLabels]
    BY <1>9, <1>T, SignalType DEF PushOk, TypeOK, PcLabels
  <2>5. elem' \in [Threads -> Values \cup {NULL}]
    BY <1>9, <1>T DEF PushOk, TypeOK
  <2>6. ret' \in [Threads -> [code : Codes, out : Cells \cup {NULL}]]
    BY <1>9, <1>R, <1>C DEF PushOk
  <2>7. data # NULL /\ data' # NULL
    BY <2>2, NullAssumption, <1>9, <1>T DEF PushOk, StorageInUse
  <2>8. \A u \in Threads : pc'[u] \in {"push", "waitNotFull"}
                             => u # t /\ pc[u] \in {"push", "waitNotFull"}
    BY <1>9, <1>T DEF PushOk, SignalTo, TypeOK, At
  <2>9. Carrying'
    BY <2>8, <1>9, <1>T DEF PushOk, TypeOK, Carrying
  <2> QED
    BY <2>2, <2>3, <2>4, <2>5, <2>6, <2>7, <2>9 DEF TypeInv, TypeOK, StorageInUse
<1>10. ASSUME NEW t \in Threads, PopWait(t)
       PROVE  TypeInv'
  <2>1. TypeOK'
    BY <1>10, <1>T DEF PopWait, TypeOK, PcLabels
  <2>2. Carrying' /\ StorageInUse'
    BY <1>10, <1>T DEF PopWait, TypeOK, Carrying, StorageInUse
  <2> QED
    BY <2>1, <2>2 DEF TypeInv
<1>11. ASSUME NEW t \in Threads, PopDrained(t)
       PROVE  TypeInv'
  <2>1. ret' \in [Threads -> [code : Codes, out : Cells \cup {NULL}]]
    BY <1>11, <1>R, <1>C DEF PopDrained
  <2>2. TypeOK'
    BY <2>1, <1>11, <1>T DEF PopDrained, TypeOK, PcLabels
  <2>3. Carrying' /\ StorageInUse'
    BY <1>11, <1>T DEF PopDrained, TypeOK, Carrying, StorageInUse
  <2> QED
    BY <2>2, <2>3 DEF TypeInv
<1>12. ASSUME NEW t \in Threads, PopOk(t)
       PROVE  TypeInv'
  <2>1. data \in [Slots -> Cells] /\ data[head] \in Cells
    BY <1>12, <1>T DEF PopOk, TypeOK, StorageInUse
  <2>2. len' \in 0 .. Capacity /\ closed' \in BOOLEAN
    BY <1>12, <1>T DEF PopOk, TypeOK
  <2>3. head' \in Slots
    <3>1. head + 1 \in Nat
      BY <1>T DEF TypeOK, Slots
    <3> QED
      BY <3>1, <1>12, ModSlot DEF PopOk
  <2>4. pc' \in [Threads -> PcLabels]
    BY <1>12, <1>T, SignalType DEF PopOk, TypeOK, PcLabels
  <2>5. ret' \in [Threads -> [code : Codes, out : Cells \cup {NULL}]]
    BY <2>1, <1>12, <1>R, <1>C DEF PopOk
  <2>6. data' # NULL
    BY <1>12, <1>T DEF PopOk, StorageInUse
  <2>7. \A u \in Threads : pc'[u] \in {"push", "waitNotFull"}
                             => pc[u] \in {"push", "waitNotFull"}
    BY <1>12, <1>T DEF PopOk, SignalTo, TypeOK, At
  <2>8. Carrying' /\ StorageInUse'
    BY <2>6, <2>7, <1>12, <1>T DEF PopOk, Carrying, StorageInUse
  <2>9. TypeOK'
    BY <2>2, <2>3, <2>4, <2>5, <1>12, <1>T DEF PopOk, TypeOK
  <2> QED
    BY <2>8, <2>9 DEF TypeInv
<1>13. ASSUME NEW t \in Threads, SpuriousWakeup(t)
       PROVE  TypeInv'
  <2>1. TypeOK'
    BY <1>13, <1>T DEF SpuriousWakeup, TypeOK, PcLabels
  <2>2. Carrying' /\ StorageInUse'
    BY <1>13, <1>T DEF SpuriousWakeup, TypeOK, Carrying, StorageInUse
  <2> QED
    BY <2>1, <2>2 DEF TypeInv
<1>14. CASE UNCHANGED vars
  BY <1>14, <1>T DEF vars, TypeInv, TypeOK, Carrying, StorageInUse
<1> QED
  BY <1>1, <1>2, <1>3, <1>4, <1>5, <1>6, <1>7, <1>8, <1>9, <1>10, <1>11, <1>12,
     <1>13, <1>14 DEF Next, Push, Pop

(***************************************************************************)
(* Type correctness: head stays inside the ring, len between 0 and the     *)
(* capacity, and no call ever returns something that is not an element,    *)
(* for every number of threads and every capacity.                         *)
(***************************************************************************)
THEOREM TypeCorrect == Spec => []TypeOK
<1>1. Spec => []TypeInv
  BY TypeInvInit, TypeInvNext, PTL DEF Spec
<1>2. TypeInv => TypeOK
  BY DEF TypeInv
<1> QED
  BY <1>1, <1>2, PTL

-----------------------------------------------------------------------------
(***************************************************************************)
(* No lost wake-up.  The two invariants are inductive once the typing      *)
(* invariant is known: they count the awake threads against the elements,  *)
(* or the free slots, that are there for them.                             *)
(***************************************************************************)

\* The threads at a label are finitely many.
LEMMA AtFinite == \A l : IsFiniteSet(At(l)) /\ Cardinality(At(l)) \in Nat
BY ThreadsAssumption, FS_Subset, FS_CardinalityType DEF At

\* One more thread at a label is one more in the count.
LEMMA CountAdd ==
  ASSUME NEW S, IsFiniteSet(S), NEW x, x \notin S
  PROVE  Cardinality(S \cup {x}) = Cardinality(S) + 1
BY FS_AddElement

\* One thread less at a label is one less in the count.
LEMMA CountRemove ==
  ASSUME NEW S, IsFiniteSet(S), NEW x \in S
  PROVE  Cardinality(S \ {x}) = Cardinality(S) - 1
BY FS_RemoveElement

\* While a consumer sleeps on not_empty there is an awake one per element.
LEMMA NotEmptyNext == TypeInv /\ NoLostNotEmpty /\ [Next]_vars => NoLostNotEmpty'
<1> SUFFICES ASSUME TypeInv, NoLostNotEmpty, [Next]_vars, At("waitNotEmpty")' # {}
             PROVE  ~closed' /\ len' <= Cardinality(At("pop"))'
  BY DEF NoLostNotEmpty
<1>T. TypeOK /\ StorageInUse
  BY DEF TypeInv
<1>P. pc \in [Threads -> PcLabels]
  BY <1>T DEF TypeOK
<1>L. len \in 0 .. Capacity /\ Capacity \in Nat
  BY <1>T, CapacityAssumption DEF TypeOK
<1>F. IsFiniteSet(At("pop")) /\ Cardinality(At("pop")) \in Nat
  BY AtFinite
<1>1. CASE BqInit \/ BqDestroy
  <2>1. At("waitNotEmpty")' = {}
    BY <1>1, <1>T DEF BqInit, BqDestroy, StorageInUse, At
  <2> QED
    BY <2>1
<1>2. CASE BqClose
  <2>1. At("waitNotEmpty")' = {}
    BY <1>2, <1>P DEF BqClose, At, PcLabels
  <2> QED
    BY <2>1
<1>3. ASSUME NEW t \in Threads,
             \/ \E p \in Values \cup {NULL} : InvalidArg(t, p)
             \/ \E e \in Values : BqPushCall(t, e)
             \/ PushWait(t)
      PROVE  ~closed' /\ len' <= Cardinality(At("pop"))'
  <2>1. At("waitNotEmpty")' = At("waitNotEmpty") /\ At("pop")' = At("pop")
    BY <1>3, <1>P DEF InvalidArg, BqPushCall, PushWait, At
  <2>2. len' = len /\ closed' = closed
    BY <1>3 DEF InvalidArg, BqPushCall, PushWait
  <2> QED
    BY <2>1, <2>2 DEF NoLostNotEmpty
<1>4. ASSUME NEW t \in Threads, BqPopCall(t)
      PROVE  ~closed' /\ len' <= Cardinality(At("pop"))'
  <2>1. /\ At("waitNotEmpty")' = At("waitNotEmpty")
        /\ At("pop")' = At("pop") \cup {t} /\ t \notin At("pop")
    BY <1>4, <1>P DEF BqPopCall, At
  <2>2. Cardinality(At("pop"))' = Cardinality(At("pop")) + 1
    BY <2>1, <1>F, CountAdd
  <2>3. ~closed /\ len <= Cardinality(At("pop"))
    BY <2>1 DEF NoLostNotEmpty
  <2> QED
    BY <2>2, <2>3, <1>4, <1>F, <1>L DEF BqPopCall
<1>5. ASSUME NEW t \in Threads, PushClosed(t) \/ PopDrained(t)
      PROVE  ~closed' /\ len' <= Cardinality(At("pop"))'
  <2>1. At("waitNotEmpty")' = At("waitNotEmpty")
    BY <1>5, <1>P DEF PushClosed, PopDrained, At
  <2>2. At("waitNotEmpty") = {}
    BY <1>5 DEF PushClosed, PopDrained, NoLostNotEmpty
  <2> QED
    BY <2>1, <2>2
<1>6. ASSUME NEW t \in Threads, PushOk(t)
      PROVE  ~closed' /\ len' <= Cardinality(At("pop"))'
  <2>1. PICK u \in At("waitNotEmpty") : pc' = [pc EXCEPT ![t] = "idle", ![u] = "pop"]
    <3>1. CASE At("waitNotEmpty") = {} /\ pc' = [pc EXCEPT ![t] = "idle"]
      <4>1. At("waitNotEmpty")' = {}
        BY <3>1, <1>P DEF At
      <4> QED
        BY <4>1
    <3> QED
      BY <3>1, <1>6 DEF PushOk, SignalTo
  <2>2. At("pop")' = At("pop") \cup {u} /\ u \notin At("pop")
    BY <2>1, <1>6, <1>P DEF PushOk, At
  <2>3. Cardinality(At("pop"))' = Cardinality(At("pop")) + 1
    BY <2>2, <1>F, CountAdd
  <2>4. ~closed /\ len <= Cardinality(At("pop"))
    BY <2>1 DEF NoLostNotEmpty
  <2> QED
    BY <2>3, <2>4, <1>6, <1>F, <1>L DEF PushOk
<1>7. ASSUME NEW t \in Threads, PopWait(t)
      PROVE  ~closed' /\ len' <= Cardinality(At("pop"))'
  <2>1. At("pop")' = At("pop") \ {t}
    BY <1>7, <1>P DEF PopWait, At
  <2>2. Cardinality(At("pop"))' \in Nat
    BY <2>1, <1>F, FS_RemoveElement, FS_CardinalityType
  <2> QED
    BY <2>2, <1>7 DEF PopWait
<1>8. ASSUME NEW t \in Threads, PopOk(t)
      PROVE  ~closed' /\ len' <= Cardinality(At("pop"))'
  <2>1. /\ At("waitNotEmpty")' = At("waitNotEmpty")
        /\ At("pop")' = At("pop") \ {t} /\ t \in At("pop")
    BY <1>8, <1>P DEF PopOk, SignalTo, At
  <2>2. Cardinality(At("pop"))' = Cardinality(At("pop")) - 1
    BY <2>1, <1>F, CountRemove
  <2>3. ~closed /\ len <= Cardinality(At("pop"))
    BY <2>1 DEF NoLostNotEmpty
  <2> QED
    BY <2>2, <2>3, <1>8, <1>F, <1>L DEF PopOk
<1>9. ASSUME NEW t \in Threads, SpuriousWakeup(t)
      PROVE  ~closed' /\ len' <= Cardinality(At("pop"))'
  <2>1. CASE pc[t] = "waitNotFull"
    <3>1. At("waitNotEmpty")' = At("waitNotEmpty") /\ At("pop")' = At("pop")
      BY <2>1, <1>9, <1>P DEF SpuriousWakeup, At
    <3> QED
      BY <3>1, <1>9 DEF NoLostNotEmpty, SpuriousWakeup
  <2>2. CASE pc[t] = "waitNotEmpty"
    <3>1. /\ At("waitNotEmpty") # {}
          /\ At("pop")' = At("pop") \cup {t} /\ t \notin At("pop")
      BY <2>2, <1>9, <1>P DEF SpuriousWakeup, At
    <3>2. Cardinality(At("pop"))' = Cardinality(At("pop")) + 1
      BY <3>1, <1>F, CountAdd
    <3>3. ~closed /\ len <= Cardinality(At("pop"))
      BY <3>1 DEF NoLostNotEmpty
    <3> QED
      BY <3>2, <3>3, <1>9, <1>F, <1>L DEF SpuriousWakeup
  <2> QED
    BY <2>1, <2>2, <1>9 DEF SpuriousWakeup
<1>10. CASE UNCHANGED vars
  <2>1. At("waitNotEmpty")' = At("waitNotEmpty") /\ At("pop")' = At("pop")
    BY <1>10 DEF vars, At
  <2> QED
    BY <2>1, <1>10 DEF vars, NoLostNotEmpty
<1> QED
  BY <1>1, <1>2, <1>3, <1>4, <1>5, <1>6, <1>7, <1>8, <1>9, <1>10 DEF Next, Push, Pop

\* While a producer sleeps on not_full there is an awake one per free slot.
LEMMA NotFullNext == TypeInv /\ NoLostNotFull /\ [Next]_vars => NoLostNotFull'
<1> SUFFICES ASSUME TypeInv, NoLostNotFull, [Next]_vars, At("waitNotFull")' # {}
             PROVE  ~closed' /\ Capacity - len' <= Cardinality(At("push"))'
  BY DEF NoLostNotFull
<1>T. TypeOK /\ StorageInUse
  BY DEF TypeInv
<1>P. pc \in [Threads -> PcLabels]
  BY <1>T DEF TypeOK
<1>L. len \in 0 .. Capacity /\ Capacity \in Nat
  BY <1>T, CapacityAssumption DEF TypeOK
<1>F. IsFiniteSet(At("push")) /\ Cardinality(At("push")) \in Nat
  BY AtFinite
<1>1. CASE BqInit \/ BqDestroy
  <2>1. At("waitNotFull")' = {}
    BY <1>1, <1>T DEF BqInit, BqDestroy, StorageInUse, At
  <2> QED
    BY <2>1
<1>2. CASE BqClose
  <2>1. At("waitNotFull")' = {}
    BY <1>2, <1>P DEF BqClose, At, PcLabels
  <2> QED
    BY <2>1
<1>3. ASSUME NEW t \in Threads,
             \/ \E p \in Values \cup {NULL} : InvalidArg(t, p)
             \/ BqPopCall(t)
             \/ PopWait(t)
      PROVE  ~closed' /\ Capacity - len' <= Cardinality(At("push"))'
  <2>1. At("waitNotFull")' = At("waitNotFull") /\ At("push")' = At("push")
    BY <1>3, <1>P DEF InvalidArg, BqPopCall, PopWait, At
  <2>2. len' = len /\ closed' = closed
    BY <1>3 DEF InvalidArg, BqPopCall, PopWait
  <2> QED
    BY <2>1, <2>2 DEF NoLostNotFull
<1>4. ASSUME NEW t \in Threads, NEW e \in Values, BqPushCall(t, e)
      PROVE  ~closed' /\ Capacity - len' <= Cardinality(At("push"))'
  <2>1. /\ At("waitNotFull")' = At("waitNotFull")
        /\ At("push")' = At("push") \cup {t} /\ t \notin At("push")
    BY <1>4, <1>P DEF BqPushCall, At
  <2>2. Cardinality(At("push"))' = Cardinality(At("push")) + 1
    BY <2>1, <1>F, CountAdd
  <2>3. ~closed /\ Capacity - len <= Cardinality(At("push"))
    BY <2>1 DEF NoLostNotFull
  <2> QED
    BY <2>2, <2>3, <1>4, <1>F, <1>L DEF BqPushCall
<1>5. ASSUME NEW t \in Threads, PushClosed(t) \/ PopDrained(t)
      PROVE  ~closed' /\ Capacity - len' <= Cardinality(At("push"))'
  <2>1. At("waitNotFull")' = At("waitNotFull")
    BY <1>5, <1>P DEF PushClosed, PopDrained, At
  <2>2. At("waitNotFull") = {}
    BY <1>5 DEF PushClosed, PopDrained, NoLostNotFull
  <2> QED
    BY <2>1, <2>2
<1>6. ASSUME NEW t \in Threads, PopOk(t)
      PROVE  ~closed' /\ Capacity - len' <= Cardinality(At("push"))'
  <2>1. PICK u \in At("waitNotFull") : pc' = [pc EXCEPT ![t] = "idle", ![u] = "push"]
    <3>1. CASE At("waitNotFull") = {} /\ pc' = [pc EXCEPT ![t] = "idle"]
      <4>1. At("waitNotFull")' = {}
        BY <3>1, <1>P DEF At
      <4> QED
        BY <4>1
    <3> QED
      BY <3>1, <1>6 DEF PopOk, SignalTo
  <2>2. At("push")' = At("push") \cup {u} /\ u \notin At("push")
    BY <2>1, <1>6, <1>P DEF PopOk, At
  <2>3. Cardinality(At("push"))' = Cardinality(At("push")) + 1
    BY <2>2, <1>F, CountAdd
  <2>4. ~closed /\ Capacity - len <= Cardinality(At("push"))
    BY <2>1 DEF NoLostNotFull
  <2> QED
    BY <2>3, <2>4, <1>6, <1>F, <1>L DEF PopOk
<1>7. ASSUME NEW t \in Threads, PushWait(t)
      PROVE  ~closed' /\ Capacity - len' <= Cardinality(At("push"))'
  <2>1. At("push")' = At("push") \ {t}
    BY <1>7, <1>P DEF PushWait, At
  <2>2. Cardinality(At("push"))' \in Nat
    BY <2>1, <1>F, FS_RemoveElement, FS_CardinalityType
  <2> QED
    BY <2>2, <1>7, <1>L DEF PushWait
<1>8. ASSUME NEW t \in Threads, PushOk(t)
      PROVE  ~closed' /\ Capacity - len' <= Cardinality(At("push"))'
  <2>1. /\ At("waitNotFull")' = At("waitNotFull")
        /\ At("push")' = At("push") \ {t} /\ t \in At("push")
    BY <1>8, <1>P DEF PushOk, SignalTo, At
  <2>2. Cardinality(At("push"))' = Cardinality(At("push")) - 1
    BY <2>1, <1>F, CountRemove
  <2>3. ~closed /\ Capacity - len <= Cardinality(At("push"))
    BY <2>1 DEF NoLostNotFull
  <2> QED
    BY <2>2, <2>3, <1>8, <1>F, <1>L DEF PushOk
<1>9. ASSUME NEW t \in Threads, SpuriousWakeup(t)
      PROVE  ~closed' /\ Capacity - len' <= Cardinality(At("push"))'
  <2>1. CASE pc[t] = "waitNotEmpty"
    <3>1. At("waitNotFull")' = At("waitNotFull") /\ At("push")' = At("push")
      BY <2>1, <1>9, <1>P DEF SpuriousWakeup, At
    <3> QED
      BY <3>1, <1>9 DEF NoLostNotFull, SpuriousWakeup
  <2>2. CASE pc[t] = "waitNotFull"
    <3>1. /\ At("waitNotFull") # {}
          /\ At("push")' = At("push") \cup {t} /\ t \notin At("push")
      BY <2>2, <1>9, <1>P DEF SpuriousWakeup, At
    <3>2. Cardinality(At("push"))' = Cardinality(At("push")) + 1
      BY <3>1, <1>F, CountAdd
    <3>3. ~closed /\ Capacity - len <= Cardinality(At("push"))
      BY <3>1 DEF NoLostNotFull
    <3> QED
      BY <3>2, <3>3, <1>9, <1>F, <1>L DEF SpuriousWakeup
  <2> QED
    BY <2>1, <2>2, <1>9 DEF SpuriousWakeup
<1>10. CASE UNCHANGED vars
  <2>1. At("waitNotFull")' = At("waitNotFull") /\ At("push")' = At("push")
    BY <1>10 DEF vars, At
  <2> QED
    BY <2>1, <1>10 DEF vars, NoLostNotFull
<1> QED
  BY <1>1, <1>2, <1>3, <1>4, <1>5, <1>6, <1>7, <1>8, <1>9, <1>10 DEF Next, Push, Pop

\* Nobody sleeps before the first call.
LEMMA NoLostInit == Init => NoLostNotEmpty /\ NoLostNotFull
<1> SUFFICES ASSUME Init PROVE At("waitNotEmpty") = {} /\ At("waitNotFull") = {}
  BY DEF NoLostNotEmpty, NoLostNotFull
<1> QED
  BY DEF Init, At

(***************************************************************************)
(* No lost wake-up: however the threads of bq_push, bq_pop and bq_close    *)
(* interleave, a consumer sleeps only while the queue is open and every    *)
(* element held has an awake consumer, and a producer only while every     *)
(* free slot has an awake producer.  One pthread_cond_signal per push and  *)
(* per pop is therefore enough, for any number of threads.                 *)
(***************************************************************************)
THEOREM NoLostWakeup == Spec => []NoLostWakeups
<1>1. Spec => []TypeInv
  BY TypeInvInit, TypeInvNext, PTL DEF Spec
<1>2. TypeInv /\ NoLostWakeups /\ [Next]_vars => NoLostWakeups'
  BY NotEmptyNext, NotFullNext DEF NoLostWakeups
<1>3. Init => NoLostWakeups
  BY NoLostInit DEF NoLostWakeups
<1> QED
  BY <1>1, <1>2, <1>3, PTL DEF Spec

-----------------------------------------------------------------------------
(***************************************************************************)
(* The refinement of ClosableFifo.  The ring arithmetic is behind two      *)
(* lemmas about Contents, the rest follows step by step.                   *)
(***************************************************************************)

\* An index of the ring that is less than once around is itself, one that is
\* less than twice around is the index less the capacity.
LEMMA ModRing ==
  ASSUME NEW h \in Slots, NEW k \in 0 .. Capacity
  PROVE  (h + k) % Capacity = IF h + k < Capacity THEN h + k ELSE h + k - Capacity
<1>1. ASSUME NEW C \in Nat \ {0}, NEW x \in 0 .. C - 1
      PROVE  x % C = x
  OBVIOUS
<1>2. ASSUME NEW C \in Nat \ {0}, NEW x \in C .. 2 * C - 1
      PROVE  x % C = x - C
  OBVIOUS
<1> QED
  BY <1>1, <1>2, CapacityAssumption DEF Slots

\* The free slot behind the elements is none of theirs.
LEMMA FreeSlotIsFree ==
  ASSUME NEW h \in Slots, NEW n \in 0 .. Capacity - 1, NEW i \in 1 .. n
  PROVE  (h + i - 1) % Capacity # (h + n) % Capacity
<1> USE CapacityAssumption
<1>1. i - 1 \in 0 .. Capacity /\ n \in 0 .. Capacity /\ h + i - 1 = h + (i - 1)
  BY DEF Slots
<1>2. (h + (i - 1)) % Capacity = IF h + (i - 1) < Capacity THEN h + (i - 1) ELSE h + (i - 1) - Capacity
  BY <1>1, ModRing
<1>3. (h + n) % Capacity = IF h + n < Capacity THEN h + n ELSE h + n - Capacity
  BY <1>1, ModRing
<1> QED
  BY <1>1, <1>2, <1>3 DEF Slots

\* The indices of the elements are slots.
LEMMA ElementSlots ==
  ASSUME NEW h \in Slots, NEW i \in Nat \ {0}
  PROVE  (h + i - 1) % Capacity \in Slots
<1>1. h + i - 1 \in Nat
  BY CapacityAssumption DEF Slots
<1> QED
  BY <1>1, ModSlot

\* The sequence q is what n slots from h on hold.
Holds(q, d, h, n) ==
  q \in Seq(Cells) /\ Len(q) = n /\ \A i \in 1 .. n : q[i] = d[(h + i - 1) % Capacity]

\* Storing the element behind the last one appends it.
LEMMA StoreAppends ==
  ASSUME NEW d \in [Slots -> Cells], NEW h \in Slots, NEW n \in 0 .. Capacity - 1,
         NEW v \in Cells, NEW e, NEW slot, slot = (h + n) % Capacity,
         \A p \in Slots : e[p] = IF p = slot THEN v ELSE d[p],
         NEW old, Holds(old, d, h, n), NEW new, NEW m, m = n + 1, Holds(new, e, h, m)
  PROVE  new = Append(old, v)
<1>1. \A i \in 1 .. n + 1 : (h + i - 1) % Capacity \in Slots
  BY ElementSlots
<1>2. \A i \in 1 .. n : (h + i - 1) % Capacity # (h + n) % Capacity
  BY FreeSlotIsFree
<1>3. \A i \in 1 .. n : new[i] = old[i]
  BY <1>1, <1>2 DEF Holds
<1>4. new[n + 1] = v
  <2>1. h + (n + 1) - 1 = h + n
    BY CapacityAssumption DEF Slots
  <2>2. (h + n) % Capacity \in Slots
    BY <1>1, <2>1
  <2> QED
    BY <2>1, <2>2 DEF Holds
<1>5. Len(new) = n + 1 /\ Len(old) = n /\ new \in Seq(Cells) /\ old \in Seq(Cells)
  BY DEF Holds
<1> QED
  BY <1>3, <1>4, <1>5

\* Advancing the head drops the oldest element.
LEMMA AdvanceDrops ==
  ASSUME NEW d \in [Slots -> Cells], NEW h \in Slots, NEW n \in 1 .. Capacity,
         NEW old, Holds(old, d, h, n), NEW new, Holds(new, d, (h + 1) % Capacity, n - 1)
  PROVE  new = Tail(old) /\ Head(old) = d[h] /\ old # <<>>
<1> USE CapacityAssumption
<1>1. \A i \in 1 .. n - 1 : (((h + 1) % Capacity) + i - 1) % Capacity = (h + (i + 1) - 1) % Capacity
  <2> TAKE i \in 1 .. n - 1
  <2> DEFINE g == (h + 1) % Capacity
  <2>1. g \in Slots /\ g = IF h + 1 < Capacity THEN h + 1 ELSE h + 1 - Capacity
    <3>1. h + 1 \in Nat /\ 1 \in 0 .. Capacity
      BY DEF Slots
    <3> QED
      BY <3>1, ModRing, ModSlot
  <2>2. (g + (i - 1)) % Capacity
          = IF g + (i - 1) < Capacity THEN g + (i - 1) ELSE g + (i - 1) - Capacity
    BY <2>1, ModRing
  <2>3. (h + i) % Capacity = IF h + i < Capacity THEN h + i ELSE h + i - Capacity
    BY ModRing
  <2>4. g + i - 1 = g + (i - 1) /\ h + (i + 1) - 1 = h + i
    BY <2>1 DEF Slots
  <2> HIDE DEF g
  <2>5. (g + i - 1) % Capacity = (h + i) % Capacity
    BY <2>1, <2>2, <2>3, <2>4 DEF Slots
  <2> QED
    BY <2>4, <2>5 DEF g
<1>2. \A i \in 1 .. n - 1 : new[i] = old[i + 1]
  BY <1>1 DEF Holds
<1>3. old[1] = d[h]
  <2>1. (h + 0) % Capacity = IF h + 0 < Capacity THEN h + 0 ELSE h + 0 - Capacity
    BY ModRing
  <2>2. (h + 1 - 1) % Capacity = h
    BY <2>1 DEF Slots
  <2> QED
    BY <2>2 DEF Holds
<1>4. Len(new) = n - 1 /\ Len(old) = n /\ new \in Seq(Cells) /\ old \in Seq(Cells)
  BY DEF Holds
<1> QED
  BY <1>2, <1>3, <1>4

\* What the abstract queue holds is what the ring holds.
LEMMA ContentsHolds ==
  ASSUME NEW d \in [Slots -> Cells], NEW h \in Slots, NEW n \in 0 .. Capacity
  PROVE  Holds([i \in 1 .. n |-> d[(h + i - 1) % Capacity]], d, h, n)
<1>1. \A i \in 1 .. n : (h + i - 1) % Capacity \in Slots
  BY ElementSlots, CapacityAssumption
<1> QED
  BY <1>1, CapacityAssumption DEF Holds

\* The call a thread is in, by where it is.
LEMMA CallsAt ==
  ASSUME NEW t \in Threads
  PROVE  /\ pc[t] \in {"push", "waitNotFull"} => Calls[t] = Fifo!PushOf(elem[t])
         /\ pc[t] \in {"pop", "waitNotEmpty"} => Calls[t] = Fifo!PopCall
         /\ pc[t] = "idle" => Calls[t] = Fifo!Idle
BY DEF Calls, Fifo!PushOf, Fifo!PopCall, Fifo!Idle

\* The primed form: CallsAt holds of every state.
LEMMA CallsAtNext ==
  ASSUME NEW t \in Threads
  PROVE  /\ pc'[t] \in {"push", "waitNotFull"} => Calls'[t] = Fifo!PushOf(elem'[t])
         /\ pc'[t] \in {"pop", "waitNotEmpty"} => Calls'[t] = Fifo!PopCall
         /\ pc'[t] = "idle" => Calls'[t] = Fifo!Idle
BY DEF Calls, Fifo!PushOf, Fifo!PopCall, Fifo!Idle

\* A step that moves threads only within their calls does not show.
LEMMA CallsKept ==
  ASSUME pc \in [Threads -> PcLabels], pc' \in [Threads -> PcLabels], elem' = elem,
         \A u \in Threads :
           \/ pc'[u] = pc[u]
           \/ pc[u] \in {"push", "waitNotFull"} /\ pc'[u] \in {"push", "waitNotFull"}
           \/ pc[u] \in {"pop", "waitNotEmpty"} /\ pc'[u] \in {"pop", "waitNotEmpty"}
  PROVE  Calls' = Calls
<1>1. \A u \in Threads : Calls'[u] = Calls[u]
  BY CallsAt, CallsAtNext DEF PcLabels
<1>2. DOMAIN Calls = Threads /\ DOMAIN Calls' = Threads
  BY DEF Calls
<1> QED
  BY <1>1, <1>2 DEF Calls

\* A thread that leaves its call is idle, whoever its signal woke.
LEMMA CallsReturned ==
  ASSUME NEW t \in Threads, pc \in [Threads -> PcLabels], pc' \in [Threads -> PcLabels],
         pc'[t] = "idle",
         \A u \in Threads \ {t} :
           /\ elem'[u] = elem[u]
           /\ \/ pc'[u] = pc[u]
              \/ pc[u] \in {"push", "waitNotFull"} /\ pc'[u] \in {"push", "waitNotFull"}
              \/ pc[u] \in {"pop", "waitNotEmpty"} /\ pc'[u] \in {"pop", "waitNotEmpty"}
  PROVE  Calls' = [Calls EXCEPT ![t] = Fifo!Idle]
<1>1. \A u \in Threads \ {t} : Calls'[u] = Calls[u]
  BY CallsAt, CallsAtNext DEF PcLabels
<1>2. Calls'[t] = Fifo!Idle
  BY CallsAtNext
<1>3. DOMAIN Calls = Threads /\ DOMAIN Calls' = Threads
  BY DEF Calls
<1> QED
  BY <1>1, <1>2, <1>3 DEF Calls

\* A program that has not initialised the queue has none.
LEMMA FifoInit == Init => Fifo!Init
<1> SUFFICES ASSUME Init PROVE Fifo!Init
  OBVIOUS
<1>1. ~(data # NULL) /\ Contents = <<>> /\ closed = FALSE
  BY DEF Init, Contents
<1>2. Calls = [t \in Threads |-> Fifo!Idle]
  BY DEF Init, Calls, Fifo!Idle
<1>3. ret = [t \in Threads |-> Fifo!Result("ERR_OK", NULL)]
  BY DEF Init, Result, Fifo!Result
<1> QED
  BY <1>1, <1>2, <1>3 DEF Fifo!Init

\* Every step of the ring is a step of the abstract queue, or does not show.
LEMMA FifoNext == TypeInv /\ TypeInv' /\ [Next]_vars => [Fifo!Next]_(Fifo!vars)
<1> SUFFICES ASSUME TypeInv, TypeInv', [Next]_vars
             PROVE  [Fifo!Next]_(Fifo!vars)
  OBVIOUS
<1>T. TypeOK /\ Carrying /\ StorageInUse
  BY DEF TypeInv
<1>P. pc \in [Threads -> PcLabels] /\ pc' \in [Threads -> PcLabels]
  BY DEF TypeInv, TypeOK
<1>S. ASSUME UNCHANGED <<data, head, len>>
      PROVE  Contents' = Contents
  BY <1>S DEF Contents
<1>1. CASE BqInit
  <2>1. Contents' = <<>>
    BY <1>1 DEF BqInit, Contents
  <2>2. Calls' = Calls
    BY <1>1 DEF BqInit, Calls
  <2>3. Fifo!Create
    BY <2>1, <2>2, <1>1 DEF BqInit, Fifo!Create
  <2> QED
    BY <2>3 DEF Fifo!Next
<1>2. CASE BqDestroy
  <2>1. Contents' = <<>>
    BY <1>2 DEF BqDestroy, Contents
  <2>2. Calls' = Calls
    BY <1>2 DEF BqDestroy, Calls
  <2>3. \A t \in Threads : Calls[t] = Fifo!Idle
    BY <1>2, CallsAt DEF BqDestroy, At
  <2>4. Fifo!Destroy
    BY <2>1, <2>2, <2>3, <1>2 DEF BqDestroy, Fifo!Destroy
  <2> QED
    BY <2>4 DEF Fifo!Next
<1>3. CASE BqClose
  <2>1. Calls' = Calls
    <3>1. elem' = elem
      BY <1>3 DEF BqClose
    <3>2. \A u \in Threads :
            \/ pc'[u] = pc[u]
            \/ pc[u] \in {"push", "waitNotFull"} /\ pc'[u] \in {"push", "waitNotFull"}
            \/ pc[u] \in {"pop", "waitNotEmpty"} /\ pc'[u] \in {"pop", "waitNotEmpty"}
      BY <1>3 DEF BqClose
    <3> QED
      BY <3>1, <3>2, <1>P, CallsKept
  <2>2. Fifo!Close
    BY <2>1, <1>S, <1>3 DEF BqClose, Fifo!Close
  <2> QED
    BY <2>2 DEF Fifo!Next
<1>4. ASSUME NEW t \in Threads, NEW p \in Values \cup {NULL}, InvalidArg(t, p)
      PROVE  [Fifo!Next]_(Fifo!vars)
  <2>1. Calls' = Calls /\ Contents' = Contents
    BY <1>4, <1>S DEF InvalidArg, Calls
  <2>2. Calls[t] = Fifo!Idle
    BY <1>4, CallsAt DEF InvalidArg
  <2>3. Fifo!Refuse(t)
    BY <2>1, <2>2, <1>4 DEF InvalidArg, Return, Result, Fifo!Refuse, Fifo!Result
  <2> QED
    BY <2>3 DEF Fifo!Next
<1>5. ASSUME NEW t \in Threads, NEW e \in Values, BqPushCall(t, e)
      PROVE  [Fifo!Next]_(Fifo!vars)
  <2>1. Contents' = Contents
    BY <1>5, <1>S DEF BqPushCall
  <2>2. Calls[t] = Fifo!Idle
    BY <1>5, CallsAt DEF BqPushCall
  <2>3. Calls' = [Calls EXCEPT ![t] = Fifo!PushOf(e)]
    BY <1>5, <1>T DEF BqPushCall, TypeOK, Calls, Fifo!PushOf
  <2>4. Fifo!Invoke(t)
    BY <2>1, <2>2, <2>3, <1>5 DEF BqPushCall, Fifo!Invoke
  <2> QED
    BY <2>4 DEF Fifo!Next
<1>6. ASSUME NEW t \in Threads, BqPopCall(t)
      PROVE  [Fifo!Next]_(Fifo!vars)
  <2>1. Contents' = Contents
    BY <1>6, <1>S DEF BqPopCall
  <2>2. Calls[t] = Fifo!Idle
    BY <1>6, CallsAt DEF BqPopCall
  <2>3. Calls' = [Calls EXCEPT ![t] = Fifo!PopCall]
    BY <1>6, <1>T DEF BqPopCall, TypeOK, Calls, Fifo!PopCall
  <2>4. Fifo!Invoke(t)
    BY <2>1, <2>2, <2>3, <1>6 DEF BqPopCall, Fifo!Invoke
  <2> QED
    BY <2>4 DEF Fifo!Next
<1>7. ASSUME NEW t \in Threads, PushWait(t) \/ PopWait(t) \/ SpuriousWakeup(t)
      PROVE  [Fifo!Next]_(Fifo!vars)
  <2>1. UNCHANGED <<data, head, len, closed, elem, ret>>
    BY <1>7 DEF PushWait, PopWait, SpuriousWakeup
  <2>2. \A u \in Threads :
          \/ pc'[u] = pc[u]
          \/ pc[u] \in {"push", "waitNotFull"} /\ pc'[u] \in {"push", "waitNotFull"}
          \/ pc[u] \in {"pop", "waitNotEmpty"} /\ pc'[u] \in {"pop", "waitNotEmpty"}
    BY <1>7, <1>P DEF PushWait, PopWait, SpuriousWakeup
  <2>3. Calls' = Calls
    BY <2>1, <2>2, <1>P, CallsKept
  <2> QED
    BY <2>1, <2>3, <1>S DEF Fifo!vars
<1>8. ASSUME NEW t \in Threads, PushClosed(t) \/ PopDrained(t)
      PROVE  [Fifo!Next]_(Fifo!vars)
  <2>1. Contents' = Contents /\ closed' = closed /\ closed /\ data' = data
    BY <1>8, <1>S DEF PushClosed, PopDrained
  <2>2. Calls' = [Calls EXCEPT ![t] = Fifo!Idle]
    <3>1. pc'[t] = "idle"
      BY <1>8, <1>P DEF PushClosed, PopDrained
    <3>2. \A u \in Threads \ {t} : elem'[u] = elem[u] /\ pc'[u] = pc[u]
      BY <1>8, <1>T DEF PushClosed, PopDrained, TypeOK
    <3> QED
      BY <3>1, <3>2, <1>P, CallsReturned
  <2>3. CASE PushClosed(t)
    <3>1. Calls[t].op = "push"
      <4>1. Calls[t] = Fifo!PushOf(elem[t])
        BY <2>3, CallsAt DEF PushClosed
      <4> QED
        BY <4>1 DEF Fifo!PushOf
    <3>2. Fifo!RefuseClosed(t)
      BY <3>1, <2>1, <2>2, <2>3 DEF PushClosed, Return, Result, Fifo!RefuseClosed, Fifo!Return, Fifo!Result
    <3> QED
      BY <3>2 DEF Fifo!Next
  <2>4. CASE PopDrained(t)
    <3>1. Calls[t].op = "pop" /\ Contents = <<>>
      BY <2>4, CallsAt DEF PopDrained, Fifo!PopCall, Contents
    <3>2. Fifo!Drained(t)
      BY <3>1, <2>1, <2>2, <2>4 DEF PopDrained, Return, Result, Fifo!Drained, Fifo!Return, Fifo!Result
    <3> QED
      BY <3>2 DEF Fifo!Next
  <2> QED
    BY <2>3, <2>4, <1>8
<1>9. ASSUME NEW t \in Threads, PushOk(t)
      PROVE  [Fifo!Next]_(Fifo!vars)
  <2> DEFINE Stored == [data EXCEPT ![(head + len) % Capacity] = elem[t]]
  <2>1. data # NULL /\ data \in [Slots -> Cells] /\ elem[t] \in Cells
    BY <1>9, <1>T DEF PushOk, TypeOK, Carrying, StorageInUse, Cells
  <2>2. len \in 0 .. Capacity - 1 /\ head \in Slots
    BY <1>9, <1>T, CapacityAssumption DEF PushOk, TypeOK
  <2>8. data' = Stored /\ data' # NULL /\ len' = len + 1 /\ head' = head
    BY <2>1, <1>9, NullAssumption DEF PushOk
  <2>9. Holds(Contents, data, head, len) /\ Holds(Contents', data', head', len')
    <3>1. data' \in [Slots -> Cells] /\ head' \in Slots /\ data' # NULL /\ len' \in 0 .. Capacity
      BY <2>8 DEF TypeInv, TypeOK
    <3>2. len \in 0 .. Capacity
      BY <2>2, CapacityAssumption
    <3> QED
      BY <3>1, <3>2, <2>1, <2>2, ContentsHolds DEF Contents
  <2>3. Contents' = Append(Contents, elem[t])
    <3> DEFINE slot == (head + len) % Capacity
    <3>1. \A p \in Slots : data'[p] = IF p = slot THEN elem[t] ELSE data[p]
      BY <2>1, <2>8
    <3>2. Holds(Contents', data', head, len') /\ len' = len + 1
      BY <2>8, <2>9
    <3>3. slot = (head + len) % Capacity
      OBVIOUS
    <3> HIDE DEF slot
    <3> QED
      BY <3>1, <3>2, <3>3, <2>1, <2>2, <2>9, StoreAppends
  <2>4. Len(Contents) < Capacity
    BY <2>2, <2>9, CapacityAssumption DEF Holds
  <2>5. Calls[t] = Fifo!PushOf(elem[t])
    BY <1>9, CallsAt DEF PushOk
  <2>6. Calls' = [Calls EXCEPT ![t] = Fifo!Idle]
    <3>1. pc'[t] = "idle"
      BY <1>9, <1>P DEF PushOk, SignalTo, At
    <3>2. \A u \in Threads \ {t} :
            /\ elem'[u] = elem[u]
            /\ pc'[u] = pc[u] \/ (pc[u] = "waitNotEmpty" /\ pc'[u] = "pop")
      BY <1>9, <1>T DEF PushOk, SignalTo, At, TypeOK
    <3> QED
      BY <3>1, <3>2, <1>P, CallsReturned
  <2>7. Fifo!Enqueue(t)
    BY <2>1, <2>3, <2>4, <2>5, <2>6, <2>8, <1>9
       DEF PushOk, Return, Result, Fifo!Enqueue, Fifo!Return, Fifo!Result, Fifo!PushOf
  <2> QED
    BY <2>7 DEF Fifo!Next
<1>10. ASSUME NEW t \in Threads, PopOk(t)
       PROVE  [Fifo!Next]_(Fifo!vars)
  <2>1. data # NULL /\ data' = data /\ data \in [Slots -> Cells]
    BY <1>10, <1>T DEF PopOk, TypeOK, StorageInUse
  <2>2. len \in 1 .. Capacity /\ head \in Slots
    BY <1>10, <1>T, CapacityAssumption DEF PopOk, TypeOK
  <2>3. Contents' = Tail(Contents) /\ Head(Contents) = data[head] /\ Contents # <<>>
    <3>1. head' \in Slots /\ head' = (head + 1) % Capacity /\ len' = len - 1
      BY <1>10 DEF PopOk, TypeInv, TypeOK
    <3>2. len - 1 \in 0 .. Capacity /\ len \in 0 .. Capacity
      BY <2>2, CapacityAssumption
    <3>3. Holds(Contents, data, head, len) /\ Holds(Contents', data, head', len - 1)
      BY <3>1, <3>2, <2>1, <2>2, ContentsHolds DEF Contents
    <3> QED
      BY <3>1, <3>3, <2>1, <2>2, AdvanceDrops
  <2>4. Calls[t] = Fifo!PopCall
    BY <1>10, CallsAt DEF PopOk
  <2>5. Calls' = [Calls EXCEPT ![t] = Fifo!Idle]
    <3>1. pc'[t] = "idle"
      BY <1>10, <1>P DEF PopOk, SignalTo, At
    <3>2. \A u \in Threads \ {t} :
            /\ elem'[u] = elem[u]
            /\ pc'[u] = pc[u] \/ (pc[u] = "waitNotFull" /\ pc'[u] = "push")
      BY <1>10, <1>T DEF PopOk, SignalTo, At, TypeOK
    <3> QED
      BY <3>1, <3>2, <1>P, CallsReturned
  <2>6. Calls[t].op = "pop"
    BY <2>4 DEF Fifo!PopCall
  <2>7. ret' = [ret EXCEPT ![t] = Fifo!Result("ERR_OK", Head(Contents))]
    BY <2>3, <1>10 DEF PopOk, Return, Result, Fifo!Result
  <2>8. UNCHANGED <<data # NULL, closed>>
    BY <1>10 DEF PopOk
  <2>9. Fifo!Dequeue(t)
    BY <2>3, <2>5, <2>6, <2>7, <2>8 DEF Fifo!Dequeue, Fifo!Return
  <2> QED
    BY <2>9 DEF Fifo!Next
<1>11. CASE UNCHANGED vars
  BY <1>11, <1>S DEF vars, Calls, Fifo!vars
<1> QED
  BY <1>1, <1>2, <1>3, <1>4, <1>5, <1>6, <1>7, <1>8, <1>9, <1>10, <1>11 DEF Next, Push, Pop

(***************************************************************************)
(* The blocking queue implements ClosableFifo, for every number of threads *)
(* and every capacity: whatever bq_push, bq_pop and bq_close do with the   *)
(* ring, its mutex and its condition variables, their callers see a        *)
(* bounded first-in first-out queue on which each call takes effect at one *)
(* instant.                                                                *)
(***************************************************************************)
THEOREM Refinement == Spec => ImplementsFifo
<1>1. Spec => []TypeInv
  BY TypeInvInit, TypeInvNext, PTL DEF Spec
<1> QED
  BY <1>1, FifoInit, FifoNext, PTL DEF Spec, ImplementsFifo, Fifo!Spec
=============================================================================
