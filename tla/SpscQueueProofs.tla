--------------------------- MODULE SpscQueueProofs ---------------------------
(***************************************************************************)
(* Theorems about SpscQueue for every capacity and every number of pushes: *)
(* no data race under the C11 memory model, first in first out, exactly    *)
(* once, and honest answers, however stale the loads are.                  *)
(***************************************************************************)
EXTENDS SpscQueue, SequenceTheorems, TLAPS

(***************************************************************************)
(* The inductive invariant.  Histories: the k-th store of an index is made *)
(* by the (k-1)-th push or pop, holds k-1 modulo the number of slots, and  *)
(* carries the clock k-1.                                                  *)
(***************************************************************************)
Pops == Len(head) - 1    \* the pops whose store of head was made

IsHistory(s) == \A k \in 1 .. Len(s) : s[k].val = (k - 1) % Slots /\ s[k].clk = k - 1

Histories == /\ IsHistory(head) /\ IsHistory(tail)
             /\ Len(tail) = pushed + 1
             /\ Len(popped) = IF cons.pc = "publish" THEN Pops + 1 ELSE Pops

(***************************************************************************)
(* Knowledge: how far behind a thread may be.  What the producer has seen  *)
(* of head leaves the elements in the ring, and a slot for the push it is  *)
(* making; what the consumer has seen of tail is not behind its own pops,  *)
(* and ahead of them while it is making one.  During a copy the clock      *)
(* covers what was seen, since that load was an acquire.                   *)
(***************************************************************************)
Knowledge ==
    /\ pushed - (prod.seen - 1) <= Capacity
    /\ prod.pc # "idle" => pushed - (prod.seen - 1) < Capacity
    /\ prod.pc = "copy" => prod.clk >= prod.seen - 1
    /\ cons.seen - 1 >= Pops
    /\ cons.pc # "idle" => cons.seen - 1 > Pops
    /\ cons.pc = "copy" => cons.clk >= cons.seen - 1

(***************************************************************************)
(* Contents: the slots between head and tail hold their elements, a slot   *)
(* that was copied into and not published holds the next one, and the last *)
(* read of a slot was of an element with that index.                       *)
(***************************************************************************)
Contents ==
    /\ \A n \in Pops .. pushed - 1 : slot[n % Slots] = n + 1
    /\ prod.pc = "publish" => slot[pushed % Slots] = pushed + 1
    /\ \A j \in Index : slotRead[j] > 0 =>
                          slotRead[j] <= Len(popped) /\ (slotRead[j] - 1) % Slots = j

InOrder == \A n \in 1 .. Len(popped) : popped[n] = n

RingInv == TypeOK /\ Histories /\ Knowledge /\ Contents /\ InOrder /\ NoDataRace

-----------------------------------------------------------------------------
(* Arithmetic of the ring *)

LEMMA SlotsType == Slots \in Nat \ {0} /\ Slots = Capacity + 1 /\ Capacity \in Nat \ {0}
BY CapacityAssumption DEF Slots

\* A remainder is an index, and what it leaves is a number of laps.
LEMMA Division ==
  ASSUME NEW S \in Nat \ {0}, NEW a \in Nat
  PROVE  \E q \in Nat, r \in 0 .. S - 1 : a = q * S + r /\ a % S = r
<1>1. a % S \in 0 .. S - 1
  OBVIOUS
<1>2. a = (a \div S) * S + (a % S)
  OBVIOUS
<1>3. a \div S \in Nat
  OBVIOUS
<1> QED
  BY <1>1, <1>2, <1>3

\* The remainder is determined by being one.
LEMMA Remainder ==
  ASSUME NEW S \in Nat \ {0}, NEW q \in Nat, NEW r \in 0 .. S - 1
  PROVE  (q * S + r) % S = r
OBVIOUS

\* Numbers less than one lap apart have different indices.
LEMMA OneLap ==
  ASSUME NEW S \in Nat \ {0}, NEW a \in Nat, NEW b \in Nat,
         b <= a, a - b < S, a % S = b % S
  PROVE  a = b
<1>1. PICK q \in Nat, r \in 0 .. S - 1 : a = q * S + r /\ a % S = r
  BY Division
<1>2. PICK p \in Nat, s \in 0 .. S - 1 : b = p * S + s /\ b % S = s
  BY Division
<1>3. r = s
  BY <1>1, <1>2
<1>4. a - b = (q - p) * S
  BY <1>1, <1>2, <1>3
<1>5. ASSUME q - p >= 1 PROVE FALSE
  <2>1. (q - p) * S >= S
    BY <1>5
  <2> QED
    BY <2>1, <1>4
<1>6. ASSUME q - p <= -1 PROVE FALSE
  <2>1. (q - p) * S <= -S
    BY <1>6
  <2> QED
    BY <2>1, <1>4
<1>7. q = p
  BY <1>5, <1>6
<1> QED
  BY <1>1, <1>2, <1>3, <1>7

\* The next index.
LEMMA NextIndex ==
  ASSUME NEW S \in Nat \ {0}, NEW a \in Nat
  PROVE  ((a % S) + 1) % S = (a + 1) % S
<1>1. PICK q \in Nat, r \in 0 .. S - 1 : a = q * S + r /\ a % S = r
  BY Division
<1>2. CASE r < S - 1
  <2>1. r + 1 \in 0 .. S - 1 /\ a + 1 = q * S + (r + 1)
    BY <1>1, <1>2
  <2>2. (a + 1) % S = r + 1
    BY <2>1, Remainder
  <2>3. (0 * S + (r + 1)) % S = r + 1
    BY <2>1, Remainder
  <2>4. 0 * S + (r + 1) = r + 1
    BY <2>1
  <2> QED
    BY <1>1, <2>2, <2>3, <2>4
<1>3. CASE r = S - 1
  <2>1. a + 1 = (q + 1) * S + 0 /\ r + 1 = 1 * S + 0
    BY <1>1, <1>3
  <2>2. ((q + 1) * S + 0) % S = 0 /\ (1 * S + 0) % S = 0
    BY Remainder
  <2> QED
    BY <1>1, <2>1, <2>2
<1> QED
  BY <1>2, <1>3

\* spsc_len's formula is the distance, as long as that is less than a lap.
LEMMA Distance ==
  ASSUME NEW S \in Nat \ {0}, NEW a \in Nat, NEW b \in Nat, b <= a, a - b < S
  PROVE  ((a % S) + S - (b % S)) % S = a - b
<1>1. PICK q \in Nat, r \in 0 .. S - 1 : a = q * S + r /\ a % S = r
  BY Division
<1>2. PICK p \in Nat, s \in 0 .. S - 1 : b = p * S + s /\ b % S = s
  BY Division
<1>3. a - b = (q - p) * S + (r - s)
  BY <1>1, <1>2
<1>4. q - p >= 0
  <2>1. ASSUME q - p <= -1 PROVE FALSE
    <3>1. (q - p) * S <= -S
      BY <2>1
    <3> QED
      BY <3>1, <1>3
  <2> QED
    BY <2>1
<1>5. q - p <= 1
  <2>1. ASSUME q - p >= 2 PROVE FALSE
    <3>1. (q - p) * S >= 2 * S
      BY <2>1
    <3> QED
      BY <3>1, <1>3
  <2> QED
    BY <2>1
<1>6. CASE q = p
  <2>1. a - b = r - s
    BY <1>3, <1>6
  <2>2. r - s \in 0 .. S - 1 /\ r + S - s = 1 * S + (r - s)
    BY <2>1
  <2>3. (1 * S + (r - s)) % S = r - s
    BY <2>2, Remainder
  <2> QED
    BY <1>1, <1>2, <2>1, <2>2, <2>3
<1>7. CASE q = p + 1
  <2>1. a - b = S + (r - s)
    <3>1. q - p = 1
      BY <1>7
    <3> QED
      BY <1>3, <3>1
  <2>2. r + S - s \in 0 .. S - 1 /\ r + S - s = 0 * S + (r + S - s)
    BY <2>1
  <2>3. (0 * S + (r + S - s)) % S = r + S - s
    BY <2>2, Remainder
  <2> QED
    BY <1>1, <1>2, <2>1, <2>2, <2>3
<1> QED
  BY <1>4, <1>5, <1>6, <1>7

-----------------------------------------------------------------------------
(* What the invariant says of a state *)

\* The lengths and bounds that the arithmetic uses.
LEMMA RingFacts ==
  ASSUME RingInv
  PROVE  /\ Len(head) \in Nat \ {0} /\ Len(tail) \in Nat \ {0} /\ Len(popped) \in Nat
         /\ Pops \in Nat /\ pushed \in Nat
         /\ Len(head) = Pops + 1 /\ Len(tail) = pushed + 1
         /\ prod.seen \in Nat \ {0} /\ prod.seen - 1 <= Pops
         /\ cons.seen \in Nat \ {0} /\ cons.seen - 1 <= pushed
         /\ Pops <= Len(popped) /\ Len(popped) <= pushed /\ pushed - Pops <= Capacity
         /\ cons.pc # "idle" => Pops < pushed
         /\ prod.pc # "idle" => pushed - Pops < Capacity
         /\ prod.clk \in Nat /\ cons.clk \in Nat
<1>T. TypeOK /\ Histories /\ Knowledge
  BY DEF RingInv
<1>1. Len(head) \in Nat \ {0} /\ Len(tail) \in Nat \ {0} /\ Len(popped) \in Nat
  BY <1>T, EmptySeq, LenProperties DEF TypeOK, Stores
<1>2. Pops \in Nat /\ pushed \in Nat /\ Len(head) = Pops + 1 /\ Len(tail) = pushed + 1
  BY <1>T, <1>1 DEF Pops, Histories, TypeOK
<1>3. /\ prod.seen \in Nat \ {0} /\ prod.seen <= Len(head) /\ prod.clk \in Nat
      /\ cons.seen \in Nat \ {0} /\ cons.seen <= Len(tail) /\ cons.clk \in Nat
  BY <1>T DEF TypeOK, Thread
<1>4. Len(popped) = IF cons.pc = "publish" THEN Pops + 1 ELSE Pops
  BY <1>T DEF Histories
<1>5. /\ pushed - (prod.seen - 1) <= Capacity
      /\ prod.pc # "idle" => pushed - (prod.seen - 1) < Capacity
      /\ cons.seen - 1 >= Pops
      /\ cons.pc # "idle" => cons.seen - 1 > Pops
  BY <1>T DEF Knowledge
<1> QED
  BY <1>1, <1>2, <1>3, <1>4, <1>5, SlotsType

\* What the loads return.
LEMMA LoadFacts ==
  ASSUME RingInv
  PROVE  /\ PushTail = pushed % Slots /\ PushNext = (pushed + 1) % Slots
         /\ PopHead = Pops % Slots /\ (PopHead + 1) % Slots = (Pops + 1) % Slots
         /\ PushTail \in Index /\ PopHead \in Index
         /\ \A k \in HeadLoads : /\ k \in Nat \ {0} /\ k <= Len(head) /\ k - 1 \in Nat
                                 /\ k - 1 <= Pops /\ pushed - (k - 1) <= Capacity
                                 /\ head[k].val = (k - 1) % Slots /\ head[k].clk = k - 1
         /\ \A k \in TailLoads : /\ k \in Nat \ {0} /\ k <= Len(tail) /\ k - 1 \in Nat
                                 /\ Pops <= k - 1 /\ k - 1 <= pushed
                                 /\ tail[k].val = (k - 1) % Slots /\ tail[k].clk = k - 1
<1>T. Histories /\ Knowledge
  BY DEF RingInv
<1>N. /\ Pops \in Nat /\ pushed \in Nat
      /\ Len(head) = Pops + 1 /\ Len(tail) = pushed + 1
      /\ prod.seen \in Nat \ {0} /\ cons.seen \in Nat \ {0}
  BY RingFacts
<1>1. PushTail = pushed % Slots
  <2>1. Len(tail) \in 1 .. Len(tail) /\ Len(tail) - 1 = pushed
    BY <1>N
  <2>2. tail[Len(tail)].val = (Len(tail) - 1) % Slots
    BY <2>1, <1>T DEF Histories, IsHistory
  <2> QED
    BY <2>1, <2>2 DEF PushTail, Last
<1>2. PopHead = Pops % Slots
  <2>1. Len(head) \in 1 .. Len(head) /\ Len(head) - 1 = Pops
    BY <1>N
  <2>2. head[Len(head)].val = (Len(head) - 1) % Slots
    BY <2>1, <1>T DEF Histories, IsHistory
  <2> QED
    BY <2>1, <2>2 DEF PopHead, Last
<1>3. PushNext = (pushed + 1) % Slots /\ (PopHead + 1) % Slots = (Pops + 1) % Slots
  BY <1>1, <1>2, RingFacts, SlotsType, NextIndex DEF PushNext
<1>4. PushTail \in Index /\ PopHead \in Index
  <2>1. \A n \in Nat : n % Slots \in 0 .. Slots - 1
    BY SlotsType
  <2> QED
    BY <2>1, <1>1, <1>2, <1>N DEF Index
<1>5. ASSUME NEW k \in HeadLoads
      PROVE  /\ k \in Nat \ {0} /\ k <= Len(head) /\ k - 1 \in Nat
             /\ k - 1 <= Pops /\ pushed - (k - 1) <= Capacity
             /\ head[k].val = (k - 1) % Slots /\ head[k].clk = k - 1
  <2>1. k \in Int /\ prod.seen <= k /\ k <= Len(head)
    BY <1>N DEF HeadLoads
  <2>2. k \in 1 .. Len(head)
    BY <2>1, <1>N
  <2>3. head[k].val = (k - 1) % Slots /\ head[k].clk = k - 1
    BY <2>2, <1>T DEF Histories, IsHistory
  <2>4. pushed - (prod.seen - 1) <= Capacity
    BY <1>T DEF Knowledge
  <2>5. /\ k \in Nat \ {0} /\ k <= Len(head) /\ k - 1 \in Nat
        /\ k - 1 <= Pops /\ pushed - (k - 1) <= Capacity
    BY <2>1, <2>2, <2>4, <1>N, CapacityAssumption
  <2> QED
    BY <2>3, <2>5
<1>6. ASSUME NEW k \in TailLoads
      PROVE  /\ k \in Nat \ {0} /\ k <= Len(tail) /\ k - 1 \in Nat
             /\ Pops <= k - 1 /\ k - 1 <= pushed
             /\ tail[k].val = (k - 1) % Slots /\ tail[k].clk = k - 1
  <2>1. k \in Int /\ cons.seen <= k /\ k <= Len(tail)
    BY <1>N DEF TailLoads
  <2>2. k \in 1 .. Len(tail)
    BY <2>1, <1>N
  <2>3. tail[k].val = (k - 1) % Slots /\ tail[k].clk = k - 1
    BY <2>2, <1>T DEF Histories, IsHistory
  <2>4. cons.seen - 1 >= Pops
    BY <1>T DEF Knowledge
  <2>5. /\ k \in Nat \ {0} /\ k <= Len(tail) /\ k - 1 \in Nat
        /\ Pops <= k - 1 /\ k - 1 <= pushed
    BY <2>1, <2>2, <2>4, <1>N
  <2> QED
    BY <2>3, <2>5
<1> QED
  BY <1>1, <1>2, <1>3, <1>4, <1>5, <1>6

\* A ring of C elements has C + 1 slots, so that a full one is not empty.
LEMMA FullLap ==
  ASSUME NEW C \in Nat, NEW a \in Nat, NEW b \in Nat, b <= a, a - b <= C
  PROVE  (a + 1) % (C + 1) = b % (C + 1) <=> a - b = C
<1>S. C + 1 \in Nat \ {0}
  OBVIOUS
<1>1. CASE a - b = C
  <2>1. PICK q \in Nat, r \in 0 .. (C + 1) - 1 : b = q * (C + 1) + r /\ b % (C + 1) = r
    BY <1>S, Division
  <2>2. a + 1 = (q + 1) * (C + 1) + r
    BY <2>1, <1>1
  <2>3. ((q + 1) * (C + 1) + r) % (C + 1) = r
    BY <1>S, Remainder
  <2> QED
    BY <1>1, <2>1, <2>2, <2>3
<1>2. CASE a - b < C
  <2>1. a + 1 \in Nat /\ b <= a + 1 /\ (a + 1) - b < C + 1 /\ a + 1 # b
    BY <1>2
  <2>2. (a + 1) % (C + 1) # b % (C + 1)
    BY <1>S, <2>1, OneLap
  <2> QED
    BY <1>2, <2>2
<1> QED
  BY <1>1, <1>2

\* Equal indices mean what they should although they wrap.
LEMMA FullIsFull ==
  ASSUME RingInv, NEW k \in HeadLoads
  PROVE  PushNext = head[k].val <=> pushed - (k - 1) = Capacity
<1>1. /\ PushNext = (pushed + 1) % Slots /\ head[k].val = (k - 1) % Slots
      /\ k - 1 \in Nat /\ k - 1 <= Pops /\ pushed - (k - 1) <= Capacity
  BY LoadFacts
<1>2. pushed \in Nat /\ Pops \in Nat /\ Pops <= Len(popped) /\ Len(popped) <= pushed
      /\ Len(popped) \in Nat
  BY RingFacts
<1>3. k - 1 <= pushed
  BY <1>1, <1>2
<1> QED
  BY <1>1, <1>2, <1>3, FullLap, CapacityAssumption DEF Slots

LEMMA EmptyIsEmpty ==
  ASSUME RingInv, NEW k \in TailLoads
  PROVE  PopHead = tail[k].val <=> k - 1 = Pops
<1>1. /\ PopHead = Pops % Slots /\ tail[k].val = (k - 1) % Slots
      /\ k - 1 \in Nat /\ Pops <= k - 1 /\ k - 1 <= pushed
  BY LoadFacts
<1>2. pushed \in Nat /\ Pops \in Nat /\ pushed - Pops <= Capacity
  BY RingFacts
<1>3. (k - 1) - Pops < Slots
  BY <1>1, <1>2, SlotsType
<1> QED
  BY <1>1, <1>2, <1>3, SlotsType, OneLap

-----------------------------------------------------------------------------
(* The invariant holds initially and every step preserves it. *)

\* An empty ring, as spsc_init leaves it.
Empty == /\ slot = [i \in Index |-> 0]
         /\ slotRead = [i \in Index |-> 0]
         /\ head = <<Store(0, 0)>>
         /\ tail = <<Store(0, 0)>>
         /\ prod = Fresh
         /\ cons = Fresh
         /\ pushed = 0
         /\ popped = <<>>

LEMMA EmptyRing ==
  ASSUME Empty, data \in BOOLEAN, race = FALSE
  PROVE  RingInv
<1>1. 0 \in Index /\ 0 % Slots = 0
  BY SlotsType DEF Index
<1>2. Store(0, 0) \in [val : Index, clk : Nat] /\ Store(0, 0).val = 0 /\ Store(0, 0).clk = 0
  BY <1>1 DEF Store
<1>3. /\ head \in Stores /\ tail \in Stores /\ Len(head) = 1 /\ Len(tail) = 1
      /\ head[1] = Store(0, 0) /\ tail[1] = Store(0, 0)
  BY <1>2 DEF Empty, Stores
<1>4. /\ prod \in Thread /\ prod.pc = "idle" /\ prod.seen = 1
      /\ cons \in Thread /\ cons.pc = "idle" /\ cons.seen = 1
  BY DEF Empty, Fresh, Thread
<1>5. Len(popped) = 0 /\ popped \in Seq(Nat) /\ pushed = 0
  BY DEF Empty
<1>6. TypeOK
  <2>1. head # <<>> /\ tail # <<>>
    BY <1>3, EmptySeq
  <2>2. slot \in [Index -> Nat] /\ slotRead \in [Index -> Nat]
    BY DEF Empty
  <2>3. 1 <= Len(head) /\ 1 <= Len(tail)
    BY <1>3
  <2> QED
    BY <1>3, <1>4, <1>5, <2>1, <2>2, <2>3 DEF TypeOK
<1>7. Pops = 0
  BY <1>3 DEF Pops
<1>8. IsHistory(head) /\ IsHistory(tail)
  BY <1>1, <1>2, <1>3 DEF IsHistory
<1>9. Histories
  BY <1>3, <1>4, <1>5, <1>7, <1>8 DEF Histories
<1>10. Knowledge
  BY <1>4, <1>5, <1>7, CapacityAssumption DEF Knowledge
<1>11. Contents
  BY <1>4, <1>5, <1>7 DEF Contents, Empty
<1>12. InOrder /\ NoDataRace
  BY <1>5 DEF InOrder, NoDataRace
<1> QED
  BY <1>6, <1>9, <1>10, <1>11, <1>12 DEF RingInv

LEMMA RingInvInit == Init => RingInv
BY EmptyRing DEF Init, Empty

\* The same lemma about the state after a step.
LEMMA EmptyRingNext == (Empty /\ data \in BOOLEAN /\ race = FALSE => RingInv)'
<1>1. Empty /\ data \in BOOLEAN /\ race = FALSE => RingInv
  BY EmptyRing
<1> QED
  BY <1>1, PTL

LEMMA InitStep ==
  ASSUME RingInv, SpscInit
  PROVE  RingInv'
<1>1. race = FALSE /\ race' = race
  BY DEF RingInv, TypeOK, NoDataRace, SpscInit
<1>2. CASE data' = TRUE /\ Empty'
  BY <1>1, <1>2, EmptyRingNext
<1>3. CASE UNCHANGED vars
  BY <1>3 DEF vars, RingInv, TypeOK, Histories, Knowledge, Contents, InOrder, NoDataRace,
              Pops, IsHistory, Stores
<1> QED
  BY <1>1, <1>2, <1>3 DEF SpscInit, Empty, vars

LEMMA DestroyStep ==
  ASSUME RingInv, SpscDestroy
  PROVE  RingInv'
BY DEF SpscDestroy, RingInv, TypeOK, Histories, Knowledge, Contents, InOrder, NoDataRace,
       Pops, IsHistory, Stores

\* A load of head by the producer: what it has seen moves forward.
LEMMA ProducerLoads ==
  ASSUME RingInv, NEW k \in HeadLoads, PushFull(k) \/ PushFree(k) \/ LenByProducer(k)
  PROVE  RingInv'
<1>T. TypeOK /\ Histories /\ Knowledge /\ Contents /\ InOrder /\ NoDataRace
  BY DEF RingInv
<1>1. /\ k \in Nat \ {0} /\ k <= Len(head) /\ pushed - (k - 1) <= Capacity
      /\ head[k].clk = k - 1
  BY LoadFacts
<1>2. UNCHANGED <<data, slot, slotRead, head, tail, cons, pushed, popped, race>>
  BY DEF PushFull, PushFree, LenByProducer
<1>3. prod \in Thread /\ prod.pc = "idle"
  BY <1>T DEF TypeOK, PushFull, PushFree, LenByProducer
<1>4. Larger(prod.clk, k - 1) \in Nat /\ Larger(prod.clk, k - 1) >= k - 1
  BY <1>1, <1>3 DEF Larger, Thread
<1>5. /\ SeeHead(k) \in Thread /\ SeeHead(k).pc = "idle" /\ SeeHead(k).seen = k
      /\ SeeHead(k).clk >= k - 1
  BY <1>1, <1>3, <1>4 DEF SeeHead, Thread
<1>6. /\ prod' \in Thread /\ prod'.seen = k /\ prod'.pc \in {"idle", "copy"}
      /\ prod'.pc = "copy" => prod'.clk >= k - 1 /\ PushNext # head[k].val
  <2>1. CASE PushFull(k)
    BY <2>1, <1>5 DEF PushFull
  <2>2. CASE PushFree(k)
    BY <2>2, <1>5 DEF PushFree, Thread
  <2>3. CASE LenByProducer(k)
    BY <2>3, <1>1, <1>3 DEF LenByProducer, Thread
  <2> QED
    BY <2>1, <2>2, <2>3
<1>7. prod'.pc = "copy" => pushed - (k - 1) < Capacity
  <2>1. PushNext # head[k].val => pushed - (k - 1) # Capacity
    BY FullIsFull
  <2>2. pushed \in Nat /\ Capacity \in Nat
    BY RingFacts, CapacityAssumption
  <2> QED
    BY <2>1, <2>2, <1>1, <1>6
<1>8. TypeOK'
  BY <1>T, <1>1, <1>2, <1>6 DEF TypeOK, Stores
<1>9. Histories'
  BY <1>T, <1>2 DEF Histories, IsHistory, Pops
<1>10. Knowledge'
  BY <1>T, <1>1, <1>2, <1>6, <1>7 DEF Knowledge, Pops
<1>11. Contents'
  BY <1>T, <1>2, <1>6 DEF Contents, Pops
<1>12. InOrder' /\ NoDataRace'
  BY <1>T, <1>2 DEF InOrder, NoDataRace
<1> QED
  BY <1>8, <1>9, <1>10, <1>11, <1>12 DEF RingInv

\* A load of tail by the consumer.
LEMMA ConsumerLoads ==
  ASSUME RingInv, NEW k \in TailLoads, PopEmpty(k) \/ PopSome(k) \/ LenByConsumer(k)
  PROVE  RingInv'
<1>T. TypeOK /\ Histories /\ Knowledge /\ Contents /\ InOrder /\ NoDataRace
  BY DEF RingInv
<1>1. /\ k \in Nat \ {0} /\ k <= Len(tail) /\ Pops <= k - 1
      /\ tail[k].clk = k - 1
  BY LoadFacts
<1>2. UNCHANGED <<data, slot, slotRead, head, tail, prod, pushed, popped, race>>
  BY DEF PopEmpty, PopSome, LenByConsumer
<1>3. cons \in Thread /\ cons.pc = "idle"
  BY <1>T DEF TypeOK, PopEmpty, PopSome, LenByConsumer
<1>4. Larger(cons.clk, k - 1) \in Nat /\ Larger(cons.clk, k - 1) >= k - 1
  BY <1>1, <1>3 DEF Larger, Thread
<1>5. /\ SeeTail(k) \in Thread /\ SeeTail(k).pc = "idle" /\ SeeTail(k).seen = k
      /\ SeeTail(k).clk >= k - 1
  BY <1>1, <1>3, <1>4 DEF SeeTail, Thread
<1>6. /\ cons' \in Thread /\ cons'.seen = k /\ cons'.pc \in {"idle", "copy"}
      /\ cons'.pc = "copy" => cons'.clk >= k - 1 /\ PopHead # tail[k].val
  <2>1. CASE PopEmpty(k)
    BY <2>1, <1>5 DEF PopEmpty
  <2>2. CASE PopSome(k)
    BY <2>2, <1>5 DEF PopSome, Thread
  <2>3. CASE LenByConsumer(k)
    BY <2>3, <1>1, <1>3 DEF LenByConsumer, Thread
  <2> QED
    BY <2>1, <2>2, <2>3
<1>7. cons'.pc = "copy" => k - 1 > Pops
  <2>1. PopHead # tail[k].val => k - 1 # Pops
    BY EmptyIsEmpty
  <2>2. Pops \in Nat
    BY RingFacts
  <2> QED
    BY <2>1, <2>2, <1>1, <1>6
<1>8. TypeOK'
  BY <1>T, <1>1, <1>2, <1>6 DEF TypeOK, Stores
<1>9. Histories'
  BY <1>T, <1>2, <1>3, <1>6 DEF Histories, IsHistory, Pops
<1>10. Knowledge'
  <2>1. Pops' = Pops
    BY <1>2 DEF Pops
  <2> QED
    BY <1>T, <1>1, <1>2, <1>6, <1>7, <2>1 DEF Knowledge
<1>11. Contents'
  BY <1>T, <1>2 DEF Contents, Pops
<1>12. InOrder' /\ NoDataRace'
  BY <1>T, <1>2 DEF InOrder, NoDataRace
<1> QED
  BY <1>8, <1>9, <1>10, <1>11, <1>12 DEF RingInv

\* The producer's copy overwrites no element, and no slot that the consumer
\* may still be reading: a lap earlier is before what the producer has seen.
LEMMA PushCopyStep ==
  ASSUME RingInv, PushCopy
  PROVE  RingInv'
<1>T. TypeOK /\ Histories /\ Knowledge /\ Contents /\ InOrder /\ NoDataRace
  BY DEF RingInv
<1>1. /\ Pops \in Nat /\ pushed \in Nat /\ Len(popped) \in Nat /\ Len(popped) <= pushed
      /\ prod.pc = "copy" /\ pushed - Pops < Capacity
      /\ prod.seen \in Nat \ {0} /\ prod.clk \in Nat
  BY RingFacts DEF PushCopy
<1>2. pushed - (prod.seen - 1) < Capacity /\ prod.clk >= prod.seen - 1
  BY <1>T, <1>1 DEF Knowledge
<1>3. PushTail = pushed % Slots /\ PushTail \in Index
  BY LoadFacts
<1>4. /\ UNCHANGED <<data, slotRead, head, tail, cons, pushed, popped>>
      /\ slot' = [slot EXCEPT ![PushTail] = pushed + 1]
      /\ race' = (race \/ slotRead[PushTail] > prod.clk)
      /\ prod' = [prod EXCEPT !.pc = "publish"]
  BY DEF PushCopy
<1>5. prod' \in Thread /\ prod'.pc = "publish" /\ prod'.seen = prod.seen /\ prod'.clk = prod.clk
  BY <1>T, <1>4 DEF TypeOK, Thread
<1>6. slot' \in [Index -> Nat] /\ slot \in [Index -> Nat] /\ slotRead \in [Index -> Nat]
  BY <1>T, <1>1, <1>3, <1>4 DEF TypeOK
<1>7. ~(slotRead[PushTail] > prod.clk)
  <2> DEFINE x == slotRead[PushTail]
  <2> HIDE DEF x
  <2>1. x \in Nat
    BY <1>3, <1>6 DEF x
  <2>2. SUFFICES ASSUME x > 0 PROVE x <= prod.clk
    BY <2>1, <1>1 DEF x
  <2>3. x <= Len(popped) /\ (x - 1) % Slots = pushed % Slots
    BY <1>T, <1>3, <2>2 DEF Contents, x
  <2>4. x - 1 \in Nat /\ x - 1 <= pushed /\ x - 1 # pushed
    BY <2>1, <2>2, <2>3, <1>1
  <2>5. ~(pushed - (x - 1) < Slots)
    BY <2>3, <2>4, <1>1, SlotsType, OneLap
  <2>6. Slots = Capacity + 1 /\ Capacity \in Nat
    BY SlotsType
  <2> QED
    BY <2>1, <2>4, <2>5, <2>6, <1>1, <1>2
<1>8. NoDataRace' /\ race' \in BOOLEAN
  BY <1>T, <1>4, <1>7 DEF NoDataRace, TypeOK
<1>9. TypeOK'
  BY <1>T, <1>4, <1>5, <1>6, <1>8 DEF TypeOK, Stores
<1>10. Histories' /\ InOrder'
  BY <1>T, <1>4 DEF Histories, IsHistory, Pops, InOrder
<1>11. Knowledge'
  <2>1. Pops' = Pops
    BY <1>4 DEF Pops
  <2> QED
    BY <1>T, <1>1, <1>2, <1>4, <1>5, <2>1 DEF Knowledge
<1>12. Contents'
  <2>1. ASSUME NEW n \in Pops .. pushed - 1
        PROVE  slot'[n % Slots] = n + 1
    <3>1. n \in Nat /\ n <= pushed /\ n # pushed /\ pushed - n < Slots
      BY <1>1, SlotsType
    <3>2. n % Slots # pushed % Slots
      BY <3>1, <1>1, SlotsType, OneLap
    <3>3. n % Slots \in Index
      BY <3>1, SlotsType DEF Index
    <3>4. slot[n % Slots] = n + 1
      BY <1>T DEF Contents
    <3> QED
      BY <3>2, <3>3, <3>4, <1>3, <1>4, <1>6
  <2>2. slot'[pushed % Slots] = pushed + 1
    BY <1>3, <1>4, <1>6
  <2> QED
    BY <1>T, <1>4, <2>1, <2>2 DEF Contents, Pops
<1> QED
  BY <1>8, <1>9, <1>10, <1>11, <1>12 DEF RingInv

\* The producer's store of tail publishes the element it copied.
LEMMA PushPublishStep ==
  ASSUME RingInv, PushPublish
  PROVE  RingInv'
<1>T. TypeOK /\ Histories /\ Knowledge /\ Contents /\ InOrder /\ NoDataRace
  BY DEF RingInv
<1>1. /\ Pops \in Nat /\ pushed \in Nat /\ Len(tail) = pushed + 1
      /\ prod.pc = "publish" /\ prod.seen \in Nat \ {0}
      /\ cons.seen \in Nat \ {0}
  BY RingFacts DEF PushPublish
<1>2. pushed - (prod.seen - 1) < Capacity /\ slot[pushed % Slots] = pushed + 1
  BY <1>T, <1>1 DEF Knowledge, Contents
<1>3. PushNext = (pushed + 1) % Slots /\ PushNext \in Index
  <2>1. PushNext = (pushed + 1) % Slots
    BY LoadFacts
  <2> QED
    BY <2>1, <1>1, SlotsType DEF Index
<1>4. /\ UNCHANGED <<data, slot, slotRead, head, cons, popped, race>>
      /\ tail' = Append(tail, Store(PushNext, pushed + 1))
      /\ pushed' = pushed + 1
      /\ prod' = [prod EXCEPT !.pc = "idle"]
  BY DEF PushPublish
<1>5. prod' \in Thread /\ prod'.pc = "idle" /\ prod'.seen = prod.seen /\ prod'.clk = prod.clk
  BY <1>T, <1>4 DEF TypeOK, Thread
<1>6. /\ Store(PushNext, pushed + 1) \in [val : Index, clk : Nat]
      /\ Store(PushNext, pushed + 1).val = PushNext /\ Store(PushNext, pushed + 1).clk = pushed + 1
  BY <1>1, <1>3 DEF Store
<1>7. /\ tail' \in Stores /\ Len(tail') = pushed + 2 /\ tail' # <<>>
      /\ tail'[pushed + 2] = Store(PushNext, pushed + 1)
      /\ \A k \in 1 .. pushed + 1 : tail'[k] = tail[k]
  <2>1. tail \in Stores
    BY <1>T DEF TypeOK
  <2> HIDE DEF Store
  <2>2. /\ tail' \in Stores /\ Len(tail') = Len(tail) + 1
        /\ tail'[Len(tail) + 1] = Store(PushNext, pushed + 1)
        /\ \A k \in 1 .. Len(tail) : tail'[k] = tail[k]
    BY <2>1, <1>4, <1>6, AppendProperties DEF Stores
  <2>3. Len(tail') = pushed + 2 /\ Len(tail) + 1 = pushed + 2
    BY <2>2, <1>1
  <2>4. tail' # <<>>
    BY <2>3, <1>1, EmptySeq
  <2> QED
    BY <2>2, <2>3, <2>4, <1>1
<1>8. Pops' = Pops
  BY <1>4 DEF Pops
<1>9. TypeOK'
  <2>1. cons'.seen <= Len(tail')
    BY <1>T, <1>1, <1>4, <1>7 DEF TypeOK
  <2>2. pushed' \in Nat
    BY <1>1, <1>4
  <2> QED
    BY <1>T, <1>4, <1>5, <1>7, <2>1, <2>2 DEF TypeOK, Stores
<1>10. Histories'
  <2>1. ASSUME NEW k \in 1 .. Len(tail')
        PROVE  tail'[k].val = (k - 1) % Slots /\ tail'[k].clk = k - 1
    <3>1. CASE k \in 1 .. pushed + 1
      BY <3>1, <1>T, <1>1, <1>7 DEF Histories, IsHistory
    <3>2. CASE k = pushed + 2
      <4>1. k - 1 = pushed + 1
        BY <3>2, <1>1
      <4> QED
        BY <3>2, <4>1, <1>3, <1>6, <1>7
    <3> QED
      BY <3>1, <3>2, <1>1, <1>7
  <2>2. IsHistory(tail)' /\ IsHistory(head)'
    BY <1>T, <1>4, <2>1 DEF IsHistory, Histories
  <2>3. Len(tail') = pushed' + 1
    BY <1>1, <1>4, <1>7
  <2> QED
    BY <1>T, <1>4, <1>8, <2>2, <2>3 DEF Histories
<1>11. Knowledge'
  <2>1. pushed' - (prod'.seen - 1) <= Capacity
    BY <1>1, <1>2, <1>4, <1>5, SlotsType
  <2> QED
    BY <1>T, <1>4, <1>5, <1>8, <2>1 DEF Knowledge
<1>12. Contents'
  <2>1. ASSUME NEW n \in Pops' .. pushed' - 1
        PROVE  slot'[n % Slots] = n + 1
    <3>1. n \in Pops .. pushed - 1 \/ n = pushed
      BY <1>1, <1>4, <1>8
    <3> QED
      BY <3>1, <1>T, <1>2, <1>4 DEF Contents
  <2> QED
    BY <1>T, <1>4, <1>5, <2>1 DEF Contents
<1>13. InOrder' /\ NoDataRace'
  BY <1>T, <1>4 DEF InOrder, NoDataRace
<1> QED
  BY <1>9, <1>10, <1>11, <1>12, <1>13 DEF RingInv

\* The consumer's copy returns the next element: its write is one the
\* consumer has seen.
LEMMA PopCopyStep ==
  ASSUME RingInv, PopCopy
  PROVE  RingInv'
<1>T. TypeOK /\ Histories /\ Knowledge /\ Contents /\ InOrder /\ NoDataRace
  BY DEF RingInv
<1>1. /\ Pops \in Nat /\ pushed \in Nat /\ Pops < pushed /\ cons.pc = "copy"
      /\ cons.seen \in Nat \ {0} /\ cons.clk \in Nat
  BY RingFacts DEF PopCopy
<1>2. cons.clk >= cons.seen - 1 /\ cons.seen - 1 > Pops /\ Len(popped) = Pops
  BY <1>T, <1>1 DEF Knowledge, Histories
<1>3. PopHead = Pops % Slots /\ PopHead \in Index
  BY LoadFacts
<1>4. slot[PopHead] = Pops + 1
  <2>1. Pops \in Pops .. pushed - 1
    BY <1>1
  <2> QED
    BY <2>1, <1>3, <1>T DEF Contents
<1>5. ~(slot[PopHead] > cons.clk)
  BY <1>1, <1>2, <1>4
<1>6. /\ UNCHANGED <<data, slot, head, tail, prod, pushed>>
      /\ race' = (race \/ slot[PopHead] > cons.clk)
      /\ popped' = Append(popped, Pops + 1)
      /\ slotRead' = [slotRead EXCEPT ![PopHead] = Len(popped) + 1]
      /\ cons' = [cons EXCEPT !.pc = "publish"]
  <2>1. PICK v \in {slot[PopHead]} \cup (IF slot[PopHead] > cons.clk THEN {0} ELSE {}) :
               popped' = Append(popped, v)
    BY DEF PopCopy
  <2>2. v = Pops + 1
    BY <2>1, <1>4, <1>5
  <2> QED
    BY <2>1, <2>2 DEF PopCopy
<1>7. cons' \in Thread /\ cons'.pc = "publish" /\ cons'.seen = cons.seen /\ cons'.clk = cons.clk
  BY <1>T, <1>6 DEF TypeOK, Thread
<1>8. /\ popped' \in Seq(Nat) /\ Len(popped') = Pops + 1 /\ popped'[Pops + 1] = Pops + 1
      /\ \A n \in 1 .. Pops : popped'[n] = popped[n]
  <2>1. popped \in Seq(Nat) /\ Pops + 1 \in Nat
    BY <1>T, <1>1 DEF TypeOK
  <2> QED
    BY <2>1, <1>2, <1>6, AppendProperties
<1>9. /\ slotRead' \in [Index -> Nat] /\ slotRead'[PopHead] = Pops + 1
      /\ \A j \in Index \ {PopHead} : slotRead'[j] = slotRead[j]
  BY <1>T, <1>1, <1>2, <1>3, <1>6 DEF TypeOK
<1>10. Pops' = Pops
  BY <1>6 DEF Pops
<1>11. NoDataRace' /\ race' \in BOOLEAN
  BY <1>T, <1>5, <1>6 DEF NoDataRace, TypeOK
<1>12. TypeOK'
  BY <1>T, <1>6, <1>7, <1>8, <1>9, <1>11 DEF TypeOK, Stores
<1>13. Histories'
  BY <1>T, <1>6, <1>7, <1>8, <1>10 DEF Histories, IsHistory
<1>14. Knowledge'
  BY <1>T, <1>1, <1>2, <1>6, <1>7, <1>10 DEF Knowledge
<1>15. Contents'
  <2>1. ASSUME NEW j \in Index, slotRead'[j] > 0
        PROVE  slotRead'[j] <= Len(popped') /\ (slotRead'[j] - 1) % Slots = j
    <3>1. CASE j = PopHead
      <4>1. (Pops + 1) - 1 = Pops /\ Pops + 1 <= Pops + 1
        BY <1>1
      <4> QED
        BY <3>1, <4>1, <1>3, <1>8, <1>9
    <3>2. CASE j # PopHead
      <4>1. slotRead'[j] = slotRead[j] /\ slotRead[j] \in Nat
        BY <3>2, <1>9, <1>T DEF TypeOK
      <4>2. slotRead[j] <= Len(popped) /\ (slotRead[j] - 1) % Slots = j
        BY <2>1, <4>1, <1>T DEF Contents
      <4>3. slotRead[j] <= Pops + 1
        BY <4>1, <4>2, <1>1, <1>2
      <4> QED
        BY <4>1, <4>2, <4>3, <1>8
    <3> QED
      BY <3>1, <3>2
  <2> QED
    BY <1>T, <1>6, <1>10, <2>1 DEF Contents
<1>16. InOrder'
  <2>1. ASSUME NEW n \in 1 .. Len(popped')
        PROVE  popped'[n] = n
    <3>1. n \in 1 .. Pops \/ n = Pops + 1
      BY <1>1, <1>8
    <3>2. n \in 1 .. Pops => popped[n] = n
      BY <1>T, <1>2 DEF InOrder
    <3> QED
      BY <3>1, <3>2, <1>8
  <2> QED
    BY <2>1 DEF InOrder
<1> QED
  BY <1>11, <1>12, <1>13, <1>14, <1>15, <1>16 DEF RingInv

\* The consumer's store of head gives the slot back.
LEMMA PopPublishStep ==
  ASSUME RingInv, PopPublish
  PROVE  RingInv'
<1>T. TypeOK /\ Histories /\ Knowledge /\ Contents /\ InOrder /\ NoDataRace
  BY DEF RingInv
<1>1. /\ Pops \in Nat /\ pushed \in Nat /\ Len(head) = Pops + 1
      /\ cons.pc = "publish" /\ cons.seen \in Nat \ {0} /\ prod.seen \in Nat \ {0}
  BY RingFacts DEF PopPublish
<1>2. cons.seen - 1 > Pops /\ Len(popped) = Pops + 1
  BY <1>T, <1>1 DEF Knowledge, Histories
<1> DEFINE new == Store((PopHead + 1) % Slots, Len(popped))
<1>3. (PopHead + 1) % Slots = (Pops + 1) % Slots /\ (PopHead + 1) % Slots \in Index
  <2>1. (PopHead + 1) % Slots = (Pops + 1) % Slots
    BY LoadFacts
  <2> QED
    BY <2>1, <1>1, SlotsType DEF Index
<1>4. /\ UNCHANGED <<data, slot, slotRead, tail, prod, pushed, popped, race>>
      /\ head' = Append(head, new)
      /\ cons' = [cons EXCEPT !.pc = "idle"]
  BY DEF PopPublish
<1>5. cons' \in Thread /\ cons'.pc = "idle" /\ cons'.seen = cons.seen /\ cons'.clk = cons.clk
  BY <1>T, <1>4 DEF TypeOK, Thread
<1>6. new \in [val : Index, clk : Nat] /\ new.val = (Pops + 1) % Slots /\ new.clk = Pops + 1
  BY <1>1, <1>2, <1>3 DEF Store
<1> HIDE DEF new
<1>7. /\ head' \in Stores /\ Len(head') = Pops + 2 /\ head' # <<>> /\ head'[Pops + 2] = new
      /\ \A k \in 1 .. Pops + 1 : head'[k] = head[k]
  <2>1. head \in Stores
    BY <1>T DEF TypeOK
  <2>2. /\ head' \in Stores /\ Len(head') = Len(head) + 1 /\ head'[Len(head) + 1] = new
        /\ \A k \in 1 .. Len(head) : head'[k] = head[k]
    BY <2>1, <1>4, <1>6, AppendProperties DEF Stores
  <2>3. Len(head') = Pops + 2 /\ Len(head) + 1 = Pops + 2
    BY <2>2, <1>1
  <2>4. head' # <<>>
    BY <2>3, <1>1, EmptySeq
  <2> QED
    BY <2>2, <2>3, <2>4, <1>1
<1>8. Pops' = Pops + 1
  BY <1>1, <1>7 DEF Pops
<1>9. TypeOK'
  <2>1. prod'.seen <= Len(head')
    BY <1>T, <1>1, <1>4, <1>7 DEF TypeOK
  <2> QED
    BY <1>T, <1>4, <1>5, <1>7, <2>1 DEF TypeOK, Stores
<1>10. Histories'
  <2>1. ASSUME NEW k \in 1 .. Len(head')
        PROVE  head'[k].val = (k - 1) % Slots /\ head'[k].clk = k - 1
    <3>1. CASE k \in 1 .. Pops + 1
      BY <3>1, <1>T, <1>1, <1>7 DEF Histories, IsHistory
    <3>2. CASE k = Pops + 2
      <4>1. k - 1 = Pops + 1
        BY <3>2, <1>1
      <4> QED
        BY <3>2, <4>1, <1>6, <1>7
    <3> QED
      BY <3>1, <3>2, <1>1, <1>7
  <2>2. IsHistory(tail)' /\ IsHistory(head)'
    BY <1>T, <1>4, <2>1 DEF IsHistory, Histories
  <2> QED
    BY <1>T, <1>2, <1>4, <1>5, <1>8, <2>2 DEF Histories
<1>11. Knowledge'
  <2>1. cons'.seen - 1 >= Pops'
    BY <1>1, <1>2, <1>5, <1>8
  <2> QED
    BY <1>T, <1>4, <1>5, <2>1 DEF Knowledge
<1>12. Contents'
  <2>1. \A n \in Pops' .. pushed' - 1 : n \in Pops .. pushed - 1
    BY <1>1, <1>4, <1>8
  <2> QED
    BY <1>T, <1>4, <2>1 DEF Contents
<1>13. InOrder' /\ NoDataRace'
  BY <1>T, <1>4 DEF InOrder, NoDataRace
<1> QED
  BY <1>9, <1>10, <1>11, <1>12, <1>13 DEF RingInv

LEMMA RingInvNext == RingInv /\ [Next]_vars => RingInv'
<1> SUFFICES ASSUME RingInv, [Next]_vars
             PROVE  RingInv'
  OBVIOUS
<1>1. CASE SpscInit
  BY <1>1, InitStep
<1>2. CASE SpscDestroy
  BY <1>2, DestroyStep
<1>3. CASE Producer
  BY <1>3, ProducerLoads, PushCopyStep, PushPublishStep DEF Producer
<1>4. CASE Consumer
  BY <1>4, ConsumerLoads, PopCopyStep, PopPublishStep DEF Consumer
<1>5. CASE UNCHANGED vars
  BY <1>5 DEF vars, RingInv, TypeOK, Histories, Knowledge, Contents, InOrder, NoDataRace,
              Pops, IsHistory, Stores
<1> QED
  BY <1>1, <1>2, <1>3, <1>4, <1>5 DEF Next

LEMMA RingInvariant == Spec => []RingInv
<1> QED
  BY RingInvInit, RingInvNext, PTL DEF Spec

-----------------------------------------------------------------------------
(* The theorems *)

(***************************************************************************)
(* The two memcpy calls of spsc.c never race, for every capacity and       *)
(* however stale the acquire loads of the other side's index are.          *)
(***************************************************************************)
THEOREM RaceFree == Spec => []NoDataRace
<1>1. RingInv => NoDataRace
  BY DEF RingInv
<1> QED
  BY <1>1, RingInvariant, PTL

(***************************************************************************)
(* Elements come out of spsc_pop once and in the order spsc_push accepted  *)
(* them, and the ring never holds more than its capacity.                  *)
(***************************************************************************)
THEOREM Delivery == Spec => []FifoDelivery
<1>1. RingInv => FifoDelivery
  <2> SUFFICES ASSUME RingInv
               PROVE  FifoDelivery
    OBVIOUS
  <2>1. /\ pushed \in Nat /\ Len(popped) \in Nat /\ Pops \in Nat
        /\ Pops <= Len(popped) /\ Len(popped) <= pushed /\ pushed - Pops <= Capacity
    BY RingFacts
  <2>2. Held \in 0 .. Capacity
    BY <2>1, CapacityAssumption DEF Held
  <2> QED
    BY <2>2 DEF RingInv, InOrder, FifoDelivery
<1> QED
  BY <1>1, RingInvariant, PTL

(***************************************************************************)
(* The answers full, empty and len of spsc.c are true of what the caller   *)
(* has seen, although the indices wrap, and err on the safe side.          *)
(***************************************************************************)
THEOREM Answers == Spec => []HonestAnswers
<1>1. RingInv => HonestAnswers
  <2> SUFFICES ASSUME RingInv
               PROVE  HonestAnswers
    OBVIOUS
  <2>1. /\ pushed \in Nat /\ Len(popped) \in Nat /\ Pops \in Nat
        /\ Pops <= Len(popped) /\ Len(popped) <= pushed /\ pushed - Pops <= Capacity
    BY RingFacts
  <2>2. cons.pc = "idle" => Len(popped) = Pops
    BY DEF RingInv, Histories
  <2>3. HonestRefusals
    BY <2>2, FullIsFull, EmptyIsEmpty DEF HonestRefusals
  <2>4. ASSUME NEW k \in HeadLoads
        PROVE  SpscLen(head[k].val, PushTail) >= Held
    <3>1. /\ PushTail = pushed % Slots /\ head[k].val = (k - 1) % Slots
          /\ k - 1 \in Nat /\ k - 1 <= Pops /\ pushed - (k - 1) <= Capacity
      BY LoadFacts
    <3>2. k - 1 <= pushed /\ pushed - (k - 1) < Slots
      BY <2>1, <3>1, SlotsType
    <3>3. ((pushed % Slots) + Slots - ((k - 1) % Slots)) % Slots = pushed - (k - 1)
      BY <2>1, <3>1, <3>2, SlotsType, Distance
    <3>4. SpscLen(head[k].val, PushTail) = pushed - (k - 1)
      BY <3>1, <3>3 DEF SpscLen
    <3> QED
      BY <2>1, <3>1, <3>4 DEF Held
  <2>5. ASSUME NEW k \in TailLoads, cons.pc = "idle"
        PROVE  SpscLen(PopHead, tail[k].val) <= Held
    <3>1. /\ PopHead = Pops % Slots /\ tail[k].val = (k - 1) % Slots
          /\ k - 1 \in Nat /\ Pops <= k - 1 /\ k - 1 <= pushed
      BY LoadFacts
    <3>2. (k - 1) - Pops < Slots
      BY <2>1, <3>1, SlotsType
    <3>3. (((k - 1) % Slots) + Slots - (Pops % Slots)) % Slots = (k - 1) - Pops
      BY <2>1, <3>1, <3>2, SlotsType, Distance
    <3>4. SpscLen(PopHead, tail[k].val) = (k - 1) - Pops
      BY <3>1, <3>3 DEF SpscLen
    <3> QED
      BY <2>1, <2>2, <2>5, <3>1, <3>4 DEF Held
  <2> QED
    BY <2>3, <2>4, <2>5 DEF HonestAnswers, LenIsOneSided
<1> QED
  BY <1>1, RingInvariant, PTL
=============================================================================
