-------------------------- MODULE ContainerProofs --------------------------
(***************************************************************************)
(* Theorems about the containers, each of them a sequential program.       *)
(*                                                                         *)
(* Exact: for any keys, values, hash function and initial capacity the     *)
(* hash map's table is the map its callers built.                          *)
(* Ring: RingBuf is a bounded queue that drops its oldest element.         *)
(* Growth: Vec and StrBuf never write outside the block they hold.         *)
(* Split: the tokens of a text tile it, and a view is trimmed, sliced and  *)
(* parsed as what it holds.                                                *)
(***************************************************************************)
EXTENDS MCLibrary, FiniteSetTheorems, SequenceTheorems, WellFoundedInduction, TLAPS

-----------------------------------------------------------------------------
(* Arithmetic *)

LEMMA Division ==
  ASSUME NEW m \in Nat, NEW d \in Nat \ {0}
  PROVE  m \div d \in Nat /\ m % d \in 0 .. d - 1 /\ m = d * (m \div d) + (m % d)
BY Z3

LEMMA Product ==
  \A c, d \in Nat : c * d \in Nat /\ c * d = d * c
BY Z3

LEMMA Monotone ==
  \A c, d, e \in Nat : c <= d => c * e <= d * e
BY Z3

\* The guard against a product that wraps.
LEMMA NoOverflow ==
  ASSUME NEW m \in Nat, NEW d \in Nat \ {0}, NEW c \in Nat, c <= m \div d
  PROVE  c * d \in Nat /\ c * d <= m /\ c <= c * d /\ c <= m
<1>1. m \div d \in Nat /\ m % d \in 0 .. d - 1 /\ m = d * (m \div d) + (m % d)
  BY Division
<1>2. c * d <= (m \div d) * d
  BY <1>1, Monotone
<1>3. (m \div d) * d = d * (m \div d) /\ d * (m \div d) \in Nat /\ c * d \in Nat
  BY <1>1, Product
<1>4. c * d <= m
  BY <1>1, <1>2, <1>3
<1>5. 1 * c <= d * c /\ d * c = c * d /\ 1 * c = c
  BY Monotone, Product
<1> QED
  BY <1>3, <1>4, <1>5

LEMMA Remainder ==
  ASSUME NEW m \in Nat, NEW d \in Nat \ {0}
  PROVE  /\ m % d \in 0 .. d - 1
         /\ m < d => m % d = m
         /\ d <= m /\ m < 2 * d => m % d = m - d
BY Z3

LEMMA SizeIs == /\ V!SizeMax \in Nat /\ V!SizeMax + 1 \in Nat \ {0}
                /\ R!SizeMax = V!SizeMax /\ B!SizeMax = V!SizeMax /\ A!SizeMax = V!SizeMax
BY SizeAssumption DEF V!SizeMax, R!SizeMax, B!SizeMax, A!SizeMax

LEMMA WrapIs == /\ \A u \in Nat : V!Wrap(u) \in 0 .. V!SizeMax /\ (u <= V!SizeMax => V!Wrap(u) = u)
                /\ \A u \in Nat : R!Wrap(u) = V!Wrap(u) /\ A!Wrap(u) = V!Wrap(u)
<1>1. \A u \in Nat : V!Wrap(u) = u % (V!SizeMax + 1)
  BY DEF V!Wrap
<1>2. \A u \in Nat : R!Wrap(u) = u % (V!SizeMax + 1) /\ A!Wrap(u) = u % (V!SizeMax + 1)
  BY SizeIs DEF R!Wrap, A!Wrap
<1>3. \A u \in Nat : /\ u % (V!SizeMax + 1) \in 0 .. V!SizeMax
                     /\ u <= V!SizeMax => u % (V!SizeMax + 1) = u
  <2> SUFFICES ASSUME NEW u \in Nat PROVE /\ u % (V!SizeMax + 1) \in 0 .. V!SizeMax
                                          /\ u <= V!SizeMax => u % (V!SizeMax + 1) = u
    OBVIOUS
  <2>1. /\ u % (V!SizeMax + 1) \in 0 .. (V!SizeMax + 1) - 1
        /\ u < V!SizeMax + 1 => u % (V!SizeMax + 1) = u
    BY SizeIs, Remainder
  <2> QED
    BY <2>1, SizeIs
<1> QED
  BY <1>1, <1>2, <1>3

-----------------------------------------------------------------------------
(* The hash map *)

SlotRec == [key : Keys \cup {NULL}, value : Values \cup {NULL}, dead : BOOLEAN]

LiveSlots(t, size) == {p \in 0 .. size - 1 : Live(t[p])}

(***************************************************************************)
(* The invariant of open addressing.  Sound: a key is in one live slot at  *)
(* most, and the walk from its home slot to that slot meets no empty one.  *)
(***************************************************************************)
\* The walk from hash value h reaches p before an empty slot.
Reaches(h, t, size, p) == \E st \in 0 .. size - 1 :
                         /\ Position(h, size, st) = p
                         /\ \A s \in 0 .. st - 1 : t[Position(h, size, s)].key # NULL

Sound(h, t, size) ==
    /\ size \in Nat \ {0} /\ t \in [0 .. size - 1 -> SlotRec]
    /\ \A p \in LiveSlots(t, size) : Reaches(h[t[p].key], t, size, p)
    /\ \A p, q \in LiveSlots(t, size) : t[p].key = t[q].key => p = q

-----------------------------------------------------------------------------
(* Numbers *)

\* Least is the this member of a set of numbers that has one.
LEMMA LeastIs ==
  ASSUME NEW bad, bad \subseteq Nat, bad # {}
  PROVE  Least(bad) \in bad /\ \A other \in bad : Least(bad) <= other
<1> DEFINE rel == OpToRel(<, Nat)
<1>1. IsWellFoundedOn(rel, Nat)
  BY NatLessThanWellFounded
<1>2. \A this, other \in Nat : <<other, this>> \in rel <=> other < this
  BY DEF OpToRel
<1> HIDE DEF rel
<1>3. PICK this \in bad : \A other \in bad : ~(<<other, this>> \in rel)
  BY <1>1, WFMin
<1>4. \A other \in bad : ~(other < this)
  BY <1>2, <1>3
<1>5. \E z \in bad : \A other \in bad : z <= other
  BY <1>3, <1>4
<1> QED
  BY <1>5 DEF Least

LEMMA PositionType ==
  ASSUME NEW h \in Nat, NEW size \in Nat \ {0}
  PROVE  \A st \in 0 .. size - 1 : Position(h, size, st) \in 0 .. size - 1
<1>1. \A st \in 0 .. size - 1 : h + st \in Nat
  OBVIOUS
<1>2. \A this \in Nat : (this % size) \in 0 .. size - 1
  OBVIOUS
<1> QED
  BY <1>1, <1>2 DEF Position

LEMMA PositionRemainder ==
  ASSUME NEW size \in Nat \ {0}, NEW q \in Nat, NEW p \in 0 .. size - 1, NEW this \in Nat, this = size * q + p
  PROVE  this % size = p
OBVIOUS

\* A walk of size steps comes to every slot.
LEMMA WalkIsTotal ==
  ASSUME NEW h \in Nat, NEW size \in Nat \ {0}, NEW p \in 0 .. size - 1
  PROVE  \E st \in 0 .. size - 1 : Position(h, size, st) = p
<1> DEFINE r == h % size
           q == h \div size
<1>1. r \in 0 .. size - 1 /\ q \in Nat /\ h = size * q + r
  OBVIOUS
<1> HIDE DEF r, q
<1>2. CASE r <= p
  <2>1. p - r \in 0 .. size - 1 /\ h + (p - r) \in Nat /\ h + (p - r) = size * q + p
    BY <1>1, <1>2
  <2>2. (h + (p - r)) % size = p
    BY <1>1, <2>1, PositionRemainder
  <2> QED
    BY <2>1, <2>2 DEF Position
<1>3. CASE ~(r <= p)
  <2>1. p - r + size \in 0 .. size - 1 /\ h + (p - r + size) \in Nat
    BY <1>1, <1>3
  <2>2. size * (q + 1) = size * q + size /\ q + 1 \in Nat
    BY <1>1
  <2>3. size * q \in Nat
    BY <1>1
  <2>4. h + (p - r + size) = size * (q + 1) + p
    BY <1>1, <2>2, <2>3
  <2>5. PICK m \in Nat, this \in Nat : this = h + (p - r + size) /\ this = size * m + p
    BY <2>1, <2>2, <2>4
  <2>6. this % size = p
    <3>1. this \in Nat /\ m \in Nat /\ this = size * m + p
      BY <2>5
    <3> QED
      BY ONLY <3>1, PositionRemainder
  <2> QED
    BY <2>1, <2>5, <2>6 DEF Position
<1> QED
  BY <1>2, <1>3

-----------------------------------------------------------------------------
(* probe *)

LEMMA HashType ==
  ASSUME hash \in [Keys -> HashValues], NEW k \in Keys
  PROVE  hash[k] \in Nat
BY HashAssumption

\* probe finds a key that is there.
LEMMA ProbeFinds ==
  ASSUME hash \in [Keys -> HashValues], NEW t, NEW size, Sound(hash, t, size),
         NEW p \in LiveSlots(t, size)
  PROVE  Probe(t, size, t[p].key) = p
<1> DEFINE k == t[p].key
           stops == Stops(t, size, k)
           first == Least(stops)
<1>1. size \in Nat \ {0} /\ p \in 0 .. size - 1 /\ t \in [0 .. size - 1 -> SlotRec] /\ Live(t[p])
  BY DEF Sound, LiveSlots
<1>2. k \in Keys
  BY <1>1 DEF SlotRec, Live
<1>3. hash[k] \in Nat
  BY <1>2, HashType
<1>4. PICK st \in 0 .. size - 1 : /\ Position(hash[k], size, st) = p
                                  /\ \A s \in 0 .. st - 1 : t[Position(hash[k], size, s)].key # NULL
  BY DEF Sound, Reaches
<1>5. \A s \in 0 .. size - 1 : Position(hash[k], size, s) \in 0 .. size - 1
  BY <1>1, <1>3, PositionType
<1>6. \A s : s \in stops <=> s \in 0 .. size - 1 /\ LET e == t[Position(hash[k], size, s)] IN
                                   e.key = NULL \/ (~e.dead /\ e.key = k)
  BY DEF Stops
<1>7. st \in stops /\ stops \subseteq Nat
  BY <1>1, <1>4, <1>6 DEF Live
<1>8. first \in stops /\ \A s \in stops : first <= s
  BY <1>7, LeastIs
<1>9. t[Position(hash[k], size, first)].key # NULL
  <2>1. CASE first = st
    BY <2>1, <1>1, <1>4 DEF Live
  <2>2. CASE first # st
    <3>1. first \in 0 .. st - 1
      BY <2>2, <1>4, <1>7, <1>8
    <3> QED
      BY <3>1, <1>4
  <2> QED
    BY <2>1, <2>2
<1>10. Position(hash[k], size, first) \in LiveSlots(t, size) /\ t[Position(hash[k], size, first)].key = k
  BY <1>5, <1>6, <1>8, <1>9 DEF LiveSlots, Live
<1>11. Position(hash[k], size, first) = p
  BY <1>10 DEF Sound
<1>12. stops # {} /\ Live(t[Position(hash[k], size, first)])
  BY <1>7, <1>10 DEF LiveSlots
<1> HIDE DEF k
<1> QED
  BY <1>11, <1>12 DEF Probe, k

\* probe gives a slot for a key that is not there: one the walk reaches.
LEMMA ProbeMisses ==
  ASSUME hash \in [Keys -> HashValues], NEW t, NEW size, Sound(hash, t, size), NEW k \in Keys,
         \A p \in LiveSlots(t, size) : t[p].key # k, \E p \in 0 .. size - 1 : t[p].key = NULL
  PROVE  /\ Probe(t, size, k) \in 0 .. size - 1 /\ ~Live(t[Probe(t, size, k)])
         /\ Reaches(hash[k], t, size, Probe(t, size, k))
<1> DEFINE stops == Stops(t, size, k)
           first == Least(stops)
           passed == {st \in Tombs(t, size, k) : st < first}
           free == Least(passed)
           at(s) == Position(hash[k], size, s)
<1>1. size \in Nat \ {0} /\ t \in [0 .. size - 1 -> SlotRec] /\ hash[k] \in Nat
  BY HashType DEF Sound
<1>2. PICK e \in 0 .. size - 1 : t[e].key = NULL
  OBVIOUS
<1>3. PICK st \in 0 .. size - 1 : at(st) = e
  BY <1>1, WalkIsTotal
<1>4. \A s \in 0 .. size - 1 : at(s) \in 0 .. size - 1
  BY <1>1, PositionType
<1>5. \A s \in 0 .. size - 1 : s \in stops <=> t[at(s)].key = NULL
  BY <1>4 DEF Stops, LiveSlots, Live
<1>6. stops \subseteq 0 .. size - 1 /\ passed \subseteq 0 .. size - 1
  BY DEF Stops, Tombs
<1>7. st \in stops /\ stops \subseteq Nat /\ passed \subseteq Nat
  BY <1>1, <1>2, <1>3, <1>5, <1>6
<1>8. first \in stops /\ \A s \in stops : first <= s
  BY <1>7, LeastIs
<1>9. first \in 0 .. size - 1 /\ ~Live(t[at(first)])
  BY <1>5, <1>6, <1>8 DEF Live
<1>10. \A s \in 0 .. first - 1 : s \in 0 .. size - 1 /\ s \notin stops
  BY <1>1, <1>8, <1>9
<1>11. \A s \in 0 .. first - 1 : t[at(s)].key # NULL
  BY <1>5, <1>10
<1>12. CASE passed = {}
  <2>1. Probe(t, size, k) = at(first)
    BY <1>7, <1>9, <1>12 DEF Probe
  <2>2. Reaches(hash[k], t, size, at(first))
    BY <1>9, <1>11 DEF Reaches
  <2> QED
    BY <2>1, <2>2, <1>4, <1>9
<1>13. CASE passed # {}
  <2>1. free \in passed
    BY <1>7, <1>13, LeastIs
  <2>2. free \in 0 .. size - 1 /\ Tomb(t[at(free)]) /\ free < first
    BY <2>1, <1>6 DEF Tombs
  <2>3. Probe(t, size, k) = at(free)
    BY <1>7, <1>9, <1>13 DEF Probe
  <2>4. \A s \in 0 .. free - 1 : s \in 0 .. first - 1
    BY <2>2, <1>1, <1>9
  <2>5. Reaches(hash[k], t, size, at(free))
    BY <2>2, <2>4, <1>11 DEF Reaches
  <2> QED
    BY <2>2, <2>3, <2>5, <1>4 DEF Live, Tomb
<1> QED
  BY <1>12, <1>13

-----------------------------------------------------------------------------
(* Changes of a table *)

\* u is t with e in slot p.
Stored(u, t, p, e) == u = [t EXCEPT ![p] = e]

\* A live entry e takes the slot p, which the walk of its key reaches.
LEMMA InsertSound ==
  ASSUME NEW h, NEW t, NEW size, Sound(h, t, size), NEW e \in SlotRec, Live(e),
         \A q \in LiveSlots(t, size) : t[q].key # e.key,
         NEW p \in 0 .. size - 1, ~Live(t[p]), Reaches(h[e.key], t, size, p),
         NEW u, Stored(u, t, p, e)
  PROVE  /\ Sound(h, u, size)
         /\ LiveSlots(u, size) = LiveSlots(t, size) \cup {p} /\ p \notin LiveSlots(t, size)
         /\ Owners(u, size) = Owners(t, size) \cup {p}
         /\ u[p] = e /\ \A q \in LiveSlots(t, size) : u[q] = t[q]
<1>1. size \in Nat \ {0} /\ t \in [0 .. size - 1 -> SlotRec]
  BY DEF Sound
<1>2. /\ u \in [0 .. size - 1 -> SlotRec] /\ u[p] = e
      /\ \A q \in 0 .. size - 1 : q # p => u[q] = t[q]
  BY <1>1 DEF Stored
<1>3. p \notin LiveSlots(t, size) /\ LiveSlots(u, size) = LiveSlots(t, size) \cup {p}
  BY <1>2 DEF LiveSlots
<1>4. \A q \in LiveSlots(t, size) : u[q] = t[q] /\ q # p
  BY <1>2, <1>3 DEF LiveSlots
<1>5. Owners(u, size) = Owners(t, size) \cup {p}
  BY <1>2 DEF Owners, Live
<1>6. \A this : this \in 0 .. size - 1 => (t[this].key # NULL => u[this].key # NULL)
  BY <1>2 DEF Live
<1>7. \A this : t[this].key # NULL => u[this].key # NULL
  BY <1>1, <1>2, <1>6 DEF Live, Stored
<1>8. \A g, q : Reaches(g, t, size, q) => Reaches(g, u, size, q)
  BY <1>7 DEF Reaches
<1>9. \A q \in LiveSlots(u, size) : Reaches(h[u[q].key], u, size, q)
  BY <1>2, <1>3, <1>4, <1>8 DEF Sound
<1>10. \A q, r \in LiveSlots(u, size) : u[q].key = u[r].key => q = r
  BY <1>2, <1>3, <1>4 DEF Sound
<1> QED
  BY <1>1, <1>2, <1>3, <1>4, <1>5, <1>9, <1>10 DEF Sound

\* A live slot gets a new value, or becomes a tombstone.
LEMMA ReplaceSound ==
  ASSUME NEW h, NEW t, NEW size, Sound(h, t, size), NEW p \in LiveSlots(t, size),
         NEW e \in SlotRec, e.key = t[p].key, NEW u, Stored(u, t, p, e)
  PROVE  /\ Sound(h, u, size)
         /\ LiveSlots(u, size) = IF e.dead THEN LiveSlots(t, size) \ {p} ELSE LiveSlots(t, size)
         /\ Owners(u, size) = Owners(t, size)
         /\ u[p] = e /\ \A q \in LiveSlots(t, size) : q # p => u[q] = t[q]
<1>1. size \in Nat \ {0} /\ t \in [0 .. size - 1 -> SlotRec] /\ p \in 0 .. size - 1 /\ Live(t[p])
  BY DEF Sound, LiveSlots
<1>2. /\ u \in [0 .. size - 1 -> SlotRec] /\ u[p] = e
      /\ \A q \in 0 .. size - 1 : q # p => u[q] = t[q]
  BY <1>1 DEF Stored
<1>3. LiveSlots(u, size) = IF e.dead THEN LiveSlots(t, size) \ {p} ELSE LiveSlots(t, size)
  BY <1>1, <1>2 DEF LiveSlots, Live
<1>4. \A q \in LiveSlots(t, size) : (q # p => u[q] = t[q]) /\ u[q].key = t[q].key
  BY <1>2 DEF LiveSlots
<1>5. Owners(u, size) = Owners(t, size)
  BY <1>1, <1>2 DEF Owners, Live
<1>6. \A this : t[this].key # NULL => u[this].key # NULL
  <2>1. \A this : this # p => u[this] = t[this]
    BY <1>1 DEF Stored
  <2> QED
    BY <2>1, <1>1, <1>2 DEF Live
<1>7. \A g, q : Reaches(g, t, size, q) => Reaches(g, u, size, q)
  BY <1>6 DEF Reaches
<1>8. LiveSlots(u, size) \subseteq LiveSlots(t, size)
  BY <1>3
<1>9. \A q \in LiveSlots(u, size) : Reaches(h[u[q].key], u, size, q)
  BY <1>4, <1>7, <1>8 DEF Sound
<1>10. \A q, r \in LiveSlots(u, size) : u[q].key = u[r].key => q = r
  BY <1>4, <1>8 DEF Sound
<1> QED
  BY <1>1, <1>2, <1>3, <1>4, <1>5, <1>9, <1>10 DEF Sound

\* A table with fewer owners than slots has an empty one.
LEMMA EmptySlot ==
  ASSUME NEW t, NEW size \in Nat, Cardinality(Owners(t, size)) < size
  PROVE  \E p \in 0 .. size - 1 : t[p].key = NULL
<1> SUFFICES ASSUME \A p \in 0 .. size - 1 : t[p].key # NULL
             PROVE  FALSE
  OBVIOUS
<1>1. Owners(t, size) = 0 .. size - 1
  BY DEF Owners
<1>2. Cardinality(0 .. size - 1) = size
  <2>1. Cardinality(0 .. size - 1) = IF 0 > size - 1 THEN 0 ELSE size - 1 - 0 + 1
    BY FS_Interval
  <2> QED
    BY <2>1
<1> QED
  BY <1>1, <1>2

LEMMA SlotsFinite ==
  ASSUME NEW t, NEW size \in Nat
  PROVE  /\ IsFiniteSet(LiveSlots(t, size)) /\ Cardinality(LiveSlots(t, size)) \in Nat
         /\ IsFiniteSet(Owners(t, size)) /\ Cardinality(Owners(t, size)) \in Nat
         /\ Cardinality(LiveSlots(t, size)) <= Cardinality(Owners(t, size))
<1>1. IsFiniteSet(0 .. size - 1)
  BY FS_Interval
<1>2. Owners(t, size) \subseteq 0 .. size - 1 /\ LiveSlots(t, size) \subseteq Owners(t, size)
  BY DEF Owners, LiveSlots, Live
<1>3. IsFiniteSet(Owners(t, size))
  BY <1>1, <1>2, FS_Subset
<1>4. IsFiniteSet(LiveSlots(t, size)) /\ Cardinality(LiveSlots(t, size)) <= Cardinality(Owners(t, size))
  BY <1>2, <1>3, FS_Subset
<1> QED
  BY <1>3, <1>4, FS_CardinalityType

LEMMA EmptyTableSound ==
  ASSUME NEW h, NEW size \in Nat \ {0}
  PROVE  /\ Sound(h, EmptyTable(size), size)
         /\ LiveSlots(EmptyTable(size), size) = {} /\ Owners(EmptyTable(size), size) = {}
<1>1. Empty \in SlotRec /\ ~Live(Empty) /\ Empty.key = NULL
  BY DEF Empty, SlotRec, Live
<1>2. EmptyTable(size) \in [0 .. size - 1 -> SlotRec] /\ \A p \in 0 .. size - 1 : EmptyTable(size)[p] = Empty
  BY <1>1 DEF EmptyTable
<1>3. LiveSlots(EmptyTable(size), size) = {} /\ Owners(EmptyTable(size), size) = {}
  BY <1>1, <1>2 DEF LiveSlots, Owners
<1> QED
  BY <1>2, <1>3 DEF Sound

-----------------------------------------------------------------------------
(* rehash *)

\* One round of rehash's loop, on what the rounds before it left.
MoveStep(size, f, p) ==
    IF p = 0 THEN EmptyTable(size)
    ELSE LET s == slots[p - 1] IN
         IF Live(s) THEN [f[p - 1] EXCEPT ![Probe(f[p - 1], size, s.key)] = s]
         ELSE f[p - 1]

LEMMA MovedExists ==
  ASSUME NEW size, NEW c \in Nat
  PROVE  \E f : f = [p \in 0 .. c |-> MoveStep(size, f, p)]
<1> DEFINE Upto(m) == \E f : f = [p \in 0 .. m |-> MoveStep(size, f, p)]
           bad == {m \in Nat : ~Upto(m)}
<1>1. Upto(0)
  <2> DEFINE f == [p \in 0 .. 0 |-> EmptyTable(size)]
  <2>1. \A p \in 0 .. 0 : MoveStep(size, f, p) = EmptyTable(size)
    BY DEF MoveStep
  <2>2. f = [p \in 0 .. 0 |-> MoveStep(size, f, p)]
    BY <2>1
  <2> QED
    BY <2>2
<1>2. ASSUME NEW m \in Nat, Upto(m) PROVE Upto(m + 1)
  <2>1. PICK f : f = [p \in 0 .. m |-> MoveStep(size, f, p)]
    BY <1>2
  <2> DEFINE g == [p \in 0 .. m + 1 |-> IF p = m + 1 THEN MoveStep(size, f, p) ELSE f[p]]
  <2>2. \A p \in 0 .. m : g[p] = f[p]
    OBVIOUS
  <2>3. g[m + 1] = MoveStep(size, f, m + 1)
    OBVIOUS
  <2>4. DOMAIN g = 0 .. m + 1 /\ g = [p \in 0 .. m + 1 |-> g[p]]
    OBVIOUS
  <2> HIDE DEF g
  <2>5. \A p \in 0 .. m + 1 : MoveStep(size, g, p) = MoveStep(size, f, p)
    <3>1. \A p \in 0 .. m + 1 : p = 0 \/ p - 1 \in 0 .. m
      OBVIOUS
    <3> QED
      BY <2>2, <3>1 DEF MoveStep
  <2>6. \A p \in 0 .. m : f[p] = MoveStep(size, f, p)
    BY <2>1
  <2>7. \A p \in 0 .. m + 1 : g[p] = MoveStep(size, g, p)
    <3>1. \A p \in 0 .. m + 1 : p \in 0 .. m \/ p = m + 1
      OBVIOUS
    <3> QED
      BY <3>1, <2>2, <2>3, <2>5, <2>6
  <2>8. g = [p \in 0 .. m + 1 |-> MoveStep(size, g, p)]
    BY <2>4, <2>7
  <2> QED
    BY <2>8
<1> HIDE DEF Upto
<1>3. ASSUME bad # {} PROVE FALSE
  <2>1. Least(bad) \in bad /\ \A other \in bad : Least(bad) <= other
    BY <1>3, LeastIs
  <2>2. PICK this \in bad : \A other \in bad : this <= other
    BY <2>1
  <2>3. this \in Nat /\ ~Upto(this) /\ this # 0
    BY <2>2, <1>1
  <2>4. this - 1 \in Nat /\ this - 1 \notin bad
    BY <2>2, <2>3
  <2>5. Upto(this - 1)
    BY <2>4
  <2>6. Upto((this - 1) + 1) /\ (this - 1) + 1 = this
    BY <2>3, <2>4, <2>5, <1>2
  <2> QED
    BY <2>3, <2>6
<1>4. Upto(c)
  BY <1>3
<1> QED
  BY <1>4 DEF Upto

\* t holds the live entries of the first p slots and nothing else.
Carries(t, size, p) ==
    /\ Sound(hash, t, size)
    /\ Owners(t, size) = LiveSlots(t, size)
    /\ Cardinality(LiveSlots(t, size)) = Cardinality(LiveSlots(slots, p))
    /\ \A q \in LiveSlots(t, size) : \E r \in LiveSlots(slots, p) : t[q] = slots[r]
    /\ \A r \in LiveSlots(slots, p) : \E q \in LiveSlots(t, size) : t[q] = slots[r]

LEMMA CarriesNone ==
  ASSUME NEW size \in Nat \ {0}
  PROVE  Carries(EmptyTable(size), size, 0)
<1>1. LiveSlots(slots, 0) = {}
  BY DEF LiveSlots
<1> QED
  BY <1>1, EmptyTableSound DEF Carries

LEMMA CarriesSkip ==
  ASSUME NEW size, NEW t, NEW p \in Nat, Carries(t, size, p), ~Live(slots[p])
  PROVE  Carries(t, size, p + 1)
<1>1. LiveSlots(slots, p + 1) = LiveSlots(slots, p)
  <2>1. \A q \in 0 .. (p + 1) - 1 : q \in 0 .. p - 1 \/ q = p
    OBVIOUS
  <2>2. 0 .. p - 1 \subseteq 0 .. (p + 1) - 1
    OBVIOUS
  <2> QED
    BY <2>1, <2>2 DEF LiveSlots
<1> QED
  BY <1>1 DEF Carries

LEMMA CarriesOne ==
  ASSUME hash \in [Keys -> HashValues], Sound(hash, slots, cap),
         NEW size, NEW t, NEW p \in Nat, p < cap, Carries(t, size, p), Live(slots[p]),
         Cardinality(LiveSlots(slots, cap)) < size
  PROVE  Carries([t EXCEPT ![Probe(t, size, slots[p].key)] = slots[p]], size, p + 1)
<1> DEFINE e == slots[p]
           u == [t EXCEPT ![Probe(t, size, e.key)] = e]
<1>1. cap \in Nat \ {0} /\ slots \in [0 .. cap - 1 -> SlotRec] /\ size \in Nat \ {0}
  BY DEF Sound, Carries
<1>2. p \in LiveSlots(slots, cap) /\ e \in SlotRec /\ Live(e)
  BY <1>1 DEF LiveSlots
<1>3. e.key \in Keys
  BY <1>2 DEF SlotRec, Live
<1>4. /\ LiveSlots(slots, p + 1) = LiveSlots(slots, p) \cup {p} /\ p \notin LiveSlots(slots, p)
      /\ LiveSlots(slots, p) \subseteq LiveSlots(slots, cap)
  <2>1. \A q \in 0 .. (p + 1) - 1 : q \in 0 .. p - 1 \/ q = p
    OBVIOUS
  <2>2. p \in 0 .. (p + 1) - 1 /\ 0 .. p - 1 \subseteq 0 .. (p + 1) - 1 /\ p \notin 0 .. p - 1
        /\ 0 .. p - 1 \subseteq 0 .. cap - 1
    BY <1>1
  <2> QED
    BY <2>1, <2>2 DEF LiveSlots
<1>5. \A q \in LiveSlots(t, size) : t[q].key # e.key
  <2> SUFFICES ASSUME NEW q \in LiveSlots(t, size), t[q].key = e.key
               PROVE  FALSE
    OBVIOUS
  <2>1. PICK r \in LiveSlots(slots, p) : t[q] = slots[r]
    BY DEF Carries
  <2>2. r = p
    BY <2>1, <1>2, <1>4 DEF Sound
  <2> QED
    BY <2>1, <2>2, <1>4
<1>6. \E q \in 0 .. size - 1 : t[q].key = NULL
  <2>1. IsFiniteSet(LiveSlots(slots, cap)) /\ Cardinality(LiveSlots(slots, cap)) \in Nat
    BY <1>1, SlotsFinite
  <2>2. Cardinality(LiveSlots(slots, p)) <= Cardinality(LiveSlots(slots, cap))
    BY <2>1, <1>4, FS_Subset
  <2>3. Cardinality(LiveSlots(slots, p)) \in Nat
    BY SlotsFinite
  <2>4. Cardinality(Owners(t, size)) = Cardinality(LiveSlots(slots, p))
    BY DEF Carries
  <2>5. Cardinality(Owners(t, size)) < size
    BY <2>1, <2>2, <2>3, <2>4, <1>1
  <2> QED
    BY <2>5, <1>1, EmptySlot
<1>7. PICK this \in 0 .. size - 1 : /\ this = Probe(t, size, e.key) /\ ~Live(t[this])
                                    /\ Reaches(hash[e.key], t, size, this)
  BY <1>3, <1>5, <1>6, ProbeMisses DEF Carries
<1>8. Stored(u, t, this, e)
  BY <1>7 DEF Stored
<1> HIDE DEF e, u
<1>9. Sound(hash, t, size)
  BY DEF Carries
<1>10. /\ Sound(hash, u, size)
       /\ LiveSlots(u, size) = LiveSlots(t, size) \cup {this} /\ this \notin LiveSlots(t, size)
       /\ Owners(u, size) = Owners(t, size) \cup {this}
       /\ u[this] = e /\ \A q \in LiveSlots(t, size) : u[q] = t[q]
  BY <1>2, <1>5, <1>7, <1>8, <1>9, InsertSound
<1>11. Owners(u, size) = LiveSlots(u, size)
  BY <1>10 DEF Carries
<1>12. Cardinality(LiveSlots(u, size)) = Cardinality(LiveSlots(slots, p + 1))
  <2>1. IsFiniteSet(LiveSlots(t, size)) /\ IsFiniteSet(LiveSlots(slots, p))
    BY <1>1, SlotsFinite
  <2>2. Cardinality(LiveSlots(u, size)) = Cardinality(LiveSlots(t, size)) + 1
    BY <2>1, <1>10, FS_AddElement
  <2>3. Cardinality(LiveSlots(slots, p + 1)) = Cardinality(LiveSlots(slots, p)) + 1
    BY <2>1, <1>4, FS_AddElement
  <2> QED
    BY <2>2, <2>3 DEF Carries
<1>13. \A q \in LiveSlots(u, size) : \E r \in LiveSlots(slots, p + 1) : u[q] = slots[r]
  BY <1>4, <1>10 DEF Carries, e
<1>14. \A r \in LiveSlots(slots, p + 1) : \E q \in LiveSlots(u, size) : u[q] = slots[r]
  BY <1>4, <1>10 DEF Carries, e
<1>15. Carries(u, size, p + 1)
  BY <1>10, <1>11, <1>12, <1>13, <1>14 DEF Carries
<1> QED
  BY <1>15 DEF u, e

\* rehash moves every live entry, and only those, to a sound table.
LEMMA MovedCarries ==
  ASSUME hash \in [Keys -> HashValues], Sound(hash, slots, cap),
         NEW size \in Nat \ {0}, Cardinality(LiveSlots(slots, cap)) < size
  PROVE  Carries(Moved(size), size, cap)
<1> DEFINE F == CHOOSE f : f = [p \in 0 .. cap |-> MoveStep(size, f, p)]
           bad == {p \in Nat : p <= cap /\ ~Carries(F[p], size, p)}
<1>1. cap \in Nat
  BY DEF Sound
<1>2. \E f : f = [p \in 0 .. cap |-> MoveStep(size, f, p)]
  BY <1>1, MovedExists
<1>3. F = [p \in 0 .. cap |-> MoveStep(size, F, p)]
  BY <1>2
<1>4. Moved(size) = F[cap]
  BY DEF Moved, MoveStep
<1> HIDE DEF F
<1>5. \A p \in 0 .. cap : F[p] = MoveStep(size, F, p)
  BY <1>3
<1>6. ASSUME bad # {} PROVE FALSE
  <2>1. PICK this \in bad : \A other \in bad : this <= other
    BY <1>6, LeastIs
  <2>2. this \in Nat /\ this <= cap /\ ~Carries(F[this], size, this)
    BY <2>1
  <2>3. F[this] = MoveStep(size, F, this)
    BY <1>1, <1>5, <2>2
  <2>4. this # 0
    BY <2>2, <2>3, CarriesNone DEF MoveStep
  <2>5. PICK m \in Nat : this = m + 1
    <3>1. this - 1 \in Nat /\ this = (this - 1) + 1
      BY <2>2, <2>4
    <3> QED
      BY <3>1
  <2>6. Carries(F[m], size, m) /\ m < cap
    <3>1. m \notin bad /\ m < cap
      BY <2>1, <2>2, <2>5, <1>1
    <3> QED
      BY <3>1, <1>1
  <2>7. F[this] = IF Live(slots[m]) THEN [F[m] EXCEPT ![Probe(F[m], size, slots[m].key)] = slots[m]]
                  ELSE F[m]
    <3>1. this - 1 = m
      BY <2>5
    <3> QED
      BY <2>3, <2>4, <3>1 DEF MoveStep
  <2>8. CASE Live(slots[m])
    BY <2>2, <2>5, <2>6, <2>7, <2>8, CarriesOne
  <2>9. CASE ~Live(slots[m])
    BY <2>2, <2>5, <2>6, <2>7, <2>9, CarriesSkip
  <2> QED
    BY <2>8, <2>9
<1>7. Carries(F[cap], size, cap)
  BY <1>1, <1>6
<1> QED
  BY <1>4, <1>7

-----------------------------------------------------------------------------
(* The invariant *)

\* The live slots of t hold the map m.
Maps(t, size, m) == /\ DOMAIN m = {t[p].key : p \in LiveSlots(t, size)}
                    /\ \A p \in LiveSlots(t, size) : m[t[p].key] = t[p].value

\* A sound table with its counters: l entries, u slots in use, copies of keys.
Good(h, t, size, l, u, copies, m) ==
    /\ Sound(h, t, size) /\ size <= MaxCap
    /\ l = Cardinality(LiveSlots(t, size))
    /\ u = Cardinality(Owners(t, size)) /\ copies = u
    /\ u * 4 <= size * 3
    /\ Maps(t, size, m)

\* An iterator at an index has yielded the keys of the live slots below it.
Walked(t, at, out) == /\ out \in Seq(Keys)
                      /\ {out[j] : j \in 1 .. Len(out)} = {t[p].key : p \in LiveSlots(t, at)}
                      /\ Len(out) = Cardinality(LiveSlots(t, at))

Closed == /\ slots = NULL /\ cap = 0 /\ len = 0 /\ used = 0 /\ blocks = 0
          /\ iter = 0 /\ yielded = <<>>

Opened == /\ slots # NULL /\ Good(hash, slots, cap, len, used, blocks, model)
          /\ iter \in 0 .. cap /\ Walked(slots, iter, yielded)

MapInv == hash \in [Keys -> HashValues] /\ (Closed \/ Opened)

\* The facts about a good table that the steps use.
LEMMA GoodFacts ==
  ASSUME NEW h, NEW t, NEW size, NEW l, NEW u, NEW copies, NEW m, Good(h, t, size, l, u, copies, m)
  PROVE  /\ Sound(h, t, size) /\ size \in Nat \ {0} /\ size <= MaxCap /\ t \in [0 .. size - 1 -> SlotRec]
         /\ l \in Nat /\ u \in Nat /\ copies \in Nat /\ l <= u /\ u < size /\ t # NULL
         /\ \E p \in 0 .. size - 1 : t[p].key = NULL
<1>1. Sound(h, t, size) /\ size \in Nat \ {0} /\ size <= MaxCap /\ t \in [0 .. size - 1 -> SlotRec]
  BY DEF Good, Sound
<1>2. l \in Nat /\ u \in Nat /\ copies \in Nat /\ l <= u
  BY <1>1, SlotsFinite DEF Good
<1>3. u < size
  BY <1>1, <1>2 DEF Good
<1>4. size \in 1 .. MaxCap
  BY <1>1, CapAssumption
<1>5. t # NULL
  BY <1>1, <1>4, NullAssumption DEF SlotRec
<1>6. \E p \in 0 .. size - 1 : t[p].key = NULL
  BY <1>1, <1>3, EmptySlot DEF Good
<1> QED
  BY <1>1, <1>2, <1>3, <1>5, <1>6

\* What probe says of a key in a good table.
LEMMA ProbeOutcome ==
  ASSUME hash \in [Keys -> HashValues], NEW t, NEW size, Sound(hash, t, size), NEW k \in Keys,
         \E p \in 0 .. size - 1 : t[p].key = NULL
  PROVE  \/ Probe(t, size, k) \in LiveSlots(t, size) /\ t[Probe(t, size, k)].key = k
         \/ /\ Probe(t, size, k) \in 0 .. size - 1 /\ ~Live(t[Probe(t, size, k)])
            /\ Reaches(hash[k], t, size, Probe(t, size, k))
            /\ \A q \in LiveSlots(t, size) : t[q].key # k
<1>1. CASE \E p \in LiveSlots(t, size) : t[p].key = k
  BY <1>1, ProbeFinds
<1>2. CASE \A p \in LiveSlots(t, size) : t[p].key # k
  BY <1>2, ProbeMisses
<1> QED
  BY <1>1, <1>2

LEMMA UpdateGood ==
  ASSUME NEW h, NEW t, NEW size, NEW l, NEW u, NEW copies, NEW m, Good(h, t, size, l, u, copies, m),
         NEW p \in LiveSlots(t, size), NEW v \in Values,
         NEW t2, Stored(t2, t, p, [t[p] EXCEPT !.value = v])
  PROVE  Good(h, t2, size, l, u, copies, [m EXCEPT ![t[p].key] = v])
<1> DEFINE e == [t[p] EXCEPT !.value = v]
           m2 == [m EXCEPT ![t[p].key] = v]
<1>1. Sound(h, t, size) /\ t[p] \in SlotRec /\ t[p].dead = FALSE
  BY DEF Good, Sound, LiveSlots, Live, SlotRec
<1>2. e \in SlotRec /\ e.key = t[p].key /\ e.value = v /\ e.dead = FALSE
  BY <1>1 DEF SlotRec
<1>3. Stored(t2, t, p, e)
  OBVIOUS
<1> HIDE DEF e
<1>4. /\ Sound(h, t2, size) /\ LiveSlots(t2, size) = LiveSlots(t, size) /\ Owners(t2, size) = Owners(t, size)
      /\ t2[p] = e /\ \A q \in LiveSlots(t, size) : q # p => t2[q] = t[q]
  BY <1>1, <1>2, <1>3, ReplaceSound
<1>5. DOMAIN m = {t[q].key : q \in LiveSlots(t, size)}
      /\ \A q \in LiveSlots(t, size) : m[t[q].key] = t[q].value
  BY DEF Good, Maps
<1>6. \A q \in LiveSlots(t, size) : t2[q].key = t[q].key
  BY <1>2, <1>4
<1>7. DOMAIN m2 = {t2[q].key : q \in LiveSlots(t2, size)}
  BY <1>4, <1>5, <1>6
<1>8. ASSUME NEW q \in LiveSlots(t2, size) PROVE m2[t2[q].key] = t2[q].value
  <2>1. CASE q = p
    BY <2>1, <1>2, <1>4, <1>5
  <2>2. CASE q # p
    <3>1. t[q].key # t[p].key
      BY <2>2, <1>1, <1>4 DEF Sound
    <3> QED
      BY <2>2, <3>1, <1>4, <1>5
  <2> QED
    BY <2>1, <2>2
<1> HIDE DEF m2
<1>9. Maps(t2, size, m2)
  BY <1>7, <1>8 DEF Maps
<1> QED
  BY <1>4, <1>9 DEF Good, m2

LEMMA InsertGood ==
  ASSUME NEW h, NEW t, NEW size, NEW l, NEW u, NEW copies, NEW m, Good(h, t, size, l, u, copies, m),
         (u + 1) * 4 <= size * 3, NEW k \in Keys, NEW v \in Values,
         NEW p \in 0 .. size - 1, ~Live(t[p]), Reaches(h[k], t, size, p),
         \A q \in LiveSlots(t, size) : t[q].key # k,
         NEW t2, Stored(t2, t, p, [key |-> k, value |-> v, dead |-> FALSE])
  PROVE  Good(h, t2, size, l + 1, IF t[p].key = NULL THEN u + 1 ELSE u,
              IF t[p].key = NULL THEN copies + 1 ELSE copies,
              [this \in DOMAIN m \cup {k} |-> IF this = k THEN v ELSE m[this]])
<1> DEFINE e == [key |-> k, value |-> v, dead |-> FALSE]
           m2 == [this \in DOMAIN m \cup {k} |-> IF this = k THEN v ELSE m[this]]
           u2 == IF t[p].key = NULL THEN u + 1 ELSE u
<1>1. Sound(h, t, size) /\ size \in Nat \ {0} /\ u \in Nat
  BY GoodFacts
<1>2. e \in SlotRec /\ e.key = k /\ e.value = v /\ e.dead = FALSE /\ Stored(t2, t, p, e)
  BY DEF SlotRec
<1> HIDE DEF e
<1>3. Live(e)
  BY <1>2, KeysAssumption DEF Live
<1>4. /\ Sound(h, t2, size)
      /\ LiveSlots(t2, size) = LiveSlots(t, size) \cup {p} /\ p \notin LiveSlots(t, size)
      /\ Owners(t2, size) = Owners(t, size) \cup {p}
      /\ t2[p] = e /\ \A q \in LiveSlots(t, size) : t2[q] = t[q]
  BY <1>1, <1>2, <1>3, InsertSound
<1>5. IsFiniteSet(LiveSlots(t, size)) /\ IsFiniteSet(Owners(t, size))
  BY <1>1, SlotsFinite
<1>6. Cardinality(LiveSlots(t2, size)) = l + 1
  BY <1>4, <1>5, FS_AddElement DEF Good
<1>7. Cardinality(Owners(t2, size)) = u2
  <2>1. CASE t[p].key = NULL
    <3>1. p \notin Owners(t, size)
      BY <2>1 DEF Owners
    <3> QED
      BY <2>1, <3>1, <1>4, <1>5, FS_AddElement DEF Good
  <2>2. CASE t[p].key # NULL
    <3>1. Owners(t2, size) = Owners(t, size)
      BY <2>2, <1>4 DEF Owners
    <3> QED
      BY <2>2, <3>1 DEF Good
  <2> QED
    BY <2>1, <2>2
<1>8. u2 * 4 <= size * 3
  BY <1>1 DEF Good
<1>9. DOMAIN m = {t[q].key : q \in LiveSlots(t, size)}
      /\ \A q \in LiveSlots(t, size) : m[t[q].key] = t[q].value
  BY DEF Good, Maps
<1>10. DOMAIN m2 = {t2[q].key : q \in LiveSlots(t2, size)}
  BY <1>2, <1>4, <1>9
<1>11. ASSUME NEW q \in LiveSlots(t2, size) PROVE m2[t2[q].key] = t2[q].value
  <2>1. CASE q = p
    BY <2>1, <1>2, <1>4
  <2>2. CASE q \in LiveSlots(t, size)
    <3>1. t[q].key \in DOMAIN m /\ t[q].key # k /\ t2[q] = t[q]
      BY <2>2, <1>4, <1>9
    <3> QED
      BY <2>2, <3>1, <1>9
  <2> QED
    BY <2>1, <2>2, <1>4
<1> HIDE DEF m2
<1>12. Maps(t2, size, m2)
  BY <1>10, <1>11 DEF Maps
<1> QED
  BY <1>4, <1>6, <1>7, <1>8, <1>12 DEF Good, m2

LEMMA BuryGood ==
  ASSUME NEW h, NEW t, NEW size, NEW l, NEW u, NEW copies, NEW m, Good(h, t, size, l, u, copies, m),
         NEW p \in LiveSlots(t, size), NEW e \in SlotRec, e.key = t[p].key, e.dead = TRUE,
         NEW t2, Stored(t2, t, p, e),
         NEW m2, DOMAIN m2 = DOMAIN m \ {t[p].key}, \A this \in DOMAIN m2 : m2[this] = m[this]
  PROVE  Good(h, t2, size, l - 1, u, copies, m2)
<1>1. Sound(h, t, size) /\ size \in Nat \ {0}
  BY DEF Good, Sound
<1>2. /\ Sound(h, t2, size) /\ LiveSlots(t2, size) = LiveSlots(t, size) \ {p}
      /\ Owners(t2, size) = Owners(t, size)
      /\ \A q \in LiveSlots(t, size) : q # p => t2[q] = t[q]
  BY <1>1, ReplaceSound
<1>3. IsFiniteSet(LiveSlots(t, size))
  BY <1>1, SlotsFinite
<1>4. Cardinality(LiveSlots(t2, size)) = l - 1
  BY <1>2, <1>3, FS_RemoveElement DEF Good
<1>5. DOMAIN m = {t[q].key : q \in LiveSlots(t, size)}
      /\ \A q \in LiveSlots(t, size) : m[t[q].key] = t[q].value
  BY DEF Good, Maps
<1>6. \A q \in LiveSlots(t, size) : q # p => t[q].key # t[p].key
  BY <1>1 DEF Sound
<1>7. DOMAIN m2 = {t2[q].key : q \in LiveSlots(t2, size)}
  BY <1>2, <1>5, <1>6
<1>8. \A q \in LiveSlots(t2, size) : m2[t2[q].key] = t2[q].value
  BY <1>2, <1>5, <1>6
<1>9. Maps(t2, size, m2)
  BY <1>7, <1>8 DEF Maps
<1> QED
  BY <1>2, <1>4, <1>9 DEF Good

-----------------------------------------------------------------------------
(* The steps *)

\* After rehash(m, cap * 2) the table is good and has room for one more.
LEMMA RehashGood ==
  ASSUME hash \in [Keys -> HashValues], Good(hash, slots, cap, len, used, blocks, model),
         cap * 2 <= MaxCap
  PROVE  /\ Good(hash, Moved(cap * 2), cap * 2, len, len, blocks - Cardinality(TombstoneKeys), model)
         /\ (len + 1) * 4 <= (cap * 2) * 3
<1> DEFINE size == cap * 2
           t == Moved(size)
<1>1. /\ Sound(hash, slots, cap) /\ cap \in Nat \ {0} /\ len \in Nat /\ used \in Nat
      /\ len <= used /\ used < cap
  BY GoodFacts
<1>2. len = Cardinality(LiveSlots(slots, cap)) /\ used * 4 <= cap * 3 /\ blocks = used
      /\ used = Cardinality(Owners(slots, cap)) /\ Maps(slots, cap, model)
  BY DEF Good
<1>3. size \in Nat \ {0} /\ len < size /\ size <= MaxCap
  BY <1>1
<1>4. len * 4 <= size * 3 /\ (len + 1) * 4 <= size * 3
  BY <1>1, <1>2
<1> HIDE DEF size
<1>5. Carries(t, size, cap)
  BY <1>1, <1>2, <1>3, MovedCarries
<1> HIDE DEF t
<1>6. /\ Sound(hash, t, size) /\ len = Cardinality(LiveSlots(t, size))
      /\ len = Cardinality(Owners(t, size))
  BY <1>2, <1>5 DEF Carries
<1>7. blocks - Cardinality(TombstoneKeys) = len
  <2>1. Owners(slots, cap) = LiveSlots(slots, cap) \cup TombstoneKeys
        /\ LiveSlots(slots, cap) \cap TombstoneKeys = {}
    BY DEF Owners, LiveSlots, TombstoneKeys, Live, Tomb
  <2>2. IsFiniteSet(LiveSlots(slots, cap)) /\ IsFiniteSet(Owners(slots, cap))
    BY <1>1, SlotsFinite
  <2>3. IsFiniteSet(TombstoneKeys)
    BY <2>1, <2>2, FS_Subset
  <2>4. Cardinality(LiveSlots(slots, cap) \cup TombstoneKeys)
          = Cardinality(LiveSlots(slots, cap)) + Cardinality(TombstoneKeys)
            - Cardinality(LiveSlots(slots, cap) \cap TombstoneKeys)
    BY <2>2, <2>3, FS_Union
  <2>5. Cardinality(LiveSlots(slots, cap) \cap TombstoneKeys) = 0
        /\ Cardinality(TombstoneKeys) \in Nat
    BY <2>1, <2>3, FS_EmptySet, FS_CardinalityType
  <2>6. used = len + Cardinality(TombstoneKeys) - 0
    BY <2>1, <2>4, <2>5, <1>2
  <2> QED
    BY <2>5, <2>6, <1>1, <1>2
<1>8. Maps(t, size, model)
  <2>1. DOMAIN model = {slots[p].key : p \in LiveSlots(slots, cap)}
        /\ \A p \in LiveSlots(slots, cap) : model[slots[p].key] = slots[p].value
    BY <1>2 DEF Maps
  <2>2. /\ \A q \in LiveSlots(t, size) : \E r \in LiveSlots(slots, cap) : t[q] = slots[r]
        /\ \A r \in LiveSlots(slots, cap) : \E q \in LiveSlots(t, size) : t[q] = slots[r]
    BY <1>5 DEF Carries
  <2>3. DOMAIN model = {t[p].key : p \in LiveSlots(t, size)}
    BY <2>1, <2>2
  <2>4. \A p \in LiveSlots(t, size) : model[t[p].key] = t[p].value
    BY <2>1, <2>2
  <2> QED
    BY <2>3, <2>4 DEF Maps
<1>9. Good(hash, t, size, len, len, len, model)
  BY <1>3, <1>4, <1>6, <1>8 DEF Good
<1> QED
  BY <1>4, <1>7, <1>9 DEF t, size

\* hashmap_put after its rehash, if any: table t, capacity size, u slots and copies of keys.
LEMMA PutWithGood ==
  ASSUME hash \in [Keys -> HashValues], NEW t, NEW size, NEW u, NEW copies,
         Good(hash, t, size, len, u, copies, model), (u + 1) * 4 <= size * 3,
         NEW k \in Keys, NEW v \in Values,
         PutWith([slots |-> t, cap |-> size, used |-> u, blocks |-> copies], k, v)
  PROVE  Good(hash, slots', cap', len', used', blocks', model')
<1>1. Sound(hash, t, size) /\ \E p \in 0 .. size - 1 : t[p].key = NULL
  BY GoodFacts
<1>2. PICK p : p = Probe(t, size, k)
  OBVIOUS
<1>3. \/ p \in LiveSlots(t, size) /\ t[p].key = k /\ Live(t[p])
      \/ /\ p \in 0 .. size - 1 /\ ~Live(t[p]) /\ Reaches(hash[k], t, size, p)
         /\ \A q \in LiveSlots(t, size) : t[q].key # k
  BY <1>1, <1>2, ProbeOutcome DEF LiveSlots
<1>4. /\ cap' = size
      /\ \/ /\ Live(t[p]) /\ slots' = [t EXCEPT ![p].value = v] /\ used' = u /\ blocks' = copies
            /\ model' = [model EXCEPT ![k] = v] /\ len' = len
         \/ /\ ~Live(t[p])
            /\ slots' = [t EXCEPT ![p] = [key |-> k, value |-> v, dead |-> FALSE]]
            /\ used' = (IF t[p].key = NULL THEN u + 1 ELSE u)
            /\ blocks' = (IF t[p].key = NULL THEN copies + 1 ELSE copies)
            /\ len' = len + 1
            /\ model' = [this \in DOMAIN model \cup {k} |-> IF this = k THEN v ELSE model[this]]
         \/ /\ ~Live(t[p]) /\ slots' = t /\ used' = u /\ blocks' = copies
            /\ len' = len /\ model' = model
  BY <1>2 DEF PutWith, Inserted
<1>5. CASE Live(t[p])
  <2>1. p \in LiveSlots(t, size) /\ t[p].key = k
    BY <1>3, <1>5
  <2>2. /\ slots' = [t EXCEPT ![p].value = v] /\ used' = u /\ blocks' = copies /\ cap' = size
        /\ model' = [model EXCEPT ![k] = v] /\ len' = len
    BY <1>4, <1>5
  <2>3. Stored(slots', t, p, [t[p] EXCEPT !.value = v])
    BY <2>2 DEF Stored
  <2>4. Good(hash, slots', size, len, u, copies, [model EXCEPT ![t[p].key] = v])
    BY <2>1, <2>3, UpdateGood
  <2> QED
    BY <2>1, <2>2, <2>4
<1>6. CASE ~Live(t[p]) /\ slots' = t /\ used' = u /\ blocks' = copies /\ len' = len /\ model' = model
  BY <1>4, <1>6
<1>7. CASE /\ ~Live(t[p])
           /\ slots' = [t EXCEPT ![p] = [key |-> k, value |-> v, dead |-> FALSE]]
           /\ used' = (IF t[p].key = NULL THEN u + 1 ELSE u)
           /\ blocks' = (IF t[p].key = NULL THEN copies + 1 ELSE copies)
           /\ len' = len + 1
           /\ model' = [this \in DOMAIN model \cup {k} |-> IF this = k THEN v ELSE model[this]]
  <2>1. /\ p \in 0 .. size - 1 /\ Reaches(hash[k], t, size, p)
        /\ \A q \in LiveSlots(t, size) : t[q].key # k
    BY <1>3, <1>7
  <2>2. Stored(slots', t, p, [key |-> k, value |-> v, dead |-> FALSE])
    BY <1>7 DEF Stored
  <2>3. Good(hash, slots', size, len + 1, IF t[p].key = NULL THEN u + 1 ELSE u,
             IF t[p].key = NULL THEN copies + 1 ELSE copies,
             [this \in DOMAIN model \cup {k} |-> IF this = k THEN v ELSE model[this]])
    BY <2>1, <2>2, <1>7, InsertGood
  <2> QED
    BY <2>3, <1>4, <1>7
<1> QED
  BY <1>4, <1>5, <1>6, <1>7

\* A good table, with an iterator that starts anew, is an open map.
LEMMA Reopened ==
  ASSUME hash \in [Keys -> HashValues], hash' = hash, Changed,
         Good(hash, slots', cap', len', used', blocks', model')
  PROVE  MapInv'
<1>1. slots' # NULL /\ cap' \in Nat \ {0}
  BY GoodFacts
<1>2. iter' = 0 /\ yielded' = <<>>
  BY DEF Changed
<1>3. LiveSlots(slots', 0) = {}
  BY DEF LiveSlots
<1>4. <<>> \in Seq(Keys) /\ Len(<<>>) = 0 /\ Cardinality({}) = 0
  BY FS_EmptySet
<1>5. Walked(slots', 0, <<>>)
  BY <1>3, <1>4 DEF Walked
<1>6. Opened'
  BY <1>1, <1>2, <1>5 DEF Opened
<1> QED
  BY <1>6 DEF MapInv

LEMMA PutStep ==
  ASSUME MapInv, NEW k \in Keys, NEW v \in Values, HashMapPut(k, v)
  PROVE  MapInv'
<1>1. /\ hash \in [Keys -> HashValues] /\ Good(hash, slots, cap, len, used, blocks, model)
  BY DEF MapInv, Opened, Closed, HashMapPut
<1>2. cap \in Nat /\ used \in Nat
  BY <1>1, GoodFacts
<1>3. CASE TooFull
  <2>1. PutWith(Rehashed, k, v) /\ cap * 2 <= MaxCap
    BY <1>3 DEF HashMapPut
  <2>2. /\ Good(hash, Moved(cap * 2), cap * 2, len, len, blocks - Cardinality(TombstoneKeys), model)
        /\ (len + 1) * 4 <= (cap * 2) * 3
    BY <2>1, <1>1, RehashGood
  <2>3. Good(hash, slots', cap', len', used', blocks', model')
    BY <2>1, <2>2, <1>1, PutWithGood DEF Rehashed
  <2> QED
    BY <2>3, <1>1, Reopened DEF HashMapPut
<1>4. CASE ~TooFull
  <2>1. PutWith(Current, k, v)
    BY <1>4 DEF HashMapPut
  <2>2. (used + 1) * 4 <= cap * 3
    BY <1>2, <1>4 DEF TooFull
  <2>3. Good(hash, slots', cap', len', used', blocks', model')
    BY <2>1, <2>2, <1>1, PutWithGood DEF Current
  <2> QED
    BY <2>3, <1>1, Reopened DEF HashMapPut
<1> QED
  BY <1>3, <1>4

LEMMA PutNoMemStep ==
  ASSUME MapInv, NEW k \in Keys, HashMapPutNoMem(k)
  PROVE  MapInv'
<1>1. /\ hash \in [Keys -> HashValues] /\ Good(hash, slots, cap, len, used, blocks, model)
  BY DEF MapInv, Opened, Closed, HashMapPutNoMem
<1>2. Changed /\ UNCHANGED <<hash, slots, cap, len, used, blocks, model>>
  BY DEF HashMapPutNoMem
<1>3. Good(hash, slots', cap', len', used', blocks', model')
  BY <1>1, <1>2
<1> QED
  BY <1>1, <1>2, <1>3, Reopened

\* hashmap_remove marks the one live slot of the key.
LEMMA RemoveStep ==
  ASSUME MapInv, NEW k \in Keys, HashMapRemove(k)
  PROVE  MapInv'
<1>1. /\ hash \in [Keys -> HashValues] /\ Good(hash, slots, cap, len, used, blocks, model)
  BY DEF MapInv, Opened, Closed, HashMapRemove
<1>2. Sound(hash, slots, cap) /\ \E p \in 0 .. cap - 1 : slots[p].key = NULL
  BY <1>1, GoodFacts
<1>3. PICK p : p = FindLive(k)
  OBVIOUS
<1>4. p = Probe(slots, cap, k) /\ Live(slots[p])
  BY <1>3 DEF HashMapRemove, FindLive
<1>5. p \in LiveSlots(slots, cap) /\ slots[p].key = k
  BY <1>1, <1>2, <1>4, ProbeOutcome
<1>6. /\ slots' = [slots EXCEPT ![p] = [slots[p] EXCEPT !.dead = TRUE, !.value = NULL]]
      /\ len' = len - 1 /\ model' = [this \in DOMAIN model \ {k} |-> model[this]]
      /\ Changed /\ UNCHANGED <<hash, cap, used, blocks>>
  BY <1>3, <1>5 DEF HashMapRemove
<1>7. PICK e \in SlotRec : e.key = slots[p].key /\ e.dead = TRUE /\ Stored(slots', slots, p, e)
  <2>1. slots[p] \in SlotRec
    BY <1>2, <1>5 DEF Sound, LiveSlots
  <2> DEFINE e == [slots[p] EXCEPT !.dead = TRUE, !.value = NULL]
  <2>2. e \in SlotRec /\ e.key = slots[p].key /\ e.dead = TRUE
    BY <2>1 DEF SlotRec
  <2>3. Stored(slots', slots, p, e)
    BY <1>6 DEF Stored
  <2> QED
    BY <2>2, <2>3
<1>8. Good(hash, slots', cap, len - 1, used, blocks, model')
  <2>1. DOMAIN model' = DOMAIN model \ {slots[p].key} /\ \A this \in DOMAIN model' : model'[this] = model[this]
    BY <1>5, <1>6
  <2> QED
    BY <2>1, <1>1, <1>5, <1>7, BuryGood
<1>9. Good(hash, slots', cap', len', used', blocks', model')
  BY <1>5, <1>6, <1>8
<1> QED
  BY <1>1, <1>6, <1>9, Reopened

LEMMA InitStep ==
  ASSUME MapInv, HashMapInit
  PROVE  MapInv'
<1> DEFINE size == InitialCap
           t == EmptyTable(size)
<1>1. /\ slots = NULL /\ size <= MaxCap /\ slots' = t /\ cap' = size /\ len' = 0 /\ used' = 0
      /\ model' = NoEntries /\ UNCHANGED <<hash, blocks, iter, yielded>>
  BY DEF HashMapInit
<1>2. hash \in [Keys -> HashValues] /\ blocks = 0 /\ iter = 0 /\ yielded = <<>>
  BY <1>1 DEF MapInv, Opened, Closed
<1>3. size \in Nat \ {0}
  BY CapAssumption
<1>4. Sound(hash, t, size) /\ LiveSlots(t, size) = {} /\ Owners(t, size) = {}
  BY <1>3, EmptyTableSound
<1>5. Maps(t, size, NoEntries)
  BY <1>4 DEF Maps, NoEntries
<1> HIDE DEF t, size
<1>6. Good(hash, t, size, 0, 0, 0, NoEntries)
  BY <1>1, <1>3, <1>4, <1>5, FS_EmptySet DEF Good
<1>7. Good(hash, slots', cap', len', used', blocks', model')
  BY <1>1, <1>2, <1>6
<1>8. Changed /\ hash' = hash
  BY <1>1, <1>2 DEF Changed
<1> QED
  BY <1>2, <1>7, <1>8, Reopened

\* hashmap_destroy frees the key of every slot that has one.
LEMMA DestroyStep ==
  ASSUME MapInv, HashMapDestroy
  PROVE  MapInv'
<1>1. hash \in [Keys -> HashValues] /\ Good(hash, slots, cap, len, used, blocks, model)
  BY DEF MapInv, Opened, Closed, HashMapDestroy
<1>2. blocks \in Nat /\ blocks = Cardinality(Owners(slots, cap))
  BY <1>1, GoodFacts DEF Good
<1>3. blocks' = 0
  BY <1>2 DEF HashMapDestroy
<1>4. Closed'
  BY <1>3 DEF HashMapDestroy, Closed
<1> QED
  BY <1>1, <1>4 DEF HashMapDestroy, MapInv

\* hashmap_next yields the first live slot from its index on.
LEMMA NextStep ==
  ASSUME MapInv, HashMapNext
  PROVE  MapInv'
<1>1. UNCHANGED <<hash, slots, cap, len, used, blocks, model>> /\ slots # NULL
  BY DEF HashMapNext
<1>2. /\ hash \in [Keys -> HashValues] /\ Good(hash, slots, cap, len, used, blocks, model)
      /\ iter \in 0 .. cap /\ Walked(slots, iter, yielded)
  BY <1>1 DEF MapInv, Opened, Closed
<1>3. cap \in Nat \ {0} /\ slots \in [0 .. cap - 1 -> SlotRec]
  BY <1>2, GoodFacts
<1>4. SUFFICES iter' \in 0 .. cap /\ Walked(slots, iter', yielded')
  <2>1. Good(hash', slots', cap', len', used', blocks', model')
    BY <1>1, <1>2
  <2>2. Walked(slots', iter', yielded') /\ iter' \in 0 .. cap'
    BY <1>1, <1>4
  <2> QED
    BY <1>1, <1>2, <2>1, <2>2 DEF MapInv, Opened
<1>5. CASE LiveFrom(iter) = {}
  <2>1. iter' = cap /\ yielded' = yielded
    BY <1>5 DEF HashMapNext
  <2>2. LiveSlots(slots, cap) = LiveSlots(slots, iter)
    <3>1. \A q \in 0 .. cap - 1 : q \in 0 .. iter - 1 \/ q \in iter .. cap - 1
      BY <1>2, <1>3
    <3>2. 0 .. iter - 1 \subseteq 0 .. cap - 1
      BY <1>2, <1>3
    <3> QED
      BY <3>1, <3>2, <1>5 DEF LiveSlots, LiveFrom
  <2>3. Walked(slots, cap, yielded)
    BY <2>2, <1>2 DEF Walked
  <2> QED
    BY <2>1, <2>3, <1>3
<1>6. CASE LiveFrom(iter) # {}
  <2>1. LiveFrom(iter) \subseteq Nat
    BY <1>2 DEF LiveFrom
  <2>2. PICK this \in LiveFrom(iter) : this = Least(LiveFrom(iter)) /\ \A other \in LiveFrom(iter) : this <= other
    BY <2>1, <1>6, LeastIs
  <2>3. iter' = this + 1 /\ yielded' = Append(yielded, slots[this].key)
    BY <2>2, <1>6 DEF HashMapNext
  <2>4. this \in iter .. cap - 1 /\ Live(slots[this])
    BY DEF LiveFrom
  <2>5. /\ LiveSlots(slots, this + 1) = LiveSlots(slots, iter) \cup {this}
        /\ this \notin LiveSlots(slots, iter)
    <3>1. \A q \in 0 .. (this + 1) - 1 : q \in 0 .. iter - 1 \/ q \in iter .. cap - 1
      BY <1>2, <1>3, <2>4
    <3>2. /\ 0 .. iter - 1 \subseteq 0 .. (this + 1) - 1 /\ this \in 0 .. (this + 1) - 1
          /\ this \notin 0 .. iter - 1
      BY <1>2, <1>3, <2>4
    <3>3. \A q \in 0 .. (this + 1) - 1 : q \in LiveFrom(iter) => q = this
      BY <2>1, <2>2
    <3> QED
      BY <3>1, <3>2, <3>3, <2>4 DEF LiveSlots, LiveFrom
  <2>6. slots[this].key \in Keys
    BY <1>2, <1>3, <2>4 DEF SlotRec, Live
  <2> DEFINE other == yielded'
             size == Len(yielded)
  <2>7. yielded \in Seq(Keys) /\ size \in Nat /\ size = Cardinality(LiveSlots(slots, iter))
    BY <1>2, LenProperties DEF Walked
  <2>8. /\ other \in Seq(Keys) /\ Len(other) = size + 1 /\ other[size + 1] = slots[this].key
        /\ \A j \in 1 .. size : other[j] = yielded[j]
    BY <2>3, <2>6, <2>7, AppendProperties
  <2>9. Len(other) = Cardinality(LiveSlots(slots, this + 1))
    <3>1. IsFiniteSet(LiveSlots(slots, iter))
      BY <1>2, SlotsFinite
    <3> QED
      BY <3>1, <2>5, <2>7, <2>8, FS_AddElement
  <2>10. {other[j] : j \in 1 .. size + 1} = {yielded[j] : j \in 1 .. size} \cup {slots[this].key}
    <3>1. 1 .. size + 1 = (1 .. size) \cup {size + 1}
      BY <2>7
    <3> QED
      BY <3>1, <2>8
  <2>11. {yielded[j] : j \in 1 .. size} = {slots[p].key : p \in LiveSlots(slots, iter)}
    BY <1>2 DEF Walked
  <2>12. {other[j] : j \in 1 .. Len(other)} = {slots[p].key : p \in LiveSlots(slots, this + 1)}
    <3>1. {slots[p].key : p \in LiveSlots(slots, this + 1)}
            = {slots[p].key : p \in LiveSlots(slots, iter)} \cup {slots[this].key}
      BY <2>5
    <3>2. Len(other) = size + 1
      BY <2>8
    <3> HIDE DEF other, size
    <3> QED
      BY <3>1, <3>2, <2>10, <2>11
  <2>13. this + 1 \in 0 .. cap
    BY <2>4, <1>2, <1>3
  <2> QED
    BY <2>3, <2>8, <2>9, <2>12, <2>13 DEF Walked
<1> QED
  BY <1>5, <1>6

LEMMA MapInvInit == Init => MapInv
<1> SUFFICES ASSUME Init PROVE MapInv
  OBVIOUS
<1>1. Closed /\ hash \in [Keys -> HashValues]
  BY DEF Init, Closed
<1> QED
  BY <1>1 DEF MapInv

LEMMA MapInvNext == MapInv /\ [Next]_vars => MapInv'
<1> SUFFICES ASSUME MapInv, [Next]_vars PROVE MapInv'
  OBVIOUS
<1>1. CASE UNCHANGED vars
  <2>1. UNCHANGED <<hash, slots, cap, len, used, blocks, iter, yielded, model>>
    BY <1>1 DEF vars
  <2> QED
    BY <2>1 DEF MapInv, Closed, Opened
<1>2. CASE HashMapInit \/ HashMapDestroy \/ HashMapNext
  BY <1>2, InitStep, DestroyStep, NextStep
<1>3. ASSUME NEW k \in Keys, \/ \E v \in Values : HashMapPut(k, v)
                             \/ HashMapPutNoMem(k)
                             \/ HashMapRemove(k)
      PROVE  MapInv'
  BY <1>3, PutStep, PutNoMemStep, RemoveStep
<1> QED
  BY <1>1, <1>2, <1>3 DEF Next

-----------------------------------------------------------------------------
(* What the invariant says to a caller *)

LEMMA InvTyped ==
  ASSUME MapInv
  PROVE  TypeOK
<1>1. CASE Closed
  BY <1>1, CapAssumption DEF MapInv, Closed, TypeOK
<1>2. CASE Opened
  <2>1. /\ hash \in [Keys -> HashValues] /\ iter \in 0 .. cap
        /\ Good(hash, slots, cap, len, used, blocks, model)
    BY <1>2 DEF MapInv, Opened
  <2>2. /\ cap \in Nat \ {0} /\ cap <= MaxCap /\ slots \in [0 .. cap - 1 -> SlotRec]
        /\ len \in Nat /\ used \in Nat /\ blocks \in Nat /\ len <= used /\ used < cap
    BY <2>1, GoodFacts
  <2>3. cap \in 0 .. MaxCap /\ len \in 0 .. cap /\ used \in 0 .. cap
    BY <2>2, CapAssumption
  <2> QED
    BY <2>1, <2>2, <2>3 DEF TypeOK, SlotRec
<1> QED
  BY <1>1, <1>2 DEF MapInv

\* hashmap_get and hashmap_contains find exactly the keys of the map.
LEMMA Lookups ==
  ASSUME MapInv, slots # NULL, NEW k \in Keys
  PROVE  /\ HashMapContains(k) <=> k \in DOMAIN model
         /\ k \in DOMAIN model => HashMapGet(k) = model[k]
<1>1. hash \in [Keys -> HashValues] /\ Good(hash, slots, cap, len, used, blocks, model)
  BY DEF MapInv, Opened, Closed
<1>2. Sound(hash, slots, cap) /\ \E p \in 0 .. cap - 1 : slots[p].key = NULL
  BY <1>1, GoodFacts
<1>3. DOMAIN model = {slots[p].key : p \in LiveSlots(slots, cap)}
      /\ \A p \in LiveSlots(slots, cap) : model[slots[p].key] = slots[p].value
  BY <1>1 DEF Good, Maps
<1>4. PICK p : p = Probe(slots, cap, k)
  OBVIOUS
<1>5. CASE p \in LiveSlots(slots, cap) /\ slots[p].key = k
  <2>1. FindLive(k) = p /\ p # NoSlot
    BY <1>4, <1>5 DEF FindLive, LiveSlots, NoSlot
  <2> QED
    BY <2>1, <1>3, <1>5 DEF HashMapContains, HashMapGet
<1>6. CASE ~Live(slots[p]) /\ \A q \in LiveSlots(slots, cap) : slots[q].key # k
  <2>1. FindLive(k) = NoSlot
    BY <1>4, <1>6 DEF FindLive
  <2> QED
    BY <2>1, <1>3, <1>6 DEF HashMapContains
<1> QED
  BY <1>1, <1>2, <1>4, <1>5, <1>6, ProbeOutcome

\* Live slots are as many as the keys of the map.
LEMMA LenIsCount ==
  ASSUME MapInv, slots # NULL
  PROVE  len = Cardinality(DOMAIN model)
<1> DEFINE live == LiveSlots(slots, cap)
           g == [p \in live |-> slots[p].key]
<1>1. Good(hash, slots, cap, len, used, blocks, model)
  BY DEF MapInv, Opened, Closed
<1>2. DOMAIN model = {slots[p].key : p \in live} /\ len = Cardinality(live)
  BY <1>1 DEF Good, Maps
<1>3. \A p, q \in live : slots[p].key = slots[q].key => p = q
  BY <1>1 DEF Good, Sound
<1>4. IsFiniteSet(live)
  BY <1>1, GoodFacts, SlotsFinite
<1> HIDE DEF live
<1>5. g \in Bijection(live, DOMAIN model)
  BY <1>2, <1>3 DEF Bijection, Injection, IsInjective, Surjection
<1>6. ExistsBijection(live, DOMAIN model)
  BY <1>5 DEF ExistsBijection
<1> QED
  BY <1>2, <1>4, <1>6, FS_Bijection

LEMMA Agrees ==
  ASSUME MapInv
  PROVE  AgreesWithModel
<1> SUFFICES ASSUME slots # NULL PROVE AgreesWithModel
  BY DEF AgreesWithModel
<1>1. /\ Good(hash, slots, cap, len, used, blocks, model) /\ Walked(slots, iter, yielded)
  BY DEF MapInv, Opened, Closed
<1>2. DOMAIN model = {slots[p].key : p \in LiveSlots(slots, cap)}
      /\ len = Cardinality(LiveSlots(slots, cap)) /\ slots \in [0 .. cap - 1 -> SlotRec]
  BY <1>1 DEF Good, Maps, Sound
<1>3. DOMAIN model \subseteq Keys
  BY <1>2 DEF LiveSlots, Live, SlotRec
<1>4. DOMAIN yielded = 1 .. Len(yielded)
  BY <1>1, LenProperties DEF Walked
<1>5. iter = cap => /\ {yielded[size] : size \in DOMAIN yielded} = DOMAIN model
                    /\ Len(yielded) = len
  BY <1>1, <1>2, <1>4 DEF Walked
<1> QED
  BY <1>3, <1>5, Lookups, LenIsCount DEF AgreesWithModel

(***************************************************************************)
(* hashmap.c, for any keys, hash function and capacity: after any sequence *)
(* of calls, failed ones included, hashmap_get, hashmap_contains,          *)
(* hashmap_len and an iterator answer for the map the callers built, every *)
(* probe finds an empty slot, and each copied key is owned once.           *)
(***************************************************************************)
THEOREM Exact == Spec => []MapIsExact
<1>1. MapInv => MapIsExact
  <2> SUFFICES ASSUME MapInv PROVE MapIsExact
    OBVIOUS
  <2>1. CASE Closed
    BY <2>1, InvTyped, Agrees DEF Closed, LoadIsBounded, KeysAreOwned, MapIsExact
  <2>2. CASE Opened
    BY <2>2, InvTyped, Agrees DEF Opened, Good, LoadIsBounded, KeysAreOwned, MapIsExact
  <2> QED
    BY <2>1, <2>2 DEF MapInv
<1> QED
  BY <1>1, MapInvInit, MapInvNext, PTL DEF Spec

-----------------------------------------------------------------------------
(* The growable array *)

\* vec_reserve, where it grows the block: the product did not wrap.
LEMMA ReservedFits ==
  ASSUME V!FitsItsBlock, velem_size # 0, NEW c \in Nat, V!Reserved(c)
  PROVE  /\ vcap' \in V!SizeT /\ vcap' > vcap /\ vcap' = c
         /\ vcap' * velem_size <= vbytes'
<1>1. V!SizeMax \in Nat /\ velem_size \in Nat \ {0} /\ vcap \in Nat
  BY SizeIs DEF V!FitsItsBlock, V!SizeT
<1>2. c > vcap /\ c <= V!SizeMax \div velem_size /\ vcap' = c /\ vbytes' = V!Wrap(c * velem_size)
  BY DEF V!Reserved, V!CanReserve
<1>3. c * velem_size \in Nat /\ c * velem_size <= V!SizeMax /\ c <= V!SizeMax
  BY <1>1, <1>2, NoOverflow
<1>4. vbytes' = c * velem_size
  BY <1>2, <1>3, WrapIs
<1> QED
  BY <1>1, <1>2, <1>3, <1>4 DEF V!SizeT

LEMMA VecNext == V!FitsItsBlock /\ [V!Next]_(V!vars) => V!FitsItsBlock'
<1> SUFFICES ASSUME V!FitsItsBlock, [V!Next]_(V!vars) PROVE V!FitsItsBlock'
  OBVIOUS
<1>0. /\ V!SizeMax \in Nat /\ V!SizeT = 0 .. V!SizeMax
      /\ velem_size \in Nat /\ velem_size <= V!SizeMax /\ vcap \in Nat /\ vcap <= V!SizeMax
      /\ vlen \in Nat /\ vlen <= vcap /\ vcap * velem_size <= vbytes
  BY SizeIs DEF V!FitsItsBlock, V!SizeT
<1> SUFFICES /\ velem_size' \in V!SizeT /\ vcap' \in V!SizeT
             /\ vlen' \in 0 .. vcap'
             /\ vcap' * velem_size' <= vbytes'
  BY DEF V!FitsItsBlock, V!SizeT, V!SizeMax
<1>1. ASSUME NEW e \in ElemSizes, V!VecInit(e)
      PROVE  /\ velem_size' \in V!SizeT /\ vcap' \in V!SizeT /\ vlen' \in 0 .. vcap'
             /\ vcap' * velem_size' <= vbytes'
  <2>1. e \in V!SizeT
    BY ArraysAssumption DEF V!SizeT, V!SizeMax
  <2> QED
    BY <1>0, <1>1, <2>1 DEF V!VecInit
<1>2. ASSUME NEW c \in V!SizeT, V!VecReserve(c)
      PROVE  /\ velem_size' \in V!SizeT /\ vcap' \in V!SizeT /\ vlen' \in 0 .. vcap'
             /\ vcap' * velem_size' <= vbytes'
  <2>1. velem_size # 0 /\ V!Reserved(c) /\ velem_size' = velem_size /\ vlen' = vlen
    BY <1>2 DEF V!VecReserve
  <2>2. vcap' \in V!SizeT /\ vcap' > vcap /\ vcap' * velem_size <= vbytes'
    BY <1>0, <2>1, ReservedFits
  <2> QED
    BY <1>0, <2>1, <2>2
<1>3. ASSUME V!VecPush
      PROVE  /\ velem_size' \in V!SizeT /\ vcap' \in V!SizeT /\ vlen' \in 0 .. vcap'
             /\ vcap' * velem_size' <= vbytes'
  <2>1. velem_size # 0 /\ velem_size' = velem_size /\ vlen' = vlen + 1
    BY <1>3 DEF V!VecPush
  <2>2. CASE vlen # vcap /\ vcap' = vcap /\ vbytes' = vbytes
    BY <1>0, <2>1, <2>2
  <2>3. CASE vlen = vcap /\ V!Reserved(V!GrownCap)
    <3>1. V!GrownCap \in Nat
      <4>1. 2 * vcap \in Nat /\ vcap * 2 = 2 * vcap
        BY <1>0
      <4>2. V!Wrap(vcap * 2) \in Nat
        BY <1>0, <4>1, WrapIs
      <4> QED
        BY <4>2, ArraysAssumption DEF V!GrownCap
    <3>2. vcap' \in V!SizeT /\ vcap' > vcap /\ vcap' * velem_size <= vbytes'
      BY <2>1, <2>3, <3>1, ReservedFits
    <3> QED
      BY <1>0, <2>1, <2>3, <3>2
  <2> QED
    BY <1>3, <2>2, <2>3 DEF V!VecPush
<1>4. CASE V!VecDestroy
  BY <1>0, <1>4 DEF V!VecDestroy
<1>5. CASE V!VecPop
  BY <1>0, <1>5 DEF V!VecPop
<1>6. CASE V!VecClear
  BY <1>0, <1>6 DEF V!VecClear
<1>7. CASE UNCHANGED V!vars
  BY <1>0, <1>7 DEF V!vars
<1> QED
  BY <1>1, <1>2, <1>3, <1>4, <1>5, <1>6, <1>7 DEF V!Next

LEMMA VecInit == V!Init => V!FitsItsBlock
BY SizeIs DEF V!Init, V!FitsItsBlock, V!SizeT

-----------------------------------------------------------------------------
(* The ring buffer *)

\* The sequence q is what l slots of the ring d of c slots hold from h on.
RingHolds(q, d, c, h, l) ==
  q \in Seq(Elems) /\ Len(q) = l /\ \A k \in 1 .. l : q[k] = d[(h + k - 1) % c]

\* An index less than twice around.
LEMMA RingIndex ==
  ASSUME NEW c \in Nat \ {0}, NEW h \in 0 .. c - 1, NEW k \in 0 .. c
  PROVE  /\ (h + k) % c = IF h + k < c THEN h + k ELSE h + k - c
         /\ (h + k) % c \in 0 .. c - 1
<1>1. h + k \in Nat /\ h + k < 2 * c
  OBVIOUS
<1>2. /\ (h + k) % c \in 0 .. c - 1
      /\ h + k < c => (h + k) % c = h + k
      /\ c <= h + k /\ h + k < 2 * c => (h + k) % c = (h + k) - c
  BY <1>1, Remainder
<1> QED
  BY <1>1, <1>2

\* Storing behind the last element appends to the queue.
LEMMA RingStore ==
  ASSUME NEW c \in Nat \ {0}, NEW h \in 0 .. c - 1, NEW l \in 0 .. c - 1,
         NEW d, DOMAIN d = 0 .. c - 1, NEW v \in Elems, NEW q, RingHolds(q, d, c, h, l),
         NEW i, i = (h + l) % c
  PROVE  RingHolds(Append(q, v), [d EXCEPT ![i] = v], c, h, l + 1)
<1> DEFINE new == [d EXCEPT ![i] = v]
<1>1. q \in Seq(Elems) /\ Len(q) = l /\ \A k \in 1 .. l : q[k] = d[(h + k - 1) % c]
  BY DEF RingHolds
<1>2. i \in 0 .. c - 1 /\ i = IF h + l < c THEN h + l ELSE h + l - c
  BY RingIndex
<1>3. Append(q, v) \in Seq(Elems) /\ Len(Append(q, v)) = l + 1
  BY <1>1
<1>4. ASSUME NEW k \in 1 .. l + 1
      PROVE  Append(q, v)[k] = new[(h + k - 1) % c]
  <2>0. h + k - 1 = h + (k - 1) /\ k - 1 \in 0 .. c
    OBVIOUS
  <2>1. /\ (h + (k - 1)) % c \in 0 .. c - 1
        /\ (h + (k - 1)) % c = IF h + (k - 1) < c THEN h + (k - 1) ELSE h + (k - 1) - c
    BY <2>0, RingIndex
  <2> DEFINE j == (h + k - 1) % c
  <2>2. j \in 0 .. c - 1 /\ j = IF h + (k - 1) < c THEN h + (k - 1) ELSE h + (k - 1) - c
    BY <2>0, <2>1
  <2>3. CASE k = l + 1
    <3>1. j = i
      BY <2>3, <2>2, <1>2
    <3>2. Append(q, v)[k] = v
      BY <2>3, <1>1
    <3> QED
      BY <3>1, <3>2, <1>2
  <2>4. CASE k # l + 1
    <3>1. k \in 1 .. l
      BY <2>4
    <3> HIDE DEF j
    <3>2. j # i
      BY <3>1, <2>2, <1>2
    <3>3. Append(q, v)[k] = q[k]
      BY <3>1, <1>1
    <3>4. q[k] = d[j]
      BY <3>1, <1>1 DEF j
    <3>5. new[j] = d[j]
      BY <3>2, <2>2
    <3> QED
      BY <3>3, <3>4, <3>5 DEF j
  <2> QED
    BY <2>3, <2>4
<1> QED
  BY <1>3, <1>4 DEF RingHolds

\* Advancing the head takes the oldest element from the queue.
LEMMA RingAdvance ==
  ASSUME NEW c \in Nat \ {0}, NEW h \in 0 .. c - 1, NEW l \in 1 .. c,
         NEW d, NEW q, RingHolds(q, d, c, h, l)
  PROVE  RingHolds(Tail(q), d, c, (h + 1) % c, l - 1) /\ (h + 1) % c \in 0 .. c - 1
<1> DEFINE g == (h + 1) % c
<1>1. q \in Seq(Elems) /\ Len(q) = l /\ \A k \in 1 .. l : q[k] = d[(h + k - 1) % c]
  BY DEF RingHolds
<1>2. g \in 0 .. c - 1 /\ g = IF h + 1 < c THEN h + 1 ELSE h + 1 - c
  BY RingIndex
<1> HIDE DEF g
<1>3. Tail(q) \in Seq(Elems) /\ Len(Tail(q)) = l - 1
  BY <1>1
<1>4. ASSUME NEW k \in 1 .. l - 1
      PROVE  Tail(q)[k] = d[(g + k - 1) % c]
  <2>1. Tail(q)[k] = q[k + 1] /\ k + 1 \in 1 .. l
    <3>1. q # <<>> /\ k \in 1 .. Len(q) - 1
      BY <1>1
    <3> QED
      BY <3>1, <1>1, HeadTailProperties
  <2>2. q[k + 1] = d[(h + (k + 1) - 1) % c]
    BY <1>1, <2>1
  <2>3. /\ k - 1 \in 0 .. c /\ k \in 0 .. c
        /\ g + k - 1 = g + (k - 1) /\ h + (k + 1) - 1 = h + k
    BY <1>2
  <2>4. (g + (k - 1)) % c = IF g + (k - 1) < c THEN g + (k - 1) ELSE g + (k - 1) - c
    BY <1>2, <2>3, RingIndex
  <2>5. (h + k) % c = IF h + k < c THEN h + k ELSE h + k - c
    BY <2>3, RingIndex
  <2>6. (g + (k - 1)) % c = (h + k) % c
    BY <1>2, <2>4, <2>5
  <2> QED
    BY <2>1, <2>2, <2>3, <2>6
<1>5. RingHolds(Tail(q), d, c, g, l - 1)
  BY <1>3, <1>4 DEF RingHolds
<1> QED
  BY <1>2, <1>5 DEF g

(***************************************************************************)
(* What IsQueue needs: the ring's block was not cut short by a product     *)
(* that wrapped, and because malloc gives at most PTRDIFF_MAX bytes head + *)
(* len never wraps either, so TailIndex is the slot behind the queue.      *)
(***************************************************************************)
RingInv == rdata # NULL =>
             /\ rcap \in Nat \ {0} /\ relem_size \in Nat \ {0}
             /\ rcap * relem_size <= rbytes /\ rcap * 2 <= R!SizeMax
             /\ rhead \in 0 .. rcap - 1 /\ rlen \in 0 .. rcap
             /\ DOMAIN rdata = 0 .. rcap - 1
             /\ RingHolds(queue, rdata, rcap, rhead, rlen)

LEMMA RingInit == R!Init => RingInv
BY DEF R!Init, RingInv

\* ringbuf_init: an empty ring inside its block.
LEMMA RingOpened ==
  ASSUME NEW e \in ElemSizes, NEW c \in Caps, R!RingBufInit(e, c)
  PROVE  RingInv'
<1> DEFINE m == R!SizeMax
<1>1. e \in Nat \ {0} /\ c \in Nat \ {0} /\ m \in Nat
  BY ArraysAssumption, SizeAssumption, SizeIs
<1>2. c <= m \div e /\ R!Wrap(c * e) <= m \div 2
  BY DEF R!RingBufInit, R!PtrdiffMax
<1> HIDE DEF m
<1>3. c * e \in Nat /\ c * e <= m /\ c <= c * e
  BY <1>1, <1>2, NoOverflow
<1>4. R!Wrap(c * e) = c * e
  BY <1>3, WrapIs, SizeIs DEF m
<1>5. c * 2 <= m
  <2>1. m \div 2 \in Nat
    BY <1>1, Division
  <2>2. c <= m \div 2
    BY <1>1, <1>2, <1>3, <1>4, <2>1
  <2> QED
    BY <1>1, <2>2, NoOverflow
<1>6. /\ rdata' = [p \in 0 .. c - 1 |-> Garbage] /\ rbytes' = c * e
      /\ relem_size' = e /\ rcap' = c /\ rhead' = 0 /\ rlen' = 0 /\ queue' = <<>>
  BY <1>4 DEF R!RingBufInit
<1>7. RingHolds(<<>>, rdata', c, 0, 0)
  BY DEF RingHolds
<1>8. /\ rcap' \in Nat \ {0} /\ relem_size' \in Nat \ {0}
      /\ rcap' * relem_size' <= rbytes' /\ rcap' * 2 <= R!SizeMax
      /\ rhead' \in 0 .. rcap' - 1 /\ rlen' \in 0 .. rcap'
      /\ DOMAIN rdata' = 0 .. rcap' - 1
  BY <1>1, <1>3, <1>5, <1>6 DEF m
<1>9. RingHolds(queue', rdata', rcap', rhead', rlen')
  BY <1>6, <1>7
<1> QED
  BY <1>8, <1>9 DEF RingInv, RingHolds, R!SizeMax

\* ringbuf_push
LEMMA RingPushed ==
  ASSUME RingInv, NEW v \in Elems, R!RingBufPush(v)
  PROVE  RingInv'
<1>1. /\ rcap \in Nat \ {0} /\ relem_size \in Nat \ {0}
      /\ rcap * relem_size <= rbytes /\ rcap * 2 <= R!SizeMax /\ R!SizeMax \in Nat
      /\ rhead \in 0 .. rcap - 1 /\ rlen \in 0 .. rcap
      /\ DOMAIN rdata = 0 .. rcap - 1
      /\ RingHolds(queue, rdata, rcap, rhead, rlen)
  BY SizeIs DEF RingInv, R!RingBufPush
<1>2. /\ rlen # rcap /\ rdata' = [rdata EXCEPT ![R!TailIndex] = v] /\ rlen' = rlen + 1
      /\ queue' = Append(queue, v)
      /\ relem_size' = relem_size /\ rcap' = rcap /\ rhead' = rhead /\ rbytes' = rbytes
  BY DEF R!RingBufPush
<1>3. R!TailIndex = (rhead + rlen) % rcap
  <2>1. rhead + rlen \in Nat /\ rhead + rlen <= R!SizeMax
    BY <1>1
  <2>2. R!Wrap(rhead + rlen) = rhead + rlen
    BY <2>1, WrapIs, SizeIs
  <2> QED
    BY <2>2 DEF R!TailIndex
<1>4. rlen \in 0 .. rcap - 1
  BY <1>1, <1>2
<1>5. RingHolds(Append(queue, v), [rdata EXCEPT ![R!TailIndex] = v], rcap, rhead, rlen + 1)
  BY <1>1, <1>3, <1>4, RingStore
<1>6. RingHolds(queue', rdata', rcap', rhead', rlen')
  BY <1>2, <1>5
<1>7. /\ rcap' \in Nat \ {0} /\ relem_size' \in Nat \ {0}
      /\ rcap' * relem_size' <= rbytes' /\ rcap' * 2 <= R!SizeMax
      /\ rhead' \in 0 .. rcap' - 1 /\ rlen' \in 0 .. rcap'
      /\ DOMAIN rdata' = 0 .. rcap' - 1
  BY <1>1, <1>2, <1>4
<1> QED
  BY <1>6, <1>7 DEF RingInv, RingHolds, R!SizeMax

\* ringbuf_push_overwrite on a full ring: the slot that is given up is the
\* one behind the rest of the queue.
LEMMA RingOverwritten ==
  ASSUME RingInv, rdata # NULL, ~(rlen < rcap), NEW v \in Elems, R!OverwriteOldest(v)
  PROVE  RingInv'
<1>1. /\ rcap \in Nat \ {0} /\ relem_size \in Nat \ {0}
      /\ rcap * relem_size <= rbytes /\ rcap * 2 <= R!SizeMax /\ R!SizeMax \in Nat
      /\ rhead \in 0 .. rcap - 1 /\ rlen \in 0 .. rcap
      /\ DOMAIN rdata = 0 .. rcap - 1
      /\ RingHolds(queue, rdata, rcap, rhead, rlen)
  BY SizeIs DEF RingInv
<1>2. /\ rdata' = [rdata EXCEPT ![rhead] = v] /\ rhead' = (rhead + 1) % rcap
      /\ queue' = Append(Tail(queue), v)
      /\ relem_size' = relem_size /\ rcap' = rcap /\ rlen' = rlen /\ rbytes' = rbytes
  BY DEF R!OverwriteOldest
<1> DEFINE g == (rhead + 1) % rcap
<1>3. rlen = rcap /\ rlen \in 1 .. rcap /\ rlen - 1 \in 0 .. rcap - 1 /\ rlen - 1 + 1 = rlen
  BY <1>1
<1>4. RingHolds(Tail(queue), rdata, rcap, g, rlen - 1) /\ g \in 0 .. rcap - 1
  BY <1>1, <1>3, RingAdvance
<1>5. rhead = (g + (rlen - 1)) % rcap
  <2>1. g = IF rhead + 1 < rcap THEN rhead + 1 ELSE rhead + 1 - rcap
    BY <1>1, RingIndex
  <2>2. (g + (rlen - 1)) % rcap
          = IF g + (rlen - 1) < rcap THEN g + (rlen - 1) ELSE g + (rlen - 1) - rcap
    <3>1. rlen - 1 \in 0 .. rcap
      BY <1>1, <1>3
    <3> HIDE DEF g
    <3> QED
      BY <1>1, <1>4, <3>1, RingIndex
  <2> HIDE DEF g
  <2> QED
    BY <1>1, <1>3, <1>4, <2>1, <2>2
<1> HIDE DEF g
<1>6. RingHolds(Append(Tail(queue), v), [rdata EXCEPT ![rhead] = v], rcap, g, rlen - 1 + 1)
  BY <1>1, <1>3, <1>4, <1>5, RingStore
<1>7. RingHolds(queue', rdata', rcap', rhead', rlen')
  BY <1>2, <1>3, <1>6 DEF g
<1>8. /\ rcap' \in Nat \ {0} /\ relem_size' \in Nat \ {0}
      /\ rcap' * relem_size' <= rbytes' /\ rcap' * 2 <= R!SizeMax
      /\ rhead' \in 0 .. rcap' - 1 /\ rlen' \in 0 .. rcap'
      /\ DOMAIN rdata' = 0 .. rcap' - 1
  BY <1>1, <1>2, <1>4 DEF g
<1> QED
  BY <1>7, <1>8 DEF RingInv, RingHolds, R!SizeMax

\* ringbuf_pop
LEMMA RingPopped ==
  ASSUME RingInv, R!RingBufPop
  PROVE  RingInv'
<1>1. /\ rcap \in Nat \ {0} /\ relem_size \in Nat \ {0}
      /\ rcap * relem_size <= rbytes /\ rcap * 2 <= R!SizeMax
      /\ rhead \in 0 .. rcap - 1 /\ rlen \in 0 .. rcap
      /\ DOMAIN rdata = 0 .. rcap - 1
      /\ RingHolds(queue, rdata, rcap, rhead, rlen)
  BY DEF RingInv, R!RingBufPop
<1>2. /\ rlen # 0 /\ rhead' = (rhead + 1) % rcap /\ rlen' = rlen - 1 /\ queue' = Tail(queue)
      /\ rdata' = rdata /\ relem_size' = relem_size /\ rcap' = rcap /\ rbytes' = rbytes
  BY DEF R!RingBufPop
<1>3. rlen \in 1 .. rcap
  BY <1>1, <1>2
<1>4. /\ RingHolds(Tail(queue), rdata, rcap, (rhead + 1) % rcap, rlen - 1)
      /\ (rhead + 1) % rcap \in 0 .. rcap - 1
  BY <1>1, <1>3, RingAdvance
<1>5. RingHolds(queue', rdata', rcap', rhead', rlen')
  BY <1>2, <1>4
<1>6. /\ rcap' \in Nat \ {0} /\ relem_size' \in Nat \ {0}
      /\ rcap' * relem_size' <= rbytes' /\ rcap' * 2 <= R!SizeMax
      /\ rhead' \in 0 .. rcap' - 1 /\ rlen' \in 0 .. rcap'
      /\ DOMAIN rdata' = 0 .. rcap' - 1
  BY <1>1, <1>2, <1>3, <1>4
<1> QED
  BY <1>5, <1>6 DEF RingInv, RingHolds, R!SizeMax

LEMMA RingNext == RingInv /\ [R!Next]_(R!vars) => RingInv'
<1> SUFFICES ASSUME RingInv, [R!Next]_(R!vars) PROVE RingInv'
  OBVIOUS
<1>1. CASE R!RingBufDestroy
  BY <1>1 DEF R!RingBufDestroy, RingInv
<1>2. CASE UNCHANGED R!vars
  BY <1>2 DEF R!vars, RingInv, RingHolds, R!SizeMax
<1>3. ASSUME NEW v \in Elems, R!RingBufPushOverwrite(v)
      PROVE  RingInv'
  BY <1>3, RingPushed, RingOverwritten DEF R!RingBufPushOverwrite
<1> QED
  BY <1>1, <1>2, <1>3, RingOpened, RingPushed, RingPopped DEF R!Next

LEMMA RingIsQueue == RingInv => RingBufIsQueue
<1> SUFFICES ASSUME RingInv, rdata # NULL
             PROVE  /\ R!Contents = queue
                    /\ rlen \in 0 .. rcap /\ rhead \in 0 .. rcap - 1
                    /\ rcap * relem_size <= rbytes
  BY DEF RingBufIsQueue, R!IsQueue
<1>1. /\ rlen \in 0 .. rcap /\ rhead \in 0 .. rcap - 1
      /\ rcap * relem_size <= rbytes
      /\ queue \in Seq(Elems) /\ Len(queue) = rlen
      /\ \A k \in 1 .. rlen : queue[k] = rdata[(rhead + k - 1) % rcap]
  BY DEF RingInv, RingHolds
<1>2. R!Contents = queue
  BY <1>1 DEF R!Contents
<1> QED
  BY <1>1, <1>2

(***************************************************************************)
(* ringbuf.c: the ring is a bounded queue, wherever its head is: pops      *)
(* return what was pushed and not overwritten, in order, and the slots lie *)
(* in the block, for every width of size_t, element size and capacity.     *)
(***************************************************************************)
THEOREM Ring == R!Spec => []RingBufIsQueue
<1>1. R!Spec => []RingInv
  BY RingInit, RingNext, PTL DEF R!Spec
<1> QED
  BY <1>1, RingIsQueue, PTL

-----------------------------------------------------------------------------
(* The string builder *)

Cells == Chars \cup {Nul, Garbage}

\* Among numbers there is a smallest one.
LEMMA SmallestIs ==
  ASSUME NEW Q, Q \subseteq Nat, Q # {}
  PROVE  B!Smallest(Q) \in Q /\ \A k \in Q : B!Smallest(Q) <= k
<1> DEFINE less == OpToRel(<, Nat)
<1>1. IsWellFoundedOn(less, Nat)
  BY NatLessThanWellFounded
<1>2. \A i, j \in Nat : <<j, i>> \in less <=> j < i
  BY DEF OpToRel
<1> HIDE DEF less
<1>3. PICK i \in Q : \A j \in Q : ~(<<j, i>> \in less)
  BY <1>1, WFMin
<1>4. \A j \in Q : ~(j < i)
  BY <1>2, <1>3
<1>5. \E k \in Q : \A j \in Q : k <= j
  BY <1>3, <1>4
<1> QED
  BY <1>5 DEF B!Smallest

(***************************************************************************)
(* What IsTheText needs: the cells, the characters of the text and the     *)
(* capacity, which is a size_t.                                            *)
(***************************************************************************)
TextIs(d, m, l, t) == /\ m \in 1 .. B!SizeMax /\ l \in 0 .. m - 1
                      /\ d \in [0 .. m - 1 -> Cells]
                      /\ t \in Seq(Chars) /\ Len(t) = l
                      /\ d[l] = Nul
                      /\ \A k \in 1 .. l : d[k - 1] = t[k]

TextInv == IF sdata = NULL THEN scap = 0 /\ slen = 0
           ELSE TextIs(sdata, scap, slen, text)

\* ensure: the capacity it settles on holds what is to come, and its NUL.
LEMMA EnsuredFits ==
  ASSUME TextIs(sdata, scap, slen, text), NEW i \in Nat, NEW m \in B!Ensured(i)
  PROVE  m \in 1 .. B!SizeMax /\ slen + i + 1 <= m
<1> DEFINE fits == B!Doublings(slen + i + 1)
<1>1. fits # {} /\ m = B!Smallest(fits)
  BY DEF B!Ensured
<1>2. B!SizeMax \in Nat /\ slen \in Nat
  BY SizeIs DEF TextIs
<1>3. fits \subseteq 0 .. B!SizeMax /\ \A j \in fits : j >= slen + i + 1
  BY DEF B!Doublings, B!SizeT
<1> HIDE DEF fits
<1>4. m \in fits
  <2>1. fits \subseteq Nat
    BY <1>2, <1>3
  <2> QED
    BY <1>1, <2>1, SmallestIs
<1> QED
  BY <1>2, <1>3, <1>4

\* strbuf_append_n writes the characters and the NUL behind them.
LEMMA TextAppended ==
  ASSUME TextInv, NEW i \in B!SizeT, NEW c \in Chars, B!StrBufAppend(i, c)
  PROVE  TextInv'
<1>1. sdata # NULL /\ TextIs(sdata, scap, slen, text)
  BY DEF B!StrBufAppend, TextInv
<1>2. i \in Nat /\ B!SizeMax \in Nat
  BY SizeIs DEF B!SizeT
<1>3. PICK m \in B!Ensured(i) :
         /\ scap' = m
         /\ sdata' = [p \in 0 .. m - 1 |->
                       CASE p >= slen /\ p < slen + i -> c
                         [] p = slen + i -> Nul
                         [] p < slen -> sdata[p]
                         [] OTHER -> IF p < scap THEN sdata[p] ELSE Garbage]
  BY DEF B!StrBufAppend
<1>4. m \in 1 .. B!SizeMax /\ slen + i + 1 <= m
  BY <1>1, <1>2, EnsuredFits
<1>5. /\ scap \in 1 .. B!SizeMax /\ slen \in 0 .. scap - 1
      /\ sdata \in [0 .. scap - 1 -> Cells]
      /\ text \in Seq(Chars) /\ Len(text) = slen
      /\ \A k \in 1 .. slen : sdata[k - 1] = text[k]
  BY <1>1 DEF TextIs
<1>6. c \in Cells /\ Nul \in Cells /\ Garbage \in Cells
  BY DEF Cells
<1>7. \A p \in 0 .. m - 1 :
         /\ p >= slen /\ p < slen + i => sdata'[p] = c
         /\ p = slen + i => sdata'[p] = Nul
         /\ p < slen => sdata'[p] = sdata[p]
         /\ p > slen + i => sdata'[p] = IF p < scap THEN sdata[p] ELSE Garbage
  BY <1>2, <1>3, <1>4, <1>5
<1>8. sdata' \in [0 .. m - 1 -> Cells]
  <2>1. DOMAIN sdata' = 0 .. m - 1 /\ sdata' = [p \in 0 .. m - 1 |-> sdata'[p]]
    BY <1>3
  <2>2. ASSUME NEW p \in 0 .. m - 1 PROVE sdata'[p] \in Cells
    <3>0. p \in Int /\ slen \in Int /\ i \in Int /\ scap \in Int /\ slen < scap /\ 0 <= p
      BY <1>2, <1>4, <1>5
    <3>1. CASE p >= slen /\ p < slen + i
      BY <3>1, <1>6, <1>7
    <3>2. CASE p = slen + i
      BY <3>2, <1>6, <1>7
    <3>3. CASE p < slen
      <4>1. p \in 0 .. scap - 1
        BY <3>0, <3>3
      <4> QED
        BY <4>1, <3>3, <1>5, <1>7
    <3>4. CASE p > slen + i
      <4>1. CASE p < scap
        <5>1. p \in 0 .. scap - 1
          BY <3>0, <4>1
        <5> QED
          BY <5>1, <4>1, <3>4, <1>5, <1>7
      <4>2. CASE ~(p < scap)
        BY <4>2, <3>4, <1>6, <1>7
      <4> QED
        BY <4>1, <4>2
    <3> QED
      BY <3>0, <3>1, <3>2, <3>3, <3>4
  <2> QED
    BY <2>1, <2>2
<1>9. text' = text \o [k \in 1 .. i |-> c] /\ slen' = slen + i
  BY DEF B!StrBufAppend
<1>10. /\ text' \in Seq(Chars) /\ Len(text') = slen + i
       /\ \A k \in 1 .. slen : text'[k] = text[k]
       /\ \A k \in slen + 1 .. slen + i : text'[k] = c
  <2> DEFINE t == [k \in 1 .. i |-> c]
  <2>1. t \in Seq(Chars) /\ Len(t) = i /\ \A k \in 1 .. i : t[k] = c
    BY <1>2
  <2> HIDE DEF t
  <2>2. text \o t \in Seq(Chars) /\ Len(text \o t) = Len(text) + Len(t)
    BY <1>5, <2>1, ConcatProperties
  <2>3. \A k \in 1 .. Len(text) + Len(t) :
           (text \o t)[k] = IF k <= Len(text) THEN text[k] ELSE t[k - Len(text)]
    BY <1>5, <2>1
  <2>4. text' = text \o t
    BY <1>9 DEF t
  <2>5. \A k \in slen + 1 .. slen + i : k - slen \in 1 .. i /\ ~(k <= slen) /\ k \in 1 .. slen + i
    BY <1>2, <1>5
  <2>6. \A k \in 1 .. slen : k <= slen /\ k \in 1 .. slen + i
    BY <1>2, <1>5
  <2>7. \A k \in slen + 1 .. slen + i : text'[k] = c
    BY <1>5, <2>1, <2>3, <2>4, <2>5
  <2>8. \A k \in 1 .. slen : text'[k] = text[k]
    BY <1>5, <2>1, <2>3, <2>4, <2>6
  <2> QED
    BY <1>5, <2>1, <2>2, <2>4, <2>7, <2>8
<1>11. \A k \in 1 .. slen + i : sdata'[k - 1] = text'[k]
  <2> SUFFICES ASSUME NEW k \in 1 .. slen + i PROVE sdata'[k - 1] = text'[k]
    OBVIOUS
  <2>1. k - 1 \in 0 .. m - 1
    BY <1>2, <1>4, <1>5
  <2>2. CASE k <= slen
    BY <2>1, <2>2, <1>2, <1>5, <1>7, <1>10
  <2>3. CASE k > slen
    BY <2>1, <2>3, <1>2, <1>5, <1>7, <1>10
  <2> QED
    BY <2>2, <2>3, <1>2, <1>5
<1>12. sdata'[slen + i] = Nul
  BY <1>2, <1>4, <1>5, <1>7
<1>13. TextIs(sdata', scap', slen', text')
  <2>1. m \in 1 .. B!SizeMax /\ slen + i \in 0 .. m - 1
    BY <1>2, <1>4, <1>5
  <2>2. TextIs(sdata', m, slen + i, text')
    BY <2>1, <1>8, <1>10, <1>11, <1>12 DEF TextIs
  <2> QED
    BY <2>2, <1>3, <1>9
<1>14. sdata' # NULL
  <2>1. m \in 0 .. 2 ^ Width - 1
    BY <1>4, <1>2 DEF B!SizeMax
  <2> QED
    BY <1>8, <2>1, StringsAssumption DEF Cells
<1> QED
  BY <1>13, <1>14 DEF TextInv, TextIs, B!SizeMax, Cells

\* A new builder holds the empty string.
LEMMA EmptyIsText ==
  /\ TextIs(B!EmptyString, StrBufInitialCap, 0, <<>>)
  /\ B!EmptyString # NULL
<1>1. StrBufInitialCap \in 1 .. B!SizeMax /\ B!SizeMax \in Nat
  BY StringsAssumption, SizeIs DEF B!SizeMax
<1>2. Nul \in Cells /\ Garbage \in Cells
  BY DEF Cells
<1>3. B!EmptyString \in [0 .. StrBufInitialCap - 1 -> Cells] /\ B!EmptyString[0] = Nul
  BY <1>1, <1>2 DEF B!EmptyString
<1>4. B!EmptyString # NULL
  <2>1. StrBufInitialCap \in 0 .. 2 ^ Width - 1
    BY <1>1 DEF B!SizeMax
  <2> QED
    BY <1>3, <2>1, StringsAssumption DEF Cells
<1>5. TextIs(B!EmptyString, StrBufInitialCap, 0, <<>>)
  BY <1>1, <1>3 DEF TextIs
<1> QED
  BY <1>4, <1>5

LEMMA TextNext == TextInv /\ [B!Next]_(B!vars) => TextInv'
<1> SUFFICES ASSUME TextInv, [B!Next]_(B!vars) PROVE TextInv'
  OBVIOUS
<1>a. ASSUME sdata' = NULL, scap' = 0, slen' = 0
      PROVE  TextInv'
  BY <1>a DEF TextInv
<1>b. ASSUME sdata' # NULL, TextIs(sdata', scap', slen', text')
      PROVE  TextInv'
  BY <1>b DEF TextInv, TextIs, B!SizeMax, Cells
<1>1. ASSUME sdata' = B!EmptyString, scap' = StrBufInitialCap, slen' = 0, text' = <<>>
      PROVE  TextInv'
  <2>1. sdata' # NULL /\ TextIs(sdata', scap', slen', text')
    BY <1>1, EmptyIsText
  <2> QED
    BY <2>1, <1>b
<1>2. CASE B!StrBufInit
  BY <1>1, <1>2 DEF B!StrBufInit
<1>3. CASE B!StrBufDestroy
  BY <1>a, <1>3 DEF B!StrBufDestroy
<1>4. CASE B!StrBufTake
  BY <1>a, <1>1, <1>4 DEF B!StrBufTake
<1>5. CASE B!StrBufClear
  <2>1. sdata # NULL /\ TextIs(sdata, scap, slen, text)
    BY <1>5 DEF B!StrBufClear, TextInv
  <2>2. scap \in 1 .. B!SizeMax /\ B!SizeMax \in Nat /\ sdata \in [0 .. scap - 1 -> Cells]
    BY <2>1, SizeIs DEF TextIs
  <2>3. 0 \in 0 .. scap - 1 /\ Nul \in Cells
    BY <2>2 DEF Cells
  <2>4. sdata' = [sdata EXCEPT ![0] = Nul] /\ slen' = 0 /\ text' = <<>> /\ scap' = scap
    BY <1>5 DEF B!StrBufClear
  <2>5. sdata' \in [0 .. scap - 1 -> Cells] /\ sdata'[0] = Nul
    BY <2>2, <2>3, <2>4
  <2>6. TextIs(sdata', scap, 0, <<>>)
    BY <2>2, <2>3, <2>5 DEF TextIs
  <2>7. sdata' # NULL
    <3>1. scap \in 0 .. 2 ^ Width - 1
      BY <2>2 DEF B!SizeMax
    <3> QED
      BY <2>5, <3>1, StringsAssumption DEF Cells
  <2> QED
    BY <2>4, <2>6, <2>7, <1>b
<1>6. CASE UNCHANGED B!vars
  BY <1>6 DEF B!vars, TextInv, TextIs, B!SizeMax, Cells
<1> QED
  BY <1>2, <1>3, <1>4, <1>5, <1>6, TextAppended DEF B!Next

LEMMA TextIsBuilt == TextInv => B!IsTheText
<1> SUFFICES ASSUME TextInv PROVE B!IsTheText
  OBVIOUS
<1>1. CASE sdata = NULL
  BY <1>1 DEF TextInv, B!IsTheText
<1>2. CASE sdata # NULL
  <2>1. TextIs(sdata, scap, slen, text)
    BY <1>2 DEF TextInv
  <2>2. /\ slen = Len(text) /\ slen < scap /\ DOMAIN sdata = 0 .. scap - 1
        /\ sdata[slen] = Nul /\ \A k \in 1 .. slen : sdata[k - 1] = text[k]
    BY <2>1, SizeIs DEF TextIs
  <2> QED
    BY <1>2, <2>2 DEF B!IsTheText
<1> QED
  BY <1>1, <1>2

(***************************************************************************)
(* vec.c, strbuf.c: growing in size_t arithmetic never leaves an element,  *)
(* a character or the NUL outside the block, for every width of size_t,    *)
(* element size and first capacity, and the string is the one built.       *)
(***************************************************************************)
THEOREM Growth == V!Spec /\ B!Spec => []GrowthIsSound
<1>1. V!Spec => []V!FitsItsBlock
  BY VecInit, VecNext, PTL DEF V!Spec
<1>2. B!Init => TextInv
  BY DEF B!Init, TextInv
<1>3. B!Spec => []TextInv
  BY <1>2, TextNext, PTL DEF B!Spec
<1>4. V!FitsItsBlock /\ TextInv => GrowthIsSound
  BY TextIsBuilt DEF GrowthIsSound
<1> QED
  BY <1>1, <1>3, <1>4, PTL

-----------------------------------------------------------------------------
(* The string view *)

Letters == {"x", "comma", "space"}
Views == [off : Nat, len : Nat]

\* A view that lies in the text.
InText(v) == v \in Views /\ v.off + v.len <= Len(str)

LEMMA LeastOfSet ==
  ASSUME NEW Q, Q \subseteq Nat, Q # {}
  PROVE  S!Min(Q) \in Q /\ \A k \in Q : S!Min(Q) <= k
<1> DEFINE less == OpToRel(<, Nat)
<1>1. IsWellFoundedOn(less, Nat)
  BY NatLessThanWellFounded
<1>2. \A i, j \in Nat : <<j, i>> \in less <=> j < i
  BY DEF OpToRel
<1> HIDE DEF less
<1>3. PICK i \in Q : \A j \in Q : ~(<<j, i>> \in less)
  BY <1>1, WFMin
<1>4. \A j \in Q : ~(j < i)
  BY <1>2, <1>3
<1>5. \E k \in Q : \A j \in Q : k <= j
  BY <1>3, <1>4
<1> QED
  BY <1>5 DEF S!Min

\* The characters of a view, one by one.
LEMMA TextOf ==
  ASSUME str \in Seq(Letters), NEW v, InText(v)
  PROVE  /\ S!Text(v) \in Seq(Letters) /\ Len(S!Text(v)) = v.len
         /\ \A k \in 1 .. v.len : S!Text(v)[k] = str[v.off + k]
<1>1. /\ v.off \in Nat /\ v.len \in Nat /\ Len(str) \in Nat
      /\ v.off + 1 \in Int /\ v.off + v.len \in Int
      /\ v.off + 1 \in 1 .. Len(str) + 1 /\ v.off + v.len <= Len(str)
  BY DEF InText, Views
<1>2. \A k \in v.off + 1 .. v.off + v.len : str[k] \in Letters
  BY <1>1, ElementOfSeq
<1> DEFINE lo == v.off + 1
           hi == v.off + v.len
<1>3. lo \in Int /\ hi \in Int /\ \A k \in lo .. hi : str[k] \in Letters
  BY <1>1, <1>2
<1>4. S!Text(v) = SubSeq(str, lo, hi)
  BY DEF S!Text
<1>5. hi - lo + 1 = v.len
  BY <1>1
<1>7. lo <= hi <=> v.len > 0
  BY <1>1
<1>8. \A k \in 1 .. v.len : lo + k - 1 = v.off + k
  BY <1>1
<1> HIDE DEF lo, hi
<1>6. /\ SubSeq(str, lo, hi) \in Seq(Letters)
      /\ Len(SubSeq(str, lo, hi)) = IF lo <= hi THEN hi - lo + 1 ELSE 0
      /\ \A i \in 1 .. hi - lo + 1 : SubSeq(str, lo, hi)[i] = str[lo + i - 1]
  BY <1>3, SubSeqProperties
<1>9. Len(S!Text(v)) = v.len
  BY <1>1, <1>4, <1>5, <1>6, <1>7
<1>10. \A k \in 1 .. v.len : S!Text(v)[k] = str[v.off + k]
  BY <1>4, <1>5, <1>6, <1>8
<1> QED
  BY <1>4, <1>6, <1>9, <1>10

\* memchr
LEMMA MemChrIs ==
  ASSUME NEW v, InText(v), str \in Seq(Letters)
  PROVE  LET sep == S!MemChr(v)
         IN /\ sep \in -1 .. v.len - 1
            /\ sep = -1 => \A k \in 1 .. v.len : str[v.off + k] # "comma"
            /\ sep # -1 => /\ str[v.off + sep + 1] = "comma"
                         /\ \A k \in 1 .. sep : str[v.off + k] # "comma"
<1> DEFINE hits == {k \in 0 .. v.len - 1 : str[v.off + k + 1] = "comma"}
<1>1. S!MemChr(v) = IF hits = {} THEN -1 ELSE S!Min(hits)
  BY DEF S!MemChr
<1>2. v.off \in Nat /\ v.len \in Nat
  BY DEF InText, Views
<1>3. \A k \in 1 .. v.len : str[v.off + k] = "comma" => k - 1 \in hits
  <2> SUFFICES ASSUME NEW k \in 1 .. v.len, str[v.off + k] = "comma" PROVE k - 1 \in hits
    OBVIOUS
  <2>1. v.off + (k - 1) + 1 = v.off + k /\ k - 1 \in 0 .. v.len - 1
    BY <1>2
  <2> QED
    BY <2>1
<1>4. CASE hits = {}
  <2>1. S!MemChr(v) = -1 /\ -1 \in -1 .. v.len - 1
    BY <1>1, <1>2, <1>4
  <2>2. \A k \in 1 .. v.len : str[v.off + k] # "comma"
    BY <1>3, <1>4
  <2> QED
    BY <2>1, <2>2
<1>5. CASE hits # {}
  <2>1. S!Min(hits) \in hits /\ \A k \in hits : S!Min(hits) <= k
    <3>1. hits \subseteq Nat
      BY <1>2
    <3> HIDE DEF hits
    <3> QED
      BY <1>5, <3>1, LeastOfSet
  <2>2. S!MemChr(v) = S!Min(hits)
    BY <1>1, <1>5
  <2>3. S!Min(hits) \in 0 .. v.len - 1 /\ str[v.off + S!Min(hits) + 1] = "comma"
    BY <2>1
  <2>4. \A k \in 1 .. S!Min(hits) : str[v.off + k] # "comma"
    <3> SUFFICES ASSUME NEW k \in 1 .. S!Min(hits), str[v.off + k] = "comma" PROVE FALSE
      OBVIOUS
    <3>1. k \in 1 .. v.len
      BY <1>2, <2>3
    <3>2. k - 1 \in hits
      BY <1>3, <3>1
    <3>3. S!Min(hits) <= k - 1
      BY <2>1, <3>2
    <3> QED
      BY <2>3, <3>3
  <2> QED
    BY <1>2, <2>2, <2>3, <2>4
<1> QED
  BY <1>4, <1>5

\* sv_slice
LEMMA SliceIs ==
  ASSUME str \in Seq(Letters), NEW v, InText(v)
  PROVE  S!SliceIsExact(v)
<1>1. v.off \in Nat /\ v.len \in Nat /\ v.off + v.len <= Len(str) /\ Len(str) \in Nat /\ MaxText \in Nat
  BY ViewsAssumption DEF InText, Views
<1> SUFFICES ASSUME NEW s \in 0 .. MaxText + 1, NEW e \in 0 .. MaxText + 1
             PROVE  /\ S!Within(v, S!SvSlice(v, s, e))
                    /\ s <= e /\ e <= v.len => S!SvEq(S!SvSlice(v, s, e), SubSeq(S!Text(v), s + 1, e))
  BY DEF S!SliceIsExact
<1>2. s \in Nat /\ e \in Nat
  BY <1>1
<1> DEFINE start == IF s > v.len THEN v.len ELSE s
           stop == IF e > v.len THEN v.len ELSE e
           from == IF start > stop THEN stop ELSE start
<1>3. S!SvSlice(v, s, e) = [off |-> v.off + from, len |-> stop - from]
  BY DEF S!SvSlice, S!View
<1>4. from \in Nat /\ stop \in Nat /\ from <= stop /\ stop <= v.len
  BY <1>1, <1>2
<1>5. s <= e /\ e <= v.len => from = s /\ stop = e
  BY <1>1, <1>2
<1> HIDE DEF start, stop, from
<1> DEFINE w == [off |-> v.off + from, len |-> stop - from]
<1>6. InText(w) /\ w.off = v.off + from /\ w.len = stop - from
  BY <1>1, <1>4 DEF InText, Views
<1>7. S!Within(v, w)
  BY <1>1, <1>4, <1>6 DEF S!Within
<1>8. ASSUME s <= e, e <= v.len
      PROVE  S!SvEq(w, SubSeq(S!Text(v), s + 1, e))
  <2> HIDE DEF w
  <2> DEFINE d == SubSeq(S!Text(v), s + 1, e)
             u == S!Text(v)
             t == S!Text(w)
  <2>1. /\ u \in Seq(Letters) /\ Len(u) = v.len
        /\ \A k \in 1 .. v.len : u[k] = str[v.off + k]
    BY TextOf
  <2>2. /\ t \in Seq(Letters) /\ Len(t) = w.len
        /\ \A k \in 1 .. w.len : t[k] = str[w.off + k]
    BY <1>6, TextOf
  <2>3. w.len = e - s /\ w.off = v.off + s
    BY <1>5, <1>6, <1>8
  <2> HIDE DEF u, t
  <2>4. /\ SubSeq(u, s + 1, e) \in Seq(Letters)
        /\ Len(SubSeq(u, s + 1, e)) = IF s + 1 <= e THEN e - (s + 1) + 1 ELSE 0
        /\ \A i \in 1 .. e - (s + 1) + 1 : SubSeq(u, s + 1, e)[i] = u[s + 1 + i - 1]
    <3>1. s + 1 \in Int /\ e \in Int
      BY <1>2
    <3>2. \A k \in s + 1 .. e : u[k] \in Letters
      <4> TAKE k \in s + 1 .. e
      <4>1. k \in 1 .. Len(u)
        BY <1>1, <1>2, <1>8, <2>1
      <4> QED
        BY <2>1, <4>1, ElementOfSeq
    <3> QED
      BY <3>1, <3>2, SubSeqProperties
  <2>5. d = SubSeq(u, s + 1, e)
    BY DEF u
  <2> HIDE DEF d
  <2>6. d \in Seq(Letters) /\ Len(d) = e - s
    BY <1>2, <1>8, <2>4, <2>5
  <2>7. \A i \in 1 .. e - s : d[i] = t[i]
    <3> TAKE i \in 1 .. e - s
    <3>1. i \in 1 .. e - (s + 1) + 1 /\ s + 1 + i - 1 = s + i /\ s + i \in 1 .. v.len /\ i \in 1 .. w.len
      BY <1>1, <1>2, <1>8, <2>3
    <3>2. d[i] = u[s + i]
      BY <2>4, <2>5, <3>1
    <3>3. u[s + i] = str[v.off + (s + i)]
      BY <2>1, <3>1
    <3>4. t[i] = str[w.off + i]
      BY <2>2, <3>1
    <3>5. v.off + (s + i) = w.off + i
      BY <1>1, <1>2, <2>3
    <3> QED
      BY <3>2, <3>3, <3>4, <3>5
  <2>8. Len(t) = Len(d)
    BY <2>2, <2>3, <2>6
  <2>9. \A i \in 1 .. Len(t) : t[i] = d[i]
    BY <2>2, <2>3, <2>7
  <2>10. t = d
    BY <2>2, <2>6, <2>8, <2>9, SeqEqual
  <2>11. w.len = Len(d) /\ S!Text(w) = d
    BY <2>3, <2>6, <2>10 DEF t
  <2> QED
    BY <2>11 DEF S!SvEq, d
<1> QED
  BY <1>3, <1>7, <1>8

\* sv_trim
LEMMA TrimIs ==
  ASSUME str \in Seq(Letters), NEW v, InText(v)
  PROVE  S!TrimIsExact(v)
<1>1. v.off \in Nat /\ v.len \in Nat /\ v.off + v.len <= Len(str) /\ Len(str) \in Nat
  BY DEF InText, Views
<1> DEFINE starts == {k \in 0 .. v.len : k = v.len \/ str[v.off + k + 1] # "space"}
           front == S!Min(starts)
           ends == {k \in 0 .. v.len - front : k = v.len - front \/ str[v.off + v.len - k] # "space"}
           back == S!Min(ends)
           t == [off |-> v.off + front, len |-> v.len - front - back]
<1>2. S!SvTrim(v) = t
  BY DEF S!SvTrim, S!View
<1>3. starts \subseteq Nat /\ v.len \in starts
  BY <1>1
<1>4. \A k \in starts : k \in 0 .. v.len /\ (k = v.len \/ str[v.off + k + 1] # "space")
  OBVIOUS
<1>5. \A k \in 0 .. v.len - 1 : str[v.off + k + 1] # "space" => k \in starts
  BY <1>1
<1> HIDE DEF starts
<1>6. front \in starts /\ \A k \in starts : front <= k
  BY <1>3, LeastOfSet
<1> HIDE DEF front
<1>7. front \in 0 .. v.len /\ (front = v.len \/ str[v.off + front + 1] # "space")
  BY <1>4, <1>6
<1>8. ends \subseteq Nat /\ v.len - front \in ends
  BY <1>1, <1>7
<1>9. \A k \in ends : k \in 0 .. v.len - front /\ (k = v.len - front \/ str[v.off + v.len - k] # "space")
  OBVIOUS
<1>10. \A k \in 0 .. v.len - front : str[v.off + v.len - k] # "space" => k \in ends
  OBVIOUS
<1> HIDE DEF ends
<1>11. back \in ends /\ \A k \in ends : back <= k
  BY <1>8, LeastOfSet
<1> HIDE DEF back
<1>12. back \in 0 .. v.len - front /\ (back = v.len - front \/ str[v.off + v.len - back] # "space")
  BY <1>9, <1>11
<1>13. /\ t.off = v.off + front /\ t.len = v.len - front - back
       /\ t.off \in Nat /\ t.len \in Nat /\ t.off + t.len <= v.off + v.len
       /\ t.off + t.len = v.off + v.len - back
  <2>1. /\ v.off + front \in Nat /\ v.len - front - back \in Nat
        /\ v.off + front + (v.len - front - back) <= v.off + v.len
        /\ v.off + front + (v.len - front - back) = v.off + v.len - back
    <3>1. /\ v.off \in Nat /\ v.len \in Nat /\ front \in 0 .. v.len
          /\ back \in 0 .. v.len - front
      BY <1>1, <1>7, <1>12
    <3>2. \A i, j \in Nat : \A k \in 0 .. j : \A l \in 0 .. j - k :
             /\ i + k \in Nat /\ j - k - l \in Nat
             /\ i + k + (j - k - l) <= i + j /\ i + k + (j - k - l) = i + j - l
      OBVIOUS
    <3> QED
      BY <3>1, <3>2
  <2>2. t.off = v.off + front /\ t.len = v.len - front - back
    OBVIOUS
  <2> QED
    BY <2>1, <2>2
<1>14. S!Within(v, t)
  BY <1>1, <1>7, <1>13 DEF S!Within
<1> HIDE DEF t
<1>15. Len(<<"space">>) = 1 /\ <<"space">>[1] = "space"
  OBVIOUS
<1>16. ASSUME NEW w, w.len = 1, InText(w), S!Text(w) = <<"space">>
       PROVE  str[w.off + 1] = "space"
  <2>1. 1 \in 1 .. w.len
    BY <1>16
  <2>2. S!Text(w)[1] = str[w.off + 1]
    BY <1>16, <2>1, TextOf
  <2> QED
    BY <1>15, <1>16, <2>2
<1>17. ~S!SvStartsWith(t, <<"space">>)
  <2> SUFFICES ASSUME 1 <= t.len, S!Text([off |-> t.off, len |-> 1]) = <<"space">> PROVE FALSE
    BY <1>15 DEF S!SvStartsWith, S!View
  <2> DEFINE w == [off |-> t.off, len |-> 1]
  <2>1. w.len = 1 /\ w.off = t.off /\ InText(w)
    BY <1>1, <1>13 DEF InText, Views
  <2>2. str[w.off + 1] = "space"
    BY <1>16, <2>1
  <2>3. front # v.len
    BY <1>1, <1>7, <1>12, <1>13
  <2> QED
    BY <1>7, <1>13, <2>1, <2>2, <2>3
<1>18. ~S!SvEndsWith(t, <<"space">>)
  <2> SUFFICES ASSUME 1 <= t.len, S!Text([off |-> t.off + t.len - 1, len |-> 1]) = <<"space">> PROVE FALSE
    BY <1>15 DEF S!SvEndsWith, S!View
  <2> DEFINE w == [off |-> t.off + t.len - 1, len |-> 1]
  <2>1. w.len = 1 /\ w.off = t.off + t.len - 1 /\ InText(w)
    BY <1>1, <1>13 DEF InText, Views
  <2>2. str[w.off + 1] = "space"
    BY <1>16, <2>1
  <2>3. back # v.len - front
    BY <1>1, <1>7, <1>12, <1>13
  <2>4. w.off + 1 = v.off + v.len - back
    <3>1. t.off + t.len - 1 + 1 = t.off + t.len
      BY <1>13
    <3> QED
      BY <1>13, <2>1, <3>1
  <2> QED
    BY <1>12, <2>2, <2>3, <2>4
<1>19. ASSUME NEW k \in v.off + 1 .. v.off + v.len, str[k] # "space"
       PROVE  k \in t.off + 1 .. t.off + t.len
  <2> DEFINE i == k - v.off - 1
             j == v.off + v.len - k
  <2>1. i \in 0 .. v.len - 1 /\ v.off + i + 1 = k
    BY <1>1
  <2>2. front <= i
    BY <1>5, <1>6, <1>19, <2>1
  <2>3. j \in 0 .. v.len - front /\ v.off + v.len - j = k
    <3>1. \A off, lead, long, at \in Int :
            /\ 0 <= lead /\ lead <= at - off - 1 /\ at <= off + long
            => off + long - at \in 0 .. long - lead /\ off + long - (off + long - at) = at
      OBVIOUS
    <3>2. v.off \in Int /\ v.len \in Int /\ front \in Int /\ 0 <= front /\ k \in Int /\ k <= v.off + v.len
      BY <1>1, <1>7
    <3>3. front <= k - v.off - 1
      BY <2>2
    <3> QED
      BY <3>1, <3>2, <3>3
  <2>4. back <= j
    BY <1>10, <1>11, <1>19, <2>3
  <2>5. v.off + front + 1 <= k /\ k <= v.off + v.len - back
    <3>1. \A off, lead, long, trail, at \in Int :
            lead <= at - off - 1 /\ trail <= off + long - at
            => off + lead + 1 <= at /\ at <= off + long - trail
      OBVIOUS
    <3>2. v.off \in Int /\ v.len \in Int /\ front \in Int /\ back \in Int /\ k \in Int
      BY <1>1, <1>7, <1>12
    <3>3. front <= k - v.off - 1 /\ back <= v.off + v.len - k
      BY <2>2, <2>4
    <3> QED
      BY <3>1, <3>2, <3>3
  <2>6. t.off + 1 <= k /\ k <= t.off + t.len
    BY <1>13, <2>5
  <2> QED
    BY <1>1, <1>13, <2>6
<1> QED
  BY <1>2, <1>14, <1>17, <1>18, <1>19 DEF S!TrimIsExact

\* Where strtol finds the digits of a text, and where it stops.
Scanned(t, start, stop) ==
    /\ start \in 1 .. Len(t) + 1 /\ stop \in start .. Len(t) + 1
    /\ \A k \in 1 .. start - 1 : t[k] = "space"
    /\ start <= Len(t) => t[start] # "space"
    /\ \A k \in start .. stop - 1 : t[k] = "x"
    /\ stop <= Len(t) => t[stop] # "x"

\* strtol inside sv_parse_long
LEMMA ParseScans ==
  ASSUME str \in Seq(Letters), NEW v, InText(v), v.len < BufSize
  PROVE  \E start, stop \in Nat :
           /\ Scanned(S!Text(v), start, stop)
           /\ v.len # 0 =>
                S!SvParseLong(v) = IF stop - start > MaxDigits THEN S!Failed("OVERFLOW")
                                   ELSE IF stop = start \/ stop # v.len + 1 THEN S!Failed("INVALID_ARG")
                                   ELSE [err |-> "OK", out |-> stop - start]
<1> DEFINE t == S!Text(v)
           c == Append(t, "NUL")
<1>1. v.len \in Nat /\ BufSize \in Nat /\ ~(BufSize < v.len + 1) /\ ~(v.len >= BufSize)
  BY ViewsAssumption DEF InText, Views
<1>2. t \in Seq(Letters) /\ Len(t) = v.len
  BY TextOf
<1>3. S!SvToCstr(v, BufSize).out = c
  BY <1>1 DEF S!SvToCstr
<1> HIDE DEF t
<1>4. Append(t, "NUL") \in Seq(Letters \cup {"NUL"}) /\ Len(Append(t, "NUL")) = v.len + 1
  <2>1. t \in Seq(Letters \cup {"NUL"}) /\ "NUL" \in Letters \cup {"NUL"}
    BY <1>2
  <2> HIDE DEF Letters
  <2> QED
    BY <1>2, <2>1, AppendProperties
<1>5. \A k \in 1 .. v.len : c[k] = t[k]
  BY <1>1, <1>2
<1>6. c[v.len + 1] = "NUL"
  BY <1>1, <1>2
<1>7. \A k \in 1 .. v.len : t[k] # "NUL"
  BY <1>2, ElementOfSeq DEF Letters
<1>8. DOMAIN c = 1 .. v.len + 1 /\ Len(c) = v.len + 1
  BY <1>1, <1>4
<1> DEFINE starts == {k \in DOMAIN c : c[k] # "space"}
           start == S!Min(starts)
           stops == {k \in start .. Len(c) : c[k] # "x"}
           stop == S!Min(stops)
<1>9. v.len # 0 => S!SvParseLong(v) = IF stop - start > MaxDigits THEN S!Failed("OVERFLOW")
                            ELSE IF stop = start \/ c[stop] # "NUL" THEN S!Failed("INVALID_ARG")
                            ELSE [err |-> "OK", out |-> stop - start]
  BY <1>1, <1>3 DEF S!SvParseLong
<1> HIDE DEF c
<1>10. starts \subseteq Nat /\ v.len + 1 \in starts
  BY <1>1, <1>6, <1>8
<1>11. \A k \in 1 .. v.len + 1 : k \in starts <=> c[k] # "space"
  BY <1>8
<1>12. \A k \in starts : k \in 1 .. v.len + 1
  BY <1>8
<1> HIDE DEF starts
<1>13. start \in starts /\ \A k \in starts : start <= k
  BY <1>10, LeastOfSet
<1> HIDE DEF start
<1>14. start \in 1 .. v.len + 1 /\ c[start] # "space"
  BY <1>11, <1>12, <1>13
<1>15. stops \subseteq Nat /\ v.len + 1 \in stops
  BY <1>1, <1>6, <1>8, <1>14
<1>16. \A k \in start .. v.len + 1 : k \in stops <=> c[k] # "x"
  BY <1>8
<1>17. \A k \in stops : k \in start .. v.len + 1
  BY <1>8
<1> HIDE DEF stops
<1>18. stop \in stops /\ \A k \in stops : stop <= k
  BY <1>15, LeastOfSet
<1> HIDE DEF stop
<1>19. stop \in start .. v.len + 1 /\ c[stop] # "x"
  BY <1>16, <1>17, <1>18
<1>20. c[stop] = "NUL" <=> stop = v.len + 1
  <2>1. CASE stop = v.len + 1
    BY <1>6, <2>1
  <2>2. CASE stop # v.len + 1
    <3>1. stop \in 1 .. v.len
      BY <1>1, <1>14, <1>19, <2>2
    <3> QED
      BY <1>5, <1>7, <2>2, <3>1
  <2> QED
    BY <2>1, <2>2
<1>21. \A k \in 1 .. start - 1 : t[k] = "space"
  <2> TAKE k \in 1 .. start - 1
  <2>1. k \in 1 .. v.len /\ k \in 1 .. v.len + 1 /\ ~(start <= k)
    BY <1>1, <1>14
  <2>2. c[k] = "space"
    BY <1>11, <1>13, <2>1
  <2> QED
    BY <1>5, <2>1, <2>2
<1>22. \A k \in start .. stop - 1 : t[k] = "x"
  <2> TAKE k \in start .. stop - 1
  <2>1. k \in 1 .. v.len /\ k \in start .. v.len + 1 /\ ~(stop <= k)
    BY <1>1, <1>14, <1>19
  <2>2. c[k] = "x"
    BY <1>16, <1>18, <2>1
  <2> QED
    BY <1>5, <2>1, <2>2
<1>23. start <= Len(t) => t[start] # "space"
  <2>1. start <= Len(t) => start \in 1 .. v.len
    BY <1>1, <1>2, <1>14
  <2> QED
    BY <1>5, <1>14, <2>1
<1>24. stop <= Len(t) => t[stop] # "x"
  <2>1. stop <= Len(t) => stop \in 1 .. v.len
    BY <1>1, <1>2, <1>14, <1>19
  <2> QED
    BY <1>5, <1>19, <2>1
<1>25. Scanned(t, start, stop)
  BY <1>2, <1>14, <1>19, <1>21, <1>22, <1>23, <1>24 DEF Scanned
<1>26. start \in Nat /\ stop \in Nat
  BY <1>1, <1>14, <1>19
<1> QED
  BY <1>9, <1>20, <1>25, <1>26 DEF t

\* sv_parse_long
LEMMA ParseIs ==
  ASSUME str \in Seq(Letters), NEW v, InText(v)
  PROVE  S!ParseIsExact(v)
<1> DEFINE t == S!Text(v)
           spaces == {k \in 0 .. v.len : \A d \in 1 .. v.len : t[d] = IF d <= k THEN "space" ELSE "x"}
           inRange == \E k \in spaces : v.len - k \in 1 .. MaxDigits
           Digits(k) == \A d \in 1 .. k + (MaxDigits + 1) : t[d] = IF d <= k THEN "space" ELSE "x"
           outOfRange == \E k \in 0 .. v.len - (MaxDigits + 1) : Digits(k)
           parsed == S!SvParseLong(v)
<1>0. (IF S!TooLong(v) THEN parsed.err = "OVERFLOW"
       ELSE /\ parsed.err = "OK" <=> inRange
            /\ inRange => parsed.out = v.len - S!Min(spaces)
            /\ parsed.err = "OVERFLOW" <=> outOfRange)
      => S!ParseIsExact(v)
  BY DEF S!ParseIsExact
<1>1. v.len \in Nat /\ BufSize \in Nat /\ MaxDigits \in Nat /\ MaxDigits < BufSize
  BY ViewsAssumption DEF InText, Views
<1>2. Len(t) = v.len
  BY TextOf
<1>3. CASE v.len = 0
  <2>1. parsed.err = "INVALID_ARG"
    BY <1>1, <1>3 DEF S!SvParseLong, S!Failed
  <2>2. ~inRange
    <3> SUFFICES ASSUME NEW k \in spaces, v.len - k \in 1 .. MaxDigits PROVE FALSE
      OBVIOUS
    <3>1. k \in 0 .. v.len
      OBVIOUS
    <3> HIDE DEF spaces
    <3> QED
      BY <1>1, <1>3, <3>1
  <2>3. ~outOfRange
    <3> HIDE DEF Digits
    <3>1. 0 .. v.len - (MaxDigits + 1) = {}
      BY <1>1, <1>3
    <3> QED
      BY <3>1
  <2>4. ~S!TooLong(v)
    BY <1>1, <1>3 DEF S!TooLong
  <2> HIDE DEF inRange, outOfRange, parsed
  <2> QED
    BY <1>0, <2>1, <2>2, <2>3, <2>4
<1>4. CASE v.len >= BufSize
  <2>1. parsed.err = "OVERFLOW"
    BY <1>1, <1>4 DEF S!SvParseLong, S!Failed
  <2>2. S!TooLong(v)
    BY <1>4 DEF S!TooLong
  <2> HIDE DEF inRange, outOfRange, parsed
  <2> QED
    BY <1>0, <2>1, <2>2
<1>5. CASE v.len # 0 /\ v.len < BufSize
  <2>1. PICK start, stop \in Nat :
           /\ Scanned(t, start, stop)
           /\ parsed = IF stop - start > MaxDigits THEN S!Failed("OVERFLOW")
                       ELSE IF stop = start \/ stop # v.len + 1 THEN S!Failed("INVALID_ARG")
                       ELSE [err |-> "OK", out |-> stop - start]
    BY <1>5, ParseScans
  <2>2. /\ start \in 1 .. v.len + 1 /\ stop \in start .. v.len + 1
        /\ \A k \in 1 .. start - 1 : t[k] = "space"
        /\ start <= v.len => t[start] # "space"
        /\ \A k \in start .. stop - 1 : t[k] = "x"
        /\ stop <= v.len => t[stop] # "x"
    BY <1>2, <2>1 DEF Scanned
  <2> HIDE DEF t, parsed
  <2>3. ASSUME stop = v.len + 1 PROVE start - 1 \in spaces
    <3>1. start - 1 \in 0 .. v.len
      BY <1>1, <2>2
    <3>2. ASSUME NEW d \in 1 .. v.len
          PROVE  t[d] = IF d <= start - 1 THEN "space" ELSE "x"
      <4>1. CASE d <= start - 1
        <5>1. d \in 1 .. start - 1
          BY <1>1, <2>2, <4>1
        <5> QED
          BY <2>2, <4>1, <5>1
      <4>2. CASE ~(d <= start - 1)
        <5>1. d \in start .. stop - 1
          BY <1>1, <2>2, <2>3, <4>2
        <5> QED
          BY <2>2, <4>2, <5>1
      <4> QED
        BY <4>1, <4>2
    <3> QED
      BY <3>1, <3>2
  <2>4. ASSUME NEW k \in spaces, v.len - k \in 1 .. MaxDigits
        PROVE  k = start - 1 /\ stop = v.len + 1
    <3>1. k \in 0 .. v.len /\ \A d \in 1 .. v.len : t[d] = IF d <= k THEN "space" ELSE "x"
      OBVIOUS
    <3>2. k + 1 \in 1 .. v.len /\ ~(k + 1 <= k)
      BY <1>1, <2>4, <3>1
    <3>3. t[k + 1] = "x"
      BY <3>1, <3>2
    <3>4. start <= k + 1
      <4> SUFFICES ASSUME k + 1 < start PROVE FALSE
        BY <2>2, <3>2
      <4>1. k + 1 \in 1 .. start - 1
        BY <2>2, <3>2
      <4> QED
        BY <2>2, <3>3, <4>1
    <3>5. ~(start <= k)
      <4> SUFFICES ASSUME start <= k PROVE FALSE
        OBVIOUS
      <4>1. start \in 1 .. v.len /\ start <= v.len
        BY <1>1, <2>2, <3>1
      <4>2. t[start] = "space"
        BY <3>1, <4>1
      <4> QED
        BY <2>2, <4>1, <4>2
    <3>6. start = k + 1
      BY <2>2, <3>1, <3>4, <3>5
    <3>7. ~(stop <= v.len)
      <4> SUFFICES ASSUME stop <= v.len PROVE FALSE
        OBVIOUS
      <4>1. stop \in 1 .. v.len /\ ~(stop <= k)
        BY <1>1, <2>2, <3>1, <3>6
      <4>2. t[stop] = "x"
        BY <3>1, <4>1
      <4> QED
        BY <2>2, <4>2
    <3> QED
      BY <1>1, <2>2, <3>1, <3>6, <3>7
  <2>9. stop - start > MaxDigits <=> outOfRange
    <3>1. ASSUME stop - start > MaxDigits PROVE outOfRange
      <4>1. start - 1 \in 0 .. v.len - (MaxDigits + 1)
        BY <1>1, <2>2, <3>1
      <4>2. ASSUME NEW d \in 1 .. start - 1 + (MaxDigits + 1)
            PROVE  t[d] = IF d <= start - 1 THEN "space" ELSE "x"
        <5>1. CASE d <= start - 1
          <6>1. d \in 1 .. start - 1
            BY <1>1, <2>2, <5>1
          <6> QED
            BY <2>2, <5>1, <6>1
        <5>2. CASE ~(d <= start - 1)
          <6>1. d \in start .. stop - 1
            BY <1>1, <2>2, <3>1, <5>2
          <6> QED
            BY <2>2, <5>2, <6>1
        <5> QED
          BY <5>1, <5>2
      <4>3. Digits(start - 1)
        BY <4>2
      <4> HIDE DEF Digits
      <4> QED
        BY <4>1, <4>3
    <3>2. ASSUME NEW k \in 0 .. v.len - (MaxDigits + 1), Digits(k)
          PROVE  stop - start > MaxDigits
      <4>1. \A d \in 1 .. k + (MaxDigits + 1) : t[d] = IF d <= k THEN "space" ELSE "x"
        BY <3>2
      <4>2. k \in Nat /\ k + (MaxDigits + 1) <= v.len
        BY <1>1
      <4>3. k + 1 \in 1 .. k + (MaxDigits + 1) /\ ~(k + 1 <= k)
        BY <1>1, <4>2
      <4>4. t[k + 1] = "x"
        BY <4>1, <4>3
      <4>5. start <= k + 1
        <5> SUFFICES ASSUME k + 1 < start PROVE FALSE
          BY <2>2, <4>2
        <5>1. k + 1 \in 1 .. start - 1
          BY <2>2, <4>2
        <5> QED
          BY <2>2, <4>4, <5>1
      <4>6. ~(start <= k)
        <5> SUFFICES ASSUME start <= k PROVE FALSE
          OBVIOUS
        <5>1. start \in 1 .. k + (MaxDigits + 1) /\ start <= v.len
          BY <1>1, <2>2, <4>2
        <5>2. t[start] = "space"
          BY <4>1, <5>1
        <5> QED
          BY <2>2, <5>1, <5>2
      <4>7. start = k + 1
        BY <2>2, <4>2, <4>5, <4>6
      <4>8. ~(stop <= k + (MaxDigits + 1))
        <5> SUFFICES ASSUME stop <= k + (MaxDigits + 1) PROVE FALSE
          OBVIOUS
        <5>1. stop \in 1 .. k + (MaxDigits + 1) /\ ~(stop <= k) /\ stop <= v.len
          BY <1>1, <2>2, <4>2, <4>7
        <5>2. t[stop] = "x"
          BY <4>1, <5>1
        <5> QED
          BY <2>2, <5>1, <5>2
      <4> QED
        BY <1>1, <2>2, <4>2, <4>7, <4>8
    <3> HIDE DEF Digits
    <3> QED
      BY <3>1, <3>2
  <2>10. ~S!TooLong(v)
    BY <1>1, <1>5 DEF S!TooLong
  <2>5. ASSUME stop = v.len + 1, stop # start
        PROVE  S!Min(spaces) = start - 1
    <3>1. start - 1 \in spaces
      BY <2>3, <2>5
    <3>2. spaces \subseteq Nat
      BY <1>1
    <3>3. \A k \in spaces : k \in 0 .. v.len /\ \A d \in 1 .. v.len : t[d] = IF d <= k THEN "space" ELSE "x"
      OBVIOUS
    <3> HIDE DEF spaces
    <3>4. S!Min(spaces) \in spaces /\ S!Min(spaces) <= start - 1
      BY <3>1, <3>2, LeastOfSet
    <3> DEFINE u == S!Min(spaces)
    <3>5. u \in 0 .. v.len /\ u <= start - 1 /\ u \in spaces
      BY <3>3, <3>4
    <3> HIDE DEF u
    <3>6. ~(u < start - 1)
      <4> SUFFICES ASSUME u < start - 1 PROVE FALSE
        OBVIOUS
      <4>1. u + 1 \in 1 .. v.len /\ u + 1 \in 1 .. start - 1 /\ ~(u + 1 <= u)
        BY <1>1, <2>2, <3>5
      <4>2. t[u + 1] = "x"
        BY <3>3, <3>5, <4>1
      <4> QED
        BY <2>2, <4>1, <4>2
    <3>7. u = start - 1
      BY <2>2, <3>5, <3>6
    <3> QED
      BY <3>7 DEF u
  <2> HIDE DEF spaces, outOfRange
  <2>6. CASE stop - start > MaxDigits
    <3>1. parsed.err = "OVERFLOW"
      BY <2>1, <2>6 DEF S!Failed
    <3>2. ~inRange
      <4> SUFFICES ASSUME NEW k \in spaces, v.len - k \in 1 .. MaxDigits PROVE FALSE
        OBVIOUS
      <4>1. k = start - 1 /\ stop = v.len + 1
        BY <2>4
      <4> QED
        BY <1>1, <2>2, <2>6, <4>1
    <3> HIDE DEF inRange
    <3> QED
      BY <1>0, <2>6, <2>9, <2>10, <3>1, <3>2 DEF t, parsed, spaces, inRange, outOfRange
  <2>7. CASE ~(stop - start > MaxDigits) /\ (stop = start \/ stop # v.len + 1)
    <3>1. parsed.err = "INVALID_ARG"
      BY <2>1, <2>7 DEF S!Failed
    <3>2. ~inRange
      <4> SUFFICES ASSUME NEW k \in spaces, v.len - k \in 1 .. MaxDigits PROVE FALSE
        OBVIOUS
      <4>1. k = start - 1 /\ stop = v.len + 1
        BY <2>4
      <4> QED
        BY <1>1, <2>2, <2>7, <4>1
    <3> HIDE DEF inRange
    <3> QED
      BY <1>0, <2>7, <2>9, <2>10, <3>1, <3>2 DEF t, parsed, spaces, inRange, outOfRange
  <2>8. CASE ~(stop - start > MaxDigits) /\ stop # start /\ stop = v.len + 1
    <3>1. parsed.err = "OK" /\ parsed.out = stop - start
      BY <2>1, <2>8
    <3>2. start - 1 \in spaces /\ S!Min(spaces) = start - 1
      BY <2>3, <2>5, <2>8
    <3>3. v.len - (start - 1) \in 1 .. MaxDigits /\ stop - start = v.len - (start - 1)
      BY <1>1, <2>2, <2>8
    <3>4. inRange
      BY <3>2, <3>3
    <3> HIDE DEF inRange
    <3> QED
      BY <1>0, <2>8, <2>9, <2>10, <3>1, <3>2, <3>3, <3>4 DEF t, parsed, spaces, inRange, outOfRange
  <2> QED
    BY <2>6, <2>7, <2>8
<1> QED
  BY <1>1, <1>3, <1>4, <1>5

(***************************************************************************)
(* The inductive invariant: the tokens lie one behind the other, each one  *)
(* delimiter after the one before, and the rest begins after the last.     *)
(***************************************************************************)
EndOf(v) == v.off + v.len

SplitTypes == /\ str \in Seq(Letters)
              /\ tokens \in Seq(Views)
              /\ rest \in Views \cup {Exhausted}

TokensLie == \A k \in 1 .. Len(tokens) :
               /\ EndOf(tokens[k]) <= Len(str)
               /\ \A d \in 1 .. tokens[k].len : str[tokens[k].off + d] # "comma"
               /\ k = 1 => tokens[k].off = 0
               /\ k # 1 => /\ tokens[k].off = EndOf(tokens[k - 1]) + 1
                           /\ str[tokens[k].off] = "comma"

RestLies == IF rest = Exhausted
            THEN Len(tokens) > 0 /\ EndOf(tokens[Len(tokens)]) = Len(str)
            ELSE /\ EndOf(rest) = Len(str)
                 /\ Len(tokens) = 0 => rest.off = 0
                 /\ Len(tokens) > 0 => /\ rest.off = EndOf(tokens[Len(tokens)]) + 1
                                       /\ str[rest.off] = "comma"

SplitInv == SplitTypes /\ TokensLie /\ RestLies

LEMMA SplitInit == S!Init => SplitInv
<1> SUFFICES ASSUME S!Init PROVE SplitInv
  OBVIOUS
<1>1. /\ str \in S!SeqOf(Letters, MaxText) /\ rest = [off |-> 0, len |-> Len(str)] /\ tokens = <<>>
  BY DEF S!Init, S!View, Letters
<1>2. PICK k \in 0 .. MaxText : str \in [1 .. k -> Letters]
  BY <1>1 DEF S!SeqOf
<1>3. k \in Nat
  BY ViewsAssumption
<1> HIDE DEF Letters
<1>4. str \in Seq(Letters) /\ Len(str) = k
  BY <1>2, <1>3
<1>5. rest \in Views /\ rest.off = 0 /\ rest.len = Len(str) /\ rest # Exhausted
  BY <1>1, <1>3, <1>4, ViewsAssumption DEF Views
<1>6. SplitTypes /\ Len(tokens) = 0
  BY <1>1, <1>4, <1>5 DEF SplitTypes
<1>7. TokensLie
  BY <1>6 DEF TokensLie
<1>8. EndOf(rest) = Len(str)
  BY <1>3, <1>4, <1>5 DEF EndOf
<1>9. RestLies
  BY <1>5, <1>6, <1>8 DEF RestLies
<1> QED
  BY <1>6, <1>7, <1>9 DEF SplitInv

\* A token before the rest is put behind the others.
LEMMA TokenAdded ==
  ASSUME SplitInv, rest # Exhausted, NEW w \in Views, w.off = rest.off, EndOf(w) <= Len(str),
         \A d \in 1 .. w.len : str[w.off + d] # "comma",
         tokens' = Append(tokens, w), str' = str
  PROVE  /\ TokensLie' /\ tokens' \in Seq(Views)
         /\ Len(tokens') > 0 /\ tokens'[Len(tokens')] = w
<1> DEFINE m == Len(tokens)
<1>1. /\ tokens \in Seq(Views) /\ m \in Nat
      /\ TokensLie /\ RestLies
  BY DEF SplitInv, SplitTypes
<1>2. /\ tokens' \in Seq(Views) /\ Len(tokens') = m + 1
      /\ tokens'[m + 1] = w
  BY <1>1
<1>3. \A k \in 1 .. m : tokens'[k] = tokens[k]
  BY <1>1
<1> HIDE DEF m
<1>4. ASSUME NEW k \in 1 .. m + 1
      PROVE  /\ EndOf(tokens'[k]) <= Len(str)
             /\ \A d \in 1 .. tokens'[k].len : str[tokens'[k].off + d] # "comma"
             /\ k = 1 => tokens'[k].off = 0
             /\ k # 1 => /\ tokens'[k].off = EndOf(tokens'[k - 1]) + 1
                         /\ str[tokens'[k].off] = "comma"
  <2>1. CASE k \in 1 .. m
    <3>1. k # 1 => k - 1 \in 1 .. m
      BY <1>1, <2>1
    <3>2. tokens'[k] = tokens[k] /\ (k # 1 => tokens'[k - 1] = tokens[k - 1])
      BY <1>3, <2>1, <3>1
    <3> QED
      BY <1>1, <2>1, <3>2 DEF TokensLie, m
  <2>2. CASE k = m + 1
    <3>1. tokens'[k] = w
      BY <1>2, <2>2
    <3>2. CASE m = 0
      <4>1. k = 1 /\ rest.off = 0
        BY <1>1, <2>2, <3>2 DEF RestLies, m
      <4> QED
        BY <3>1, <4>1
    <3>3. CASE m > 0
      <4>1. m \in 1 .. m /\ k - 1 = m /\ k # 1
        BY <1>1, <2>2, <3>3
      <4>2. tokens'[k - 1] = tokens[m]
        BY <1>3, <4>1
      <4>3. rest.off = EndOf(tokens[m]) + 1 /\ str[rest.off] = "comma"
        BY <1>1, <3>3 DEF RestLies, m
      <4> QED
        BY <3>1, <4>1, <4>2, <4>3
    <3>4. m = 0 \/ m > 0
      BY <1>1
    <3> QED
      BY <3>2, <3>3, <3>4
  <2>3. k \in 1 .. m \/ k = m + 1
    BY <1>1
  <2> QED
    BY <2>1, <2>2, <2>3
<1>5. TokensLie'
  BY <1>2, <1>4 DEF TokensLie
<1> QED
  BY <1>1, <1>2, <1>5

\* sv_split_next
LEMMA SplitNext == SplitInv /\ [S!Next]_(S!vars) => SplitInv'
<1> SUFFICES ASSUME SplitInv, [S!Next]_(S!vars) PROVE SplitInv'
  OBVIOUS
<1>1. CASE S!SvSplitNext
  <2>1. rest # Exhausted /\ str' = str
    BY <1>1 DEF S!SvSplitNext
  <2>2. /\ str \in Seq(Letters) /\ Len(str) \in Nat /\ tokens \in Seq(Views)
        /\ rest \in Views /\ EndOf(rest) = Len(str)
    BY <2>1 DEF SplitInv, SplitTypes, RestLies
  <2>3. /\ rest.off \in Nat /\ rest.len \in Nat /\ rest.off + rest.len = Len(str)
        /\ InText(rest)
    BY <2>2 DEF Views, EndOf, InText
  <2> DEFINE sep == S!MemChr(rest)
  <2>4. /\ sep \in -1 .. rest.len - 1
        /\ sep = -1 => \A k \in 1 .. rest.len : str[rest.off + k] # "comma"
        /\ sep # -1 => /\ str[rest.off + sep + 1] = "comma"
                       /\ \A k \in 1 .. sep : str[rest.off + k] # "comma"
    BY <2>2, <2>3, MemChrIs
  <2>5. \/ /\ sep >= 0
           /\ tokens' = Append(tokens, [off |-> rest.off, len |-> sep])
           /\ rest' = [off |-> rest.off + sep + 1, len |-> rest.len - (sep + 1)]
        \/ /\ ~(sep >= 0)
           /\ tokens' = Append(tokens, rest) /\ rest' = Exhausted
    BY <1>1 DEF S!SvSplitNext, S!View, S!After
  <2> HIDE DEF sep
  <2>6. CASE /\ sep >= 0
             /\ tokens' = Append(tokens, [off |-> rest.off, len |-> sep])
             /\ rest' = [off |-> rest.off + sep + 1, len |-> rest.len - (sep + 1)]
    <3> DEFINE w == [off |-> rest.off, len |-> sep]
    <3>1. sep \in Nat /\ sep < rest.len /\ sep # -1
      BY <2>3, <2>4, <2>6
    <3>2. w \in Views /\ w.off = rest.off /\ w.len = sep /\ tokens' = Append(tokens, w)
      BY <2>3, <2>6, <3>1 DEF Views
    <3> HIDE DEF w
    <3>3. EndOf(w) = rest.off + sep /\ EndOf(w) <= Len(str)
      BY <2>3, <3>1, <3>2 DEF EndOf
    <3>4. \A d \in 1 .. w.len : str[w.off + d] # "comma"
      BY <2>4, <3>1, <3>2
    <3>5. /\ TokensLie' /\ tokens' \in Seq(Views)
          /\ Len(tokens') > 0 /\ tokens'[Len(tokens')] = w
      BY <2>1, <3>2, <3>3, <3>4, TokenAdded
    <3>6. rest.off + sep + 1 \in Nat /\ rest.len - (sep + 1) \in Nat
      BY <2>3, <3>1
    <3>7. /\ rest' \in Views /\ rest'.off = rest.off + sep + 1
          /\ rest'.len = rest.len - (sep + 1) /\ rest' # Exhausted
      BY <2>6, <3>6, ViewsAssumption DEF Views
    <3>8. EndOf(rest') = Len(str) /\ rest'.off = EndOf(w) + 1
      BY <2>3, <3>1, <3>3, <3>7 DEF EndOf
    <3>9. str[rest'.off] = "comma"
      BY <2>4, <3>1, <3>7
    <3>10. Len(tokens') # 0
      BY <3>5
    <3>11. RestLies'
      BY <2>1, <3>5, <3>7, <3>8, <3>9, <3>10 DEF RestLies
    <3>12. SplitTypes'
      BY <2>1, <2>2, <3>5, <3>7 DEF SplitTypes
    <3> QED
      BY <3>5, <3>11, <3>12 DEF SplitInv
  <2>7. CASE /\ ~(sep >= 0)
             /\ tokens' = Append(tokens, rest) /\ rest' = Exhausted
    <3>1. sep = -1
      BY <2>3, <2>4, <2>7
    <3>2. \A d \in 1 .. rest.len : str[rest.off + d] # "comma"
      BY <2>4, <3>1
    <3>3. EndOf(rest) <= Len(str)
      BY <2>2
    <3>5. /\ TokensLie' /\ tokens' \in Seq(Views)
          /\ Len(tokens') > 0 /\ tokens'[Len(tokens')] = rest
      BY <2>1, <2>2, <2>7, <3>2, <3>3, TokenAdded
    <3>6. RestLies'
      BY <2>1, <2>2, <2>7, <3>5 DEF RestLies
    <3>7. SplitTypes'
      BY <2>1, <2>2, <2>7, <3>5 DEF SplitTypes
    <3> QED
      BY <3>5, <3>6, <3>7 DEF SplitInv
  <2> QED
    BY <2>5, <2>6, <2>7
<1>2. CASE UNCHANGED S!vars
  BY <1>2 DEF S!vars, SplitInv, SplitTypes, TokensLie, RestLies
<1> QED
  BY <1>1, <1>2 DEF S!Next

LEMMA SplitIs == SplitInv => S!SplitIsExact
<1> SUFFICES ASSUME SplitInv PROVE S!SplitIsExact
  OBVIOUS
<1> DEFINE m == Len(tokens)
           views == IF rest = Exhausted THEN tokens ELSE Append(tokens, rest)
<1>1. /\ str \in Seq(Letters) /\ Len(str) \in Nat /\ tokens \in Seq(Views) /\ m \in Nat
      /\ rest \in Views \cup {Exhausted} /\ TokensLie /\ RestLies
  BY DEF SplitInv, SplitTypes
<1>2. \A k \in 1 .. m : tokens[k] \in Views /\ InText(tokens[k])
  BY <1>1, ElementOfSeq DEF TokensLie, InText, EndOf
<1>3. InText(S!Whole) /\ S!Whole = [off |-> 0, len |-> Len(str)]
  BY <1>1 DEF InText, S!Whole, S!View, Views
<1>4. ASSUME NEW v \in Views, EndOf(v) <= Len(str) PROVE S!Within(S!Whole, v)
  <2>1. v.off \in Nat /\ v.len \in Nat /\ v.off + v.len <= Len(str)
    BY <1>4 DEF Views, EndOf
  <2>2. S!Whole.off = 0 /\ S!Whole.len = Len(str)
    BY <1>3
  <2> QED
    BY <1>1, <2>1, <2>2 DEF S!Within
<1>5. S!Tiles(views)
  <2>1. CASE rest = Exhausted
    <3>1. views = tokens /\ m \in 1 .. m /\ 1 \in 1 .. m /\ EndOf(tokens[m]) = Len(str)
      BY <1>1, <2>1 DEF RestLies
    <3>2. \A k \in 1 .. m : EndOf(tokens[k]) <= Len(str)
      BY <1>1 DEF TokensLie
    <3>3. tokens[1].off = 0
      BY <1>1, <3>1 DEF TokensLie
    <3>4. \A k \in 2 .. m : /\ tokens[k].off = tokens[k - 1].off + tokens[k - 1].len + 1
                            /\ str[tokens[k].off] = "comma"
      <4> TAKE k \in 2 .. m
      <4>1. k \in 1 .. m /\ k # 1
        BY <1>1
      <4> QED
        BY <1>1, <4>1 DEF TokensLie, EndOf
    <3>5. DOMAIN tokens = 1 .. m
      BY <1>1
    <3>6. \A k \in DOMAIN tokens : S!Within(S!Whole, tokens[k])
      BY <1>2, <1>4, <3>2, <3>5
    <3>7. tokens[m].off + tokens[m].len = Len(str)
      BY <3>1 DEF EndOf
    <3>8. S!Tiles(tokens)
      BY <3>3, <3>4, <3>6, <3>7 DEF S!Tiles
    <3> QED
      BY <3>1, <3>8
  <2>2. CASE rest # Exhausted
    <3>1. rest \in Views /\ EndOf(rest) = Len(str)
      BY <1>1, <2>2 DEF RestLies
    <3> DEFINE all == Append(tokens, rest)
    <3>2. views = all
      BY <2>2
    <3>3. all \in Seq(Views) /\ Len(all) = m + 1 /\ all[m + 1] = rest
      BY <1>1, <3>1
    <3>4. \A k \in 1 .. m : all[k] = tokens[k]
      BY <1>1, <3>1
    <3> HIDE DEF all, views, m
    <3>5. \A k \in 1 .. m + 1 : k \in 1 .. m \/ k = m + 1
      BY <1>1
    <3>6. \A k \in 1 .. m : EndOf(tokens[k]) <= Len(str)
      BY <1>1 DEF TokensLie, m
    <3>7. \A k \in 1 .. m + 1 : S!Within(S!Whole, all[k])
      <4> TAKE k \in 1 .. m + 1
      <4>1. CASE k \in 1 .. m
        BY <1>2, <1>4, <3>4, <3>6, <4>1
      <4>2. CASE k = m + 1
        <5>1. EndOf(rest) <= Len(str)
          BY <1>1, <3>1
        <5> QED
          BY <1>4, <3>1, <3>3, <4>2, <5>1
      <4> QED
        BY <3>5, <4>1, <4>2
    <3>8. all[1].off = 0
      <4>1. CASE m = 0
        BY <1>1, <2>2, <3>3, <4>1 DEF RestLies, m
      <4>2. CASE m > 0
        <5>1. 1 \in 1 .. m
          BY <1>1, <4>2
        <5>2. tokens[1].off = 0
          BY <1>1, <5>1 DEF TokensLie, m
        <5> QED
          BY <3>4, <5>1, <5>2
      <4> QED
        BY <1>1, <4>1, <4>2
    <3>9. ASSUME NEW k \in 2 .. m + 1
          PROVE  all[k].off = all[k - 1].off + all[k - 1].len + 1 /\ str[all[k].off] = "comma"
      <4>1. k - 1 \in 1 .. m /\ all[k - 1] = tokens[k - 1]
        BY <1>1, <3>4
      <4>2. CASE k \in 1 .. m
        <5>1. k # 1 /\ all[k] = tokens[k]
          BY <1>1, <3>4, <4>2
        <5>2. tokens[k].off = EndOf(tokens[k - 1]) + 1 /\ str[tokens[k].off] = "comma"
          BY <1>1, <4>2, <5>1 DEF TokensLie, m
        <5> QED
          BY <4>1, <5>1, <5>2 DEF EndOf
      <4>3. CASE k = m + 1
        <5>1. k - 1 = m /\ m > 0 /\ all[k] = rest
          BY <1>1, <3>3, <4>3
        <5>2. rest.off = EndOf(tokens[m]) + 1 /\ str[rest.off] = "comma"
          BY <1>1, <2>2, <5>1 DEF RestLies, m
        <5> QED
          BY <4>1, <5>1, <5>2 DEF EndOf
      <4> QED
        BY <1>1, <4>2, <4>3
    <3>10. DOMAIN all = 1 .. m + 1 /\ all[Len(all)] = rest
      BY <1>1, <3>3
    <3>11. rest.off + rest.len = Len(str)
      BY <3>1 DEF EndOf
    <3>12. S!Tiles(all)
      BY <3>3, <3>7, <3>8, <3>9, <3>10, <3>11 DEF S!Tiles
    <3> QED
      BY <3>2, <3>12
  <2> QED
    BY <2>1, <2>2
<1>6. S!ParseIsExact(S!Whole)
  BY <1>1, <1>3, ParseIs
<1>7. ASSUME NEW k \in DOMAIN tokens
      PROVE  /\ S!MemChr(tokens[k]) = -1
             /\ S!ParseIsExact(tokens[k]) /\ S!TrimIsExact(tokens[k]) /\ S!SliceIsExact(tokens[k])
  <2> DEFINE v == tokens[k]
             sep == S!MemChr(v)
  <2>1. k \in 1 .. m
    BY <1>1
  <2>2. v \in Views /\ InText(v) /\ \A d \in 1 .. v.len : str[v.off + d] # "comma"
    BY <1>1, <1>2, <2>1 DEF TokensLie
  <2> HIDE DEF v
  <2>3. sep \in -1 .. v.len - 1 /\ (sep # -1 => str[v.off + sep + 1] = "comma")
    BY <1>1, <2>2, MemChrIs
  <2>4. v.off \in Nat /\ v.len \in Nat
    BY <2>2 DEF Views
  <2> HIDE DEF sep
  <2>5. sep = -1
    <3> SUFFICES ASSUME sep # -1 PROVE FALSE
      OBVIOUS
    <3>1. sep + 1 \in 1 .. v.len /\ v.off + (sep + 1) = v.off + sep + 1
      BY <2>3, <2>4
    <3>2. str[v.off + (sep + 1)] # "comma"
      BY <2>2, <3>1
    <3> QED
      BY <2>3, <3>1, <3>2
  <2>6. S!ParseIsExact(v) /\ S!TrimIsExact(v) /\ S!SliceIsExact(v)
    BY <1>1, <2>2, ParseIs, TrimIs, SliceIs
  <2> QED
    BY <2>5, <2>6 DEF v, sep
<1> QED
  BY <1>5, <1>6, <1>7 DEF S!SplitIsExact

(***************************************************************************)
(* str.c: splitting loses nothing, no view reaches beyond the text, and    *)
(* trimming, slicing and parsing are exact, for every text, every size of  *)
(* the buffer and every number of digits that it holds.                    *)
(***************************************************************************)
THEOREM Split == S!Spec => []SplitIsExact
<1>1. S!Spec => []SplitInv
  BY SplitInit, SplitNext, PTL DEF S!Spec
<1>2. SplitInv => SplitIsExact
  BY SplitIs DEF SplitIsExact
<1> QED
  BY <1>1, <1>2, PTL

=============================================================================
