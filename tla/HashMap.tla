------------------------------- MODULE HashMap -------------------------------
(***************************************************************************)
(* src/src/containers/hashmap.c: open addressing with linear probing and   *)
(* tombstones.  The table is modelled slot by slot; FNV-1a is any function *)
(* from keys to hash values, chosen once in Init, so that every pattern of *)
(* collisions among HashValues is covered.  Slot indices are those of the  *)
(* code; since cap is a power of two, "& (cap - 1)" is "% cap".            *)
(*                                                                         *)
(* The map is sequential.  What makes it hard is the history: tombstones   *)
(* that probes must pass, that insertions reuse, and that rehashing drops. *)
(***************************************************************************)
EXTENDS Integers, Sequences, FiniteSets

CONSTANTS Keys, Values,
          HashValues,   \* what the hash function may return
          InitialCap,   \* HASHMAP_INITIAL_CAP
          MaxCap,       \* bound: a calloc of more slots fails
          NULL

ASSUME KeysAssumption == NULL \notin Keys
ASSUME CapAssumption == InitialCap \in Nat \ {0} /\ MaxCap \in Nat
ASSUME HashAssumption == HashValues \subseteq Nat
ASSUME NullAssumption ==
    \A n \in 1 .. MaxCap : NULL \notin [0 .. n - 1 -> [key : Keys \cup {NULL},
                                                     value : Values \cup {NULL}, dead : BOOLEAN]]

VARIABLES hash,    \* hash_fnv1a_str
          slots,   \* m->slots: [0 .. cap-1 -> slot], or NULL
          cap, len, used,
          blocks,  \* heap blocks that hold copies of keys
          iter,    \* an iterator: it->idx
          yielded, \* history: the keys it has yielded
          model    \* history: the map the calls so far should have built

vars == <<hash, slots, cap, len, used, blocks, iter, yielded, model>>

Empty == [key |-> NULL, value |-> NULL, dead |-> FALSE]
EmptyTable(n) == [p \in 0 .. n - 1 |-> Empty]
Live(s) == s.key # NULL /\ ~s.dead
Tomb(s) == s.key # NULL /\ s.dead

NoEntries == [k \in {} |-> NULL]
NoSlot == -1

Least(S) == CHOOSE x \in S : \A y \in S : x <= y

(***************************************************************************)
(* probe: the steps at which the walk from the key's home slot meets an    *)
(* empty slot or the key itself, and those at which it meets a tombstone.  *)
(***************************************************************************)
Position(h, n, step) == (h + step) % n

Stops(t, n, k) ==
    {st \in 0 .. n - 1 : LET s == t[Position(hash[k], n, st)] IN
                           s.key = NULL \/ (~s.dead /\ s.key = k)}

Tombs(t, n, k) == {st \in 0 .. n - 1 : Tomb(t[Position(hash[k], n, st)])}

Probe(t, n, k) ==
    LET stops == Stops(t, n, k)
        passed == IF stops = {} THEN Tombs(t, n, k)
                  ELSE {st \in Tombs(t, n, k) : st < Least(stops)}
        found == stops # {} /\ Live(t[Position(hash[k], n, Least(stops))])
    IN  CASE found -> Position(hash[k], n, Least(stops))
          [] ~found /\ passed # {} -> Position(hash[k], n, Least(passed))
          [] ~found /\ passed = {} /\ stops # {} -> Position(hash[k], n, Least(stops))
          [] OTHER -> NoSlot

Init == /\ hash \in [Keys -> HashValues]
        /\ slots = NULL
        /\ cap = 0 /\ len = 0 /\ used = 0
        /\ blocks = 0
        /\ iter = 0 /\ yielded = <<>>
        /\ model = NoEntries

-----------------------------------------------------------------------------
HashMapInit == /\ slots = NULL /\ InitialCap <= MaxCap
               /\ slots' = EmptyTable(InitialCap)
               /\ cap' = InitialCap /\ len' = 0 /\ used' = 0
               /\ model' = NoEntries
               /\ UNCHANGED <<hash, blocks, iter, yielded>>

Owners(t, n) == {p \in 0 .. n - 1 : t[p].key # NULL}

HashMapDestroy == /\ slots # NULL
                  /\ blocks' = blocks - Cardinality(Owners(slots, cap))
                  /\ slots' = NULL
                  /\ cap' = 0 /\ len' = 0 /\ used' = 0
                  /\ iter' = 0 /\ yielded' = <<>>
                  /\ model' = NoEntries
                  /\ UNCHANGED hash

\* The loop of rehash: the live entries below index p, moved to the new table.
Moved(n) ==
    LET f[p \in 0 .. cap] ==
          IF p = 0 THEN EmptyTable(n)
          ELSE LET s == slots[p - 1] IN
               IF Live(s) THEN [f[p - 1] EXCEPT ![Probe(f[p - 1], n, s.key)] = s]
               ELSE f[p - 1]
    IN  f[cap]

TombstoneKeys == {p \in 0 .. cap - 1 : Tomb(slots[p])}

\* rehash(m, cap * 2): the table, and the tombstones' keys freed.
Rehashed == [slots |-> Moved(cap * 2), cap |-> cap * 2, used |-> len,
             blocks |-> blocks - Cardinality(TombstoneKeys)]

TooFull == (used + 1) * 4 > cap * 3

Current == [slots |-> slots, cap |-> cap, used |-> used, blocks |-> blocks]

\* Changing the map invalidates iterators ("Do not put/remove while iterating").
Changed == iter' = 0 /\ yielded' = <<>>

\* The end of hashmap_put: a copy of the key replaces a tombstone's old key.
Inserted(t, p, k, v) ==
    [slots |-> [t.slots EXCEPT ![p] = [key |-> k, value |-> v, dead |-> FALSE]],
     used |-> IF t.slots[p].key = NULL THEN t.used + 1 ELSE t.used,
     blocks |-> IF t.slots[p].key = NULL THEN t.blocks + 1 ELSE t.blocks]

(***************************************************************************)
(* hashmap_put.  Rehashing comes first, also before an update in place,    *)
(* and stays when the copy of the key cannot be allocated afterwards.      *)
(***************************************************************************)
PutWith(t, k, v) ==
    LET p == Probe(t.slots, t.cap, k) IN
    /\ cap' = t.cap
    /\ \/ /\ Live(t.slots[p])
          /\ slots' = [t.slots EXCEPT ![p].value = v]
          /\ used' = t.used /\ blocks' = t.blocks
          /\ model' = [model EXCEPT ![k] = v]
          /\ UNCHANGED len
       \/ /\ ~Live(t.slots[p])
          /\ LET r == Inserted(t, p, k, v) IN
               slots' = r.slots /\ used' = r.used /\ blocks' = r.blocks
          /\ len' = len + 1
          /\ model' = [x \in DOMAIN model \cup {k} |-> IF x = k THEN v ELSE model[x]]
       \/ /\ ~Live(t.slots[p])    \* strdup fails: ERR_NOMEM
          /\ slots' = t.slots /\ used' = t.used /\ blocks' = t.blocks
          /\ UNCHANGED <<len, model>>

HashMapPut(k, v) == /\ slots # NULL
                    /\ TooFull => cap * 2 <= MaxCap
                    /\ PutWith(IF TooFull THEN Rehashed ELSE Current, k, v)
                    /\ Changed
                    /\ UNCHANGED hash

\* The rehash fails: ERR_NOMEM, and the map is as before.
HashMapPutNoMem(k) == /\ slots # NULL
                      /\ TooFull
                      /\ Changed
                      /\ UNCHANGED <<hash, slots, cap, len, used, blocks, model>>

FindLive(k) == LET p == Probe(slots, cap, k) IN
               IF p # NoSlot /\ Live(slots[p]) THEN p ELSE NoSlot

HashMapGet(k) == IF FindLive(k) # NoSlot THEN slots[FindLive(k)].value ELSE NULL
HashMapContains(k) == FindLive(k) # NoSlot

\* Mutant: the slot is emptied, which cuts the probe chains through it.
HashMapRemoveEmpties(k) ==
    /\ slots # NULL /\ FindLive(k) # NoSlot
    /\ slots' = [slots EXCEPT ![FindLive(k)] = Empty]
    /\ len' = len - 1 /\ used' = used - 1 /\ blocks' = blocks - 1
    /\ model' = [x \in DOMAIN model \ {k} |-> model[x]]
    /\ Changed
    /\ UNCHANGED <<hash, cap>>

HashMapRemove(k) ==
    /\ slots # NULL /\ FindLive(k) # NoSlot
    /\ slots' = [slots EXCEPT ![FindLive(k)] = [@ EXCEPT !.dead = TRUE, !.value = NULL]]
    /\ len' = len - 1
    /\ model' = [x \in DOMAIN model \ {k} |-> model[x]]
    /\ Changed
    /\ UNCHANGED <<hash, cap, used, blocks>>

\* hashmap_next: walk to the next live slot, or to the end.
LiveFrom(p) == {q \in p .. cap - 1 : Live(slots[q])}

HashMapNext == /\ slots # NULL
               /\ IF LiveFrom(iter) = {}
                    THEN iter' = cap /\ UNCHANGED yielded
                    ELSE /\ iter' = Least(LiveFrom(iter)) + 1
                         /\ yielded' = Append(yielded, slots[Least(LiveFrom(iter))].key)
               /\ UNCHANGED <<hash, slots, cap, len, used, blocks, model>>

Next == \/ HashMapInit \/ HashMapDestroy \/ HashMapNext
        \/ \E k \in Keys : \/ \E v \in Values : HashMapPut(k, v)
                           \/ HashMapPutNoMem(k)
                           \/ HashMapRemove(k)

Spec == Init /\ [][Next]_vars

-----------------------------------------------------------------------------
(* Properties *)

TypeOK == /\ hash \in [Keys -> HashValues]
          /\ slots \in {NULL} \cup [0 .. cap - 1 -> [key : Keys \cup {NULL},
                                                     value : Values \cup {NULL}, dead : BOOLEAN]]
          /\ cap \in 0 .. MaxCap
          /\ len \in 0 .. cap /\ used \in 0 .. cap
          /\ iter \in 0 .. cap
          /\ blocks \in Nat

(***************************************************************************)
(* The table is the map its callers built: whatever was put, updated and   *)
(* removed before, and whatever failed, hashmap_get, hashmap_contains and  *)
(* hashmap_len answer for exactly the keys present, and an iterator that   *)
(* reached the end has yielded each of them once.                          *)
(***************************************************************************)
AgreesWithModel ==
    slots # NULL =>
      /\ \A k \in Keys : HashMapContains(k) <=> k \in DOMAIN model
      /\ \A k \in DOMAIN model : HashMapGet(k) = model[k]
      /\ len = Cardinality(DOMAIN model)
      /\ iter = cap => /\ {yielded[n] : n \in DOMAIN yielded} = DOMAIN model
                       /\ Len(yielded) = len

(***************************************************************************)
(* used counts exactly the slots that are not empty, and the load stays at *)
(* or below 3/4, so that an empty slot ends every probe: hashmap_put never *)
(* dereferences the NULL that probe returns for a table without one.       *)
(***************************************************************************)
LoadIsBounded ==
    /\ TypeOK
    /\ slots # NULL => /\ used = Cardinality(Owners(slots, cap))
                       /\ used * 4 <= cap * 3

(***************************************************************************)
(* Each slot that is not empty owns one copied key, and no other copy is   *)
(* left: reused tombstones, rehashing and destroying neither leak a key    *)
(* nor free one twice.                                                     *)
(***************************************************************************)
KeysAreOwned ==
    blocks = (IF slots = NULL THEN 0 ELSE Cardinality(Owners(slots, cap)))

(***************************************************************************)
(* hashmap.c: after any sequence of calls, failed ones included, the table *)
(* is the map its callers built, keeps an empty slot for every probe, and  *)
(* owns each copied key once.                                              *)
(***************************************************************************)
MapIsExact == AgreesWithModel /\ LoadIsBounded /\ KeysAreOwned
=============================================================================
