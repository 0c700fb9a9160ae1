--------------------------- MODULE EventLoopProofs ---------------------------
(***************************************************************************)
(* Theorems about EventLoop for any descriptors, masks, callbacks and      *)
(* capacities: the arrays under the dispatch walk, and that they implement *)
(* a map of registrations.                                                 *)
(***************************************************************************)
EXTENDS EventLoop, FiniteSetTheorems, SequenceTheorems, WellFoundedInduction, TLAPS

EntryRec == [fd : Fds \cup {Tombstone}, events : Masks, cb : Callbacks, fresh : BOOLEAN]

PollRec == [fd : Fds, events : SUBSET {"IN", "OUT"}, revents : SUBSET {"IN", "OUT", "HUP", "NVAL"}]

\* The indices of s that hold registrations; they are of different descriptors.
LiveIn(s) == {k \in DOMAIN s : s[k].fd # Tombstone}
Unique(s) == \A k, l \in LiveIn(s) : s[k].fd = s[l].fd => k = l

(***************************************************************************)
(* The inductive invariant.  Room: both allocations hold what the arrays   *)
(* need.  Control: what holds at each point of poll_once.                  *)
(***************************************************************************)
Room == /\ cap \in Nat /\ entCap \in Nat /\ pfdCap \in Nat
        /\ Len(entries) <= cap /\ cap <= entCap /\ cap <= pfdCap /\ cap <= MaxCap

Control == /\ dispatching <=> pc \in {"dispatch", "callback"}
           /\ pc # "callback" => active = NULL
           /\ pc # "idle" => alive
           /\ ~alive => entries = <<>>

(***************************************************************************)
(* Polled: while poll runs the snapshot is of the entries.  Walking: the   *)
(* walk is over the entries poll looked at; those that were removed since  *)
(* are in removed.  Tidy: tombstones exist only during the walk.           *)
(***************************************************************************)
Polled == pc = "poll" => /\ Len(pollfds) = Len(entries)
                         /\ \A k \in 1 .. Len(entries) :
                              entries[k].fd = pollfds[k].fd /\ ~entries[k].fresh

Walking == dispatching => /\ Len(pollfds) = count /\ count <= Len(entries)
                          /\ i \in 1 .. count + 1
                          /\ pc = "callback" => i <= count /\ i \in called
                          /\ \A k \in 1 .. count :
                               entries[k].fd = Tombstone => pollfds[k].fd \in removed

Tidy == ~dispatching => \A k \in DOMAIN entries : entries[k].fd # Tombstone

LoopInv == /\ TypeOK /\ Room /\ Control /\ Polled /\ Walking /\ Tidy
           /\ Lockstep /\ RoundIsComplete /\ Unique(entries)

-----------------------------------------------------------------------------
(* compact *)

\* A set of numbers has a least member: what induction rests on here.
LEMMA Least ==
  ASSUME NEW T, T \subseteq Nat, T # {}
  PROVE  \E x \in T : \A y \in T : x <= y
<1> DEFINE R == OpToRel(<, Nat)
<1>1. IsWellFoundedOn(R, Nat)
  BY NatLessThanWellFounded
<1>2. \A x, y \in Nat : <<y, x>> \in R <=> y < x
  BY DEF OpToRel
<1> HIDE DEF R
<1>3. PICK x \in T : \A y \in T : ~(<<y, x>> \in R)
  BY <1>1, WFMin
<1>4. \A y \in T : ~(y < x)
  BY <1>2, <1>3
<1> QED
  BY <1>3, <1>4

\* One round of compact's loop, and all of them up to n.
KeptStep(s, f, k) == IF k = 0 THEN <<>>
                     ELSE IF s[k].fd # Tombstone THEN Append(f[k - 1], s[k])
                     ELSE f[k - 1]

LEMMA KeptExists ==
  ASSUME NEW s, NEW n \in Nat
  PROVE  \E f : f = [k \in 0 .. n |-> KeptStep(s, f, k)]
<1> DEFINE P(m) == \E f : f = [k \in 0 .. m |-> KeptStep(s, f, k)]
           T == {m \in Nat : ~P(m)}
<1>1. P(0)
  <2> DEFINE f == [k \in 0 .. 0 |-> <<>>]
  <2>1. \A k \in 0 .. 0 : KeptStep(s, f, k) = <<>>
    BY DEF KeptStep
  <2>2. f = [k \in 0 .. 0 |-> KeptStep(s, f, k)]
    BY <2>1
  <2> QED
    BY <2>2
<1>2. ASSUME NEW m \in Nat, P(m) PROVE P(m + 1)
  <2>1. PICK f : f = [k \in 0 .. m |-> KeptStep(s, f, k)]
    BY <1>2
  <2> DEFINE g == [k \in 0 .. m + 1 |-> IF k = m + 1 THEN KeptStep(s, f, k) ELSE f[k]]
  <2>2. \A k \in 0 .. m : g[k] = f[k]
    OBVIOUS
  <2>3. g[m + 1] = KeptStep(s, f, m + 1)
    OBVIOUS
  <2>4. DOMAIN g = 0 .. m + 1 /\ g = [k \in 0 .. m + 1 |-> g[k]]
    OBVIOUS
  <2> HIDE DEF g
  <2>5. \A k \in 0 .. m + 1 : KeptStep(s, g, k) = KeptStep(s, f, k)
    <3>1. \A k \in 0 .. m + 1 : k = 0 \/ k - 1 \in 0 .. m
      OBVIOUS
    <3> QED
      BY <2>2, <3>1 DEF KeptStep
  <2>6. \A k \in 0 .. m : f[k] = KeptStep(s, f, k)
    BY <2>1
  <2>7. \A k \in 0 .. m + 1 : g[k] = KeptStep(s, g, k)
    <3>1. \A k \in 0 .. m + 1 : k \in 0 .. m \/ k = m + 1
      OBVIOUS
    <3> QED
      BY <3>1, <2>2, <2>3, <2>5, <2>6
  <2>8. g = [k \in 0 .. m + 1 |-> KeptStep(s, g, k)]
    BY <2>4, <2>7
  <2> QED
    BY <2>8
<1> HIDE DEF P
<1>3. ASSUME T # {} PROVE FALSE
  <2>1. PICK x \in T : \A y \in T : x <= y
    BY <1>3, Least
  <2>2. x \in Nat /\ ~P(x) /\ x # 0
    BY <2>1, <1>1
  <2>3. x - 1 \in Nat /\ x - 1 \notin T
    BY <2>1, <2>2
  <2>4. P(x - 1)
    BY <2>3
  <2>5. P((x - 1) + 1) /\ (x - 1) + 1 = x
    BY <2>2, <2>3, <2>4, <1>2
  <2> QED
    BY <2>2, <2>5
<1>4. P(n)
  BY <1>3
<1> QED
  BY <1>4 DEF P

\* c is what remains of the first k entries of s.
Remains(c, s, k) ==
    /\ c \in Seq(EntryRec)
    /\ Len(c) <= k
    /\ \A j \in 1 .. Len(c) : \E l \in 1 .. k : c[j] = s[l] /\ s[l].fd # Tombstone
    /\ \A l \in 1 .. k : s[l].fd # Tombstone => \E j \in 1 .. Len(c) : c[j] = s[l]
    /\ \A j, l \in 1 .. Len(c) : c[j].fd = c[l].fd => j = l

LEMMA RemainsNone ==
  ASSUME NEW s
  PROVE  Remains(<<>>, s, 0)
BY DEF Remains

LEMMA RemainsSkip ==
  ASSUME NEW s, NEW k \in Nat, NEW c, Remains(c, s, k), s[k + 1].fd = Tombstone
  PROVE  Remains(c, s, k + 1)
<1>1. Len(c) \in Nat /\ Len(c) <= k
  BY LenProperties DEF Remains
<1>2. \A l \in 1 .. k + 1 : l \in 1 .. k \/ l = k + 1
  OBVIOUS
<1>3. 1 .. k \subseteq 1 .. k + 1 /\ Len(c) <= k + 1
  BY <1>1
<1> QED
  BY <1>2, <1>3 DEF Remains

LEMMA RemainsKeep ==
  ASSUME NEW s \in Seq(EntryRec), Unique(s), NEW k \in Nat, k + 1 <= Len(s),
         NEW c, Remains(c, s, k), s[k + 1].fd # Tombstone
  PROVE  Remains(Append(c, s[k + 1]), s, k + 1)
<1> DEFINE e == s[k + 1]
           d == Append(c, e)
           n == Len(c)
<1>1. c \in Seq(EntryRec) /\ n \in Nat /\ n <= k
  BY LenProperties DEF Remains
<1>2. k + 1 \in 1 .. Len(s) /\ DOMAIN s = 1 .. Len(s) /\ Len(s) \in Nat
  BY LenProperties
<1>3. e \in EntryRec
  BY <1>2, ElementOfSeq
<1>4. e = s[k + 1] /\ d = Append(c, e)
  OBVIOUS
<1> HIDE DEF e
<1>5. /\ d \in Seq(EntryRec) /\ Len(d) = n + 1 /\ d[n + 1] = e
      /\ \A j \in 1 .. n : d[j] = c[j]
  BY <1>1, <1>3, AppendProperties
<1> HIDE DEF d
<1>6. \A j \in 1 .. n + 1 : j \in 1 .. n \/ j = n + 1
  BY <1>1
<1>7. \A l \in 1 .. k + 1 : l \in 1 .. k \/ l = k + 1
  OBVIOUS
<1>8. 1 .. k \subseteq 1 .. k + 1 /\ 1 .. n \subseteq 1 .. n + 1 /\ n + 1 \in 1 .. n + 1
      /\ k + 1 \in 1 .. k + 1 /\ n + 1 <= k + 1
  BY <1>1
<1>9. \A j \in 1 .. n : \E l \in 1 .. k : c[j] = s[l] /\ s[l].fd # Tombstone
  BY DEF Remains
<1>10. \A j \in 1 .. n + 1 : \E l \in 1 .. k + 1 : d[j] = s[l] /\ s[l].fd # Tombstone
  BY <1>4, <1>5, <1>6, <1>8, <1>9
<1>11. ASSUME NEW l \in 1 .. k + 1, s[l].fd # Tombstone
       PROVE  \E j \in 1 .. n + 1 : d[j] = s[l]
  <2>1. CASE l \in 1 .. k
    <3>1. PICK j \in 1 .. n : c[j] = s[l]
      BY <1>11, <2>1 DEF Remains
    <3> QED
      BY <3>1, <1>5, <1>8
  <2>2. CASE l = k + 1
    BY <2>2, <1>4, <1>5, <1>8
  <2> QED
    BY <2>1, <2>2, <1>7
<1>12. ASSUME NEW j \in 1 .. n
       PROVE  c[j].fd # e.fd
  <2>1. PICK l \in 1 .. k : c[j] = s[l] /\ s[l].fd # Tombstone
    BY <1>9
  <2>2. l \in LiveIn(s) /\ k + 1 \in LiveIn(s) /\ l # k + 1
    BY <2>1, <1>2 DEF LiveIn
  <2> QED
    BY <2>1, <2>2, <1>4 DEF Unique
<1>13. \A j, l \in 1 .. n : c[j].fd = c[l].fd => j = l
  BY DEF Remains
<1>14. \A j, l \in 1 .. n + 1 : d[j].fd = d[l].fd => j = l
  BY <1>5, <1>6, <1>12, <1>13
<1>15. Remains(d, s, k + 1)
  <2> HIDE DEF n
  <2>1. \A l \in 1 .. k + 1 : s[l].fd # Tombstone => \E j \in 1 .. n + 1 : d[j] = s[l]
    BY <1>11
  <2>2. d \in Seq(EntryRec) /\ Len(d) = n + 1 /\ n + 1 <= k + 1
    BY <1>5, <1>8
  <2> QED
    BY <2>1, <2>2, <1>10, <1>14 DEF Remains
<1> QED
  BY <1>4, <1>15

\* compact leaves the registrations, in any number, and no tombstone.
LEMMA CompactRemains ==
  ASSUME NEW s \in Seq(EntryRec), Unique(s)
  PROVE  Remains(Compact(s), s, Len(s))
<1> DEFINE n == Len(s)
           F == CHOOSE f : f = [k \in 0 .. n |-> KeptStep(s, f, k)]
           T == {k \in Nat : k <= n /\ ~Remains(F[k], s, k)}
<1>1. n \in Nat
  BY LenProperties
<1>2. \E f : f = [k \in 0 .. n |-> KeptStep(s, f, k)]
  BY <1>1, KeptExists
<1>3. F = [k \in 0 .. n |-> KeptStep(s, F, k)]
  BY <1>2
<1>4. Compact(s) = F[n]
  BY DEF Compact, KeptStep
<1> HIDE DEF F
<1>5. \A k \in 0 .. n : F[k] = KeptStep(s, F, k)
  BY <1>3
<1>6. ASSUME T # {} PROVE FALSE
  <2>1. PICK x \in T : \A y \in T : x <= y
    BY <1>6, Least
  <2>2. x \in Nat /\ x <= n /\ ~Remains(F[x], s, x)
    BY <2>1
  <2>3. F[x] = KeptStep(s, F, x)
    BY <1>1, <1>5, <2>2
  <2>4. x # 0
    BY <2>2, <2>3, RemainsNone DEF KeptStep
  <2>5. PICK m \in Nat : x = m + 1
    <3>1. x - 1 \in Nat /\ x = (x - 1) + 1
      BY <2>2, <2>4
    <3> QED
      BY <3>1
  <2>6. Remains(F[m], s, m)
    <3>1. m \notin T /\ m <= n
      BY <2>1, <2>2, <2>5, <1>1
    <3> QED
      BY <3>1
  <2>7. F[x] = IF s[m + 1].fd # Tombstone THEN Append(F[m], s[m + 1]) ELSE F[m]
    <3>1. x - 1 = m
      BY <2>5
    <3> QED
      BY <2>3, <2>4, <2>5, <3>1 DEF KeptStep
  <2>8. CASE s[m + 1].fd # Tombstone
    BY <2>2, <2>5, <2>6, <2>7, <2>8, RemainsKeep
  <2>9. CASE s[m + 1].fd = Tombstone
    BY <2>2, <2>5, <2>6, <2>7, <2>9, RemainsSkip
  <2> QED
    BY <2>8, <2>9
<1>7. Remains(F[n], s, n)
  BY <1>1, <1>6
<1> QED
  BY <1>4, <1>7

-----------------------------------------------------------------------------
(* The operations on registrations *)

LEMMA NoFdIsTombstone == \A fd \in Fds : fd # Tombstone
BY FdsAssumption DEF Tombstone

LEMMA Typed ==
  ASSUME LoopInv
  PROVE  /\ entries \in Seq(EntryRec) /\ DOMAIN entries = 1 .. Len(entries)
         /\ Len(entries) \in Nat /\ Len(pollfds) \in Nat
         /\ \A k \in 1 .. Len(entries) : entries[k] \in EntryRec
         /\ count \in Nat /\ i \in Nat /\ MaxCap \in Nat
<1>1. entries \in Seq(EntryRec) /\ count \in 0 .. MaxCap /\ i \in 0 .. MaxCap + 1 /\ MaxCap \in Nat
  BY CapAssumption DEF LoopInv, TypeOK, EntryRec
<1>2. Len(pollfds) \in Nat
  BY LenProperties DEF LoopInv, TypeOK
<1> HIDE DEF EntryRec
<1>3. DOMAIN entries = 1 .. Len(entries) /\ Len(entries) \in Nat
  BY <1>1, LenProperties
<1>4. \A k \in 1 .. Len(entries) : entries[k] \in EntryRec
  BY <1>1, ElementOfSeq
<1> QED
  BY <1>1, <1>2, <1>3, <1>4

\* find_index finds the one index of a registered descriptor.
LEMMA Finds ==
  ASSUME LoopInv, NEW fd \in Fds, Indices(fd) # {}
  PROVE  /\ FindIndex(fd) \in 1 .. Len(entries) /\ entries[FindIndex(fd)].fd = fd
         /\ \A k \in 1 .. Len(entries) : entries[k].fd = fd => k = FindIndex(fd)
<1>1. DOMAIN entries = 1 .. Len(entries) /\ Len(entries) \in Nat /\ Unique(entries)
  BY Typed DEF LoopInv
<1>2. PICK k \in 1 .. Len(entries) : entries[k].fd = fd
  BY <1>1 DEF Indices
<1>3. \A l \in 1 .. Len(entries) : entries[l].fd = fd => l = k
  BY <1>1, <1>2, NoFdIsTombstone DEF Unique, LiveIn
<1>4. k \in Indices(fd) /\ \A l \in Indices(fd) : l = k /\ k <= l
  BY <1>1, <1>2, <1>3 DEF Indices
<1>5. FindIndex(fd) = k
  BY <1>4 DEF FindIndex
<1> QED
  BY <1>2, <1>3, <1>5

\* An operation keeps the invariant if it leaves the polled entries alone or
\* turns them into tombstones that are in removed.
LEMMA OpKeeps ==
  ASSUME LoopInv, MayOperate, NEW name, NEW target, Perform(name, target), pollfds' = pollfds,
         entries' \in Seq(EntryRec), removed \subseteq removed', removed' \subseteq Fds,
         Room', Unique(entries'), Tidy',
         dispatching => /\ count <= Len(entries')
                        /\ \A k \in 1 .. count :
                             \/ entries'[k].fd = entries[k].fd /\ entries'[k].fresh = entries[k].fresh
                             \/ entries'[k].fd = Tombstone /\ pollfds[k].fd \in removed'
  PROVE  LoopInv'
<1>T. TypeOK /\ Control /\ Walking /\ Lockstep /\ RoundIsComplete
  BY DEF LoopInv
<1>1. UNCHANGED <<alive, running, dispatching, pc, inRun, count, i, called, active>>
  BY DEF Perform
<1>2. alive /\ pc # "poll"
  BY DEF MayOperate
<1>3. TypeOK'
  BY <1>T, <1>1 DEF TypeOK, EntryRec
<1>4. Control' /\ Polled'
  BY <1>T, <1>1, <1>2 DEF Control, Polled
<1>5. count \in Nat
  BY Typed
<1>6. Walking'
  <2> SUFFICES ASSUME dispatching
               PROVE  Walking'
    BY <1>1 DEF Walking
  <2>1. ASSUME NEW k \in 1 .. count, entries'[k].fd = Tombstone
        PROVE  pollfds[k].fd \in removed'
    BY <1>T, <2>1 DEF Walking
  <2> QED
    BY <1>T, <1>1, <2>1 DEF Walking
<1>7. Lockstep'
  <2> SUFFICES ASSUME dispatching
               PROVE  Lockstep'
    BY <1>1 DEF Lockstep
  <2>1. \A k \in 1 .. count : k <= Len(entries')
    BY <1>5, LenProperties
  <2>2. \A k \in 1 .. count : \/ entries'[k].fd = Tombstone
                              \/ entries'[k].fd = pollfds[k].fd /\ ~entries'[k].fresh
    BY <1>T DEF Lockstep
  <2> QED
    BY <1>1, <2>1, <2>2 DEF Lockstep
<1>8. RoundIsComplete'
  <2>1. \A k : Ready(k)' = Ready(k)
    BY DEF Ready
  <2> QED
    BY <1>T, <1>1, <2>1 DEF RoundIsComplete
<1> QED
  BY <1>3, <1>4, <1>6, <1>7, <1>8 DEF LoopInv

\* A doubled capacity has room for one more.
LEMMA Doubling ==
  ASSUME Room
  PROVE  NewCap \in Nat /\ NewCap >= cap + 1
<1>1. CASE cap = 0
  BY <1>1, CapAssumption DEF NewCap
<1>2. CASE cap # 0
  BY <1>2 DEF NewCap, Room
<1> QED
  BY <1>1, <1>2

LEMMA AddNoMemStep ==
  ASSUME LoopInv, NEW fd \in Fds, AddNoMem(fd)
  PROVE  LoopInv' /\ entries' = entries
<1>1. /\ MayOperate /\ Perform("refused", fd) /\ UNCHANGED <<entries, pollfds, cap, pfdCap, removed>>
      /\ entCap' = entCap \/ entCap' = NewCap
  BY DEF AddNoMem
<1>2. Room
  BY DEF LoopInv
<1>3. Room'
  BY <1>1, <1>2, Doubling DEF Room
<1>4. dispatching' = dispatching
  BY <1>1 DEF Perform
<1>5. Tidy' /\ Unique(entries') /\ removed' \subseteq Fds
  BY <1>1, <1>4 DEF LoopInv, TypeOK, Tidy, Unique, LiveIn
<1>6. entries \in Seq(EntryRec) /\ (dispatching => count <= Len(entries))
  BY Typed DEF LoopInv, Walking
<1> QED
  BY <1>1, <1>3, <1>5, <1>6, OpKeeps

\* What an accepted registration leaves.
Adds(fd, m, c) ==
    /\ entries' \in Seq(EntryRec) /\ Len(entries') = Len(entries) + 1
    /\ \A k \in 1 .. Len(entries) : entries'[k] = entries[k] /\ entries[k].fd # fd
    /\ entries'[Len(entries) + 1] = [fd |-> fd, events |-> m, cb |-> c, fresh |-> TRUE]

LEMMA AddStep ==
  ASSUME LoopInv, NEW fd \in Fds, NEW m \in Masks, NEW c \in Callbacks, AddOk(fd, m, c)
  PROVE  LoopInv' /\ Adds(fd, m, c)
<1> DEFINE e == [fd |-> fd, events |-> m, cb |-> c, fresh |-> TRUE]
           n == Len(entries)
<1>1. /\ MayOperate /\ Perform("add", fd) /\ UNCHANGED <<pollfds, removed>>
      /\ Indices(fd) = {} /\ entries' = Append(entries, e)
      /\ IF n = cap THEN Grow ELSE UNCHANGED <<cap, entCap, pfdCap>>
  BY DEF AddOk, Appended
<1>2. e \in EntryRec /\ e.fd = fd
  BY DEF EntryRec
<1>3. entries \in Seq(EntryRec) /\ DOMAIN entries = 1 .. n /\ n \in Nat
  BY Typed
<1>4. \A k \in 1 .. n : entries[k].fd # fd
  BY <1>1, <1>3 DEF Indices
<1> HIDE DEF e
<1>5. /\ entries' \in Seq(EntryRec) /\ Len(entries') = n + 1 /\ entries'[n + 1] = e
      /\ \A k \in 1 .. n : entries'[k] = entries[k]
  BY <1>1, <1>2, <1>3, AppendProperties
<1>6. Room'
  <2>1. Room
    BY DEF LoopInv
  <2>2. NewCap \in Nat /\ NewCap >= cap + 1
    BY <2>1, Doubling
  <2>3. CASE n = cap
    BY <2>1, <2>2, <2>3, <1>1, <1>3, <1>5 DEF Room, Grow
  <2>4. CASE n # cap
    <3>1. cap' = cap /\ entCap' = entCap /\ pfdCap' = pfdCap
      BY <2>4, <1>1
    <3>2. cap \in Nat /\ n <= cap /\ n \in Nat
      BY <2>1, <1>3 DEF Room
    <3>3. n + 1 <= cap
      <4> HIDE DEF n
      <4> QED
        BY <3>2, <2>4
    <3> QED
      BY <3>1, <3>3, <2>1, <1>5 DEF Room
  <2> QED
    BY <2>3, <2>4
<1>7. DOMAIN entries' = 1 .. n + 1 /\ \A k \in 1 .. n + 1 : k \in 1 .. n \/ k = n + 1
  BY <1>3, <1>5, LenProperties
<1>8. Unique(entries')
  <2>1. Unique(entries)
    BY DEF LoopInv
  <2> QED
    BY <2>1, <1>2, <1>3, <1>4, <1>5, <1>7 DEF Unique, LiveIn
<1>9. Tidy'
  <2>1. dispatching' = dispatching /\ Tidy
    BY <1>1 DEF Perform, LoopInv
  <2> QED
    BY <2>1, <1>2, <1>3, <1>5, <1>7, NoFdIsTombstone DEF Tidy
<1>10. dispatching => count <= n + 1 /\ \A k \in 1 .. count : k \in 1 .. n
  <2>1. dispatching => count <= n
    BY DEF LoopInv, Walking
  <2>2. count \in Nat
    BY Typed
  <2> QED
    BY <2>1, <2>2, <1>3
<1>11. removed' \subseteq Fds
  BY <1>1 DEF LoopInv, TypeOK
<1>12. LoopInv'
  BY <1>1, <1>5, <1>6, <1>8, <1>9, <1>10, <1>11, OpKeeps
<1> QED
  BY <1>4, <1>5, <1>12 DEF Adds, e

\* What a change of interest leaves.
Modifies(fd, m) ==
    /\ entries' \in Seq(EntryRec) /\ Len(entries') = Len(entries)
    /\ \A k \in 1 .. Len(entries) : /\ entries'[k].fd = entries[k].fd
                                    /\ entries'[k].cb = entries[k].cb
                                    /\ entries'[k].fresh = entries[k].fresh
                                    /\ entries'[k].events = IF entries[k].fd = fd THEN m
                                                            ELSE entries[k].events

LEMMA ModStep ==
  ASSUME LoopInv, NEW fd \in Fds, NEW m \in Masks, Mod(fd, m)
  PROVE  LoopInv' /\ Modifies(fd, m)
<1> DEFINE n == Len(entries)
<1>1. /\ MayOperate /\ Perform("mod", fd) /\ UNCHANGED <<pollfds, removed, cap, entCap, pfdCap>>
      /\ Indices(fd) # {} /\ entries' = [entries EXCEPT ![FindIndex(fd)].events = m]
  BY DEF Mod
<1>2. /\ entries \in Seq(EntryRec) /\ DOMAIN entries = 1 .. n /\ n \in Nat
      /\ \A k \in 1 .. n : entries[k] \in EntryRec
  BY Typed
<1>3. PICK f \in 1 .. n : /\ f = FindIndex(fd) /\ entries[f].fd = fd
                          /\ \A k \in 1 .. n : entries[k].fd = fd => k = f
  BY <1>1, Finds
<1> DEFINE e == [entries[f] EXCEPT !.events = m]
<1>4. /\ e \in EntryRec /\ e.fd = entries[f].fd /\ e.cb = entries[f].cb
      /\ e.fresh = entries[f].fresh /\ e.events = m
  BY <1>2 DEF EntryRec
<1>5. entries' = [entries EXCEPT ![f] = e]
  BY <1>1, <1>3
<1> HIDE DEF e
<1>6. entries' \in Seq(EntryRec) /\ Len(entries') = n
  BY <1>2, <1>4, <1>5, ExceptSeq
<1>7. entries'[f] = e /\ \A k \in 1 .. n : k # f => entries'[k] = entries[k]
  BY <1>2, <1>5
<1>8. \A k \in 1 .. n : /\ entries'[k].fd = entries[k].fd
                        /\ entries'[k].cb = entries[k].cb
                        /\ entries'[k].fresh = entries[k].fresh
                        /\ entries'[k].events = IF entries[k].fd = fd THEN m ELSE entries[k].events
  BY <1>3, <1>4, <1>7
<1>9. DOMAIN entries' = 1 .. n
  BY <1>6, LenProperties
<1>10. Room' /\ removed' \subseteq Fds
  BY <1>1, <1>6 DEF LoopInv, Room, TypeOK
<1>11. Unique(entries') /\ Tidy'
  <2>1. Unique(entries) /\ Tidy /\ dispatching' = dispatching
    BY <1>1 DEF LoopInv, Perform
  <2> QED
    BY <2>1, <1>2, <1>8, <1>9 DEF Unique, LiveIn, Tidy
<1>12. dispatching => count <= n /\ \A k \in 1 .. count : k \in 1 .. n
  <2>1. dispatching => count <= n
    BY DEF LoopInv, Walking
  <2>2. count \in Nat
    BY Typed
  <2> QED
    BY <2>1, <2>2, <1>2
<1>13. LoopInv'
  BY <1>1, <1>6, <1>8, <1>10, <1>11, <1>12, OpKeeps
<1> QED
  BY <1>6, <1>8, <1>13 DEF Modifies

\* What a removal leaves: the other registrations, somewhere.
Removes(fd) ==
    /\ entries' \in Seq(EntryRec)
    /\ \A k \in LiveIn(entries) : entries[k].fd # fd =>
         \E j \in LiveIn(entries') : entries'[j] = entries[k]
    /\ \A j \in LiveIn(entries') : entries'[j].fd # fd /\
         \E k \in LiveIn(entries) : entries'[j] = entries[k]

LEMMA RemoveWalking ==
  ASSUME LoopInv, NEW fd \in Fds, Remove(fd), dispatching
  PROVE  LoopInv' /\ Removes(fd)
<1> DEFINE n == Len(entries)
<1>1. /\ MayOperate /\ Perform("remove", fd) /\ UNCHANGED <<pollfds, cap, entCap, pfdCap>>
      /\ Indices(fd) # {} /\ entries' = [entries EXCEPT ![FindIndex(fd)].fd = Tombstone]
      /\ removed' = removed \cup {fd}
  BY DEF Remove
<1>2. /\ entries \in Seq(EntryRec) /\ DOMAIN entries = 1 .. n /\ n \in Nat
      /\ \A k \in 1 .. n : entries[k] \in EntryRec
  BY Typed
<1>3. PICK f \in 1 .. n : /\ f = FindIndex(fd) /\ entries[f].fd = fd
                          /\ \A k \in 1 .. n : entries[k].fd = fd => k = f
  BY <1>1, Finds
<1> DEFINE e == [entries[f] EXCEPT !.fd = Tombstone]
<1>4. e \in EntryRec /\ e.fd = Tombstone
  BY <1>2 DEF EntryRec
<1>5. entries' = [entries EXCEPT ![f] = e]
  BY <1>1, <1>3
<1> HIDE DEF e
<1>6. entries' \in Seq(EntryRec) /\ Len(entries') = n
  BY <1>2, <1>4, <1>5, ExceptSeq
<1>7. entries'[f].fd = Tombstone /\ \A k \in 1 .. n : k # f => entries'[k] = entries[k]
  BY <1>2, <1>4, <1>5
<1>8. DOMAIN entries' = 1 .. n
  BY <1>6, LenProperties
<1>9. Room' /\ removed' \subseteq Fds
  BY <1>1, <1>6 DEF LoopInv, Room, TypeOK
<1>10. Unique(entries') /\ Tidy'
  <2>1. Unique(entries) /\ dispatching'
    BY <1>1 DEF LoopInv, Perform
  <2> QED
    BY <2>1, <1>2, <1>7, <1>8 DEF Unique, LiveIn, Tidy
<1>11. count <= n /\ \A k \in 1 .. count : k \in 1 .. n
  <2>1. count <= n
    BY DEF LoopInv, Walking
  <2>2. count \in Nat
    BY Typed
  <2> QED
    BY <2>1, <2>2, <1>2
<1>12. \A k \in 1 .. count : k = f => pollfds[k].fd \in removed'
  <2>1. Lockstep
    BY DEF LoopInv
  <2> QED
    BY <2>1, <1>1, <1>3, NoFdIsTombstone DEF Lockstep
<1>13. LoopInv'
  BY <1>1, <1>6, <1>7, <1>9, <1>10, <1>11, <1>12, OpKeeps
<1>14. LiveIn(entries') = LiveIn(entries) \ {f}
  BY <1>2, <1>7, <1>8 DEF LiveIn
<1>15. \A k \in LiveIn(entries) \ {f} : entries'[k] = entries[k] /\ entries[k].fd # fd
  BY <1>2, <1>3, <1>7 DEF LiveIn
<1>16. \A k \in LiveIn(entries) : entries[k].fd # fd => k # f
  BY <1>3
<1> QED
  BY <1>6, <1>13, <1>14, <1>15, <1>16 DEF Removes

LEMMA RemoveSwapping ==
  ASSUME LoopInv, NEW fd \in Fds, Remove(fd), ~dispatching
  PROVE  LoopInv' /\ Removes(fd)
<1> DEFINE n == Len(entries)
<1>1. /\ MayOperate /\ Perform("remove", fd) /\ UNCHANGED <<pollfds, cap, entCap, pfdCap, removed>>
      /\ Indices(fd) # {} /\ entries' = SwapRemoved(FindIndex(fd))
  BY DEF Remove
<1>2. /\ entries \in Seq(EntryRec) /\ DOMAIN entries = 1 .. n /\ n \in Nat
      /\ \A k \in 1 .. n : entries[k] \in EntryRec
  BY Typed
<1>3. PICK f \in 1 .. n : /\ f = FindIndex(fd) /\ entries[f].fd = fd
                          /\ \A k \in 1 .. n : entries[k].fd = fd => k = f
  BY <1>1, Finds
<1> DEFINE s == [entries EXCEPT ![f] = entries[n]]
           At(j) == IF j = f THEN n ELSE j
<1>4. n \in 1 .. n /\ n - 1 \in Nat /\ 1 .. n - 1 \subseteq 1 .. n
  BY <1>2, <1>3
<1>5. entries' = SubSeq(s, 1, n - 1)
  BY <1>1, <1>3 DEF SwapRemoved
<1>6. \A j \in 1 .. n : s[j] = entries[At(j)] /\ s[j] \in EntryRec
  BY <1>2, <1>4
<1> HIDE DEF s
<1>7. \A j \in 1 .. n - 1 : s[j] \in EntryRec
  BY <1>4, <1>6
<1>8. entries' \in Seq(EntryRec) /\ Len(entries') = n - 1 /\ \A j \in 1 .. n - 1 : entries'[j] = s[j]
  <2>1. /\ SubSeq(s, 1, n - 1) \in Seq(EntryRec)
        /\ Len(SubSeq(s, 1, n - 1)) = IF 1 <= n - 1 THEN (n - 1) - 1 + 1 ELSE 0
        /\ \A j \in 1 .. (n - 1) - 1 + 1 : SubSeq(s, 1, n - 1)[j] = s[1 + j - 1]
    BY <1>4, <1>7, SubSeqProperties
  <2>2. (n - 1) - 1 + 1 = n - 1 /\ (~(1 <= n - 1) => n - 1 = 0)
    <3> HIDE DEF n
    <3> QED
      BY <1>2, <1>4
  <2>3. \A j \in 1 .. n - 1 : 1 + j - 1 = j
    OBVIOUS
  <2> QED
    BY <2>1, <2>2, <2>3, <1>5
<1>9. \A j \in 1 .. n - 1 : At(j) \in 1 .. n /\ entries'[j] = entries[At(j)] /\ At(j) # f
  BY <1>4, <1>6, <1>8
<1>10. \A j, l \in 1 .. n - 1 : At(j) = At(l) => j = l
  <2>1. \A j \in 1 .. n - 1 : j # n
    <3> HIDE DEF n
    <3> QED
      BY <1>2
  <2> QED
    BY <2>1
<1>11. \A k \in 1 .. n : k # f => \E j \in 1 .. n - 1 : At(j) = k
  <2> SUFFICES ASSUME NEW k \in 1 .. n, k # f
               PROVE  \E j \in 1 .. n - 1 : At(j) = k
    OBVIOUS
  <2>1. CASE k = n
    <3>1. f \in 1 .. n - 1 /\ At(f) = k
      BY <2>1, <1>2
    <3> QED
      BY <3>1
  <2>2. CASE k # n
    <3>1. k \in 1 .. n - 1 /\ At(k) = k
      <4>1. k \in 1 .. n - 1
        <5> HIDE DEF n
        <5> QED
          BY <2>2, <1>2
      <4> QED
        BY <4>1
    <3> QED
      BY <3>1
  <2> QED
    BY <2>1, <2>2
<1> HIDE DEF At
<1>12. DOMAIN entries' = 1 .. n - 1
  BY <1>8, LenProperties
<1>13. \A k \in 1 .. n : entries[k].fd # Tombstone
  BY <1>2 DEF LoopInv, Tidy
<1>14. LiveIn(entries) = 1 .. n /\ LiveIn(entries') = 1 .. n - 1
  BY <1>2, <1>9, <1>12, <1>13 DEF LiveIn
<1>15. Unique(entries')
  <2>1. \A k, l \in 1 .. n : entries[k].fd = entries[l].fd => k = l
    BY <1>14 DEF LoopInv, Unique
  <2>2. ASSUME NEW j \in 1 .. n - 1, NEW l \in 1 .. n - 1, entries'[j].fd = entries'[l].fd
        PROVE  j = l
    <3>1. At(j) \in 1 .. n /\ At(l) \in 1 .. n /\ entries[At(j)].fd = entries[At(l)].fd
      BY <2>2, <1>9
    <3>2. At(j) = At(l)
      BY <2>1, <3>1
    <3> QED
      BY <3>2, <1>10
  <2> QED
    BY <2>2, <1>14 DEF Unique
<1>16. Room' /\ removed' \subseteq Fds
  <2>1. n <= cap /\ cap \in Nat
    BY DEF LoopInv, Room
  <2>2. n - 1 <= cap
    BY <2>1, <1>2
  <2> QED
    BY <1>1, <1>8, <2>2 DEF LoopInv, Room, TypeOK
<1>17. Tidy'
  BY <1>9, <1>12, <1>13 DEF Tidy
<1>18. LoopInv'
  BY <1>1, <1>8, <1>15, <1>16, <1>17, OpKeeps
<1>19. Removes(fd)
  <2>1. ASSUME NEW k \in 1 .. n, entries[k].fd # fd
        PROVE  \E j \in 1 .. n - 1 : entries'[j] = entries[k]
    <3>1. PICK j \in 1 .. n - 1 : At(j) = k
      BY <2>1, <1>3, <1>11
    <3> QED
      BY <3>1, <1>9
  <2>2. ASSUME NEW j \in 1 .. n - 1
        PROVE  entries'[j].fd # fd /\ \E k \in 1 .. n : entries'[j] = entries[k]
    <3>1. At(j) \in 1 .. n /\ entries'[j] = entries[At(j)] /\ At(j) # f
      BY <1>9
    <3> QED
      BY <3>1, <1>3
  <2> QED
    BY <2>1, <2>2, <1>8, <1>14 DEF Removes
<1> QED
  BY <1>18, <1>19

-----------------------------------------------------------------------------
(* The other steps.  Shows: the registrations are the same. *)

SameShown == /\ Len(entries') = Len(entries)
             /\ \A k \in 1 .. Len(entries) : /\ entries'[k].fd = entries[k].fd
                                             /\ entries'[k].events = entries[k].events
                                             /\ entries'[k].cb = entries[k].cb

\* A step that leaves the arrays and the walk of the loop alone.
LEMMA QuietStep ==
  ASSUME LoopInv, UNCHANGED <<arrays, walk, dispatching, active>>,
         alive' \in BOOLEAN, running' \in BOOLEAN, inRun' \in BOOLEAN,
         pc' = pc \/ (pc \in {"idle", "top"} /\ pc' \in {"idle", "top"}),
         pc' # "idle" => alive', alive => alive'
  PROVE  LoopInv'
<1>1. UNCHANGED <<entries, pollfds, cap, entCap, pfdCap, count, i, called, removed>>
  BY DEF arrays, walk
<1>T. TypeOK /\ Room /\ Control /\ Polled /\ Walking /\ Tidy /\ Lockstep /\ RoundIsComplete
      /\ Unique(entries)
  BY DEF LoopInv
<1>2. TypeOK' /\ Room'
  BY <1>1, <1>T DEF TypeOK, Room
<1>3. Control' /\ Polled' /\ Tidy'
  BY <1>1, <1>T DEF Control, Polled, Tidy
<1>4. Walking' /\ Lockstep'
  BY <1>1, <1>T DEF Control, Walking, Lockstep
<1>5. RoundIsComplete'
  <2>1. \A k : Ready(k)' = Ready(k)
    BY <1>1 DEF Ready
  <2> QED
    BY <1>1, <1>T, <2>1 DEF RoundIsComplete
<1>6. Unique(entries')
  BY <1>1, <1>T DEF Unique, LiveIn
<1> QED
  BY <1>2, <1>3, <1>4, <1>5, <1>6 DEF LoopInv

LEMMA CreateStep == LoopInv /\ Create => LoopInv' /\ entries' = entries
<1> SUFFICES ASSUME LoopInv, Create PROVE LoopInv' /\ entries' = entries
  OBVIOUS
<1>1. TypeOK
  BY DEF LoopInv
<1> QED
  BY <1>1, QuietStep DEF Create, arrays, TypeOK

LEMMA StopStep == LoopInv /\ Stop => LoopInv' /\ entries' = entries
<1> SUFFICES ASSUME LoopInv, Stop PROVE LoopInv' /\ entries' = entries
  OBVIOUS
<1>1. TypeOK
  BY DEF LoopInv
<1> QED
  BY <1>1, QuietStep DEF Stop, MayOperate, arrays, TypeOK

LEMMA RunStep == LoopInv /\ Run => LoopInv' /\ entries' = entries
<1> SUFFICES ASSUME LoopInv, Run PROVE LoopInv' /\ entries' = entries
  OBVIOUS
<1>1. TypeOK
  BY DEF LoopInv
<1> QED
  BY <1>1, QuietStep DEF Run, arrays, TypeOK

LEMMA RunReturnsStep == LoopInv /\ RunReturns => LoopInv' /\ entries' = entries
<1> SUFFICES ASSUME LoopInv, RunReturns PROVE LoopInv' /\ entries' = entries
  OBVIOUS
<1>1. TypeOK
  BY DEF LoopInv
<1> QED
  BY <1>1, QuietStep DEF RunReturns, arrays, TypeOK

\* What a loop whose locals and snapshot are gone has to be typed.
LEMMA Cleared ==
  /\ <<>> \in Seq(EntryRec) /\ <<>> \in Seq(PollRec)
  /\ 0 \in 0 .. MaxCap /\ 0 \in 0 .. MaxCap + 1 /\ 0 <= MaxCap
  /\ {} \subseteq 1 .. MaxCap /\ {} \subseteq Fds
<1>1. MaxCap \in Nat
  BY CapAssumption
<1> QED
  BY <1>1, EmptySeq

LEMMA DestroyStep == LoopInv /\ Destroy => LoopInv' /\ entries' = <<>>
<1> SUFFICES ASSUME LoopInv, Destroy PROVE LoopInv' /\ entries' = <<>>
  OBVIOUS
<1>1. /\ pc = "idle" /\ alive' = FALSE /\ entries' = <<>> /\ pollfds' = <<>>
      /\ cap' = 0 /\ entCap' = 0 /\ pfdCap' = 0 /\ running' = FALSE
      /\ count' = 0 /\ i' = 0 /\ called' = {} /\ removed' = {}
      /\ UNCHANGED <<dispatching, pc, inRun, active>>
  BY DEF Destroy
<1>2. TypeOK /\ Control
  BY DEF LoopInv
<1>3. ~dispatching' /\ Control'
  BY <1>1, <1>2 DEF Control
<1>4. TypeOK'
  BY <1>1, <1>2, Cleared DEF TypeOK, EntryRec, PollRec
<1>5. Len(entries') = 0 /\ DOMAIN entries' = {}
  BY <1>1
<1>6. Room' /\ Polled' /\ Tidy' /\ Unique(entries')
  BY <1>1, <1>5, CapAssumption DEF Room, Polled, Tidy, Unique, LiveIn
<1>7. Walking' /\ Lockstep' /\ RoundIsComplete'
  BY <1>3 DEF Walking, Lockstep, RoundIsComplete
<1> QED
  BY <1>1, <1>3, <1>4, <1>6, <1>7 DEF LoopInv

\* poll_once returns: no walk, no snapshot, no tombstone.
LEMMA RoundOver ==
  ASSUME LoopInv, alive, alive' = alive, UNCHANGED <<cap, entCap, pfdCap>>,
         running' \in BOOLEAN, inRun' \in BOOLEAN, dispatching' = FALSE, active' = NULL,
         pc' \in {"idle", "top"}, ForgetRound,
         entries' \in Seq(EntryRec), Len(entries') <= Len(entries),
         Unique(entries'), \A k \in DOMAIN entries' : entries'[k].fd # Tombstone
  PROVE  LoopInv'
<1>1. pollfds' = <<>> /\ count' = 0 /\ i' = 0 /\ called' = {} /\ removed' = {}
  BY DEF ForgetRound
<1>2. TypeOK /\ Room /\ Len(entries) \in Nat
  BY Typed DEF LoopInv
<1>3. Len(entries') \in Nat
  BY LenProperties
<1>4. TypeOK'
  BY <1>1, <1>2, Cleared DEF TypeOK, EntryRec, PollRec
<1>5. Room'
  <2>1. cap \in Nat /\ Len(entries) <= cap
    BY <1>2 DEF Room
  <2>2. Len(entries') <= cap
    BY <1>2, <1>3, <2>1
  <2> QED
    BY <1>2, <2>2 DEF Room
<1>6. Control' /\ Polled' /\ Tidy' /\ Walking' /\ Lockstep' /\ RoundIsComplete'
  BY DEF Control, Polled, Tidy, Walking, Lockstep, RoundIsComplete
<1> QED
  BY <1>4, <1>5, <1>6 DEF LoopInv

LEMMA PollFailsStep == LoopInv /\ PollFails => LoopInv' /\ entries' = entries
<1> SUFFICES ASSUME LoopInv, PollFails PROVE LoopInv' /\ entries' = entries
  OBVIOUS
<1>1. TypeOK /\ Control /\ Tidy /\ Unique(entries) /\ entries \in Seq(EntryRec)
      /\ Len(entries) \in Nat
  BY Typed DEF LoopInv
<1>2. /\ pc = "poll" /\ pc' = "idle" /\ inRun' = FALSE /\ ForgetRound
      /\ UNCHANGED <<alive, entries, cap, entCap, pfdCap, dispatching, active>>
      /\ running' = IF inRun THEN FALSE ELSE running
  BY DEF PollFails
<1>3. alive /\ dispatching' = FALSE /\ active' = NULL /\ running' \in BOOLEAN
  BY <1>1, <1>2 DEF Control, TypeOK
<1>4. Unique(entries') /\ \A k \in DOMAIN entries' : entries'[k].fd # Tombstone
  BY <1>1, <1>2, <1>3 DEF Unique, LiveIn, Tidy
<1>5. entries' \in Seq(EntryRec) /\ Len(entries') <= Len(entries) /\ inRun' \in BOOLEAN
      /\ pc' \in {"idle", "top"}
  <2>1. entries' = entries /\ pc' = "idle"
    BY <1>2
  <2>2. inRun' \in BOOLEAN
    BY <1>2, Zenon
  <2> QED
    BY <1>1, <2>1, <2>2
<1>6. LoopInv'
  BY <1>2, <1>3, <1>4, <1>5, RoundOver
<1> QED
  BY <1>2, <1>6

LEMMA PollTimeoutStep == LoopInv /\ PollTimeout => LoopInv' /\ entries' = entries
<1> SUFFICES ASSUME LoopInv, PollTimeout PROVE LoopInv' /\ entries' = entries
  OBVIOUS
<1>1. TypeOK /\ Control /\ Tidy /\ Unique(entries) /\ entries \in Seq(EntryRec)
      /\ Len(entries) \in Nat
  BY Typed DEF LoopInv
<1>2. /\ pc = "poll" /\ pc' \in {"idle", "top"} /\ ForgetRound
      /\ UNCHANGED <<alive, entries, cap, entCap, pfdCap, running, dispatching, inRun, active>>
  BY DEF PollTimeout, Back
<1>3. alive /\ dispatching' = FALSE /\ active' = NULL /\ running' \in BOOLEAN /\ inRun' \in BOOLEAN
  BY <1>1, <1>2 DEF Control, TypeOK
<1>4. Unique(entries') /\ \A k \in DOMAIN entries' : entries'[k].fd # Tombstone
  BY <1>1, <1>2, <1>3 DEF Unique, LiveIn, Tidy
<1>5. entries' \in Seq(EntryRec) /\ Len(entries') <= Len(entries) /\ inRun' \in BOOLEAN
      /\ pc' \in {"idle", "top"}
  BY <1>1, <1>2, <1>3
<1>6. LoopInv'
  BY <1>2, <1>3, <1>4, <1>5, RoundOver
<1> QED
  BY <1>2, <1>6

\* What the end of the walk leaves: the registrations, moved down.
Moves == /\ entries' \in Seq(EntryRec)
         /\ \A k \in LiveIn(entries) : \E j \in LiveIn(entries') : entries'[j] = entries[k]
         /\ \A j \in LiveIn(entries') : \E k \in LiveIn(entries) : entries'[j] = entries[k]

LEMMA DispatchEndsStep == LoopInv /\ DispatchEnds => LoopInv' /\ Moves
<1> SUFFICES ASSUME LoopInv, DispatchEnds PROVE LoopInv' /\ Moves
  OBVIOUS
<1>1. /\ TypeOK /\ Control /\ Unique(entries) /\ entries \in Seq(EntryRec)
      /\ DOMAIN entries = 1 .. Len(entries)
  BY Typed DEF LoopInv
<1>2. /\ pc = "dispatch" /\ pc' \in {"idle", "top"} /\ ForgetRound /\ dispatching' = FALSE
      /\ entries' = Compact(entries)
      /\ UNCHANGED <<alive, cap, entCap, pfdCap, running, inRun, active>>
  BY DEF DispatchEnds, Back
<1>3. alive /\ active' = NULL /\ running' \in BOOLEAN /\ inRun' \in BOOLEAN
  BY <1>1, <1>2 DEF Control, TypeOK
<1>4. Remains(entries', entries, Len(entries))
  BY <1>1, <1>2, CompactRemains
<1>5. /\ entries' \in Seq(EntryRec) /\ Len(entries') <= Len(entries)
      /\ DOMAIN entries' = 1 .. Len(entries')
  BY <1>4, LenProperties DEF Remains
<1>6. \A j \in 1 .. Len(entries') : \E l \in 1 .. Len(entries) :
         entries'[j] = entries[l] /\ entries[l].fd # Tombstone
  BY <1>4 DEF Remains
<1>7. \A k \in DOMAIN entries' : entries'[k].fd # Tombstone
  BY <1>5, <1>6
<1>8. LiveIn(entries') = 1 .. Len(entries')
  BY <1>5, <1>7 DEF LiveIn
<1>9. Unique(entries')
  BY <1>4, <1>8 DEF Remains, Unique
<1>10. LoopInv'
  BY <1>2, <1>3, <1>5, <1>7, <1>9, RoundOver
<1>11. \A l \in 1 .. Len(entries) : entries[l].fd # Tombstone
                                   => \E j \in 1 .. Len(entries') : entries'[j] = entries[l]
  BY <1>4 DEF Remains
<1>12. LiveIn(entries) = {l \in 1 .. Len(entries) : entries[l].fd # Tombstone}
  BY <1>1 DEF LiveIn
<1>13. Moves
  BY <1>5, <1>6, <1>8, <1>11, <1>12 DEF Moves
<1> QED
  BY <1>10, <1>13

\* The snapshot for poll asks for what each entry is interested in.
LEMMA SnapshotType ==
  ASSUME LoopInv, ~dispatching
  PROVE  /\ Snapshot \in Seq(PollRec) /\ Len(Snapshot) = Len(entries)
         /\ \A k \in 1 .. Len(entries) : Snapshot[k].fd = entries[k].fd
<1> DEFINE n == Len(entries)
           p(k) == [fd |-> entries[k].fd, events |-> InterestToPoll(entries[k].events), revents |-> {}]
<1>1. /\ n \in Nat /\ DOMAIN entries = 1 .. n /\ Tidy
      /\ \A k \in 1 .. n : entries[k] \in EntryRec
  BY Typed DEF LoopInv
<1>2. \A k \in 1 .. n : p(k) \in PollRec /\ p(k).fd = entries[k].fd
  <2> SUFFICES ASSUME NEW k \in 1 .. n
               PROVE  p(k) \in PollRec /\ p(k).fd = entries[k].fd
    OBVIOUS
  <2>1. entries[k].fd \in Fds
    BY <1>1 DEF Tidy, EntryRec
  <2>2. InterestToPoll(entries[k].events) \in SUBSET {"IN", "OUT"}
    BY DEF InterestToPoll
  <2> QED
    BY <2>1, <2>2 DEF PollRec
<1>3. Snapshot = [k \in 1 .. n |-> p(k)]
  BY DEF Snapshot
<1> HIDE DEF p
<1>4. Snapshot \in [1 .. n -> PollRec]
  BY <1>2, <1>3
<1>5. Snapshot \in Seq(PollRec)
  BY <1>1, <1>4, IsASeq
<1>6. Len(Snapshot) = n
  BY <1>1, <1>4, <1>5, LenProperties
<1> QED
  BY <1>2, <1>3, <1>5, <1>6

LEMMA PollEnterStep == LoopInv /\ PollEnter => LoopInv' /\ SameShown
<1> SUFFICES ASSUME LoopInv, PollEnter PROVE LoopInv' /\ SameShown
  OBVIOUS
<1> DEFINE n == Len(entries)
           e(k) == [entries[k] EXCEPT !.fresh = FALSE]
<1>1. /\ alive /\ pc \in {"idle", "top"} /\ pc' = "poll" /\ pollfds' = Snapshot
      /\ entries' = [k \in DOMAIN entries |-> e(k)]
      /\ UNCHANGED <<alive, cap, entCap, pfdCap, running, dispatching, inRun, walk, active>>
  BY DEF PollEnter
<1>2. /\ n \in Nat /\ DOMAIN entries = 1 .. n /\ TypeOK /\ Room /\ Control /\ Tidy /\ Unique(entries)
      /\ \A k \in 1 .. n : entries[k] \in EntryRec
  BY Typed DEF LoopInv
<1>3. ~dispatching /\ dispatching' = FALSE
  BY <1>1, <1>2 DEF Control
<1>4. \A k \in 1 .. n : /\ e(k) \in EntryRec /\ e(k).fresh = FALSE /\ e(k).fd = entries[k].fd
                        /\ e(k).events = entries[k].events /\ e(k).cb = entries[k].cb
  BY <1>2 DEF EntryRec
<1> HIDE DEF e
<1>5. entries' \in [1 .. n -> EntryRec]
  BY <1>1, <1>2, <1>4
<1>6. entries' \in Seq(EntryRec)
  BY <1>2, <1>5, IsASeq
<1>7. Len(entries') = n /\ DOMAIN entries' = 1 .. n
  BY <1>2, <1>5, <1>6, LenProperties
<1>8. \A k \in 1 .. n : entries'[k] = e(k)
  BY <1>1, <1>2
<1>9. SameShown
  BY <1>4, <1>7, <1>8 DEF SameShown
<1>10. Snapshot \in Seq(PollRec) /\ Len(Snapshot) = n
       /\ \A k \in 1 .. n : Snapshot[k].fd = entries[k].fd
  BY <1>3, SnapshotType
<1>11. TypeOK'
  BY <1>1, <1>2, <1>3, <1>6, <1>10 DEF TypeOK, EntryRec, PollRec, walk
<1>12. Room'
  BY <1>1, <1>2, <1>7 DEF Room
<1>13. Control' /\ Walking' /\ Lockstep' /\ RoundIsComplete'
  BY <1>1, <1>2, <1>3 DEF Control, Walking, Lockstep, RoundIsComplete
<1>14. Polled'
  BY <1>1, <1>4, <1>7, <1>8, <1>10 DEF Polled
<1>15. Tidy'
  BY <1>2, <1>3, <1>4, <1>7, <1>8 DEF Tidy
<1>16. Unique(entries')
  BY <1>2, <1>4, <1>7, <1>8 DEF Unique, LiveIn
<1> QED
  BY <1>9, <1>11, <1>12, <1>13, <1>14, <1>15, <1>16 DEF LoopInv

\* poll fills in the revents; the walk begins at the first index.
LEMMA PollReadyStep == LoopInv /\ PollReady => LoopInv' /\ entries' = entries
<1> SUFFICES ASSUME LoopInv, PollReady PROVE LoopInv' /\ entries' = entries
  OBVIOUS
<1> DEFINE n == Len(pollfds)
<1>1. PICK rv : /\ \A k \in DOMAIN pollfds : rv[k] \in Reports(pollfds[k])
                /\ pollfds' = [k \in 1 .. n |-> [pollfds[k] EXCEPT !.revents = rv[k]]]
  BY DEF PollReady
<1>2. /\ pc = "poll" /\ pc' = "dispatch" /\ count' = Len(entries) /\ i' = 1
      /\ called' = {} /\ removed' = {} /\ dispatching' = TRUE
      /\ UNCHANGED <<alive, entries, cap, entCap, pfdCap, running, inRun, active>>
  BY DEF PollReady
<1>3. /\ TypeOK /\ Room /\ Control /\ Polled /\ Tidy /\ Unique(entries) /\ Len(entries) \in Nat
      /\ entries \in Seq(EntryRec) /\ DOMAIN entries = 1 .. Len(entries) /\ MaxCap \in Nat
  BY Typed DEF LoopInv
<1>4. pollfds \in Seq(PollRec) /\ n \in Nat /\ DOMAIN pollfds = 1 .. n
      /\ \A k \in 1 .. n : pollfds[k] \in PollRec
  <2>1. pollfds \in Seq(PollRec)
    BY <1>3 DEF TypeOK, PollRec
  <2> QED
    BY <2>1, LenProperties, ElementOfSeq
<1> DEFINE p(k) == [pollfds[k] EXCEPT !.revents = rv[k]]
<1>5. \A k \in 1 .. n : p(k) \in PollRec /\ p(k).fd = pollfds[k].fd
  <2> SUFFICES ASSUME NEW k \in 1 .. n
               PROVE  p(k) \in PollRec /\ p(k).fd = pollfds[k].fd
    OBVIOUS
  <2>1. pollfds[k] \in PollRec
    BY <1>4
  <2>2. rv[k] \in SUBSET {"IN", "OUT", "HUP", "NVAL"}
    <3>1. rv[k] \in Reports(pollfds[k]) /\ pollfds[k].events \in SUBSET {"IN", "OUT"}
      BY <1>1, <1>4, <2>1 DEF PollRec
    <3> QED
      BY <3>1 DEF Reports
  <2> QED
    BY <2>1, <2>2 DEF PollRec
<1>6. pollfds' = [k \in 1 .. n |-> p(k)]
  BY <1>1
<1> HIDE DEF p
<1>7. pollfds' \in [1 .. n -> PollRec] /\ \A k \in 1 .. n : pollfds'[k].fd = pollfds[k].fd
  BY <1>5, <1>6
<1>8. pollfds' \in Seq(PollRec)
  BY <1>4, <1>7, IsASeq
<1>9. Len(pollfds') = n /\ n = Len(entries)
  BY <1>2, <1>3, <1>4, <1>7, <1>8, LenProperties DEF Polled
<1>10. count' \in 0 .. MaxCap /\ i' \in 0 .. MaxCap + 1 /\ i' \in 1 .. count' + 1
  <2>1. Len(entries) <= cap /\ cap <= MaxCap /\ cap \in Nat
    BY <1>3 DEF Room
  <2> QED
    BY <2>1, <1>2, <1>3
<1>11. TypeOK' /\ Room'
  <2>1. called' \subseteq 1 .. MaxCap /\ removed' \subseteq Fds
    BY <1>2
  <2> QED
    BY <1>2, <1>3, <1>8, <1>10, <2>1 DEF TypeOK, PollRec, Room
<1>12. Control' /\ Polled' /\ Tidy'
  BY <1>2, <1>3 DEF Control, Polled, Tidy
<1>13. \A k \in 1 .. Len(entries) : /\ entries[k].fd = pollfds'[k].fd /\ ~entries[k].fresh
                                    /\ entries[k].fd # Tombstone
  BY <1>2, <1>3, <1>7, <1>9 DEF Polled, Tidy, Control
<1>14. Walking'
  BY <1>2, <1>9, <1>10, <1>13 DEF Walking
<1>15. Lockstep'
  BY <1>2, <1>3, <1>13 DEF Lockstep
<1>16. RoundIsComplete'
  BY <1>2 DEF RoundIsComplete
<1>17. Unique(entries')
  BY <1>2, <1>3 DEF Unique, LiveIn
<1> QED
  BY <1>2, <1>11, <1>12, <1>14, <1>15, <1>16, <1>17 DEF LoopInv

\* The walk goes on to the next index: this one was called, or was not to be.
LEMMA Advance ==
  ASSUME LoopInv, dispatching, i <= count, i' = i + 1, UNCHANGED <<alive, arrays, running>>,
         UNCHANGED <<dispatching, inRun, count, called, removed>>,
         pc' = "dispatch", active' = NULL,
         Ready(i) # {} /\ i \notin called => pollfds[i].fd \in removed
  PROVE  LoopInv'
<1>T. /\ TypeOK /\ Room /\ Control /\ Walking /\ Tidy /\ Lockstep /\ RoundIsComplete
      /\ Unique(entries) /\ i \in Nat /\ count \in Nat /\ MaxCap \in Nat
  BY Typed DEF LoopInv
<1>1. UNCHANGED <<entries, pollfds, cap, entCap, pfdCap>>
  BY DEF arrays
<1>2. count <= MaxCap /\ i \in 1 .. count + 1
  BY <1>T DEF TypeOK, Walking
<1>3. i' \in 0 .. MaxCap + 1 /\ i' \in 1 .. count + 1
  BY <1>T, <1>2
<1>4. TypeOK' /\ Room'
  BY <1>T, <1>1, <1>3 DEF TypeOK, Room
<1>5. Control' /\ Polled' /\ Tidy' /\ Lockstep'
  BY <1>T, <1>1 DEF Control, Polled, Tidy, Lockstep
<1>6. Walking'
  BY <1>T, <1>1, <1>3 DEF Walking
<1>7. \A k : Ready(k)' = Ready(k)
  BY <1>1 DEF Ready
<1>8. \A k \in 1 .. count : (k <= i => k <= i + 1) /\ (k < i + 1 => k < i \/ k = i)
  BY <1>T
<1>9. RoundIsComplete'
  <2>1. ASSUME NEW k \in 1 .. count
        PROVE  /\ k \in called => Ready(k) # {} /\ k <= i + 1
               /\ k < i + 1 /\ Ready(k) # {} /\ k \notin called => pollfds[k].fd \in removed
    BY <1>T, <1>8 DEF RoundIsComplete
  <2> QED
    BY <2>1, <1>1, <1>7 DEF RoundIsComplete
<1>10. Unique(entries')
  BY <1>T, <1>1 DEF Unique, LiveIn
<1> QED
  BY <1>4, <1>5, <1>6, <1>9, <1>10 DEF LoopInv

LEMMA DispatchSkipStep == LoopInv /\ DispatchSkip => LoopInv' /\ entries' = entries
<1> SUFFICES ASSUME LoopInv, DispatchSkip PROVE LoopInv' /\ entries' = entries
  OBVIOUS
<1>1. /\ pc = "dispatch" /\ i <= count /\ i' = i + 1
      /\ entries[i].fd = Tombstone \/ Ready(i) = {}
      /\ UNCHANGED <<alive, arrays, running, dispatching, pc, inRun, count, called, removed, active>>
  BY DEF DispatchSkip
<1>2. Control /\ Walking
  BY DEF LoopInv
<1>3. dispatching /\ active' = NULL /\ pc' = "dispatch"
  BY <1>1, <1>2 DEF Control
<1>4. i \in 1 .. count
  BY <1>1, <1>2, <1>3, Typed DEF Walking
<1>5. Ready(i) # {} => pollfds[i].fd \in removed
  BY <1>1, <1>2, <1>3, <1>4 DEF Walking
<1>6. LoopInv'
  BY <1>1, <1>3, <1>5, Advance
<1> QED
  BY <1>1, <1>6 DEF arrays

LEMMA CallbackReturnsStep == LoopInv /\ CallbackReturns => LoopInv' /\ entries' = entries
<1> SUFFICES ASSUME LoopInv, CallbackReturns PROVE LoopInv' /\ entries' = entries
  OBVIOUS
<1>1. /\ pc = "callback" /\ pc' = "dispatch" /\ i' = i + 1 /\ active' = NULL
      /\ UNCHANGED <<alive, arrays, running, dispatching, inRun, count, called, removed>>
  BY DEF CallbackReturns
<1>2. dispatching /\ i <= count /\ i \in called
  BY <1>1 DEF LoopInv, Control, Walking
<1>3. LoopInv'
  BY <1>1, <1>2, Advance
<1> QED
  BY <1>1, <1>3 DEF arrays

LEMMA DispatchCallStep == LoopInv /\ DispatchCall => LoopInv' /\ entries' = entries
<1> SUFFICES ASSUME LoopInv, DispatchCall PROVE LoopInv' /\ entries' = entries
  OBVIOUS
<1>1. /\ pc = "dispatch" /\ i <= count /\ Ready(i) # {} /\ called' = called \cup {i}
      /\ pc' = "callback"
      /\ UNCHANGED <<alive, arrays, running, dispatching, inRun, count, i, removed>>
  BY DEF DispatchCall
<1>T. /\ TypeOK /\ Room /\ Control /\ Walking /\ Tidy /\ Lockstep /\ RoundIsComplete
      /\ Unique(entries) /\ i \in Nat /\ count \in Nat /\ MaxCap \in Nat
  BY Typed DEF LoopInv
<1>2. UNCHANGED <<entries, pollfds, cap, entCap, pfdCap>>
  BY <1>1 DEF arrays
<1>3. dispatching /\ i \in 1 .. count + 1 /\ count <= MaxCap
  BY <1>T, <1>1 DEF Control, Walking, TypeOK
<1>4. i \in 1 .. MaxCap /\ i <= i
  BY <1>T, <1>1, <1>3
<1>5. TypeOK' /\ Room'
  BY <1>T, <1>1, <1>2, <1>4 DEF TypeOK, Room
<1>6. Control' /\ Polled' /\ Tidy' /\ Lockstep' /\ Walking'
  BY <1>T, <1>1, <1>2, <1>3 DEF Control, Polled, Tidy, Lockstep, Walking
<1>7. \A k : Ready(k)' = Ready(k)
  BY <1>2 DEF Ready
<1>8. RoundIsComplete'
  BY <1>T, <1>1, <1>2, <1>3, <1>4, <1>7 DEF RoundIsComplete
<1>9. Unique(entries')
  BY <1>T, <1>2 DEF Unique, LiveIn
<1> QED
  BY <1>2, <1>5, <1>6, <1>8, <1>9 DEF LoopInv

-----------------------------------------------------------------------------
(* The invariant *)

LEMMA LoopInvInit == Init => LoopInv
<1> SUFFICES ASSUME Init PROVE LoopInv
  OBVIOUS
<1>1. /\ alive = FALSE /\ entries = <<>> /\ pollfds = <<>> /\ cap = 0 /\ entCap = 0 /\ pfdCap = 0
      /\ running = FALSE /\ dispatching = FALSE /\ pc = "idle" /\ inRun = FALSE
      /\ count = 0 /\ i = 0 /\ called = {} /\ removed = {} /\ active = NULL
  BY DEF Init
<1>2. Len(entries) = 0 /\ DOMAIN entries = {}
  BY <1>1
<1>3. TypeOK
  BY <1>1, Cleared DEF TypeOK, EntryRec, PollRec
<1>4. Room /\ Control /\ Polled /\ Tidy /\ Unique(entries)
  BY <1>1, <1>2, Cleared DEF Room, Control, Polled, Tidy, Unique, LiveIn
<1>5. Walking /\ Lockstep /\ RoundIsComplete
  BY <1>1 DEF Walking, Lockstep, RoundIsComplete
<1> QED
  BY <1>3, <1>4, <1>5 DEF LoopInv

LEMMA LoopInvNext == LoopInv /\ [Next]_vars => LoopInv'
<1> SUFFICES ASSUME LoopInv, [Next]_vars PROVE LoopInv'
  OBVIOUS
<1>1. CASE UNCHANGED vars
  <2>1. UNCHANGED <<arrays, walk, dispatching, active, alive, running, inRun, pc>>
    BY <1>1 DEF vars
  <2>2. TypeOK /\ Control
    BY DEF LoopInv
  <2>3. alive' \in BOOLEAN /\ running' \in BOOLEAN /\ inRun' \in BOOLEAN
    BY <2>1, <2>2 DEF TypeOK
  <2> QED
    BY <2>1, <2>2, <2>3, QuietStep DEF Control
<1>2. CASE Create \/ Destroy \/ Stop \/ Run
  BY <1>2, CreateStep, DestroyStep, StopStep, RunStep
<1>3. CASE Operate
  <2>1. PICK fd \in Fds : \/ AddNoMem(fd)
                          \/ \E m \in Masks, c \in Callbacks : AddOk(fd, m, c)
                          \/ \E m \in Masks : Mod(fd, m)
                          \/ Remove(fd)
    BY <1>3 DEF Operate
  <2>2. CASE AddNoMem(fd)
    BY <2>2, AddNoMemStep
  <2>3. CASE \E m \in Masks, c \in Callbacks : AddOk(fd, m, c)
    BY <2>3, AddStep
  <2>4. CASE \E m \in Masks : Mod(fd, m)
    BY <2>4, ModStep
  <2>5. CASE Remove(fd)
    BY <2>5, RemoveWalking, RemoveSwapping
  <2> QED
    BY <2>1, <2>2, <2>3, <2>4, <2>5
<1>4. CASE LoopStep
  <2>1. CASE RunReturns \/ PollEnter \/ PollFails
    BY <2>1, RunReturnsStep, PollEnterStep, PollFailsStep
  <2>2. CASE PollTimeout \/ PollReady \/ DispatchSkip
    BY <2>2, PollTimeoutStep, PollReadyStep, DispatchSkipStep
  <2>3. CASE DispatchCall \/ CallbackReturns \/ DispatchEnds
    BY <2>3, DispatchCallStep, CallbackReturnsStep, DispatchEndsStep
  <2> QED
    BY <1>4, <2>1, <2>2, <2>3 DEF LoopStep
<1> QED
  BY <1>1, <1>2, <1>3, <1>4 DEF Next

\* Entries of different descriptors are as many as the descriptors.
LEMMA Counts ==
  ASSUME LoopInv
  PROVE  CountBetweenRounds
<1> SUFFICES ASSUME alive, ~dispatching
             PROVE  Count = Cardinality({entries[k].fd : k \in DOMAIN entries} \ {Tombstone})
  BY DEF CountBetweenRounds
<1> DEFINE n == Len(entries)
           S == {entries[k].fd : k \in 1 .. n}
           g == [k \in 1 .. n |-> entries[k].fd]
<1>1. n \in Nat /\ DOMAIN entries = 1 .. n /\ Tidy /\ Unique(entries)
  BY Typed DEF LoopInv
<1>2. \A k \in 1 .. n : entries[k].fd # Tombstone
  BY <1>1 DEF Tidy
<1>3. {entries[k].fd : k \in DOMAIN entries} \ {Tombstone} = S
  BY <1>1, <1>2
<1>4. \A k, l \in 1 .. n : entries[k].fd = entries[l].fd => k = l
  BY <1>1, <1>2 DEF Unique, LiveIn
<1>5. g \in Bijection(1 .. n, S)
  BY <1>4 DEF Bijection, Injection, IsInjective, Surjection
<1>6. ExistsBijection(1 .. n, S)
  BY <1>5 DEF ExistsBijection
<1>7. IsFiniteSet(S) /\ Cardinality(S) = n
  BY <1>1, <1>6, FS_CountingElements, FS_NatBijection
<1> QED
  BY <1>3, <1>7 DEF Count

(***************************************************************************)
(* event_loop.c: whatever callbacks add, modify and remove in the middle   *)
(* of a dispatch walk, for any descriptors and capacities the arrays stay  *)
(* in bounds and in index lockstep, every round calls exactly the ready    *)
(* descriptors still registered, and event_loop_count is right between     *)
(* rounds.                                                                 *)
(***************************************************************************)
THEOREM Walk == Spec => []WalkIsSound
<1>1. LoopInv => WalkIsSound
  <2>1. LoopInv => InBounds
    BY DEF LoopInv, Room, InBounds
  <2> QED
    BY <2>1, Counts DEF LoopInv, WalkIsSound
<1> QED
  BY <1>1, LoopInvInit, LoopInvNext, PTL DEF Spec

-----------------------------------------------------------------------------
(* Refinement: g is the map of the registrations in the array s. *)

Describes(s, g) ==
    /\ g = [x \in DOMAIN g |-> g[x]]
    /\ DOMAIN g = {s[k].fd : k \in LiveIn(s)}
    /\ \A k \in LiveIn(s) : g[s[k].fd] = [events |-> s[k].events, cb |-> s[k].cb]

RegDescribed == Describes(entries, Reg)

LEMMA Described == LoopInv => RegDescribed
<1> SUFFICES ASSUME LoopInv PROVE Describes(entries, Reg)
  BY DEF RegDescribed
<1> DEFINE D == {entries[k].fd : k \in LiveIn(entries)}
<1>1. Reg = [fd \in D |-> [events |-> entries[FindIndex(fd)].events,
                           cb |-> entries[FindIndex(fd)].cb]]
  BY DEF Reg, Live, LiveIn
<1>2. DOMAIN Reg = D /\ Reg = [x \in DOMAIN Reg |-> Reg[x]]
  BY <1>1
<1>3. /\ DOMAIN entries = 1 .. Len(entries)
      /\ \A k \in 1 .. Len(entries) : entries[k] \in EntryRec
  BY Typed
<1>4. ASSUME NEW k \in LiveIn(entries)
      PROVE  Reg[entries[k].fd] = [events |-> entries[k].events, cb |-> entries[k].cb]
  <2>1. k \in 1 .. Len(entries) /\ entries[k].fd \in Fds
    BY <1>3 DEF LiveIn, EntryRec
  <2>2. k \in Indices(entries[k].fd)
    BY <1>3, <2>1 DEF Indices
  <2>3. FindIndex(entries[k].fd) = k
    BY <2>1, <2>2, Finds
  <2>4. entries[k].fd \in D
    OBVIOUS
  <2> QED
    BY <1>1, <2>3, <2>4
<1> QED
  BY <1>2, <1>4 DEF Describes

LEMMA DescribedNext == LoopInv' => Describes(entries', Reg')
<1>1. LoopInv' => RegDescribed'
  BY Described, PTL
<1> QED
  BY <1>1 DEF RegDescribed, Describes, LiveIn

\* Every registration of s is in t.
Within(s, t) == \A k \in LiveIn(s) : \E j \in LiveIn(t) :
                  t[j].fd = s[k].fd /\ t[j].events = s[k].events /\ t[j].cb = s[k].cb

\* The map depends on the registrations only, wherever they are.
LEMMA MapsAgree ==
  ASSUME NEW s, NEW t, Within(s, t), Within(t, s), NEW g, Describes(s, g), NEW h, Describes(t, h)
  PROVE  g = h
<1>1. DOMAIN g = DOMAIN h
  BY DEF Describes, Within
<1>2. ASSUME NEW x \in DOMAIN g PROVE g[x] = h[x]
  <2>1. PICK k \in LiveIn(s) : x = s[k].fd
    BY DEF Describes
  <2>2. PICK j \in LiveIn(t) : t[j].fd = s[k].fd /\ t[j].events = s[k].events /\ t[j].cb = s[k].cb
    BY DEF Within
  <2>3. g[s[k].fd] = [events |-> s[k].events, cb |-> s[k].cb]
    BY DEF Describes
  <2>4. h[t[j].fd] = [events |-> t[j].events, cb |-> t[j].cb]
    BY DEF Describes
  <2> QED
    BY <2>1, <2>2, <2>3, <2>4
<1> QED
  BY <1>1, <1>2 DEF Describes

\* After a step that shows the same registrations the map is the same.
LEMMA SameMap ==
  ASSUME LoopInv, LoopInv', Within(entries, entries'), Within(entries', entries)
  PROVE  Reg' = Reg
<1>1. Describes(entries, Reg)
  BY Described DEF RegDescribed
<1>2. Describes(entries', Reg')
  BY DescribedNext
<1> QED
  BY <1>1, <1>2, MapsAgree

LEMMA SameEntries ==
  ASSUME LoopInv, LoopInv', entries' = entries
  PROVE  Reg' = Reg
BY SameMap DEF Within, LiveIn

LEMMA AddRefines ==
  ASSUME LoopInv, LoopInv', NEW fd \in Fds, NEW m \in Masks, NEW c \in Callbacks, AddOk(fd, m, c)
  PROVE  Registry!Add(fd, m, c)
<1> DEFINE n == Len(entries)
           h == [x \in DOMAIN Reg \cup {fd} |-> IF x = fd THEN [events |-> m, cb |-> c] ELSE Reg[x]]
<1>1. /\ n \in Nat /\ DOMAIN entries = 1 .. n /\ Describes(entries, Reg) /\ Describes(entries', Reg')
  BY Typed, Described, DescribedNext DEF RegDescribed
<1>2. /\ entries' \in Seq(EntryRec) /\ Len(entries') = n + 1
      /\ \A k \in 1 .. n : entries'[k] = entries[k] /\ entries[k].fd # fd
      /\ entries'[n + 1] = [fd |-> fd, events |-> m, cb |-> c, fresh |-> TRUE]
  BY AddStep DEF Adds
<1>3. DOMAIN entries' = 1 .. n + 1 /\ n + 1 \notin 1 .. n /\ 1 .. n + 1 = (1 .. n) \cup {n + 1}
  BY <1>1, <1>2, LenProperties
<1>4. entries'[n + 1].fd = fd /\ entries'[n + 1].events = m /\ entries'[n + 1].cb = c
  BY <1>2
<1> HIDE DEF n
<1>5. LiveIn(entries') = LiveIn(entries) \cup {n + 1}
  BY <1>1, <1>2, <1>3, <1>4, NoFdIsTombstone DEF LiveIn
<1>6. \A k \in LiveIn(entries) : entries'[k] = entries[k] /\ entries[k].fd # fd
  BY <1>1, <1>2 DEF LiveIn
<1>7. fd \notin DOMAIN Reg
  BY <1>1, <1>6 DEF Describes
<1>8. DOMAIN h = {entries'[k].fd : k \in LiveIn(entries')}
  BY <1>1, <1>4, <1>5, <1>6 DEF Describes
<1>9. ASSUME NEW k \in LiveIn(entries')
      PROVE  h[entries'[k].fd] = [events |-> entries'[k].events, cb |-> entries'[k].cb]
  <2>1. CASE k = n + 1
    BY <2>1, <1>4
  <2>2. CASE k \in LiveIn(entries)
    <3>1. /\ Reg[entries[k].fd] = [events |-> entries[k].events, cb |-> entries[k].cb]
          /\ entries[k].fd \in DOMAIN Reg
      BY <2>2, <1>1 DEF Describes
    <3>2. entries'[k] = entries[k] /\ entries[k].fd # fd
      BY <2>2, <1>6
    <3> QED
      BY <3>1, <3>2
  <2> QED
    BY <2>1, <2>2, <1>5
<1>10. Describes(entries', h)
  BY <1>8, <1>9 DEF Describes
<1>11. Reg' = h
  <2> HIDE DEF h
  <2>1. Within(entries', entries')
    BY DEF Within
  <2> QED
    BY <1>1, <1>10, <2>1, MapsAgree
<1>12. UNCHANGED <<alive, active>> /\ op' = [name |-> "add", fd |-> fd]
  BY DEF AddOk, Perform
<1> QED
  BY <1>7, <1>11, <1>12 DEF Registry!Add, Registry!Registered, Registry!Entry, Registry!Asked

LEMMA ModRefines ==
  ASSUME LoopInv, LoopInv', NEW fd \in Fds, NEW m \in Masks, Mod(fd, m)
  PROVE  Registry!Mod(fd, m)
<1> DEFINE h == [Reg EXCEPT ![fd].events = m]
<1>1. /\ DOMAIN entries = 1 .. Len(entries) /\ Describes(entries, Reg) /\ Describes(entries', Reg')
  BY Typed, Described, DescribedNext DEF RegDescribed
<1>2. /\ entries' \in Seq(EntryRec) /\ Len(entries') = Len(entries)
      /\ \A k \in 1 .. Len(entries) : /\ entries'[k].fd = entries[k].fd
                                      /\ entries'[k].cb = entries[k].cb
                                      /\ entries'[k].events = IF entries[k].fd = fd THEN m
                                                              ELSE entries[k].events
  BY ModStep DEF Modifies
<1>3. DOMAIN entries' = 1 .. Len(entries)
  BY <1>2, LenProperties
<1>4. LiveIn(entries') = LiveIn(entries)
  BY <1>1, <1>2, <1>3 DEF LiveIn
<1>5. fd \in DOMAIN Reg
  <2>1. Indices(fd) # {}
    BY DEF Mod
  <2> QED
    BY <1>1, <2>1, NoFdIsTombstone DEF Indices, Describes, LiveIn
<1>6. Describes(entries', h)
  <2>1. DOMAIN h = {entries'[k].fd : k \in LiveIn(entries')} /\ h = [x \in DOMAIN h |-> h[x]]
    <3>1. DOMAIN h = DOMAIN Reg /\ h = [x \in DOMAIN h |-> h[x]]
      OBVIOUS
    <3>2. \A k \in LiveIn(entries) : entries'[k].fd = entries[k].fd
      BY <1>1, <1>2 DEF LiveIn
    <3>3. DOMAIN Reg = {entries'[k].fd : k \in LiveIn(entries)}
      BY <1>1, <3>2 DEF Describes
    <3> QED
      BY <3>1, <3>3, <1>4
  <2>2. ASSUME NEW k \in LiveIn(entries)
        PROVE  h[entries'[k].fd] = [events |-> entries'[k].events, cb |-> entries'[k].cb]
    <3>1. Reg[entries[k].fd] = [events |-> entries[k].events, cb |-> entries[k].cb]
          /\ entries[k].fd \in DOMAIN Reg
      BY <1>1 DEF Describes
    <3>2. /\ entries'[k].fd = entries[k].fd /\ entries'[k].cb = entries[k].cb
          /\ entries'[k].events = IF entries[k].fd = fd THEN m ELSE entries[k].events
      BY <1>1, <1>2 DEF LiveIn
    <3> QED
      BY <3>1, <3>2
  <2> QED
    BY <2>1, <2>2, <1>4 DEF Describes
<1>7. Reg' = h
  <2> HIDE DEF h
  <2>1. Within(entries', entries')
    BY DEF Within
  <2> QED
    BY <1>1, <1>6, <2>1, MapsAgree
<1>8. UNCHANGED <<alive, active>> /\ op' = [name |-> "mod", fd |-> fd]
  BY DEF Mod, Perform
<1> QED
  BY <1>5, <1>7, <1>8 DEF Registry!Mod, Registry!Registered, Registry!Asked

LEMMA RemoveRefines ==
  ASSUME LoopInv, LoopInv', NEW fd \in Fds, Remove(fd)
  PROVE  Registry!Remove(fd)
<1> DEFINE h == [x \in DOMAIN Reg \ {fd} |-> Reg[x]]
<1>1. /\ DOMAIN entries = 1 .. Len(entries) /\ Describes(entries, Reg) /\ Describes(entries', Reg')
  BY Typed, Described, DescribedNext DEF RegDescribed
<1>2. /\ \A k \in LiveIn(entries) : entries[k].fd # fd =>
           \E j \in LiveIn(entries') : entries'[j] = entries[k]
      /\ \A j \in LiveIn(entries') : entries'[j].fd # fd /\
           \E k \in LiveIn(entries) : entries'[j] = entries[k]
  BY RemoveWalking, RemoveSwapping DEF Removes
<1>3. fd \in DOMAIN Reg
  <2>1. Indices(fd) # {}
    BY DEF Remove
  <2> QED
    BY <1>1, <2>1, NoFdIsTombstone DEF Indices, Describes, LiveIn
<1>4. Describes(entries', h)
  <2>1. DOMAIN h = {entries'[k].fd : k \in LiveIn(entries')}
    BY <1>1, <1>2 DEF Describes
  <2>2. ASSUME NEW j \in LiveIn(entries')
        PROVE  h[entries'[j].fd] = [events |-> entries'[j].events, cb |-> entries'[j].cb]
    <3>1. PICK k \in LiveIn(entries) : entries'[j] = entries[k] /\ entries[k].fd # fd
      BY <1>2
    <3>2. /\ Reg[entries[k].fd] = [events |-> entries[k].events, cb |-> entries[k].cb]
          /\ entries[k].fd \in DOMAIN Reg
      BY <1>1 DEF Describes
    <3> QED
      BY <3>1, <3>2
  <2> QED
    BY <2>1, <2>2 DEF Describes
<1>5. Reg' = h
  <2> HIDE DEF h
  <2>1. Within(entries', entries')
    BY DEF Within
  <2> QED
    BY <1>1, <1>4, <2>1, MapsAgree
<1>6. UNCHANGED <<alive, active>> /\ op' = [name |-> "remove", fd |-> fd]
  BY DEF Remove, Perform
<1> QED
  BY <1>3, <1>5, <1>6 DEF Registry!Remove, Registry!Registered, Registry!Asked

LEMMA RefusedRefines ==
  ASSUME LoopInv, LoopInv', NEW fd \in Fds, AddNoMem(fd)
  PROVE  Registry!Refused(fd)
<1>1. Indices(fd) = {} /\ UNCHANGED <<alive, active>> /\ op' = [name |-> "refused", fd |-> fd]
  BY DEF AddNoMem, Perform
<1>2. Reg' = Reg
  BY AddNoMemStep, SameEntries
<1>3. fd \notin DOMAIN Reg
  BY <1>1, Described DEF RegDescribed, Describes, Indices, LiveIn
<1> QED
  BY <1>1, <1>2, <1>3 DEF Registry!Refused, Registry!Registered, Registry!Asked

\* poll_once calls a callback that is registered at that moment.
LEMMA NotifyRefines ==
  ASSUME LoopInv, LoopInv', DispatchCall, op' = NULL
  PROVE  \E fd \in Fds : Registry!Notify(fd)
<1>1. /\ pc = "dispatch" /\ i <= count /\ entries[i].fd # Tombstone
      /\ active' = [fd |-> entries[i].fd, cb |-> entries[i].cb] /\ alive' = alive
  BY DEF DispatchCall
<1>2. /\ i \in Nat /\ count \in Nat /\ Len(entries) \in Nat /\ DOMAIN entries = 1 .. Len(entries)
      /\ \A k \in 1 .. Len(entries) : entries[k] \in EntryRec
  BY Typed
<1>3. active = NULL /\ i \in 1 .. count + 1 /\ count <= Len(entries)
  BY <1>1 DEF LoopInv, Control, Walking
<1>4. i \in 1 .. Len(entries)
  BY <1>1, <1>2, <1>3
<1>5. PICK fd \in Fds : fd = entries[i].fd
  BY <1>1, <1>2, <1>4 DEF EntryRec
<1>6. i \in LiveIn(entries)
  BY <1>1, <1>2, <1>4 DEF LiveIn
<1>7. fd \in DOMAIN Reg /\ Reg[fd] = [events |-> entries[i].events, cb |-> entries[i].cb]
  BY <1>5, <1>6, Described DEF RegDescribed, Describes
<1>8. Reg[fd].cb = entries[i].cb
  BY <1>7
<1>9. Reg' = Reg
  BY DispatchCallStep, SameEntries
<1>10. Registry!Notify(fd)
  BY <1>1, <1>3, <1>5, <1>7, <1>8, <1>9 DEF Registry!Notify, Registry!Registered
<1> QED
  BY <1>10

LEMMA CallbackReturnsRefines ==
  ASSUME LoopInv, LoopInv', CallbackReturns, op' = NULL
  PROVE  Registry!Done \/ Registry!Work
<1>1. Reg' = Reg /\ alive' = alive /\ active' = NULL
  BY CallbackReturnsStep, SameEntries DEF CallbackReturns
<1> QED
  BY <1>1 DEF Registry!Done, Registry!Work

\* The other steps of the loop do not show.
LEMMA WorkRefines ==
  ASSUME LoopInv, LoopInv', op' = NULL,
         \/ Stop \/ Run \/ RunReturns \/ PollEnter \/ PollFails \/ PollTimeout
         \/ PollReady \/ DispatchSkip \/ DispatchEnds
  PROVE  Registry!Work
<1>1. UNCHANGED <<alive, active>>
  BY DEF Stop, Run, RunReturns, PollEnter, PollFails, PollTimeout, PollReady, DispatchSkip,
         DispatchEnds
<1>2. CASE entries' = entries
  BY <1>1, <1>2, SameEntries DEF Registry!Work
<1>3. CASE PollEnter
  <2>1. Len(entries') = Len(entries)
        /\ \A k \in 1 .. Len(entries) : /\ entries'[k].fd = entries[k].fd
                                        /\ entries'[k].events = entries[k].events
                                        /\ entries'[k].cb = entries[k].cb
    BY <1>3, PollEnterStep DEF SameShown
  <2>2. DOMAIN entries = 1 .. Len(entries) /\ DOMAIN entries' = DOMAIN entries
    BY <1>3, Typed DEF PollEnter
  <2>3. LiveIn(entries') = LiveIn(entries)
    BY <2>1, <2>2 DEF LiveIn
  <2>4. Within(entries, entries') /\ Within(entries', entries)
    BY <2>1, <2>2, <2>3 DEF Within, LiveIn
  <2> QED
    BY <1>1, <2>4, SameMap DEF Registry!Work
<1>4. CASE DispatchEnds
  <2>1. Within(entries, entries') /\ Within(entries', entries)
    BY <1>4, DispatchEndsStep DEF Moves, Within
  <2> QED
    BY <1>1, <2>1, SameMap DEF Registry!Work
<1>5. (Stop \/ Run \/ RunReturns \/ PollFails) => entries' = entries
  BY StopStep, RunStep, RunReturnsStep, PollFailsStep
<1>6. (PollTimeout \/ PollReady \/ DispatchSkip) => entries' = entries
  BY PollTimeoutStep, PollReadyStep, DispatchSkipStep
<1> QED
  BY <1>2, <1>3, <1>4, <1>5, <1>6

\* An empty array describes the empty map.
LEMMA EmptyMap ==
  ASSUME NEW g, Describes(<<>>, g)
  PROVE  g = [fd \in {} |-> NULL]
<1>1. LiveIn(<<>>) = {}
  BY DEF LiveIn
<1>2. DOMAIN g = {} /\ g = [x \in DOMAIN g |-> g[x]]
  BY <1>1 DEF Describes
<1> QED
  BY <1>2

LEMMA LifeRefines ==
  ASSUME LoopInv, LoopInv', op' = NULL, Create \/ Destroy
  PROVE  Registry!Create \/ Registry!Destroy
<1>1. CASE Create
  <2>1. Reg' = Reg
    BY <1>1, CreateStep, SameEntries
  <2> QED
    BY <1>1, <2>1 DEF Create, Registry!Create
<1>2. CASE Destroy
  <2>1. Describes(<<>>, Reg')
    BY <1>2, DestroyStep, DescribedNext
  <2>2. Reg' = [fd \in {} |-> NULL]
    BY <2>1, EmptyMap
  <2>3. active = NULL
    BY <1>2 DEF Destroy, LoopInv, Control
  <2> QED
    BY <1>2, <2>2, <2>3 DEF Destroy, Registry!Destroy
<1> QED
  BY <1>1, <1>2

LEMMA StepRefines == LoopInv /\ LoopInv' /\ [Next]_vars => [Registry!Next]_Registry!vars
<1> SUFFICES ASSUME LoopInv, LoopInv', [Next]_vars
             PROVE  Registry!Next \/ UNCHANGED Registry!vars
  OBVIOUS
<1>1. CASE UNCHANGED vars
  <2>1. entries' = entries /\ UNCHANGED <<alive, active, op>>
    BY <1>1 DEF vars, arrays
  <2>2. Reg' = Reg
    BY <2>1, SameEntries
  <2> QED
    BY <2>1, <2>2 DEF Registry!vars
<1>2. CASE (Create \/ Destroy \/ Stop \/ Run) /\ op' = NULL
  BY <1>2, LifeRefines, WorkRefines DEF Registry!Next
<1>3. CASE Operate
  <2>1. PICK fd \in Fds : \/ AddNoMem(fd)
                          \/ \E m \in Masks, c \in Callbacks : AddOk(fd, m, c)
                          \/ \E m \in Masks : Mod(fd, m)
                          \/ Remove(fd)
    BY <1>3 DEF Operate
  <2>2. CASE AddNoMem(fd) \/ Remove(fd)
    BY <2>2, RefusedRefines, RemoveRefines DEF Registry!Next
  <2>3. CASE \E m \in Masks, c \in Callbacks : AddOk(fd, m, c)
    BY <2>3, AddRefines DEF Registry!Next
  <2>4. CASE \E m \in Masks : Mod(fd, m)
    BY <2>4, ModRefines DEF Registry!Next
  <2> QED
    BY <2>1, <2>2, <2>3, <2>4
<1>4. CASE LoopStep
  <2>1. CASE DispatchCall \/ CallbackReturns
    BY <1>4, <2>1, NotifyRefines, CallbackReturnsRefines DEF LoopStep, Registry!Next
  <2>2. CASE ~(DispatchCall \/ CallbackReturns)
    BY <1>4, <2>2, WorkRefines DEF LoopStep, Registry!Next
  <2> QED
    BY <2>1, <2>2
<1> QED
  BY <1>1, <1>2, <1>3, <1>4 DEF Next

(***************************************************************************)
(* event_loop.c implements FdRegistry: tombstones, swap-with-last removal, *)
(* compaction and growth never show, and a callback only runs for a        *)
(* descriptor registered when it starts, with the callback given for it.   *)
(***************************************************************************)
THEOREM Refinement == Spec => ImplementsRegistry
<1>1. Init => Registry!Init
  <2> SUFFICES ASSUME Init PROVE Registry!Init
    OBVIOUS
  <2>1. entries = <<>> /\ alive = FALSE /\ active = NULL /\ op = NULL
    BY DEF Init
  <2>2. Describes(<<>>, Reg)
    BY <2>1, LoopInvInit, Described DEF RegDescribed
  <2>3. Reg = [fd \in {} |-> NULL]
    BY <2>2, EmptyMap
  <2> QED
    BY <2>1, <2>3 DEF Registry!Init
<1> QED
  BY <1>1, LoopInvInit, LoopInvNext, StepRefines, PTL DEF Spec, ImplementsRegistry, Registry!Spec
=============================================================================
