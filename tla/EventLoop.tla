------------------------------ MODULE EventLoop ------------------------------
(***************************************************************************)
(* src/src/networking/event_loop.c: a poll(2) event loop.  Registrations   *)
(* live in an array (entries) with a parallel array of pollfds.  Callbacks *)
(* run in the middle of the dispatch walk and may add, modify and remove   *)
(* registrations, their own included, and stop the loop.                   *)
(*                                                                         *)
(* One thread runs everything; the steps of poll_once are separate actions *)
(* because callbacks run between them.  poll itself is external: it        *)
(* returns any readiness the requested events allow, times out, or fails.  *)
(* Its EINTR retry only repeats the call.                                  *)
(*                                                                         *)
(* Array index k of the code is index k + 1 here.  "fresh" is a history    *)
(* bit: the entry was added after the last snapshot for poll.              *)
(***************************************************************************)
EXTENDS Integers, Sequences, FiniteSets

CONSTANTS Fds,        \* descriptors (natural numbers)
          Masks,      \* interest masks callers use: non-empty sets of EV_*
          Callbacks,  \* (cb, user_data) pairs
          InitCap,    \* the capacity of the first allocation, 8 in the code
          MaxCap,     \* bound: a realloc beyond this many entries fails
          MaxEntries, \* bound: entries, tombstones included
          NULL

ASSUME FdsAssumption == Fds \subseteq Nat
ASSUME MasksAssumption == Masks \subseteq (SUBSET {"READ", "WRITE"} \ {{}})
ASSUME CapAssumption == InitCap \in Nat \ {0} /\ MaxCap \in Nat

VARIABLES alive,        \* the loop exists
          entries,      \* loop->entries[0 .. len-1]
          pollfds,      \* the snapshot handed to poll and what it returned
          cap,          \* loop->cap
          entCap, pfdCap,  \* how many entries and pollfds are allocated
          running, dispatching,  \* loop->running, loop->dispatching
          pc,           \* where the loop's thread is
          inRun,        \* poll_once was called by event_loop_run
          count, i,     \* locals of poll_once
          called,       \* history: indices whose callback ran this round
          removed,      \* history: fds removed during this round
          active,       \* history: the callback being run, or NULL
          op            \* history: the operation just performed, or NULL

arrays == <<entries, pollfds, cap, entCap, pfdCap>>
walk == <<count, i, called, removed>>
vars == <<alive, arrays, running, dispatching, pc, inRun, walk, active, op>>

Tombstone == -1

Init == /\ alive = FALSE
        /\ entries = <<>> /\ pollfds = <<>>
        /\ cap = 0 /\ entCap = 0 /\ pfdCap = 0
        /\ running = FALSE /\ dispatching = FALSE
        /\ pc = "idle" /\ inRun = FALSE
        /\ count = 0 /\ i = 0 /\ called = {} /\ removed = {}
        /\ active = NULL
        /\ op = NULL

Create == /\ ~alive
          /\ alive' = TRUE
          /\ UNCHANGED <<arrays, running, dispatching, pc, inRun, walk, active>>

\* calloc gives the next loop a zeroed structure.
Destroy == /\ alive
           /\ pc = "idle"
           /\ alive' = FALSE
           /\ entries' = <<>> /\ pollfds' = <<>>
           /\ cap' = 0 /\ entCap' = 0 /\ pfdCap' = 0
           /\ running' = FALSE
           /\ count' = 0 /\ i' = 0 /\ called' = {} /\ removed' = {}
           /\ UNCHANGED <<dispatching, pc, inRun, active>>

-----------------------------------------------------------------------------
(* The operations on registrations: from outside poll_once or a callback.   *)
(* One that is refused (ERR_INVALID_ARG: already registered; ERR_NOT_FOUND)  *)
(* changes nothing: the guards on Indices(fd) are these early returns.       *)

MayOperate == alive /\ pc \in {"idle", "callback"}

Indices(fd) == {k \in DOMAIN entries : entries[k].fd = fd}

\* The result of find_index, for a registered fd: its first index.
FindIndex(fd) == CHOOSE k \in Indices(fd) : \A l \in Indices(fd) : k <= l

\* An operation leaves the walk of poll_once where it is.
Perform(name, target) ==
    /\ op' = [name |-> name, fd |-> target]
    /\ UNCHANGED <<alive, running, dispatching, pc, inRun, count, i, called, active>>

NewCap == IF cap = 0 THEN InitCap ELSE cap * 2

\* One of the two reallocs fails; the other array may have grown already.
AddNoMem(fd) == /\ MayOperate
                /\ Indices(fd) = {}
                /\ Len(entries) = cap
                /\ \/ UNCHANGED entCap
                   \/ NewCap <= MaxCap /\ entCap' = NewCap
                /\ Perform("refused", fd)
                /\ UNCHANGED <<entries, pollfds, cap, pfdCap, removed>>

Appended(fd, m, c) == Append(entries, [fd |-> fd, events |-> m, cb |-> c, fresh |-> TRUE])

Grow == /\ NewCap <= MaxCap
        /\ cap' = NewCap /\ entCap' = NewCap /\ pfdCap' = NewCap

AddOk(fd, m, c) ==
    /\ MayOperate
    /\ Indices(fd) = {} /\ Len(entries) < MaxEntries
    /\ IF Len(entries) = cap THEN Grow ELSE UNCHANGED <<cap, entCap, pfdCap>>
    /\ entries' = Appended(fd, m, c)
    /\ Perform("add", fd)
    /\ UNCHANGED <<pollfds, removed>>

Mod(fd, m) == /\ MayOperate
              /\ Indices(fd) # {}
              /\ entries' = [entries EXCEPT ![FindIndex(fd)].events = m]
              /\ Perform("mod", fd)
              /\ UNCHANGED <<pollfds, cap, entCap, pfdCap, removed>>

\* The last entry takes the removed one's place.
SwapRemoved(k) == SubSeq([entries EXCEPT ![k] = entries[Len(entries)]], 1, Len(entries) - 1)

Remove(fd) == /\ MayOperate
              /\ Indices(fd) # {}
              /\ entries' = IF dispatching
                              THEN [entries EXCEPT ![FindIndex(fd)].fd = Tombstone]
                              ELSE SwapRemoved(FindIndex(fd))
              /\ removed' = IF dispatching THEN removed \cup {fd} ELSE removed
              /\ Perform("remove", fd)
              /\ UNCHANGED <<pollfds, cap, entCap, pfdCap>>

Stop == /\ MayOperate
        /\ running' = FALSE
        /\ UNCHANGED <<alive, arrays, dispatching, pc, inRun, walk, active>>

\* event_loop_count
Count == IF alive THEN Len(entries) ELSE 0

-----------------------------------------------------------------------------
(* event_loop_run and event_loop_poll_once *)

\* The requested events: interest_to_poll.
InterestToPoll(m) == {IF e = "READ" THEN "IN" ELSE "OUT" : e \in m}

\* poll_to_ready: hang-ups and errors surface as readable, POLLNVAL as nothing.
PollToReady(rv) == (IF rv \cap {"IN", "HUP", "ERR"} # {} THEN {"READ"} ELSE {})
                   \cup (IF "OUT" \in rv THEN {"WRITE"} ELSE {})

Ready(k) == PollToReady(pollfds[k].revents)

Snapshot == [k \in 1 .. Len(entries) |->
               [fd |-> entries[k].fd, events |-> InterestToPoll(entries[k].events),
                revents |-> {}]]

\* What poll may report for a descriptor: requested events, or a condition
\* it reports unasked (POLLHUP and POLLERR are treated alike).
Reports(p) == (SUBSET p.events) \cup {{"HUP"}, {"NVAL"}}

Run == /\ alive /\ pc = "idle"
       /\ running' = TRUE
       /\ inRun' = TRUE
       /\ pc' = "top"
       /\ UNCHANGED <<alive, arrays, dispatching, walk, active>>

\* Mutant: the flag is set in every iteration and a stop is forgotten.
RunReturnsNever == /\ pc = "top" /\ ~running
                   /\ running' = TRUE
                   /\ UNCHANGED <<alive, arrays, dispatching, pc, inRun, walk, active>>

RunReturns == /\ pc = "top" /\ ~running
              /\ pc' = "idle"
              /\ inRun' = FALSE
              /\ UNCHANGED <<alive, arrays, running, dispatching, walk, active>>

\* Enter poll: the snapshot is taken, unless there is nothing to poll.
PollEnter == /\ alive
             /\ \/ pc = "idle"
                \/ pc = "top" /\ running
             /\ pc' = "poll"
             /\ pollfds' = Snapshot
             /\ entries' = [k \in DOMAIN entries |-> [entries[k] EXCEPT !.fresh = FALSE]]
             /\ UNCHANGED <<alive, cap, entCap, pfdCap, running, dispatching, inRun, walk, active>>

\* Where poll_once returns to.  Its locals die, and what poll reported is
\* overwritten by the next snapshot before anyone looks at it again.
Back == IF inRun THEN "top" ELSE "idle"
ForgetRound == /\ pollfds' = <<>>
               /\ count' = 0 /\ i' = 0 /\ called' = {} /\ removed' = {}

\* poll fails: event_loop_run gives up too.
PollFails == /\ pc = "poll"
             /\ pc' = "idle"
             /\ inRun' = FALSE
             /\ running' = IF inRun THEN FALSE ELSE running
             /\ ForgetRound
             /\ UNCHANGED <<alive, entries, cap, entCap, pfdCap, dispatching, active>>

PollTimeout == /\ pc = "poll"
               /\ pc' = Back
               /\ ForgetRound
               /\ UNCHANGED <<alive, entries, cap, entCap, pfdCap, running, dispatching, inRun, active>>

\* poll reports something for at least one descriptor.
PollReady == /\ pc = "poll"
             /\ \E rv \in [1 .. Len(pollfds) -> UNION {Reports(pollfds[k]) : k \in DOMAIN pollfds}] :
                  /\ \A k \in DOMAIN pollfds : rv[k] \in Reports(pollfds[k])
                  /\ \E k \in DOMAIN pollfds : rv[k] # {}
                  /\ pollfds' = [k \in 1 .. Len(pollfds) |->
                                   [pollfds[k] EXCEPT !.revents = rv[k]]]
             /\ count' = Len(entries)
             /\ i' = 1
             /\ called' = {} /\ removed' = {}
             /\ dispatching' = TRUE
             /\ pc' = "dispatch"
             /\ UNCHANGED <<alive, entries, cap, entCap, pfdCap, running, inRun, active>>

DispatchSkip == /\ pc = "dispatch" /\ i <= count
                /\ entries[i].fd = Tombstone \/ Ready(i) = {}
                /\ i' = i + 1
                /\ UNCHANGED <<alive, arrays, running, dispatching, pc, inRun, count, called, removed, active>>

DispatchCall == /\ pc = "dispatch" /\ i <= count
                /\ entries[i].fd # Tombstone
                /\ Ready(i) # {}
                /\ active' = [fd |-> entries[i].fd, cb |-> entries[i].cb]
                /\ called' = called \cup {i}
                /\ pc' = "callback"
                /\ UNCHANGED <<alive, arrays, running, dispatching, inRun, count, i, removed>>

\* Mutant: one index is passed over after a callback that unregistered itself.
CallbackReturnsSkipping ==
    /\ pc = "callback"
    /\ active' = NULL
    /\ i' = IF entries[i].fd = Tombstone THEN i + 2 ELSE i + 1
    /\ pc' = "dispatch"
    /\ UNCHANGED <<alive, arrays, running, dispatching, inRun, count, called, removed>>

CallbackReturns == /\ pc = "callback"
                   /\ active' = NULL
                   /\ i' = i + 1
                   /\ pc' = "dispatch"
                   /\ UNCHANGED <<alive, arrays, running, dispatching, inRun, count, called, removed>>

\* compact: the entries that are no tombstones move down, in their order.
Compact(s) ==
    LET kept[k \in 0 .. Len(s)] ==
          IF k = 0 THEN <<>>
          ELSE IF s[k].fd # Tombstone THEN Append(kept[k - 1], s[k])
          ELSE kept[k - 1]
    IN  kept[Len(s)]

\* Mutant: compaction only looks at the entries that were polled.
DispatchEndsCompactingCount ==
    /\ pc = "dispatch" /\ i > count
    /\ dispatching' = FALSE
    /\ entries' = Compact(SubSeq(entries, 1, count))
    /\ pc' = Back
    /\ ForgetRound
    /\ UNCHANGED <<alive, cap, entCap, pfdCap, running, inRun, active>>

DispatchEnds == /\ pc = "dispatch" /\ i > count
                /\ dispatching' = FALSE
                /\ entries' = Compact(entries)
                /\ pc' = Back
                /\ ForgetRound
                /\ UNCHANGED <<alive, cap, entCap, pfdCap, running, inRun, active>>

-----------------------------------------------------------------------------
Operate == \E fd \in Fds : \/ AddNoMem(fd)
                           \/ \E m \in Masks, c \in Callbacks : AddOk(fd, m, c)
                           \/ \E m \in Masks : Mod(fd, m)
                           \/ Remove(fd)

LoopStep == /\ \/ RunReturns
               \/ PollEnter \/ PollFails \/ PollTimeout \/ PollReady
               \/ DispatchSkip \/ DispatchCall \/ CallbackReturns \/ DispatchEnds
            /\ op' = NULL

Next == \/ (Create \/ Destroy \/ Stop \/ Run) /\ op' = NULL
        \/ Operate
        \/ LoopStep

Spec == Init /\ [][Next]_vars

\* event_loop_run polls with a timeout, so poll returns; callbacks return.
Fairness == WF_vars(inRun /\ LoopStep)

FairSpec == Spec /\ Fairness

-----------------------------------------------------------------------------
(* Properties *)

TypeOK ==
    /\ alive \in BOOLEAN /\ running \in BOOLEAN /\ dispatching \in BOOLEAN /\ inRun \in BOOLEAN
    /\ entries \in Seq([fd : Fds \cup {Tombstone}, events : Masks, cb : Callbacks,
                        fresh : BOOLEAN])
    /\ pollfds \in Seq([fd : Fds, events : SUBSET {"IN", "OUT"},
                        revents : SUBSET {"IN", "OUT", "HUP", "NVAL"}])
    /\ pc \in {"idle", "top", "poll", "dispatch", "callback"}
    /\ count \in 0 .. MaxCap /\ i \in 0 .. MaxCap + 1
    /\ called \subseteq 1 .. MaxCap /\ removed \subseteq Fds

(***************************************************************************)
(* Both arrays have room for every entry: the store of a new entry and the *)
(* writes of the next snapshot stay inside their allocations, also after a *)
(* realloc of only one of them succeeded.                                  *)
(***************************************************************************)
InBounds == TypeOK /\ Len(entries) <= cap /\ cap <= entCap /\ cap <= pfdCap

(***************************************************************************)
(* The arrays stay in index lockstep under the dispatch walk: whatever     *)
(* callbacks do, slot k still holds the registration poll looked at, or a  *)
(* tombstone.  A descriptor that was removed and registered anew (perhaps  *)
(* a reused fd number) never inherits the old readiness.                   *)
(***************************************************************************)
Lockstep ==
    dispatching =>
      \A k \in 1 .. count :
        /\ k <= Len(entries)
        /\ \/ entries[k].fd = Tombstone
           \/ entries[k].fd = pollfds[k].fd /\ ~entries[k].fresh

(***************************************************************************)
(* A round misses nobody and invents nobody: of the polled descriptors     *)
(* walked past, exactly the ready ones were called, except those a         *)
(* callback removed before their turn.                                     *)
(***************************************************************************)
RoundIsComplete ==
    dispatching =>
      \A k \in 1 .. count :
        /\ k \in called => Ready(k) # {} /\ k <= i
        /\ k < i /\ Ready(k) # {} /\ k \notin called => pollfds[k].fd \in removed

(***************************************************************************)
(* Between rounds event_loop_count is the number of registered             *)
(* descriptors (event_loop.h: "Number of currently registered              *)
(* descriptors"): no tombstone outlives a round, and poll is never given   *)
(* the fd -1.  Inside a callback it may still count removed ones.          *)
(***************************************************************************)
CountBetweenRounds ==
    alive /\ ~dispatching =>
      Count = Cardinality({entries[k].fd : k \in DOMAIN entries} \ {Tombstone})

(***************************************************************************)
(* event_loop.c: whatever callbacks add, modify and remove during the walk *)
(* over the arrays, the arrays stay in bounds and in lockstep, each round  *)
(* is complete, and no tombstone outlives it.                              *)
(***************************************************************************)
WalkIsSound == InBounds /\ Lockstep /\ RoundIsComplete /\ CountBetweenRounds

(***************************************************************************)
(* After event_loop_stop, event_loop_run returns, whatever callbacks did   *)
(* before.                                                                 *)
(***************************************************************************)
StopReturns == inRun /\ ~running ~> ~inRun

-----------------------------------------------------------------------------
(* Refinement: the arrays implement a map of registrations. *)

Live == {k \in DOMAIN entries : entries[k].fd # Tombstone}

Reg == [fd \in {entries[k].fd : k \in Live} |->
          [events |-> entries[FindIndex(fd)].events, cb |-> entries[FindIndex(fd)].cb]]

Registry == INSTANCE FdRegistry WITH reg <- Reg

(***************************************************************************)
(* Tombstones, swap-with-last removal, compaction and growth are invisible *)
(* to the users of the loop: they see a map, and callbacks run only for a  *)
(* descriptor registered when they start, with the callback given for it.  *)
(***************************************************************************)
ImplementsRegistry == Registry!Spec
=============================================================================
