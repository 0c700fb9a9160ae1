----------------------------- MODULE FdRegistry -----------------------------
(***************************************************************************)
(* What an event loop promises about registrations: a map from descriptors *)
(* to an interest mask and a callback.  A descriptor is registered at most *)
(* once, and a callback is only ever invoked for a descriptor that is      *)
(* registered at that moment, with the callback it is registered with.     *)
(***************************************************************************)
CONSTANTS Fds, Masks, Callbacks, NULL

VARIABLES alive,    \* the loop exists
          reg,      \* descriptor -> [events, cb], for the registered ones
          active,   \* the callback being run, or NULL
          op        \* the operation a user just performed, or NULL

vars == <<alive, reg, active, op>>

Entry(m, c) == [events |-> m, cb |-> c]
Registered == DOMAIN reg

Init == /\ alive = FALSE
        /\ reg = [fd \in {} |-> NULL]
        /\ active = NULL
        /\ op = NULL

\* Registrations change only because a user asked for it.
Asked(name, fd) == op' = [name |-> name, fd |-> fd]

Add(fd, m, c) == /\ fd \notin Registered
                 /\ reg' = [f \in Registered \cup {fd} |->
                              IF f = fd THEN Entry(m, c) ELSE reg[f]]
                 /\ Asked("add", fd)
                 /\ UNCHANGED <<alive, active>>

Mod(fd, m) == /\ fd \in Registered
              /\ reg' = [reg EXCEPT ![fd].events = m]
              /\ Asked("mod", fd)
              /\ UNCHANGED <<alive, active>>

Remove(fd) == /\ fd \in Registered
              /\ reg' = [f \in Registered \ {fd} |-> reg[f]]
              /\ Asked("remove", fd)
              /\ UNCHANGED <<alive, active>>

\* Out of memory: the registrations are as before.
Refused(fd) == /\ fd \notin Registered
               /\ Asked("refused", fd)
               /\ UNCHANGED <<alive, reg, active>>

Notify(fd) == /\ active = NULL
              /\ fd \in Registered
              /\ active' = [fd |-> fd, cb |-> reg[fd].cb]
              /\ op' = NULL
              /\ UNCHANGED <<alive, reg>>

Done == /\ active # NULL
        /\ active' = NULL
        /\ op' = NULL
        /\ UNCHANGED <<alive, reg>>

Create == /\ ~alive
          /\ alive' = TRUE
          /\ op' = NULL
          /\ UNCHANGED <<reg, active>>

\* Destroying the loop, outside any callback, forgets every registration.
Destroy == /\ alive
           /\ active = NULL
           /\ alive' = FALSE
           /\ reg' = [fd \in {} |-> NULL]
           /\ op' = NULL
           /\ UNCHANGED active

\* Whatever else the loop does does not show.
Work == /\ op' = NULL
        /\ UNCHANGED <<alive, reg, active>>

Next == \/ \E fd \in Fds : \/ \E m \in Masks, c \in Callbacks : Add(fd, m, c)
                           \/ \E m \in Masks : Mod(fd, m)
                           \/ Remove(fd) \/ Refused(fd) \/ Notify(fd)
        \/ Done \/ Create \/ Destroy \/ Work

Spec == Init /\ [][Next]_vars
=============================================================================
