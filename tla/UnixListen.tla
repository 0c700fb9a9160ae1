----------------------------- MODULE UnixListen -----------------------------
(***************************************************************************)
(* unix_listen, unix_connect and unix_close of                             *)
(* src/src/networking/unix_socket.c, called by several processes with one  *)
(* path.  The path is looked at, cleared, bound and chmod-ed in separate   *)
(* system calls, and the socket file outlives its listener.  Every system  *)
(* call may fail for a reason of its own; the failures of lstat, unlink    *)
(* and chmod are ignored, those of bind and listen end the call.           *)
(*                                                                         *)
(* Files other than sockets are at the path from the start or never, and   *)
(* only unix_listen changes what the path names.                           *)
(***************************************************************************)
EXTENDS Integers, FiniteSets

CONSTANTS Procs, Nobody

VARIABLES entry,     \* what the path names: its kind, its owner, its mode
          upc,       \* process -> where its unix_listen is
          kfd,       \* processes that have a socket open
          listens,   \* processes whose socket is listening
          sfd,       \* processes whose UnixSocket holds the descriptor
          newest,    \* history: the process whose socket was bound last
          wasFile,   \* history: a file was at the path from the start
          faults     \* history: since newest was bound, has a "bind" of the free
                     \* path failed, has newest's "chmod"

vars == <<entry, upc, kfd, listens, sfd, newest, wasFile, faults>>

Missing == [kind |-> "none", owner |-> Nobody, private |-> FALSE]
SocketOf(p) == [kind |-> "socket", owner |-> p, private |-> FALSE]

\* The path is free, a file, or the socket of a server that is gone.
Init == /\ entry \in {Missing, [Missing EXCEPT !.kind = "file"], [Missing EXCEPT !.kind = "socket"]}
        /\ upc = [p \in Procs |-> "idle"]
        /\ kfd = {} /\ listens = {} /\ sfd = {}
        /\ newest = Nobody /\ wasFile = (entry.kind = "file") /\ faults = {}

At(p, from, to) == upc[p] = from /\ upc' = [upc EXCEPT ![p] = to]

\* The arguments are checked and the socket is made; s->fd = -1 first.
Begin(p) == /\ p \notin sfd
            /\ \/ At(p, "idle", "idle") /\ UNCHANGED kfd      \* INVALID_ARG, socket fails
               \/ At(p, "idle", "lstat") /\ kfd' = kfd \cup {p}
            /\ UNCHANGED <<entry, listens, sfd, newest, wasFile, faults>>

GiveUp(p) == kfd' = kfd \ {p}

\* Mutant: whatever is at the path is taken for a stale socket.
IsSocketAlways == TRUE

IsSocket == entry.kind = "socket"

\* A path that lstat fails on is taken for free.
Lstat(p) == /\ \/ At(p, "lstat", "bind") /\ UNCHANGED kfd          \* ENOENT, or lstat fails
               \/ entry # Missing /\ IsSocket /\ At(p, "lstat", "unlink") /\ UNCHANGED kfd
               \/ entry # Missing /\ ~IsSocket /\ At(p, "lstat", "idle") /\ GiveUp(p)
            /\ UNCHANGED <<entry, listens, sfd, newest, wasFile, faults>>

\* unlink removes what is there by now, perhaps another server's new socket,
\* or fails.
Unlink(p) == /\ At(p, "unlink", "bind")
             /\ entry' \in {entry, Missing}
             /\ UNCHANGED <<kfd, listens, sfd, newest, wasFile, faults>>

\* bind fails on a path that is taken, and may fail on one that is free.
BindFails(p) == /\ At(p, "bind", "idle")
                /\ GiveUp(p)
                /\ faults' = IF entry = Missing THEN faults \cup {"bind"} ELSE faults
                /\ UNCHANGED <<entry, listens, newest, sfd, wasFile>>

Bind(p) == \/ BindFails(p)
           \/ /\ entry = Missing
              /\ entry' = SocketOf(p)
              /\ newest' = p
              /\ faults' = {}
              /\ \/ At(p, "bind", "chmod") /\ listens' = listens \cup {p} /\ UNCHANGED kfd
                 \/ At(p, "bind", "idle") /\ GiveUp(p) /\ UNCHANGED listens  \* listen fails
              /\ UNCHANGED <<sfd, wasFile>>

\* chmod is by path as well, and unix_listen succeeds without it.
Chmod(p) == /\ At(p, "chmod", "idle")
            /\ sfd' = sfd \cup {p}
            /\ \/ /\ entry' = IF entry = Missing THEN entry ELSE [entry EXCEPT !.private = TRUE]
                  /\ UNCHANGED faults
               \/ /\ faults' = IF p = newest THEN faults \cup {"chmod"} ELSE faults
                  /\ UNCHANGED entry
            /\ UNCHANGED <<kfd, listens, newest, wasFile>>

\* unix_connect reaches whoever listens on the socket the path names.
Reaches == IF entry.kind = "socket" /\ entry.owner \in listens THEN entry.owner ELSE Nobody

\* unix_close leaves the socket file behind.
CloseListener(p) == /\ p \in sfd
                    /\ sfd' = sfd \ {p} /\ kfd' = kfd \ {p} /\ listens' = listens \ {p}
                    /\ UNCHANGED <<entry, upc, newest, wasFile, faults>>

Next == \E p \in Procs : \/ Begin(p) \/ Lstat(p) \/ Unlink(p) \/ Bind(p) \/ Chmod(p)
                         \/ CloseListener(p)

Spec == Init /\ [][Next]_vars

(***************************************************************************)
(* unix_socket.c: a file that is not a socket stays as it is; sockets are  *)
(* open exactly while a call is under way or a UnixSocket holds them; and  *)
(* when no call is in progress and the listener bound last is not closed,  *)
(* the path leads to it, with mode 0600: two servers that start at the     *)
(* same time may displace each other but not both be left without.  Only a *)
(* bind that fails of itself behind the unlink leaves the path empty, and  *)
(* only a failing chmod of that listener its mode as it was.               *)
(***************************************************************************)
PathIsSound ==
    /\ wasFile => entry = [Missing EXCEPT !.kind = "file"]
    /\ kfd = sfd \cup {p \in Procs : upc[p] # "idle"}
    /\ (\A p \in Procs : upc[p] = "idle") /\ newest \in sfd =>
         /\ Reaches = newest \/ (Reaches = Nobody /\ "bind" \in faults)
         /\ Reaches = newest => entry.private \/ "chmod" \in faults
=============================================================================
