---------------------------- MODULE StreamSocket ----------------------------
(***************************************************************************)
(* src/src/networking/socket.c, and the connection half of unix_socket.c,  *)
(* which wraps the same helpers: descriptors, connections and the byte     *)
(* streams between a server process and its clients.                       *)
(*                                                                         *)
(* The kernel is external.  It gives out the lowest free descriptor, takes *)
(* or returns any part of what it is asked to transfer, and may reset a    *)
(* connection at any time.  A system call interrupted by a signal (EINTR)  *)
(* is repeated by every loop of the code with unchanged arguments, so it   *)
(* leaves no trace in the state.                                           *)
(***************************************************************************)
EXTENDS Integers, Sequences, FiniteSets

CONSTANTS Clients,    \* client processes; each opens one connection
          KernelBuf,  \* bytes the kernel holds in one direction of a connection
          NAddrs,     \* a host name resolves to at most this many addresses
          MaxFd       \* the descriptors of a process are 1 .. MaxFd

ASSUME SocketAssumption == NAddrs \in Nat /\ MaxFd \in Nat

VARIABLES file,     \* process -> descriptor -> what it refers to
          backlog,  \* clients whose connection waits for accept
          wire,     \* endpoint -> bytes that arrived there and were not read
          shut,     \* endpoints closed by their owner
          broken,   \* clients whose connection was reset
          call      \* thread -> the library call it is in, or its answer

kernel == <<file, backlog, wire, shut, broken>>

Server == "server"
Free == <<"free">>
Unbound == <<"unbound">>      \* a socket that is not connected yet
Listener == <<"listener">>
NoFd == -1

ClientEnd(c) == <<c, "client">>
ServerEnd(c) == <<c, "server">>
Ends == Clients \X {"client", "server"}
Peer(e) == IF e[2] = "client" THEN ServerEnd(e[1]) ELSE ClientEnd(e[1])

Process(t) == IF t \in Clients THEN t ELSE Server

Idle == [op |-> "none"]
Answer(err) == [op |-> "answer", err |-> err, fd |-> NoFd]

SocketInit(threads) ==
    /\ file = [p \in Clients \cup {Server} |-> [d \in 1 .. MaxFd |-> Free]]
    /\ backlog = <<>>
    /\ wire = [e \in Ends |-> <<>>]
    /\ shut = {} /\ broken = {}
    /\ call = [t \in threads |-> Idle]

-----------------------------------------------------------------------------
(* Descriptors *)

FreeFds(p) == {d \in 1 .. MaxFd : file[p][d] = Free}
Lowest(ds) == CHOOSE d \in ds : \A x \in ds : d <= x

\* nw_socket and nw_accept_intr: a descriptor of process p for "what".
Opened(p, what) == [file EXCEPT ![p][Lowest(FreeFds(p))] = what]

Listening == \E d \in 1 .. MaxFd : file[Server][d] = Listener

\* close(fd).  Closing an endpoint with unread data resets its connection,
\* and closing the listener the connections nobody accepted.
Close(p, d) ==
    LET w == file[p][d]
    IN /\ file' = [file EXCEPT ![p][d] = Free]
       /\ shut' = IF w \in Ends THEN shut \cup {w} ELSE shut
       /\ broken' = IF w = Listener THEN broken \cup {backlog[k] : k \in DOMAIN backlog}
                    ELSE IF w \in Ends /\ wire[w] # <<>> THEN broken \cup {w[1]} ELSE broken
       /\ backlog' = IF w = Listener THEN <<>> ELSE backlog
       /\ UNCHANGED wire

\* tcp_listen_host: any of its system calls may fail; a socket that could
\* not be bound is closed again.
TcpListenHost(fd) ==
    /\ \/ fd = NoFd /\ UNCHANGED file
       \/ /\ FreeFds(Server) # {}
          /\ fd = Lowest(FreeFds(Server))
          /\ file' = Opened(Server, Listener)
    /\ UNCHANGED <<backlog, wire, shut, broken>>

\* tcp_accept, on a listener with a connection waiting.
TcpAccept(fd) ==
    /\ backlog # <<>>
    /\ \/ fd = NoFd /\ UNCHANGED <<file, backlog>>
       \/ /\ FreeFds(Server) # {}
          /\ fd = Lowest(FreeFds(Server))
          /\ file' = Opened(Server, ServerEnd(Head(backlog)))
          /\ backlog' = Tail(backlog)
    /\ UNCHANGED <<wire, shut, broken>>

-----------------------------------------------------------------------------
(* tcp_connect: the addresses of the host are tried one after the other *)

TcpConnect(t) ==
    /\ \/ call' = [call EXCEPT ![t] = Answer("NOT_FOUND")]
       \/ \E n \in 1 .. NAddrs :
            call' = [call EXCEPT ![t] = [op |-> "connect", left |-> n, fd |-> NoFd]]
    /\ UNCHANGED kernel

\* The next address: a socket for it, or (socket fails) on to the one after it.
NextAddress(t) ==
    /\ call[t].op = "connect" /\ call[t].fd = NoFd
    /\ \/ /\ call[t].left = 0
          /\ call' = [call EXCEPT ![t] = Answer("IO")]
          /\ UNCHANGED file
       \/ /\ call[t].left > 0
          /\ call' = [call EXCEPT ![t].left = @ - 1]
          /\ UNCHANGED file
       \/ /\ call[t].left > 0
          /\ FreeFds(t) # {}
          /\ file' = Opened(t, Unbound)
          /\ call' = [call EXCEPT ![t].left = @ - 1, ![t].fd = Lowest(FreeFds(t))]
    /\ UNCHANGED <<backlog, wire, shut, broken>>

ConnectOk(t) ==
    /\ call[t].op = "connect" /\ call[t].fd # NoFd
    /\ Listening
    /\ file' = [file EXCEPT ![t][call[t].fd] = ClientEnd(t)]
    /\ backlog' = Append(backlog, t)
    /\ call' = [call EXCEPT ![t] = [Answer("OK") EXCEPT !.fd = call[t].fd]]
    /\ UNCHANGED <<wire, shut, broken>>

ConnectRefused(t) ==
    /\ call[t].op = "connect" /\ call[t].fd # NoFd
    /\ Close(t, call[t].fd)
    /\ call' = [call EXCEPT ![t].fd = NoFd]

-----------------------------------------------------------------------------
(* tcp_send_all and tcp_recv *)

\* Calling tcp_send_all(fd, buf) with a non-empty buf.
Sending(fd, buf) == [op |-> "send", fd |-> fd, buf |-> buf, sent |-> 0]

EndOf(t) == file[Process(t)][call[t].fd]
Unsent(t) == SubSeq(call[t].buf, call[t].sent + 1, Len(call[t].buf))
Room(e) == KernelBuf - Len(wire[Peer(e)])

\* Mutant: a short send is taken for a complete one.
AdvanceAll(t, n) == Len(call[t].buf)

Advance(t, n) == call[t].sent + n

\* send(2) takes n bytes; bytes for a closed peer are dropped.
SendSome(t) ==
    /\ call[t].op = "send"
    /\ EndOf(t)[1] \notin broken
    /\ \E n \in 1 .. Len(Unsent(t)) :
         /\ wire' = IF Peer(EndOf(t)) \in shut THEN wire
                    ELSE [wire EXCEPT ![Peer(EndOf(t))] = @ \o SubSeq(Unsent(t), 1, n)]
         /\ Peer(EndOf(t)) \in shut \/ n <= Room(EndOf(t))
         /\ call' = [call EXCEPT ![t] = IF Advance(t, n) = Len(@.buf) THEN Answer("OK")
                                        ELSE [@ EXCEPT !.sent = Advance(t, n)]]
    /\ UNCHANGED <<file, backlog, shut, broken>>

\* The connection is gone: some of the bytes may have left.
SendFails(t) ==
    /\ call[t].op = "send"
    /\ EndOf(t)[1] \in broken \/ Peer(EndOf(t)) \in shut
    /\ call' = [call EXCEPT ![t] = Answer("IO")]
    /\ UNCHANGED kernel

SendStep(t) == SendSome(t) \/ SendFails(t)

\* What tcp_recv may answer on endpoint e with a buffer of cap bytes: an
\* error, a clean end of the stream, or some bytes; none while it blocks.
RecvAnswers(e, cap) ==
    IF cap = 0 THEN {[err |-> "INVALID_ARG", data |-> <<>>]}
    ELSE IF e[1] \in broken THEN {[err |-> "IO", data |-> <<>>]}
    ELSE IF wire[e] = <<>> /\ Peer(e) \in shut THEN {[err |-> "OK", data |-> <<>>]}
    ELSE {[err |-> "OK", data |-> SubSeq(wire[e], 1, n)] : n \in (1 .. cap) \cap (1 .. Len(wire[e]))}

Receive(e, a) == /\ wire' = [wire EXCEPT ![e] = SubSeq(@, Len(a.data) + 1, Len(@))]
                 /\ UNCHANGED <<file, backlog, shut, broken>>

\* Whether poll reports the descriptor as readable.
Readable(w) == IF w = Listener THEN backlog # <<>>
               ELSE w[1] \in broken \/ wire[w] # <<>> \/ Peer(w) \in shut

\* The network: a connection is lost, with what was on its way.
Reset(c) == /\ \E d \in 1 .. MaxFd : file[c][d] = ClientEnd(c)
            /\ c \notin broken
            /\ broken' = broken \cup {c}
            /\ wire' = [e \in Ends |-> IF e[1] = c THEN <<>> ELSE wire[e]]
            /\ UNCHANGED <<file, backlog, shut, call>>
=============================================================================
