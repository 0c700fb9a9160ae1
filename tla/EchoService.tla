----------------------------- MODULE EchoService -----------------------------
(***************************************************************************)
(* The client and the two servers of src/examples that compose the         *)
(* networking module with the thread pool (echo_server_demo.c) and with    *)
(* the event loop (evloop_server_demo.c).  Both servers run the same       *)
(* exchange; "mode" says which one a behaviour shows.                      *)
(*                                                                         *)
(* The pool appears as what JobExecutor promises of it and the loop as     *)
(* what FdRegistry and EventLoop do: a round calls the registrations that  *)
(* were ready at the poll and are still registered.                        *)
(***************************************************************************)
EXTENDS StreamSocket

CONSTANTS Workers,   \* the threads of the pool
          MsgLen,    \* client -> length of its message
          SrvBuf,    \* size of the servers' receive buffer, 1024 in the code
          CliBuf     \* size of the client's receive buffer, 1024 in the code

VARIABLES mode,      \* "pool" or "loop"
          main,      \* where the server's main is
          lfd, cfd,  \* the descriptors of listener and of the client just accepted
          structs,   \* TcpSockets the pool server has allocated
          jobs,      \* descriptors submitted to the pool, not started
          hand,      \* server thread -> the client it handles
          reg,       \* the loop's registrations
          round,     \* ready registrations the loop's round has yet to call
          cpc, got, code   \* per client: place, bytes echoed, exit code

Main == "main"
Threads == Workers \cup {Main}

ASSUME NamesAssumption == /\ Clients \cap (Threads \cup {Server}) = {}
                          /\ Main \notin Workers
ASSUME SizesAssumption == MsgLen \in [Clients -> Nat] /\ SrvBuf \in Nat /\ CliBuf \in Nat \ {0}

server == <<mode, main, lfd, cfd, structs, jobs, hand, reg, round>>
clients == <<cpc, got, code>>
vars == <<kernel, call, server, clients>>

Message(c) == [k \in 1 .. MsgLen[c] |-> <<c, k>>]
NoJob == [pc |-> "idle", fd |-> NoFd]

Init == /\ SocketInit(Clients \cup Threads)
        /\ mode \in {"pool", "loop"}
        /\ main = "listen" /\ lfd = NoFd /\ cfd = NoFd
        /\ structs = 0 /\ jobs = <<>>
        /\ hand = [t \in Threads |-> NoJob]
        /\ reg = {} /\ round = {}
        /\ cpc = [c \in Clients |-> "start"]
        /\ got = [c \in Clients |-> <<>>]
        /\ code = [c \in Clients |-> NoFd]

-----------------------------------------------------------------------------
(* echo_client_demo.c *)

Connected(c) == \E d \in 1 .. MaxFd : file[c][d] = ClientEnd(c)
ClientSock(c) == Lowest({d \in 1 .. MaxFd : file[c][d] = ClientEnd(c)})
ClientGoes(c, to) == cpc' = [cpc EXCEPT ![c] = to] /\ UNCHANGED <<got, code>>
ClientCalls(c, r) == call' = [call EXCEPT ![c] = r]

ClientStart(c) == /\ cpc[c] = "start"
                  /\ TcpConnect(c)
                  /\ ClientGoes(c, "connecting")

\* tcp_connect returned: the whole message is sent before anything is read.
ClientConnected(c) ==
    /\ cpc[c] = "connecting" /\ call[c].op = "answer"
    /\ IF call[c].err = "OK"
         THEN ClientGoes(c, "sending") /\ ClientCalls(c, Sending(call[c].fd, Message(c)))
         ELSE ClientGoes(c, "close") /\ ClientCalls(c, Idle)
    /\ UNCHANGED kernel

ClientSent(c) ==
    /\ cpc[c] = "sending" /\ call[c].op = "answer"
    /\ ClientGoes(c, IF call[c].err = "OK" THEN "reading" ELSE "close")
    /\ ClientCalls(c, Idle)
    /\ UNCHANGED kernel

ClientReads(c) ==
    /\ cpc[c] = "reading"
    /\ Len(got[c]) < MsgLen[c]
    /\ \E a \in RecvAnswers(ClientEnd(c), CliBuf - 1 - Len(got[c])) :
         /\ Receive(ClientEnd(c), a)
         /\ got' = [got EXCEPT ![c] = @ \o a.data]
         /\ cpc' = [cpc EXCEPT ![c] = IF a.data = <<>> THEN "close" ELSE "reading"]
    /\ UNCHANGED <<call, code>>

ClientHasAll(c) == /\ cpc[c] = "reading" /\ Len(got[c]) = MsgLen[c]
                   /\ ClientGoes(c, "close")
                   /\ UNCHANGED <<kernel, call>>

ClientExits(c) ==
    /\ cpc[c] = "close"
    /\ IF Connected(c) THEN Close(c, ClientSock(c)) ELSE UNCHANGED kernel
    /\ cpc' = [cpc EXCEPT ![c] = "exit"]
    /\ code' = [code EXCEPT ![c] = IF Len(got[c]) = MsgLen[c] THEN 0 ELSE 1]
    /\ UNCHANGED <<call, got>>

ClientStep(c) ==
    /\ \/ /\ \/ NextAddress(c) \/ ConnectOk(c) \/ ConnectRefused(c)
             \/ SendStep(c)
          /\ UNCHANGED clients
       \/ ClientStart(c) \/ ClientConnected(c) \/ ClientSent(c)
       \/ ClientReads(c) \/ ClientHasAll(c) \/ ClientExits(c)
    /\ UNCHANGED server

-----------------------------------------------------------------------------
(* Serving one client: handle_client of the pool server, on_client of the   *)
(* loop server                                                               *)

Handle(t, to) == hand' = [hand EXCEPT ![t] = to]

\* Mutant: the end of the stream is taken for "nothing yet".
AfterRecvRetries(a) == IF a.err # "OK" THEN "close" ELSE IF a.data = <<>> THEN "recv" ELSE "send"

AfterRecv(a) == IF a.err # "OK" \/ a.data = <<>> THEN "close" ELSE "send"

\* tcp_recv, and tcp_send_all of what it returned.
HandlerReads(t) ==
    /\ hand[t].pc = "recv"
    /\ \E a \in RecvAnswers(file[Server][hand[t].fd], SrvBuf) :
         /\ Receive(file[Server][hand[t].fd], a)
         /\ Handle(t, [hand[t] EXCEPT !.pc = AfterRecv(a)])
         /\ call' = IF a.data = <<>> THEN call
                    ELSE [call EXCEPT ![t] = Sending(hand[t].fd, a.data)]
    /\ UNCHANGED <<mode, main, lfd, cfd, structs, jobs, reg, round>>

\* A worker goes on with its client; the loop's callback returns.
HandlerSent(t) ==
    /\ hand[t].pc = "send" /\ call[t].op = "answer"
    /\ call' = [call EXCEPT ![t] = Idle]
    /\ Handle(t, IF call[t].err # "OK" THEN [hand[t] EXCEPT !.pc = "close"]
                 ELSE IF mode = "pool" THEN [hand[t] EXCEPT !.pc = "recv"] ELSE NoJob)
    /\ UNCHANGED <<kernel, mode, main, lfd, cfd, structs, jobs, reg, round>>

\* event_loop_remove
Without(fd) == {r \in reg : r.fd # fd}

HandlerCloses(t) ==
    /\ hand[t].pc = "close"
    /\ Close(Server, hand[t].fd)
    /\ IF mode = "pool" THEN structs' = structs - 1 /\ UNCHANGED reg
                        ELSE reg' = Without(hand[t].fd) /\ UNCHANGED structs
    /\ Handle(t, NoJob)
    /\ UNCHANGED <<call, mode, main, lfd, cfd, jobs, round>>

HandlerStep(t) == /\ \/ HandlerReads(t) \/ HandlerSent(t) \/ HandlerCloses(t)
                     \/ SendStep(t) /\ UNCHANGED server
                  /\ UNCHANGED clients

-----------------------------------------------------------------------------
(* main of both servers *)

Goes(to) == main' = to

Listen == /\ main = "listen"
          /\ \E fd \in {NoFd} \cup FreeFds(Server) : TcpListenHost(fd) /\ lfd' = fd
          /\ Goes(IF lfd' = NoFd THEN "exit" ELSE "create")
          /\ UNCHANGED <<cfd, structs, jobs, hand, reg, round>>

\* thread_pool_create, or event_loop_create and event_loop_add of the listener.
Create == /\ main = "create"
          /\ \/ Goes("close") /\ UNCHANGED reg
             \/ /\ Goes(IF mode = "pool" THEN "malloc" ELSE "poll")
                /\ reg' = IF mode = "pool" THEN reg ELSE {[fd |-> lfd, id |-> Listener]}
          /\ UNCHANGED <<kernel, lfd, cfd, structs, jobs, hand, round>>

CloseListener == /\ main = "close"
                 /\ Close(Server, lfd)
                 /\ lfd' = NoFd
                 /\ Goes("exit")
                 /\ UNCHANGED <<cfd, structs, jobs, hand, reg, round>>

\* The pool server: allocate, accept, submit; any failure ends the loop.
Malloc == /\ main = "malloc"
          /\ \/ Goes("accept") /\ structs' = structs + 1
             \/ Goes("drain") /\ UNCHANGED structs
          /\ UNCHANGED <<kernel, lfd, cfd, jobs, hand, reg, round>>

Accept == /\ main = "accept"
          /\ \E fd \in {NoFd} \cup FreeFds(Server) : TcpAccept(fd) /\ cfd' = fd
          /\ IF cfd' = NoFd THEN Goes("drain") /\ structs' = structs - 1
                            ELSE Goes("submit") /\ UNCHANGED structs
          /\ UNCHANGED <<lfd, jobs, hand, reg, round>>

SubmitOk == /\ main = "submit"
            /\ jobs' = Append(jobs, cfd)
            /\ cfd' = NoFd
            /\ Goes("malloc")
            /\ UNCHANGED <<kernel, lfd, structs, hand, reg, round>>

\* Mutant: the client of a refused job is freed and not closed.
SubmitFailsOpen == /\ main = "submit"
                   /\ structs' = structs - 1
                   /\ cfd' = NoFd
                   /\ Goes("drain")
                   /\ UNCHANGED <<kernel, lfd, jobs, hand, reg, round>>

SubmitFails == /\ main = "submit"
               /\ Close(Server, cfd)
               /\ structs' = structs - 1
               /\ cfd' = NoFd
               /\ Goes("drain")
               /\ UNCHANGED <<lfd, jobs, hand, reg, round>>

\* thread_pool_destroy: every submitted job is finished first.
Drained == /\ main = "drain"
           /\ jobs = <<>> /\ \A w \in Workers : hand[w] = NoJob
           /\ Goes("close")
           /\ UNCHANGED <<kernel, lfd, cfd, structs, jobs, hand, reg, round>>

\* A worker of the pool takes the oldest job.
StartJob(w) == /\ hand[w] = NoJob /\ jobs # <<>>
               /\ Handle(w, [pc |-> "recv", fd |-> Head(jobs)])
               /\ jobs' = Tail(jobs)
               /\ UNCHANGED <<kernel, main, lfd, cfd, structs, reg, round>>

\* The loop server: event_loop_poll_once in event_loop_run.  When poll fails
\* main destroys the loop; open clients are left to the end of the process.
Poll == /\ main = "poll" /\ round = {} /\ hand[Main] = NoJob
        /\ \/ /\ round' = {r \in reg : file[Server][r.fd] # Free /\ Readable(file[Server][r.fd])}
              /\ round' # {}
              /\ UNCHANGED <<main, reg>>
           \/ Goes("close") /\ reg' = {} /\ UNCHANGED round
        /\ UNCHANGED <<kernel, lfd, cfd, structs, jobs, hand>>

Registered(r) == r \in reg

\* The next entry r of the round, which FdRegistry lets be any: on_client, or
\* nothing if it was removed.
DispatchClient(r) ==
    /\ hand[Main] = NoJob
    /\ r.id # Listener
    /\ IF Registered(r) THEN Handle(Main, [pc |-> "recv", fd |-> r.fd]) ELSE UNCHANGED hand
    /\ round' = round \ {r}
    /\ UNCHANGED <<kernel, main, lfd, cfd, structs, jobs, reg>>

\* on_accept: tcp_accept and event_loop_add, which refuses a registered fd.
OnAccept(r) == /\ hand[Main] = NoJob
               /\ r.id = Listener
               /\ \E fd \in {NoFd} \cup FreeFds(Server) : TcpAccept(fd) /\ cfd' = fd
               /\ round' = round \ {r}
               /\ Goes(IF cfd' = NoFd THEN "poll" ELSE "add")
               /\ UNCHANGED <<lfd, structs, jobs, hand, reg>>

Add == /\ main = "add"
       /\ \/ /\ \A r \in reg : r.fd # cfd
             /\ reg' = reg \cup {[fd |-> cfd, id |-> file[Server][cfd]]}
             /\ UNCHANGED kernel
          \/ Close(Server, cfd) /\ UNCHANGED reg
       /\ cfd' = NoFd
       /\ Goes("poll")
       /\ UNCHANGED <<lfd, structs, jobs, hand, round>>

MainStep == /\ \/ Listen \/ Create \/ CloseListener
               \/ Malloc \/ Accept \/ SubmitOk \/ SubmitFails \/ Drained
               \/ (main = "poll" /\ \E r \in round : DispatchClient(r) \/ OnAccept(r))
               \/ Poll \/ Add
            /\ UNCHANGED <<mode, call, clients>>

WorkerStep(w) == \/ StartJob(w) /\ UNCHANGED <<mode, call, clients>>
                 \/ HandlerStep(w)

\* Leaving main ends the process: the kernel closes what is still open.
ServerOpen == {file[Server][d] : d \in 1 .. MaxFd} \cap Ends
Exit == /\ main = "exit"
        /\ main' = "gone"
        /\ file' = [file EXCEPT ![Server] = [d \in 1 .. MaxFd |-> Free]]
        /\ shut' = shut \cup ServerOpen
        /\ broken' = broken \cup {e[1] : e \in {x \in ServerOpen : wire[x] # <<>>}}
        /\ UNCHANGED <<backlog, wire, call, mode, lfd, cfd, structs, jobs, hand, reg, round, clients>>

AllExited == \A c \in Clients : cpc[c] = "exit"

Next == \/ \E c \in Clients : ClientStep(c) \/ (Reset(c) /\ UNCHANGED <<server, clients>>)
        \/ MainStep \/ HandlerStep(Main) \/ Exit
        \/ \E w \in Workers : WorkerStep(w)
        \/ AllExited /\ UNCHANGED vars

Spec == Init /\ [][Next]_vars

\* Every process and every thread keeps running; a blocked call goes on once
\* the kernel can serve it; accept does not fail for ever (the loop server
\* tries again in every round).
ServerStep == MainStep \/ HandlerStep(Main) \/ Exit
AcceptOk == (\E r \in round : OnAccept(r)) /\ cfd' # NoFd /\ UNCHANGED <<mode, call, clients>>

Fairness == /\ \A c \in Clients : WF_vars(ClientStep(c))
            /\ WF_vars(ServerStep)
            /\ \A w \in Workers : WF_vars(WorkerStep(w))
            /\ SF_vars(AcceptOk)

FairSpec == Spec /\ Fairness

-----------------------------------------------------------------------------
(* Properties *)

\* The bytes of client c a server thread has read and not passed to send.
InHand(c) == LET ts == {t \in Threads : call[t].op = "send" /\ EndOf(t) = ServerEnd(c)}
             IN IF ts = {} THEN <<>> ELSE Unsent(CHOOSE t \in ts : TRUE)

LeftClient(c) == IF cpc[c] \in {"start", "connecting"} THEN 0
                 ELSE IF call[c].op = "send" THEN call[c].sent ELSE MsgLen[c]

(***************************************************************************)
(* socket.c, tcp_send_all and tcp_recv: as long as a connection holds,     *)
(* what its client has read, what is on its way in either direction and    *)
(* what the server has in hand are together exactly the bytes the client   *)
(* sent, each once and in order, however the transfers were cut up; no     *)
(* client ever reads a byte of another or one out of place, and exit code  *)
(* 0 means that all of the message came back.                              *)
(***************************************************************************)
EchoIsExact ==
    \A c \in Clients :
      /\ got[c] = SubSeq(Message(c), 1, Len(got[c]))
      /\ Len(got[c]) < CliBuf
      /\ Connected(c) /\ c \notin broken /\ ServerEnd(c) \notin shut =>
           got[c] \o wire[ClientEnd(c)] \o InHand(c) \o wire[ServerEnd(c)]
             = SubSeq(Message(c), 1, LeftClient(c))
      /\ code[c] = 0 => got[c] = Message(c)

\* The descriptors the variables of the server know.
Held == {lfd, cfd} \cup {jobs[k] : k \in DOMAIN jobs} \cup {hand[t].fd : t \in Threads}
        \cup {r.fd : r \in reg}

(***************************************************************************)
(* Every open descriptor is known to somebody who will close it, and every *)
(* descriptor the servers keep is open: none is lost on the way through    *)
(* failing connects, accepts, submits and registrations, and none is used  *)
(* after it was closed and perhaps given to another connection.  The pool  *)
(* server owns one TcpSocket for each client it handles.                   *)
(***************************************************************************)
NoDescriptorLost ==
    /\ main \notin (IF mode = "pool" THEN {"gone"} ELSE {"close", "exit", "gone"}) =>
         {d \in 1 .. MaxFd : file[Server][d] # Free} = Held \ {NoFd}
    /\ \A c \in Clients : cpc[c] = "exit" => FreeFds(c) = 1 .. MaxFd
    /\ mode = "pool" => structs = Cardinality(ServerOpen) + (IF main = "accept" THEN 1 ELSE 0)

(***************************************************************************)
(* Every client comes to an end, whatever fails, as long as its message    *)
(* fits into the buffers of both directions and of the server: it sends    *)
(* all of it before it reads, and a server that cannot send does not read. *)
(***************************************************************************)
ClientsFinish == \A c \in Clients : <>(cpc[c] = "exit")
=============================================================================
