---------------------------- MODULE NetworkProofs ----------------------------
(***************************************************************************)
(* Theorems about the networking module for any number of clients, workers *)
(* and descriptors: the echo programs of EchoService, the path of          *)
(* UnixListen and the datagrams of Udp.                                    *)
(***************************************************************************)
EXTENDS MCNetwork, FiniteSetTheorems, SequenceTheorems, WellFoundedInduction, TLAPS

-----------------------------------------------------------------------------
(* EchoService: the inductive invariant *)

Fd == 1 .. MaxFd
MaybeFd == Fd \cup {NoFd}
Thing == {Free, Unbound, Listener} \cup Ends
Byte == Clients \X Nat

AnswerRec == [op : {"answer"}, err : {"OK", "IO", "NOT_FOUND"}, fd : MaybeFd]
ConnectRec == [op : {"connect"}, left : Nat, fd : MaybeFd]
SendRec == [op : {"send"}, fd : Fd, buf : Seq(Byte), sent : Nat]
RegRec == [fd : Fd, id : Ends \cup {Listener}]

KernelTypes ==
    /\ file \in [Clients \cup {Server} -> [Fd -> Thing]]
    /\ backlog \in Seq(Clients)
    /\ wire \in [Ends -> Seq(Byte)]
    /\ shut \subseteq Ends /\ broken \subseteq Clients
    /\ call \in [Clients \cup Threads -> {Idle} \cup AnswerRec \cup ConnectRec \cup SendRec]

ServerTypes ==
    /\ mode \in {"pool", "loop"}
    /\ main \in {"listen", "create", "malloc", "accept", "submit", "drain", "poll", "add",
                 "close", "exit", "gone"}
    /\ lfd \in MaybeFd /\ cfd \in MaybeFd
    /\ structs \in Int /\ jobs \in Seq(Fd)
    /\ hand \in [Threads -> [pc : {"idle", "recv", "send", "close"}, fd : MaybeFd]]
    /\ reg \subseteq RegRec /\ round \subseteq RegRec

ClientTypes ==
    /\ cpc \in [Clients -> {"start", "connecting", "sending", "reading", "close", "exit"}]
    /\ got \in [Clients -> Seq(Byte)]
    /\ code \in [Clients -> {NoFd, 0, 1}]

(***************************************************************************)
(* The client: where it is fixes its one descriptor and its call.          *)
(***************************************************************************)
NoneOpen(f) == \A d \in Fd : f[d] = Free
IsOpen(f, d, w) == d \in Fd /\ f[d] = w
HasOpen(f, w) == \E d \in Fd : f[d] = w

ClientPlace(c, at, k, f) ==
    /\ \A d \in Fd : f[d] \in {Free, Unbound, ClientEnd(c)}
    /\ \A d, e \in Fd : f[d] # Free /\ f[e] # Free => d = e
    /\ at = "start" => k = Idle /\ NoneOpen(f)
    /\ at = "connecting" => \/ k.op = "connect" /\ k.fd = NoFd /\ NoneOpen(f)
                            \/ k.op = "connect" /\ IsOpen(f, k.fd, Unbound)
                            \/ k.op = "answer" /\ k.err # "OK" /\ NoneOpen(f)
                            \/ k.op = "answer" /\ k.err = "OK" /\ IsOpen(f, k.fd, ClientEnd(c))
    /\ at = "sending" => \/ /\ k.op = "send" /\ IsOpen(f, k.fd, ClientEnd(c))
                            /\ k.buf = Message(c) /\ k.sent <= MsgLen[c]
                         \/ k.op = "answer" /\ HasOpen(f, ClientEnd(c))
    /\ at = "reading" => k = Idle /\ HasOpen(f, ClientEnd(c))
    /\ at = "close" => k = Idle /\ \A d \in Fd : f[d] # Unbound
    /\ at = "exit" => k = Idle /\ NoneOpen(f)

ClientOf(c) == /\ ClientPlace(c, cpc[c], call[c], file[c])
               /\ ClientEnd(c) \in shut => cpc[c] = "exit"
               /\ cpc[c] \in {"start", "connecting", "sending"} => got[c] = <<>>

ClientSide == \A c \in Clients : ClientOf(c)

(***************************************************************************)
(* A connection: before it is made nothing of it exists; it is accepted    *)
(* once, and its server end closed once.                                   *)
(***************************************************************************)
Waiting(c) == \E k \in 1 .. Len(backlog) : backlog[k] = c
Accepted(c) == HasOpen(file[Server], ServerEnd(c))

ConnectionOf(c) ==
    /\ ~Connected(c) /\ ClientEnd(c) \notin shut =>
         /\ ~Waiting(c) /\ ~Accepted(c) /\ ServerEnd(c) \notin shut /\ c \notin broken
         /\ wire[ClientEnd(c)] = <<>> /\ wire[ServerEnd(c)] = <<>>
    /\ Waiting(c) => ~Accepted(c) /\ ServerEnd(c) \notin shut
    /\ Accepted(c) => ServerEnd(c) \notin shut

Connections == /\ \A k, l \in 1 .. Len(backlog) : backlog[k] = backlog[l] => k = l
               /\ \A c \in Clients : ConnectionOf(c)

(***************************************************************************)
(* The server's descriptors, and the thread that handles a client.         *)
(***************************************************************************)
ServerSide ==
    /\ \A d \in Fd : file[Server][d] \in {Free, Listener} \cup {ServerEnd(c) : c \in Clients}
    /\ \A d, e \in Fd : file[Server][d] # Free /\ file[Server][d] = file[Server][e] => d = e
    /\ lfd = NoFd <=> main \in {"listen", "exit", "gone"}
    /\ \A d \in Fd : file[Server][d] = Listener <=> d = lfd
    /\ cfd # NoFd <=> main \in {"submit", "add"}
    /\ cfd # NoFd => file[Server][cfd] \in Ends
    /\ main \in {"malloc", "accept", "submit", "drain"} => mode = "pool"
    /\ main \in {"poll", "add"} => mode = "loop"
    /\ main = "gone" => NoneOpen(file[Server])

Handling(h, k) == /\ h.pc = "idle" <=> h.fd = NoFd
                  /\ h.pc = "send" => \/ k.op = "answer"
                                      \/ k.op = "send" /\ k.fd = h.fd /\ k.sent <= Len(k.buf)
                  /\ h.pc # "send" => k = Idle

Handlers ==
    /\ \A t \in Threads : /\ Handling(hand[t], call[t])
                          /\ hand[t].fd # NoFd => file[Server][hand[t].fd] \in Ends
                          /\ hand[t].fd # NoFd => hand[t].fd # cfd
    /\ \A t, u \in Threads : hand[t].fd # NoFd /\ hand[t].fd = hand[u].fd => t = u

(***************************************************************************)
(* Who knows a client's descriptor: the pool server's queue, the loop      *)
(* server's registrations.                                                 *)
(***************************************************************************)
PoolOwns ==
    mode = "pool" =>
      /\ hand[Main] = NoJob /\ reg = {}
      /\ \A k \in 1 .. Len(jobs) : /\ file[Server][jobs[k]] \in Ends /\ jobs[k] # cfd
                                   /\ \A t \in Threads : hand[t].fd # jobs[k]
      /\ \A k, l \in 1 .. Len(jobs) : jobs[k] = jobs[l] => k = l
      /\ \A d \in Fd : file[Server][d] \in Ends =>
           \/ d = cfd \/ (\E k \in 1 .. Len(jobs) : jobs[k] = d) \/ (\E t \in Threads : hand[t].fd = d)
      /\ main \in {"listen", "create", "close", "exit", "gone"} =>
           jobs = <<>> /\ \A t \in Threads : hand[t] = NoJob
      /\ structs = Cardinality(ServerOpen) + (IF main = "accept" THEN 1 ELSE 0)

LoopOwns ==
    mode = "loop" =>
      /\ jobs = <<>> /\ \A w \in Workers : w # Main => hand[w] = NoJob
      /\ hand[Main] # NoJob => main = "poll"
      /\ \A r \in reg : file[Server][r.fd] = r.id /\ r.fd # cfd
      /\ hand[Main] # NoJob => \E r \in reg : r.fd = hand[Main].fd
      /\ main \in {"poll", "add"} => \A d \in Fd : file[Server][d] # Free =>
                                       d = cfd \/ \E r \in reg : r.fd = d
      /\ main \in {"listen", "create"} => \A d \in Fd : file[Server][d] \notin Ends
      /\ main \notin {"poll", "add"} => reg = {}

(***************************************************************************)
(* The streams: what a client has read and can read is the beginning of    *)
(* its message, also after the server has closed; while both ends are open *)
(* nothing is missing.                                                     *)
(***************************************************************************)
Starts(s, m) == Len(s) <= Len(m) /\ \A k \in 1 .. Len(s) : s[k] = m[k]

Whole(c) == Connected(c) /\ c \notin broken /\ ServerEnd(c) \notin shut

StreamOf(c) ==
    /\ Starts(got[c], Message(c)) /\ Len(got[c]) < CliBuf
    /\ c \notin broken => Starts(got[c] \o wire[ClientEnd(c)], Message(c))
    /\ Whole(c) => got[c] \o wire[ClientEnd(c)] \o InHand(c) \o wire[ServerEnd(c)]
                     = SubSeq(Message(c), 1, LeftClient(c))
    /\ code[c] = 0 => got[c] = Message(c)

Streams == \A c \in Clients : StreamOf(c)

EchoInv == /\ KernelTypes /\ ServerTypes /\ ClientTypes
           /\ ClientSide /\ Connections /\ ServerSide /\ Handlers
           /\ PoolOwns /\ LoopOwns /\ Streams

-----------------------------------------------------------------------------
(* Names and descriptors *)

\* What a descriptor refers to is of one kind.
LEMMA Things ==
  /\ Free # Unbound /\ Free # Listener /\ Unbound # Listener
  /\ \A e \in Ends : e # Free /\ e # Unbound /\ e # Listener
  /\ \A c \in Clients : ClientEnd(c) \in Ends /\ ServerEnd(c) \in Ends
  /\ \A c, b \in Clients : /\ ClientEnd(c) # ServerEnd(b)
                           /\ ClientEnd(c) = ClientEnd(b) => c = b
                           /\ ServerEnd(c) = ServerEnd(b) => c = b
  /\ \A c \in Clients : /\ ClientEnd(c)[1] = c /\ ServerEnd(c)[1] = c
                        /\ Peer(ClientEnd(c)) = ServerEnd(c) /\ Peer(ServerEnd(c)) = ClientEnd(c)
<1>1. Free # Unbound /\ Free # Listener /\ Unbound # Listener
  BY DEF Free, Unbound, Listener
<1>2. \A e \in Ends : e # Free /\ e # Unbound /\ e # Listener
  BY DEF Ends, Free, Unbound, Listener
<1>3. \A c \in Clients : ClientEnd(c) \in Ends /\ ServerEnd(c) \in Ends
  BY DEF Ends, ClientEnd, ServerEnd
<1>4. \A c, b \in Clients : /\ ClientEnd(c) # ServerEnd(b)
                            /\ ClientEnd(c) = ClientEnd(b) => c = b
                            /\ ServerEnd(c) = ServerEnd(b) => c = b
  BY DEF ClientEnd, ServerEnd
<1>5. \A c \in Clients : /\ ClientEnd(c)[1] = c /\ ServerEnd(c)[1] = c
                         /\ Peer(ClientEnd(c)) = ServerEnd(c) /\ Peer(ServerEnd(c)) = ClientEnd(c)
  BY DEF ClientEnd, ServerEnd, Peer
<1> QED
  BY <1>1, <1>2, <1>3, <1>4, <1>5

LEMMA Names == /\ Server \notin Clients /\ Main \in Threads /\ Main \notin Clients
               /\ \A t \in Threads : t \notin Clients
               /\ \A w \in Workers : w \in Threads /\ w # Main
               /\ \A t \in Threads : Process(t) = Server
               /\ \A c \in Clients : Process(c) = c
BY NamesAssumption DEF Threads, Process

LEMMA FdIs == Fd \subseteq Nat /\ NoFd \notin Fd /\ Fd \subseteq MaybeFd /\ NoFd \in MaybeFd
BY SocketAssumption DEF Fd, MaybeFd, NoFd

LEMMA LowestIs ==
  ASSUME NEW T, T \subseteq Nat, T # {}
  PROVE  Lowest(T) \in T
<1> DEFINE R == OpToRel(<, Nat)
<1>1. IsWellFoundedOn(R, Nat)
  BY NatLessThanWellFounded
<1>2. \A x, y \in Nat : <<y, x>> \in R <=> y < x
  BY DEF OpToRel
<1> HIDE DEF R
<1>3. PICK x \in T : \A y \in T : ~(<<y, x>> \in R)
  BY <1>1, WFMin
<1>4. \A y \in T : ~(y < x)
  BY <1>2, <1>3
<1>5. \E z \in T : \A y \in T : z <= y
  BY <1>3, <1>4
<1> QED
  BY <1>5 DEF Lowest

-----------------------------------------------------------------------------
(* Streams of bytes *)

LEMMA MessageIs ==
  ASSUME NEW c \in Clients
  PROVE  Message(c) \in Seq(Byte) /\ Len(Message(c)) = MsgLen[c] /\ MsgLen[c] \in Nat
<1>1. MsgLen[c] \in Nat
  BY SizesAssumption
<1>2. Message(c) \in [1 .. MsgLen[c] -> Byte]
  BY <1>1 DEF Message, Byte
<1> QED
  BY <1>1, <1>2

\* A transfer cuts the first n bytes off a stream.
LEMMA Cut ==
  ASSUME NEW s \in Seq(Byte), NEW n \in 0 .. Len(s)
  PROVE  /\ SubSeq(s, 1, n) \in Seq(Byte) /\ Len(SubSeq(s, 1, n)) = n
         /\ SubSeq(s, n + 1, Len(s)) \in Seq(Byte) /\ Len(SubSeq(s, n + 1, Len(s))) = Len(s) - n
         /\ SubSeq(s, 1, n) \o SubSeq(s, n + 1, Len(s)) = s
<1>0. Len(s) \in Nat /\ \A k \in 1 .. Len(s) : s[k] \in Byte
  OBVIOUS
<1>1. SubSeq(s, 1, n) \in Seq(Byte) /\ Len(SubSeq(s, 1, n)) = n
  BY <1>0, SubSeqProperties
<1>2. SubSeq(s, n + 1, Len(s)) \in Seq(Byte) /\ Len(SubSeq(s, n + 1, Len(s))) = Len(s) - n
  BY <1>0, SubSeqProperties
<1>3. SubSeq(s, 1, n) \o SubSeq(s, n + 1, Len(s)) = SubSeq(s, 1, Len(s))
  <2>1. 1 \in 1 .. Len(s) + 1 /\ n \in 1 - 1 .. Len(s) /\ Len(s) \in n .. Len(s)
    BY <1>0
  <2> QED
    BY ONLY s \in Seq(Byte), <2>1, ConcatAdjacentSubSeq
<1> QED
  BY <1>1, <1>2, <1>3, SubSeqFull

\* What follows the first s bytes of b, cut after n more.
LEMMA CutUnsent ==
  ASSUME NEW b \in Seq(Byte), NEW s \in 0 .. Len(b), NEW n \in 0 .. Len(b) - s
  PROVE  LET u == SubSeq(b, s + 1, Len(b))
         IN /\ u \in Seq(Byte) /\ Len(u) = Len(b) - s
            /\ SubSeq(u, 1, n) \in Seq(Byte) /\ Len(SubSeq(u, 1, n)) = n
            /\ SubSeq(b, s + n + 1, Len(b)) \in Seq(Byte)
            /\ SubSeq(u, 1, n) \o SubSeq(b, s + n + 1, Len(b)) = u
            /\ SubSeq(b, 1, s) \o SubSeq(u, 1, n) = SubSeq(b, 1, s + n)
<1> DEFINE u == SubSeq(b, s + 1, Len(b))
<1>0. Len(b) \in Nat
  OBVIOUS
<1>1. u \in Seq(Byte) /\ Len(u) = Len(b) - s
  BY Cut
<1>2. SubSeq(u, 1, n) \in Seq(Byte) /\ Len(SubSeq(u, 1, n)) = n
  BY <1>1, Cut
<1>3. SubSeq(b, s + n + 1, Len(b)) \in Seq(Byte)
  BY <1>0, Cut
<1>4. SubSeq(u, 1, n) = SubSeq(b, s + 1, s + n)
  <2>1. \A k \in 1 .. Len(b) - s : u[k] = b[s + k]
    BY <1>0
  <2>2. SubSeq(b, s + 1, s + n) \in Seq(Byte) /\ Len(SubSeq(b, s + 1, s + n)) = n
    <3>1. \A k \in s + 1 .. s + n : b[k] \in Byte
      BY <1>0
    <3> QED
      BY <1>0, <3>1, SubSeqProperties
  <2>3. \A k \in 1 .. n : SubSeq(u, 1, n)[k] = u[k] /\ SubSeq(b, s + 1, s + n)[k] = b[s + k]
    BY <1>0, <1>1
  <2> HIDE DEF u
  <2>4. \A k \in 1 .. n : SubSeq(u, 1, n)[k] = SubSeq(b, s + 1, s + n)[k]
    BY <1>0, <2>1, <2>3
  <2> QED
    BY <1>2, <2>2, <2>4, SeqEqual
<1>5. SubSeq(b, s + 1, s + n) \o SubSeq(b, s + n + 1, Len(b)) = SubSeq(b, s + 1, Len(b))
  <2>1. s + 1 \in 1 .. Len(b) + 1 /\ s + n \in (s + 1) - 1 .. Len(b) /\ Len(b) \in s + n .. Len(b)
    BY <1>0
  <2> QED
    BY ONLY b \in Seq(Byte), <2>1, ConcatAdjacentSubSeq
<1>6. SubSeq(b, 1, s) \o SubSeq(b, s + 1, s + n) = SubSeq(b, 1, s + n)
  <2>1. 1 \in 1 .. Len(b) + 1 /\ s \in 1 - 1 .. Len(b) /\ s + n \in s .. Len(b)
    BY <1>0
  <2> QED
    BY ONLY b \in Seq(Byte), <2>1, ConcatAdjacentSubSeq
<1> QED
  BY <1>1, <1>2, <1>3, <1>4, <1>5, <1>6

LEMMA Assoc == \A s, t, u \in Seq(Byte) : (s \o t) \o u = s \o (t \o u)
BY ConcatAssociative

LEMMA Joined == \A s, t \in Seq(Byte) : s \o t \in Seq(Byte)
BY ConcatProperties

\* A part of the beginning of m is a beginning of m.
LEMMA StartsOfPart ==
  ASSUME NEW m \in Seq(Byte), NEW k \in 0 .. Len(m), NEW x \in Seq(Byte), NEW y \in Seq(Byte),
         x \o y = SubSeq(m, 1, k)
  PROVE  Starts(x, m)
<1>1. Len(SubSeq(m, 1, k)) = k /\ \A j \in 1 .. k : SubSeq(m, 1, k)[j] = m[j]
  OBVIOUS
<1>2. Len(x \o y) = Len(x) + Len(y) /\ \A j \in 1 .. Len(x) : (x \o y)[j] = x[j]
  OBVIOUS
<1>3. Len(x) \in Nat /\ Len(y) \in Nat /\ Len(m) \in Nat
  OBVIOUS
<1> QED
  BY <1>1, <1>2, <1>3 DEF Starts

LEMMA StartsConcat ==
  ASSUME NEW m \in Seq(Byte), NEW x \in Seq(Byte), NEW y \in Seq(Byte), Starts(x \o y, m)
  PROVE  Starts(x, m)
<1>2. Len(x \o y) = Len(x) + Len(y) /\ \A j \in 1 .. Len(x) : (x \o y)[j] = x[j]
  OBVIOUS
<1>3. Len(x) \in Nat /\ Len(y) \in Nat /\ Len(m) \in Nat
  OBVIOUS
<1> QED
  BY <1>2, <1>3 DEF Starts

\* The beginning of m as the property states it.
LEMMA StartsIs ==
  ASSUME NEW m \in Seq(Byte), NEW x \in Seq(Byte), Starts(x, m)
  PROVE  x = SubSeq(m, 1, Len(x)) /\ (Len(x) = Len(m) => x = m)
<1>1. Len(x) \in 0 .. Len(m) /\ \A k \in 1 .. Len(x) : x[k] = m[k]
  BY DEF Starts
<1>2. SubSeq(m, 1, Len(x)) \in Seq(Byte) /\ Len(SubSeq(m, 1, Len(x))) = Len(x)
  BY <1>1, Cut
<1>3. \A k \in 1 .. Len(x) : SubSeq(m, 1, Len(x))[k] = m[k]
  BY <1>1
<1>4. x = SubSeq(m, 1, Len(x))
  BY <1>1, <1>2, <1>3, SeqEqual
<1>5. Len(x) = Len(m) => x = m
  BY <1>1, SeqEqual
<1> QED
  BY <1>4, <1>5

-----------------------------------------------------------------------------
(* What a server thread has in hand *)

\* Thread t is sending to client c; cl and f are the calls and the server's files.
SendsTo(cl, f, t, c) == cl[t].op = "send" /\ f[cl[t].fd] = ServerEnd(c)
Rest(k) == SubSeq(k.buf, k.sent + 1, Len(k.buf))
HandOf(cl, f, c) == LET ts == {t \in Threads : SendsTo(cl, f, t, c)}
                    IN IF ts = {} THEN <<>> ELSE Rest(cl[CHOOSE t \in ts : TRUE])

LEMMA InHandIs == \A c \in Clients : /\ InHand(c) = HandOf(call, file[Server], c)
                                     /\ InHand(c)' = HandOf(call', file'[Server], c)
<1> TAKE c \in Clients
<1> DEFINE E == {t \in Threads : call[t].op = "send" /\ EndOf(t) = ServerEnd(c)}
           S == {t \in Threads : SendsTo(call, file[Server], t, c)}
           T == {t \in Threads : SendsTo(call', file'[Server], t, c)}
<1>1. E = S
  BY Names DEF EndOf, SendsTo
<1>2. E' = T
  BY Names DEF EndOf, SendsTo
<1>3. InHand(c) = IF E = {} THEN <<>> ELSE Rest(call[CHOOSE t \in E : TRUE])
  BY DEF InHand, Rest, Unsent
<1>4. InHand(c)' = IF E' = {} THEN <<>> ELSE Rest(call'[CHOOSE t \in E' : TRUE])
  BY DEF InHand, Rest, Unsent
<1>5. /\ HandOf(call, file[Server], c) = IF S = {} THEN <<>> ELSE Rest(call[CHOOSE t \in S : TRUE])
      /\ HandOf(call', file'[Server], c) = IF T = {} THEN <<>> ELSE Rest(call'[CHOOSE t \in T : TRUE])
  BY DEF HandOf
<1> HIDE DEF E, S, T
<1> QED
  BY <1>1, <1>2, <1>3, <1>4, <1>5

LEMMA HandEmpty ==
  ASSUME NEW cl, NEW f, NEW c, \A t \in Threads : ~SendsTo(cl, f, t, c)
  PROVE  HandOf(cl, f, c) = <<>>
BY DEF HandOf

LEMMA HandSole ==
  ASSUME NEW cl, NEW f, NEW c, NEW t \in Threads, SendsTo(cl, f, t, c),
         \A u \in Threads : SendsTo(cl, f, u, c) => u = t
  PROVE  HandOf(cl, f, c) = Rest(cl[t])
<1>1. {u \in Threads : SendsTo(cl, f, u, c)} = {t}
  OBVIOUS
<1>2. (CHOOSE u \in {t} : TRUE) = t
  OBVIOUS
<1> QED
  BY <1>1, <1>2 DEF HandOf

\* What the other threads do does not matter.
LEMMA HandSame ==
  ASSUME NEW cl, NEW f, NEW kl, NEW g, NEW c,
         \A t \in Threads : SendsTo(cl, f, t, c) <=> SendsTo(kl, g, t, c),
         \A t \in Threads : SendsTo(cl, f, t, c) => cl[t] = kl[t]
  PROVE  HandOf(cl, f, c) = HandOf(kl, g, c)
<1> DEFINE ts == {t \in Threads : SendsTo(cl, f, t, c)}
<1>1. ts = {t \in Threads : SendsTo(kl, g, t, c)}
  OBVIOUS
<1>2. CASE ts = {}
  BY <1>1, <1>2 DEF HandOf
<1>3. CASE ts # {}
  <2>1. (CHOOSE t \in ts : TRUE) \in ts
    BY <1>3
  <2>2. cl[CHOOSE t \in ts : TRUE] = kl[CHOOSE t \in ts : TRUE]
    BY <2>1
  <2> QED
    BY <1>1, <1>3, <2>2 DEF HandOf
<1> QED
  BY <1>2, <1>3

-----------------------------------------------------------------------------
(* What a step leaves alone *)

LEMMA ServerKept ==
  ASSUME EchoInv, UNCHANGED server, file'[Server] = file[Server],
         \A t \in Threads : call'[t] = call[t]
  PROVE  ServerTypes' /\ ServerSide' /\ Handlers' /\ PoolOwns' /\ LoopOwns'
<1> USE DEF server
<1>1. ServerTypes'
  BY DEF EchoInv, ServerTypes
<1>2. ServerSide'
  BY DEF EchoInv, ServerSide, NoneOpen
<1>3. Handlers'
  BY DEF EchoInv, Handlers
<1>4. ServerOpen' = ServerOpen
  BY DEF ServerOpen
<1>5. PoolOwns'
  BY <1>4 DEF EchoInv, PoolOwns
<1>6. LoopOwns'
  BY DEF EchoInv, LoopOwns
<1> QED
  BY <1>1, <1>2, <1>3, <1>5, <1>6

LEMMA ClientKept ==
  ASSUME NEW c \in Clients, ClientOf(c), file'[c] = file[c], call'[c] = call[c],
         cpc'[c] = cpc[c], got'[c] = got[c], ClientEnd(c) \in shut' => ClientEnd(c) \in shut
  PROVE  ClientOf(c)'
BY DEF ClientOf

SameConnection(c) == /\ Connected(c)' <=> Connected(c)
                     /\ Waiting(c)' <=> Waiting(c)
                     /\ Accepted(c)' <=> Accepted(c)
                     /\ ClientEnd(c) \in shut' <=> ClientEnd(c) \in shut
                     /\ ServerEnd(c) \in shut' <=> ServerEnd(c) \in shut

SameBytes(c) == /\ wire'[ClientEnd(c)] = wire[ClientEnd(c)]
                /\ wire'[ServerEnd(c)] = wire[ServerEnd(c)]
                /\ c \in broken' <=> c \in broken

LEMMA ConnectionKept ==
  ASSUME NEW c \in Clients, ConnectionOf(c), SameConnection(c), SameBytes(c)
  PROVE  ConnectionOf(c)'
BY DEF ConnectionOf, SameConnection, SameBytes

\* The bytes of an open connection may change.
LEMMA ConnectionFlows ==
  ASSUME NEW c \in Clients, ConnectionOf(c), SameConnection(c), Connected(c) \/ ClientEnd(c) \in shut
  PROVE  ConnectionOf(c)'
BY DEF ConnectionOf, SameConnection

LEMMA StreamKeptAs ==
  ASSUME NEW c \in Clients, StreamOf(c), got'[c] = got[c], code'[c] = 0 => got[c] = Message(c),
         c \notin broken' => c \notin broken /\ wire'[ClientEnd(c)] = wire[ClientEnd(c)],
         Whole(c)' => /\ Whole(c) /\ wire'[ServerEnd(c)] = wire[ServerEnd(c)]
                      /\ InHand(c)' = InHand(c) /\ LeftClient(c)' = LeftClient(c)
  PROVE  StreamOf(c)'
<1>1. c \notin broken' => Starts(got'[c] \o wire'[ClientEnd(c)], Message(c))
  BY DEF StreamOf
<1>2. Whole(c)' => got'[c] \o wire'[ClientEnd(c)] \o InHand(c)' \o wire'[ServerEnd(c)]
                    = SubSeq(Message(c), 1, LeftClient(c)')
  BY DEF StreamOf, Whole
<1>3. Message(c)' = Message(c)
  BY DEF Message
<1> QED
  BY <1>1, <1>2, <1>3 DEF StreamOf

LEMMA StreamKept ==
  ASSUME NEW c \in Clients, StreamOf(c), got'[c] = got[c], code'[c] = code[c],
         c \notin broken' => c \notin broken /\ wire'[ClientEnd(c)] = wire[ClientEnd(c)],
         Whole(c)' => /\ Whole(c) /\ wire'[ServerEnd(c)] = wire[ServerEnd(c)]
                      /\ InHand(c)' = InHand(c) /\ LeftClient(c)' = LeftClient(c)
  PROVE  StreamOf(c)'
<1>1. code'[c] = 0 => got[c] = Message(c)
  BY DEF StreamOf
<1> QED
  BY <1>1, StreamKeptAs

\* Threads that send to client c do so before and after the step.
LEMMA HandKept ==
  ASSUME NEW c \in Clients,
         \A t \in Threads : call[t].op = "send" /\ file[Server][call[t].fd] = ServerEnd(c)
                              => call'[t] = call[t] /\ file'[Server][call[t].fd] = ServerEnd(c),
         \A t \in Threads : call'[t].op = "send" /\ file'[Server][call'[t].fd] = ServerEnd(c)
                              => call'[t] = call[t] /\ file[Server][call[t].fd] = ServerEnd(c)
  PROVE  InHand(c)' = InHand(c)
<1>1. \A t \in Threads : SendsTo(call, file[Server], t, c) <=> SendsTo(call', file'[Server], t, c)
  BY DEF SendsTo
<1>2. \A t \in Threads : SendsTo(call, file[Server], t, c) => call[t] = call'[t]
  BY DEF SendsTo
<1>3. HandOf(call, file[Server], c) = HandOf(call', file'[Server], c)
  BY <1>1, <1>2, HandSame
<1> QED
  BY <1>3, InHandIs

-----------------------------------------------------------------------------
(* The invariant holds at the start *)

LEMMA EmptyStarts == \A m \in Seq(Byte) : Starts(<<>>, m)
BY DEF Starts

LEMMA EchoStart == Init => EchoInv
<1> SUFFICES ASSUME Init PROVE EchoInv
  OBVIOUS
<1> USE DEF Init, SocketInit
<1>0. /\ \A p \in Clients \cup {Server} : \A d \in Fd : file[p][d] = Free
      /\ \A t \in Clients \cup Threads : call[t] = Idle
      /\ \A e \in Ends : wire[e] = <<>>
  BY DEF Fd
<1>1. KernelTypes
  <2>1. file \in [Clients \cup {Server} -> [Fd -> Thing]]
    BY DEF Fd, Thing
  <2>2. wire \in [Ends -> Seq(Byte)]
    OBVIOUS
  <2>3. call \in [Clients \cup Threads -> {Idle} \cup AnswerRec \cup ConnectRec \cup SendRec]
    OBVIOUS
  <2> QED
    BY <2>1, <2>2, <2>3 DEF KernelTypes
<1>2. ServerTypes
  BY DEF ServerTypes, MaybeFd, NoJob
<1>3. ClientTypes
  BY DEF ClientTypes
<1>4. ClientSide
  BY <1>0 DEF ClientSide, ClientOf, ClientPlace, NoneOpen
<1>5. Connections
  <2>1. \A c \in Clients : ~Accepted(c) /\ ~Waiting(c)
    <3>1. \A c \in Clients : ~Accepted(c)
      BY <1>0, Things DEF Accepted, HasOpen
    <3>2. Len(backlog) = 0
      OBVIOUS
    <3> QED
      BY <3>1, <3>2 DEF Waiting
  <2> QED
    BY <1>0, <2>1, Things DEF Connections, ConnectionOf
<1>6. ServerSide
  BY <1>0, FdIs, Things DEF ServerSide
<1>7. Handlers
  BY <1>0 DEF Handlers, Handling, NoJob
<1>8. ServerOpen = {}
  BY <1>0, Things DEF ServerOpen, Fd
<1>9. PoolOwns
  <2>1. Cardinality(ServerOpen) = 0
    BY <1>8, FS_EmptySet
  <2>2. \A d \in Fd : file[Server][d] \notin Ends
    BY <1>0, Things
  <2>3. /\ \A t \in Threads : hand[t] = NoJob
        /\ jobs = <<>> /\ Len(jobs) = 0 /\ reg = {} /\ structs = 0 /\ main = "listen" /\ cfd = NoFd
    OBVIOUS
  <2> HIDE DEF Init
  <2> QED
    BY <2>1, <2>2, <2>3, Names DEF PoolOwns
<1>10. LoopOwns
  BY <1>0, Things, Names DEF LoopOwns
<1>11. Streams
  <2> SUFFICES ASSUME NEW c \in Clients PROVE StreamOf(c)
    BY DEF Streams
  <2>1. ~Connected(c)
    BY <1>0, Things, Names DEF Connected, Fd
  <2>2. got[c] = <<>> /\ wire[ClientEnd(c)] = <<>> /\ code[c] = NoFd
    BY <1>0, Things
  <2>3. <<>> \o <<>> = <<>> /\ Len(<<>>) = 0 /\ 0 < CliBuf
    BY SizesAssumption
  <2>4. Starts(<<>>, Message(c))
    BY EmptyStarts, MessageIs
  <2> HIDE DEF Init
  <2>5. got[c] \o wire[ClientEnd(c)] = <<>>
    BY <2>2, <2>3
  <2>6. Len(got[c]) = 0 /\ code[c] # 0
    BY <2>2, <2>3 DEF NoFd
  <2> QED
    BY <2>1, <2>2, <2>3, <2>4, <2>5, <2>6 DEF StreamOf, Whole
<1> QED
  BY <1>1, <1>2, <1>3, <1>4, <1>5, <1>6, <1>7, <1>9, <1>10, <1>11 DEF EchoInv

-----------------------------------------------------------------------------
(* Steps of a client *)

\* A step of client c touches nothing of the server and of the other clients.
OnlyClient(c) == /\ UNCHANGED server
                 /\ \A p \in Clients \cup {Server} : p # c => file'[p] = file[p]
                 /\ \A t \in Clients \cup Threads : t # c => call'[t] = call[t]
                 /\ \A b \in Clients : b # c => /\ cpc'[b] = cpc[b] /\ got'[b] = got[b]
                                                /\ code'[b] = code[b]
                                                /\ ClientEnd(b) \in shut' <=> ClientEnd(b) \in shut
                 /\ \A b \in Clients : ServerEnd(b) \in shut' <=> ServerEnd(b) \in shut

LEMMA ClientMoves ==
  ASSUME EchoInv, NEW c \in Clients, OnlyClient(c), KernelTypes', ClientTypes', ClientOf(c)',
         Connections', Streams'
  PROVE  EchoInv'
<1>1. \A b \in Clients : b # c => ClientOf(b)'
  <2> SUFFICES ASSUME NEW b \in Clients, b # c PROVE ClientOf(b)'
    OBVIOUS
  <2>1. ClientOf(b)
    BY DEF EchoInv, ClientSide
  <2> QED
    BY <2>1, ClientKept DEF OnlyClient
<1>2. ClientSide'
  BY <1>1 DEF ClientSide
<1>3. file'[Server] = file[Server] /\ \A t \in Threads : call'[t] = call[t]
  BY Names DEF OnlyClient
<1>4. ServerTypes' /\ ServerSide' /\ Handlers' /\ PoolOwns' /\ LoopOwns'
  BY <1>3, ServerKept DEF OnlyClient
<1> QED
  BY <1>2, <1>4 DEF EchoInv

\* What the step of c leaves of everybody's connection.
LEMMA OthersKept ==
  ASSUME NEW c \in Clients, OnlyClient(c)
  PROVE  /\ \A b \in Clients : InHand(b)' = InHand(b)
         /\ \A b \in Clients : Accepted(b)' <=> Accepted(b)
         /\ \A b \in Clients : b # c => /\ Connected(b)' <=> Connected(b)
                                        /\ LeftClient(b)' = LeftClient(b)
<1>1. file'[Server] = file[Server] /\ \A t \in Threads : call'[t] = call[t]
  BY Names DEF OnlyClient
<1>2. \A b \in Clients : InHand(b)' = InHand(b)
  BY <1>1, HandKept
<1>3. \A b \in Clients : Accepted(b)' <=> Accepted(b)
  BY <1>1 DEF Accepted
<1>4. \A b \in Clients : b # c => /\ Connected(b)' <=> Connected(b)
                                  /\ LeftClient(b)' = LeftClient(b)
  BY DEF OnlyClient, Connected, LeftClient
<1> QED
  BY <1>2, <1>3, <1>4

\* A step of c that moves no byte.
LEMMA ClientQuiet ==
  ASSUME EchoInv, NEW c \in Clients, OnlyClient(c), KernelTypes', ClientTypes', ClientOf(c)',
         UNCHANGED <<backlog, wire, shut, broken>>, got'[c] = got[c], code'[c] = code[c],
         Connected(c)' <=> Connected(c), Whole(c) => LeftClient(c)' = LeftClient(c)
  PROVE  EchoInv'
<1>1. Connections'
  <2> SUFFICES ASSUME NEW b \in Clients PROVE ConnectionOf(b)'
    BY DEF Connections, EchoInv
  <2>1. ConnectionOf(b)
    BY DEF EchoInv, Connections
  <2>2. SameConnection(b)
    BY OthersKept DEF SameConnection, Waiting
  <2> QED
    BY <2>1, <2>2, ConnectionKept DEF SameBytes
<1>2. Streams'
  <2> SUFFICES ASSUME NEW b \in Clients PROVE StreamOf(b)'
    BY DEF Streams
  <2>1. StreamOf(b)
    BY DEF EchoInv, Streams
  <2>2. InHand(b)' = InHand(b) /\ (Connected(b)' <=> Connected(b))
    BY OthersKept
  <2>3. got'[b] = got[b] /\ code'[b] = code[b]
    BY DEF OnlyClient
  <2>4. Whole(b)' <=> Whole(b)
    BY <2>2 DEF Whole
  <2>5. Whole(b) => LeftClient(b)' = LeftClient(b)
    BY OthersKept
  <2> QED
    BY <2>1, <2>2, <2>3, <2>4, <2>5, StreamKept
<1> QED
  BY <1>1, <1>2, ClientMoves

\* The call a client is in tells where it is.
LEMMA CallPlace ==
  ASSUME EchoInv, NEW c \in Clients
  PROVE  /\ ClientPlace(c, cpc[c], call[c], file[c])
         /\ call[c].op = "connect" => cpc[c] = "connecting"
         /\ call[c].op = "send" => cpc[c] = "sending"
<1>1. ClientPlace(c, cpc[c], call[c], file[c])
  BY DEF EchoInv, ClientSide, ClientOf
<1>2. cpc[c] \in {"start", "connecting", "sending", "reading", "close", "exit"}
  BY DEF EchoInv, ClientTypes
<1>3. Idle.op = "none"
  BY DEF Idle
<1> QED
  BY <1>1, <1>2, <1>3 DEF ClientPlace

\* Files and calls keep their types when one of them is replaced.
LEMMA FileSet ==
  ASSUME KernelTypes, NEW p \in Clients \cup {Server}, NEW d \in Fd, NEW w \in Thing,
         file' = [file EXCEPT ![p][d] = w]
  PROVE  /\ file' \in [Clients \cup {Server} -> [Fd -> Thing]]
         /\ file'[p][d] = w
         /\ \A e \in Fd : e # d => file'[p][e] = file[p][e]
         /\ \A q \in Clients \cup {Server} : q # p => file'[q] = file[q]
BY DEF KernelTypes

LEMMA CallSet ==
  ASSUME KernelTypes, NEW t \in Clients \cup Threads,
         NEW k \in {Idle} \cup AnswerRec \cup ConnectRec \cup SendRec,
         call' = [call EXCEPT ![t] = k]
  PROVE  /\ call' \in [Clients \cup Threads -> {Idle} \cup AnswerRec \cup ConnectRec \cup SendRec]
         /\ call'[t] = k
         /\ \A u \in Clients \cup Threads : u # t => call'[u] = call[u]
BY DEF KernelTypes

LEMMA AnswerIs ==
  /\ \A err \in {"OK", "IO", "NOT_FOUND"} :
       Answer(err) \in AnswerRec /\ Answer(err).op = "answer" /\ Answer(err).err = err
  /\ \A fd \in Fd : LET k == [Answer("OK") EXCEPT !.fd = fd]
                    IN k \in AnswerRec /\ k.op = "answer" /\ k.err = "OK" /\ k.fd = fd
<1>1. NoFd \in MaybeFd /\ Fd \subseteq MaybeFd
  BY FdIs
<1>2. \A fd \in Fd : [Answer("OK") EXCEPT !.fd = fd] = [op |-> "answer", err |-> "OK", fd |-> fd]
  BY DEF Answer
<1>3. \A fd \in Fd : LET k == [Answer("OK") EXCEPT !.fd = fd]
                    IN k \in AnswerRec /\ k.op = "answer" /\ k.err = "OK" /\ k.fd = fd
  BY <1>1, <1>2 DEF AnswerRec
<1>4. \A err \in {"OK", "IO", "NOT_FOUND"} :
       Answer(err) \in AnswerRec /\ Answer(err).op = "answer" /\ Answer(err).err = err
  BY <1>1 DEF AnswerRec, Answer
<1> QED
  BY <1>3, <1>4

\* The lowest free descriptor is one, and free.
LEMMA LowestFree ==
  ASSUME KernelTypes, NEW p \in Clients \cup {Server}, FreeFds(p) # {}
  PROVE  Lowest(FreeFds(p)) \in Fd /\ file[p][Lowest(FreeFds(p))] = Free
<1>1. FreeFds(p) \subseteq Nat
  BY FdIs DEF FreeFds, Fd
<1>2. Lowest(FreeFds(p)) \in FreeFds(p)
  BY <1>1, LowestIs
<1> QED
  BY <1>2 DEF FreeFds, Fd

LEMMA CallKinds ==
  ASSUME KernelTypes, NEW t \in Clients \cup Threads
  PROVE  /\ call[t].op = "connect" => /\ call[t] \in ConnectRec
                                      /\ call[t] = [op |-> "connect", left |-> call[t].left, fd |-> call[t].fd]
         /\ call[t].op = "send" =>
              /\ call[t] \in SendRec
              /\ call[t] = [op |-> "send", fd |-> call[t].fd, buf |-> call[t].buf, sent |-> call[t].sent]
         /\ call[t].op = "answer" => call[t] \in AnswerRec
<1>1. call[t] \in {Idle} \cup AnswerRec \cup ConnectRec \cup SendRec
  BY DEF KernelTypes
<1>2. Idle.op = "none" /\ (\A k \in AnswerRec : k.op = "answer")
  BY DEF Idle, AnswerRec
<1>3. \A k \in ConnectRec : k.op = "connect" /\ k = [op |-> "connect", left |-> k.left, fd |-> k.fd]
  BY DEF ConnectRec
<1>4. \A k \in SendRec : k.op = "send" /\ k = [op |-> "send", fd |-> k.fd, buf |-> k.buf, sent |-> k.sent]
  BY DEF SendRec
<1> QED
  BY <1>1, <1>2, <1>3, <1>4

\* A client's step that changes its files and its call only.
LEMMA OnlyCall ==
  ASSUME NEW c \in Clients, UNCHANGED <<server, shut, clients>>,
         \A p \in Clients \cup {Server} : p # c => file'[p] = file[p],
         \A t \in Clients \cup Threads : t # c => call'[t] = call[t]
  PROVE  OnlyClient(c)
BY DEF OnlyClient, clients

LEMMA NotConnected ==
  ASSUME EchoInv, NEW c \in Clients, cpc[c] = "connecting", call[c].op = "connect"
  PROVE  ~Connected(c) /\ got[c] = <<>> /\ ClientEnd(c) \notin shut
<1>1. ClientPlace(c, "connecting", call[c], file[c])
  BY CallPlace
<1>2. \A d \in Fd : file[c][d] # ClientEnd(c)
  BY <1>1, Things DEF ClientPlace, NoneOpen, IsOpen
<1> QED
  BY <1>2 DEF Connected, Fd, EchoInv, ClientSide, ClientOf

LEMMA EchoNextAddress ==
  ASSUME EchoInv, NEW c \in Clients, NextAddress(c), UNCHANGED <<server, clients>>
  PROVE  EchoInv'
<1> USE DEF NextAddress
<1>0. KernelTypes /\ ClientTypes
  BY DEF EchoInv
<1>1. cpc[c] = "connecting" /\ ClientPlace(c, "connecting", call[c], file[c])
  BY CallPlace
<1>2. NoneOpen(file[c])
  <2>1. call[c].fd \notin Fd
    BY FdIs
  <2> QED
    BY <1>1, <2>1 DEF ClientPlace, IsOpen
<1>3. PICK k \in {Idle} \cup AnswerRec \cup ConnectRec \cup SendRec :
        /\ call' = [call EXCEPT ![c] = k]
        /\ \/ k.op = "answer" /\ k.err # "OK" /\ file' = file
           \/ k.op = "connect" /\ k.fd = NoFd /\ file' = file
           \/ /\ FreeFds(c) # {} /\ k.op = "connect" /\ k.fd = Lowest(FreeFds(c))
              /\ file' = [file EXCEPT ![c][Lowest(FreeFds(c))] = Unbound]
  <2>0. call[c] \in ConnectRec /\ call[c] = [op |-> "connect", left |-> call[c].left, fd |-> call[c].fd]
    BY <1>0, CallKinds
  <2>1. CASE call' = [call EXCEPT ![c] = Answer("IO")] /\ UNCHANGED file
    BY <2>1, AnswerIs
  <2>2. CASE call[c].left > 0 /\ call' = [call EXCEPT ![c].left = @ - 1] /\ UNCHANGED file
    <3> DEFINE k == [op |-> "connect", left |-> call[c].left - 1, fd |-> NoFd]
    <3>1. k \in ConnectRec
      BY <2>0, <2>2, FdIs DEF ConnectRec
    <3>2. call' = [call EXCEPT ![c] = k]
      BY <2>0, <2>2
    <3> QED
      BY <2>2, <3>1, <3>2
  <2>3. CASE /\ call[c].left > 0 /\ FreeFds(c) # {}
             /\ file' = Opened(c, Unbound)
             /\ call' = [call EXCEPT ![c].left = @ - 1, ![c].fd = Lowest(FreeFds(c))]
    <3> DEFINE k == [op |-> "connect", left |-> call[c].left - 1, fd |-> Lowest(FreeFds(c))]
    <3>1. k \in ConnectRec
      BY <1>0, <2>0, <2>3, FdIs, LowestFree DEF ConnectRec
    <3>2. call' = [call EXCEPT ![c] = k]
      BY <1>0, <2>0, <2>3 DEF KernelTypes
    <3>3. k.op = "connect" /\ k.fd = Lowest(FreeFds(c))
      OBVIOUS
    <3>4. file' = [file EXCEPT ![c][Lowest(FreeFds(c))] = Unbound]
      BY <2>3 DEF Opened
    <3> HIDE DEF k
    <3> QED
      BY <2>3, <3>1, <3>2, <3>3, <3>4
  <2> QED
    BY <2>1, <2>2, <2>3
<1>4. /\ call' \in [Clients \cup Threads -> {Idle} \cup AnswerRec \cup ConnectRec \cup SendRec]
      /\ call'[c] = k
      /\ \A u \in Clients \cup Threads : u # c => call'[u] = call[u]
  BY <1>0, <1>3, CallSet
<1>5. /\ file' \in [Clients \cup {Server} -> [Fd -> Thing]]
      /\ \A p \in Clients \cup {Server} : p # c => file'[p] = file[p]
      /\ \/ k.op = "answer" /\ k.err # "OK" /\ file'[c] = file[c]
         \/ k.op = "connect" /\ k.fd = NoFd /\ file'[c] = file[c]
         \/ /\ k.op = "connect" /\ k.fd \in Fd /\ file'[c][k.fd] = Unbound
            /\ \A e \in Fd : e # k.fd => file'[c][e] = Free
  <2>1. CASE (k.op = "answer" /\ k.err # "OK" /\ file' = file) \/ (k.op = "connect" /\ k.fd = NoFd /\ file' = file)
    BY <1>0, <2>1 DEF KernelTypes
  <2>2. CASE /\ FreeFds(c) # {} /\ k.op = "connect" /\ k.fd = Lowest(FreeFds(c))
             /\ file' = [file EXCEPT ![c][Lowest(FreeFds(c))] = Unbound]
    <3>1. k.fd \in Fd /\ Unbound \in Thing
      BY <1>0, <2>2, LowestFree DEF Thing
    <3>2. file' = [file EXCEPT ![c][k.fd] = Unbound]
      BY <2>2
    <3>3. /\ file' \in [Clients \cup {Server} -> [Fd -> Thing]]
          /\ file'[c][k.fd] = Unbound
          /\ \A e \in Fd : e # k.fd => file'[c][e] = file[c][e]
          /\ \A p \in Clients \cup {Server} : p # c => file'[p] = file[p]
      BY <1>0, <3>1, <3>2, FileSet
    <3> QED
      BY <1>2, <2>2, <3>1, <3>3 DEF NoneOpen
  <2> QED
    BY <1>3, <2>1, <2>2
<1>6. KernelTypes' /\ ClientTypes'
  BY <1>0, <1>4, <1>5 DEF KernelTypes, ClientTypes, clients
<1>7. ~Connected(c) /\ ~Connected(c)' /\ got[c] = <<>> /\ ClientEnd(c) \notin shut
  BY <1>1, <1>2, <1>5, Things, NotConnected DEF Connected, Fd, NoneOpen
<1>8. ClientPlace(c, "connecting", k, file'[c])
  BY <1>2, <1>5, Things DEF ClientPlace, NoneOpen, IsOpen
<1>9. ClientOf(c)'
  BY <1>1, <1>4, <1>7, <1>8 DEF ClientOf, clients
<1>10. OnlyClient(c)
  BY <1>4, <1>5, OnlyCall
<1> QED
  BY <1>6, <1>7, <1>9, <1>10, ClientQuiet DEF Whole, clients

\* A step of client c between its calls: to place "at", into the call k.
LEMMA ClientTurn ==
  ASSUME EchoInv, NEW c \in Clients, UNCHANGED <<kernel, server, got, code>>,
         NEW k \in {Idle} \cup AnswerRec \cup ConnectRec \cup SendRec,
         NEW at \in {"start", "connecting", "sending", "reading", "close"},
         call' = [call EXCEPT ![c] = k], cpc' = [cpc EXCEPT ![c] = at],
         ClientPlace(c, at, k, file[c]), cpc[c] # "exit",
         at \in {"start", "connecting", "sending"} => got[c] = <<>>,
         Whole(c) => LeftClient(c) = IF at \in {"start", "connecting"} THEN 0
                                     ELSE IF k.op = "send" THEN k.sent ELSE MsgLen[c]
  PROVE  EchoInv'
<1>0. KernelTypes /\ ClientTypes /\ ClientOf(c)
  BY DEF EchoInv, ClientSide
<1>1. /\ call' \in [Clients \cup Threads -> {Idle} \cup AnswerRec \cup ConnectRec \cup SendRec]
      /\ call'[c] = k
      /\ \A u \in Clients \cup Threads : u # c => call'[u] = call[u]
  BY <1>0, CallSet
<1>2. /\ cpc' \in [Clients -> {"start", "connecting", "sending", "reading", "close", "exit"}]
      /\ cpc'[c] = at
      /\ \A b \in Clients : b # c => cpc'[b] = cpc[b]
  BY <1>0 DEF ClientTypes
<1>3. KernelTypes'
  BY <1>0, <1>1 DEF KernelTypes, kernel
<1>4. ClientTypes'
  BY <1>0, <1>2 DEF ClientTypes
<1>5. ClientOf(c)'
  <2>1. ClientEnd(c) \notin shut'
    BY <1>0 DEF ClientOf, kernel
  <2>2. ClientPlace(c, cpc'[c], call'[c], file'[c])
    BY <1>1, <1>2 DEF kernel
  <2> QED
    BY <1>2, <2>1, <2>2 DEF ClientOf
<1>6. OnlyClient(c)
  BY <1>1, <1>2 DEF OnlyClient, kernel
<1>7. Connected(c)' <=> Connected(c)
  BY DEF Connected, kernel
<1>8. Whole(c) => LeftClient(c)' = LeftClient(c)
  BY <1>1, <1>2 DEF LeftClient
<1> QED
  BY <1>3, <1>4, <1>5, <1>6, <1>7, <1>8, ClientQuiet DEF kernel

LEMMA EchoClientStart ==
  ASSUME EchoInv, NEW c \in Clients, ClientStart(c), UNCHANGED server
  PROVE  EchoInv'
<1> USE DEF ClientStart, ClientGoes, TcpConnect
<1>1. ClientPlace(c, "start", call[c], file[c]) /\ got[c] = <<>> /\ LeftClient(c) = 0
  BY CallPlace DEF EchoInv, ClientSide, ClientOf, LeftClient
<1>2. PICK k \in {Idle} \cup AnswerRec \cup ConnectRec \cup SendRec :
        /\ call' = [call EXCEPT ![c] = k]
        /\ (k.op = "answer" /\ k.err # "OK") \/ (k.op = "connect" /\ k.fd = NoFd)
  <2>1. CASE call' = [call EXCEPT ![c] = Answer("NOT_FOUND")]
    BY <2>1, AnswerIs
  <2>2. ASSUME NEW n \in 1 .. NAddrs,
               call' = [call EXCEPT ![c] = [op |-> "connect", left |-> n, fd |-> NoFd]]
        PROVE  \E k \in {Idle} \cup AnswerRec \cup ConnectRec \cup SendRec :
                 /\ call' = [call EXCEPT ![c] = k]
                 /\ (k.op = "answer" /\ k.err # "OK") \/ (k.op = "connect" /\ k.fd = NoFd)
    <3> DEFINE j == [op |-> "connect", left |-> n, fd |-> NoFd]
    <3>1. j \in ConnectRec /\ j.op = "connect" /\ j.fd = NoFd
      BY SocketAssumption, FdIs DEF ConnectRec
    <3>2. call' = [call EXCEPT ![c] = j]
      BY <2>2
    <3> HIDE DEF j
    <3> QED
      BY <3>1, <3>2
  <2> QED
    BY <2>1, <2>2
<1>3. ClientPlace(c, "connecting", k, file[c])
  BY <1>1, <1>2 DEF ClientPlace
<1> QED
  BY <1>1, <1>2, <1>3, ClientTurn

LEMMA EchoClientConnected ==
  ASSUME EchoInv, NEW c \in Clients, ClientConnected(c), UNCHANGED server
  PROVE  EchoInv'
<1> USE DEF ClientConnected, ClientGoes, ClientCalls
<1>1. ClientPlace(c, "connecting", call[c], file[c]) /\ got[c] = <<>> /\ LeftClient(c) = 0
  BY CallPlace DEF EchoInv, ClientSide, ClientOf, LeftClient
<1>2. CASE call[c].err = "OK"
  <2> DEFINE k == Sending(call[c].fd, Message(c))
  <2>1. IsOpen(file[c], call[c].fd, ClientEnd(c))
    BY <1>1, <1>2 DEF ClientPlace
  <2>2. k \in SendRec
    BY <2>1, MessageIs DEF SendRec, Sending, IsOpen
  <2>3. k.op = "send" /\ k.fd = call[c].fd /\ k.buf = Message(c) /\ k.sent = 0
    BY DEF Sending
  <2>4. cpc' = [cpc EXCEPT ![c] = "sending"] /\ call' = [call EXCEPT ![c] = k]
    BY <1>2
  <2> HIDE DEF k
  <2>5. ClientPlace(c, "sending", k, file[c])
    BY <1>1, <2>1, <2>3, MessageIs DEF ClientPlace
  <2> QED
    BY <1>1, <2>2, <2>3, <2>4, <2>5, ClientTurn
<1>3. CASE call[c].err # "OK"
  <2>1. NoneOpen(file[c])
    BY <1>1, <1>3 DEF ClientPlace
  <2>2. ClientPlace(c, "close", Idle, file[c])
    BY <2>1, Things DEF ClientPlace, NoneOpen
  <2>3. ~Whole(c)
    BY <2>1, Things DEF Whole, Connected, NoneOpen, Fd
  <2>4. cpc' = [cpc EXCEPT ![c] = "close"] /\ call' = [call EXCEPT ![c] = Idle]
    BY <1>3
  <2> QED
    BY <1>1, <2>2, <2>3, <2>4, ClientTurn
<1> QED
  BY <1>2, <1>3

LEMMA EchoClientSent ==
  ASSUME EchoInv, NEW c \in Clients, ClientSent(c), UNCHANGED server
  PROVE  EchoInv'
<1> DEFINE at == IF call[c].err = "OK" THEN "reading" ELSE "close"
<1>0. cpc' = [cpc EXCEPT ![c] = at] /\ call' = [call EXCEPT ![c] = Idle] /\ UNCHANGED <<kernel, got, code>>
  BY DEF ClientSent, ClientGoes, ClientCalls
<1>1. ClientPlace(c, "sending", call[c], file[c]) /\ LeftClient(c) = MsgLen[c] /\ cpc[c] = "sending"
  BY CallPlace DEF ClientSent, LeftClient
<1>2. HasOpen(file[c], ClientEnd(c))
  BY <1>1 DEF ClientPlace, IsOpen, HasOpen
<1>3. \A d \in Fd : file[c][d] # Unbound
  BY <1>1, <1>2, Things DEF ClientPlace, HasOpen
<1>4. at \in {"reading", "close"}
  OBVIOUS
<1>5. Idle.op # "send"
  BY DEF Idle
<1> HIDE DEF at
<1>6. ClientPlace(c, at, Idle, file[c])
  BY <1>1, <1>2, <1>3, <1>4 DEF ClientPlace
<1> QED
  BY <1>0, <1>1, <1>4, <1>5, <1>6, ClientTurn

LEMMA EchoClientHasAll ==
  ASSUME EchoInv, NEW c \in Clients, ClientHasAll(c), UNCHANGED server
  PROVE  EchoInv'
<1>0. /\ cpc' = [cpc EXCEPT ![c] = "close"] /\ UNCHANGED <<kernel, call, got, code>>
      /\ cpc[c] = "reading"
  BY DEF ClientHasAll, ClientGoes
<1>1. ClientPlace(c, "reading", call[c], file[c])
  BY <1>0, CallPlace
<1>2. call[c] = Idle /\ Idle.op # "send"
  BY <1>1 DEF ClientPlace, Idle
<1>3. call' = [call EXCEPT ![c] = Idle]
  BY <1>0, <1>2 DEF EchoInv, KernelTypes
<1>4. LeftClient(c) = MsgLen[c]
  BY <1>0, <1>2 DEF LeftClient
<1>5. ClientPlace(c, "close", Idle, file[c])
  BY <1>1, <1>2, Things DEF ClientPlace, HasOpen
<1> QED
  BY <1>0, <1>2, <1>3, <1>4, <1>5, ClientTurn

\* A send of the client fails when its connection does not hold any more.
LEMMA EchoClientSendFails ==
  ASSUME EchoInv, NEW c \in Clients, SendFails(c), UNCHANGED <<server, clients>>
  PROVE  EchoInv'
<1>1. ClientPlace(c, "sending", call[c], file[c]) /\ cpc[c] = "sending" /\ got[c] = <<>>
  BY CallPlace DEF SendFails, EchoInv, ClientSide, ClientOf
<1>2. IsOpen(file[c], call[c].fd, ClientEnd(c))
  BY <1>1 DEF SendFails, ClientPlace
<1>3. EndOf(c) = ClientEnd(c)
  BY <1>2, Names DEF EndOf, IsOpen
<1>4. ~Whole(c)
  BY <1>3, Things DEF SendFails, Whole
<1>5. call' = [call EXCEPT ![c] = Answer("IO")] /\ cpc' = [cpc EXCEPT ![c] = "sending"]
  BY <1>1 DEF SendFails, clients, EchoInv, ClientTypes
<1>6. Answer("IO") \in AnswerRec /\ ClientPlace(c, "sending", Answer("IO"), file[c])
  BY <1>1, <1>2, AnswerIs DEF ClientPlace, IsOpen, HasOpen
<1> QED
  BY <1>1, <1>4, <1>5, <1>6, ClientTurn DEF clients, SendFails

LEMMA EchoConnectRefused ==
  ASSUME EchoInv, NEW c \in Clients, ConnectRefused(c), UNCHANGED <<server, clients>>
  PROVE  EchoInv'
<1> USE DEF ConnectRefused
<1>0. KernelTypes /\ ClientTypes
  BY DEF EchoInv
<1>1. cpc[c] = "connecting" /\ ClientPlace(c, "connecting", call[c], file[c])
  BY CallPlace
<1>2. IsOpen(file[c], call[c].fd, Unbound)
  BY <1>1 DEF ClientPlace
<1>3. call[c].fd \in Fd /\ file[c][call[c].fd] = Unbound /\ Unbound \notin Ends /\ Unbound # Listener
  BY <1>2, Things DEF IsOpen
<1>4. file' = [file EXCEPT ![c][call[c].fd] = Free] /\ UNCHANGED <<backlog, wire, shut, broken>>
  BY <1>3 DEF Close
<1>5. /\ file' \in [Clients \cup {Server} -> [Fd -> Thing]]
      /\ file'[c][call[c].fd] = Free
      /\ \A e \in Fd : e # call[c].fd => file'[c][e] = file[c][e]
      /\ \A q \in Clients \cup {Server} : q # c => file'[q] = file[q]
  <2>1. Free \in Thing
    BY DEF Thing
  <2> QED
    BY <1>0, <1>3, <1>4, <2>1, FileSet
<1>6. NoneOpen(file'[c])
  BY <1>1, <1>3, <1>5, Things DEF NoneOpen, ClientPlace
<1>7. call' = [call EXCEPT ![c] = [op |-> "connect", left |-> call[c].left, fd |-> NoFd]]
  <2>1. call[c] = [op |-> "connect", left |-> call[c].left, fd |-> call[c].fd]
    BY <1>0, CallKinds
  <2>2. [call[c] EXCEPT !.fd = NoFd] = [op |-> "connect", left |-> call[c].left, fd |-> NoFd]
    BY <2>1
  <2> QED
    BY <2>2
<1> DEFINE k == [op |-> "connect", left |-> call[c].left, fd |-> NoFd]
<1>8. k \in ConnectRec /\ k.op = "connect" /\ k.fd = NoFd
  BY <1>0, CallKinds, FdIs DEF ConnectRec
<1>9. call' = [call EXCEPT ![c] = k]
  BY <1>7
<1> HIDE DEF k
<1>10. /\ call' \in [Clients \cup Threads -> {Idle} \cup AnswerRec \cup ConnectRec \cup SendRec]
       /\ call'[c] = k
       /\ \A u \in Clients \cup Threads : u # c => call'[u] = call[u]
  BY <1>0, <1>8, <1>9, CallSet
<1>11. KernelTypes' /\ ClientTypes'
  BY <1>0, <1>4, <1>5, <1>10 DEF KernelTypes, ClientTypes, clients
<1>12. ~Connected(c) /\ ~Connected(c)' /\ got[c] = <<>> /\ ClientEnd(c) \notin shut
  BY <1>1, <1>6, Things, NotConnected DEF Connected, Fd, NoneOpen
<1>13. ClientPlace(c, "connecting", k, file'[c])
  BY <1>6, <1>8, Things DEF ClientPlace, NoneOpen
<1>14. ClientOf(c)'
  BY <1>1, <1>4, <1>10, <1>12, <1>13 DEF ClientOf, clients
<1>15. OnlyClient(c)
  BY <1>4, <1>5, <1>10, OnlyCall
<1> QED
  BY <1>4, <1>11, <1>12, <1>14, <1>15, ClientQuiet DEF Whole, clients

\* Appending a client that does not wait yet.
LEMMA BacklogAppend ==
  ASSUME NEW q \in Seq(Clients), NEW c \in Clients, \A k \in 1 .. Len(q) : q[k] # c,
         \A k, l \in 1 .. Len(q) : q[k] = q[l] => k = l
  PROVE  LET r == Append(q, c)
         IN /\ r \in Seq(Clients)
            /\ \A k, l \in 1 .. Len(r) : r[k] = r[l] => k = l
            /\ \A b \in Clients : (\E k \in 1 .. Len(r) : r[k] = b) <=> b = c \/ \E k \in 1 .. Len(q) : q[k] = b
<1> DEFINE r == Append(q, c)
<1>1. r \in Seq(Clients) /\ Len(r) = Len(q) + 1 /\ r[Len(q) + 1] = c /\ Len(q) \in Nat
  OBVIOUS
<1>2. \A k \in 1 .. Len(q) : r[k] = q[k]
  OBVIOUS
<1> HIDE DEF r
<1>3. \A k \in 1 .. Len(r) : k = Len(q) + 1 \/ k \in 1 .. Len(q)
  BY <1>1
<1>4. \A k, l \in 1 .. Len(r) : r[k] = r[l] => k = l
  BY <1>1, <1>2, <1>3
<1>5. \A b \in Clients : (\E k \in 1 .. Len(r) : r[k] = b) <=> b = c \/ \E k \in 1 .. Len(q) : q[k] = b
  BY <1>1, <1>2, <1>3
<1> QED
  BY <1>1, <1>4, <1>5 DEF r

\* A client the server has not accepted has nobody sending to it.
LEMMA NothingInHand ==
  ASSUME EchoInv, NEW c \in Clients, ~Accepted(c)
  PROVE  InHand(c) = <<>>
<1>1. \A t \in Threads : ~SendsTo(call, file[Server], t, c)
  <2> SUFFICES ASSUME NEW t \in Threads, SendsTo(call, file[Server], t, c) PROVE FALSE
    OBVIOUS
  <2>1. call[t] \in SendRec
    BY CallKinds DEF EchoInv, SendsTo
  <2>2. call[t].fd \in Fd
    BY <2>1 DEF SendRec
  <2> QED
    BY <2>2 DEF SendsTo, Accepted, HasOpen
<1> QED
  BY <1>1, HandEmpty, InHandIs

LEMMA EchoConnectOk ==
  ASSUME EchoInv, NEW c \in Clients, ConnectOk(c), UNCHANGED <<server, clients>>
  PROVE  EchoInv'
<1> USE DEF ConnectOk
<1>0. KernelTypes /\ ClientTypes
  BY DEF EchoInv
<1>1. cpc[c] = "connecting" /\ ClientPlace(c, "connecting", call[c], file[c])
  BY CallPlace
<1>2. IsOpen(file[c], call[c].fd, Unbound)
  BY <1>1 DEF ClientPlace
<1>3. call[c].fd \in Fd /\ file[c][call[c].fd] = Unbound
  BY <1>2 DEF IsOpen
<1>4. ~Connected(c) /\ got[c] = <<>> /\ ClientEnd(c) \notin shut
  BY <1>1, NotConnected
<1>5. /\ ~Waiting(c) /\ ~Accepted(c) /\ ServerEnd(c) \notin shut /\ c \notin broken
      /\ wire[ClientEnd(c)] = <<>> /\ wire[ServerEnd(c)] = <<>>
  BY <1>4 DEF EchoInv, Connections, ConnectionOf
<1>6. /\ file' \in [Clients \cup {Server} -> [Fd -> Thing]]
      /\ file'[c][call[c].fd] = ClientEnd(c)
      /\ \A e \in Fd : e # call[c].fd => file'[c][e] = file[c][e]
      /\ \A q \in Clients \cup {Server} : q # c => file'[q] = file[q]
  <2>1. ClientEnd(c) \in Thing
    BY Things DEF Thing
  <2> QED
    BY <1>0, <1>3, <2>1, FileSet
<1> DEFINE k == [Answer("OK") EXCEPT !.fd = call[c].fd]
<1>7. k \in AnswerRec /\ k.op = "answer" /\ k.err = "OK" /\ k.fd = call[c].fd
  BY <1>3, AnswerIs
<1>8. call' = [call EXCEPT ![c] = k]
  OBVIOUS
<1> HIDE DEF k
<1>9. /\ call' \in [Clients \cup Threads -> {Idle} \cup AnswerRec \cup ConnectRec \cup SendRec]
      /\ call'[c] = k
      /\ \A u \in Clients \cup Threads : u # c => call'[u] = call[u]
  BY <1>0, <1>7, <1>8, CallSet
<1>10. /\ backlog' \in Seq(Clients)
       /\ \A j, l \in 1 .. Len(backlog') : backlog'[j] = backlog'[l] => j = l
       /\ \A b \in Clients : Waiting(b)' <=> b = c \/ Waiting(b)
  <2>1. /\ backlog \in Seq(Clients) /\ \A j \in 1 .. Len(backlog) : backlog[j] # c
        /\ \A j, l \in 1 .. Len(backlog) : backlog[j] = backlog[l] => j = l
    BY <1>0, <1>5 DEF KernelTypes, Waiting, EchoInv, Connections
  <2>2. backlog' = Append(backlog, c)
    OBVIOUS
  <2> QED
    BY ONLY <2>1, <2>2, c \in Clients, BacklogAppend DEF Waiting
<1>11. KernelTypes' /\ ClientTypes'
  BY <1>0, <1>6, <1>9, <1>10 DEF KernelTypes, ClientTypes, clients
<1>12. ClientPlace(c, "connecting", k, file'[c])
  BY <1>1, <1>3, <1>6, <1>7, Things DEF ClientPlace, NoneOpen, IsOpen
<1>13. ClientOf(c)'
  BY <1>1, <1>4, <1>9, <1>12 DEF ClientOf, clients
<1>14. OnlyClient(c)
  BY <1>6, <1>9, OnlyCall
<1>15. Connected(c)'
  BY <1>3, <1>6 DEF Connected, Fd
<1>16. Connections'
  <2> SUFFICES ASSUME NEW b \in Clients PROVE ConnectionOf(b)'
    BY <1>10 DEF Connections
  <2>1. CASE b = c
    BY <1>5, <1>14, <1>15, <2>1, OthersKept DEF ConnectionOf
  <2>2. CASE b # c
    <3>1. ConnectionOf(b)
      BY DEF EchoInv, Connections
    <3>2. SameConnection(b)
      BY <1>10, <1>14, <2>2, OthersKept DEF SameConnection
    <3> QED
      BY <3>1, <3>2, ConnectionKept DEF SameBytes
  <2> QED
    BY <2>1, <2>2
<1>17. Streams'
  <2> SUFFICES ASSUME NEW b \in Clients PROVE StreamOf(b)'
    BY DEF Streams
  <2>0. StreamOf(b) /\ InHand(b)' = InHand(b)
    BY <1>14, OthersKept DEF EchoInv, Streams
  <2>1. CASE b = c
    <3>1. InHand(c)' = <<>>
      BY <1>5, <2>0, <2>1, NothingInHand
    <3>2. LeftClient(c)' = 0
      BY <1>1 DEF LeftClient, clients
    <3>3. SubSeq(Message(c), 1, 0) = <<>> /\ <<>> \o <<>> = <<>>
      OBVIOUS
    <3>4. got'[c] \o wire'[ClientEnd(c)] \o InHand(c)' \o wire'[ServerEnd(c)]
             = SubSeq(Message(c), 1, LeftClient(c)')
      BY <1>4, <1>5, <3>1, <3>2, <3>3 DEF clients
    <3>5. got'[c] = got[c] /\ wire' = wire /\ broken' = broken /\ code' = code /\ Message(c)' = Message(c)
      BY DEF clients, Message
    <3> QED
      BY <2>0, <2>1, <3>4, <3>5 DEF StreamOf
  <2>2. CASE b # c
    <3>1. Whole(b)' <=> Whole(b)
      BY <1>14, <2>2, OthersKept DEF Whole
    <3>2. LeftClient(b)' = LeftClient(b)
      BY <1>14, <2>2, OthersKept
    <3> QED
      BY <2>0, <3>1, <3>2, StreamKept DEF clients
  <2> QED
    BY <2>1, <2>2
<1> QED
  BY <1>11, <1>13, <1>14, <1>16, <1>17, ClientMoves

LEMMA EchoReset ==
  ASSUME EchoInv, NEW c \in Clients, Reset(c), UNCHANGED <<server, clients>>
  PROVE  EchoInv'
<1> USE DEF Reset
<1>0. KernelTypes /\ ClientTypes /\ ClientOf(c)
  BY DEF EchoInv, ClientSide
<1>1. KernelTypes'
  BY <1>0 DEF KernelTypes
<1>2. ClientTypes' /\ ClientOf(c)'
  BY <1>0, ClientKept DEF ClientTypes, clients
<1>3. OnlyClient(c)
  BY OnlyCall
<1>4. Connected(c) /\ (Connected(c)' <=> Connected(c))
  BY DEF Connected
<1>5. \A b \in Clients : b # c => SameBytes(b)
  BY Things DEF SameBytes
<1>6. \A b \in Clients : SameConnection(b)
  BY <1>3, <1>4, OthersKept DEF SameConnection, Waiting
<1>7. Connections'
  <2> SUFFICES ASSUME NEW b \in Clients PROVE ConnectionOf(b)'
    BY DEF EchoInv, Connections
  <2>1. ConnectionOf(b)
    BY DEF EchoInv, Connections
  <2> QED
    BY <1>4, <1>5, <1>6, <2>1, ConnectionKept, ConnectionFlows
<1>8. Streams'
  <2> SUFFICES ASSUME NEW b \in Clients PROVE StreamOf(b)'
    BY DEF Streams
  <2>1. StreamOf(b) /\ got'[b] = got[b] /\ code'[b] = code[b]
    BY DEF EchoInv, Streams, clients
  <2>2. CASE b = c
    BY <2>1, <2>2, StreamKept DEF Whole
  <2>3. CASE b # c
    <3>1. (Whole(b)' <=> Whole(b)) /\ InHand(b)' = InHand(b) /\ LeftClient(b)' = LeftClient(b)
      BY <1>3, <1>5, <1>6, <2>3, OthersKept DEF Whole, SameConnection, SameBytes
    <3> QED
      BY <1>5, <2>1, <2>3, <3>1, StreamKept DEF SameBytes
  <2> QED
    BY <2>2, <2>3
<1> QED
  BY <1>1, <1>2, <1>3, <1>7, <1>8, ClientMoves

LEMMA EchoClientExits ==
  ASSUME EchoInv, NEW c \in Clients, ClientExits(c), UNCHANGED server
  PROVE  EchoInv'
<1> USE DEF ClientExits
<1>0. KernelTypes /\ ClientTypes /\ ClientOf(c)
  BY DEF EchoInv, ClientSide
<1>1. ClientPlace(c, "close", call[c], file[c])
  BY CallPlace
<1>2. /\ file' \in [Clients \cup {Server} -> [Fd -> Thing]]
      /\ \A q \in Clients \cup {Server} : q # c => file'[q] = file[q]
      /\ NoneOpen(file'[c])
      /\ shut' = shut \/ shut' = shut \cup {ClientEnd(c)}
      /\ broken' = broken \/ broken' = broken \cup {c}
      /\ Connected(c) => ClientEnd(c) \in shut'
      /\ ~Connected(c) => shut' = shut /\ broken' = broken
      /\ UNCHANGED <<wire, backlog>>
  <2>1. CASE ~Connected(c)
    <3>1. NoneOpen(file[c])
      BY <1>1, <2>1 DEF ClientPlace, NoneOpen, Connected, Fd
    <3> QED
      BY <1>0, <2>1, <3>1 DEF KernelTypes, kernel
  <2>2. CASE Connected(c)
    <3> DEFINE S == {d \in 1 .. MaxFd : file[c][d] = ClientEnd(c)}
               s == ClientSock(c)
    <3>1. s \in Fd /\ file[c][s] = ClientEnd(c)
      <4>1. S \subseteq Nat /\ S # {}
        BY <2>2, FdIs DEF Connected, Fd
      <4>2. Lowest(S) \in S
        BY <4>1, LowestIs
      <4> QED
        BY <4>2 DEF ClientSock, Fd
    <3> HIDE DEF s
    <3>2. Close(c, s)
      BY <2>2 DEF s
    <3>3. /\ file' = [file EXCEPT ![c][s] = Free] /\ shut' = shut \cup {ClientEnd(c)}
          /\ broken' = broken \/ broken' = broken \cup {c}
          /\ UNCHANGED <<wire, backlog>>
      BY <3>1, <3>2, Things DEF Close
    <3>4. Free \in Thing
      BY DEF Thing
    <3>5. /\ file' \in [Clients \cup {Server} -> [Fd -> Thing]]
          /\ file'[c][s] = Free
          /\ \A e \in Fd : e # s => file'[c][e] = file[c][e]
          /\ \A q \in Clients \cup {Server} : q # c => file'[q] = file[q]
      BY <1>0, <3>1, <3>3, <3>4, FileSet
    <3>6. NoneOpen(file'[c])
      BY <1>1, <3>1, <3>5, Things DEF ClientPlace, NoneOpen
    <3> QED
      BY <2>2, <3>3, <3>5, <3>6
  <2> QED
    BY <2>1, <2>2
<1>3. /\ cpc' \in [Clients -> {"start", "connecting", "sending", "reading", "close", "exit"}]
      /\ cpc'[c] = "exit" /\ \A b \in Clients : b # c => cpc'[b] = cpc[b]
      /\ code' \in [Clients -> {NoFd, 0, 1}]
      /\ code'[c] = 0 => Len(got[c]) = MsgLen[c]
      /\ \A b \in Clients : b # c => code'[b] = code[b]
  BY <1>0 DEF ClientTypes
<1>4. KernelTypes'
  BY <1>0, <1>2, Things DEF KernelTypes
<1>5. ClientTypes'
  BY <1>0, <1>3 DEF ClientTypes
<1>6. ClientOf(c)'
  <2>1. call'[c] = Idle
    BY <1>1 DEF ClientPlace
  <2>2. ClientPlace(c, "exit", Idle, file'[c])
    BY <1>2 DEF ClientPlace, NoneOpen
  <2> QED
    BY <1>3, <2>1, <2>2 DEF ClientOf
<1>7. OnlyClient(c)
  BY <1>2, <1>3, Things DEF OnlyClient
<1>8. ~Connected(c)'
  BY <1>2, Things DEF Connected, NoneOpen, Fd
<1>9. \A b \in Clients : b # c => SameConnection(b) /\ SameBytes(b)
  BY <1>2, <1>7, OthersKept, Things DEF SameConnection, SameBytes, Waiting
<1>10. Connections'
  <2> SUFFICES ASSUME NEW b \in Clients PROVE ConnectionOf(b)'
    BY <1>2 DEF EchoInv, Connections
  <2>1. ConnectionOf(b)
    BY DEF EchoInv, Connections
  <2>2. CASE b # c
    BY <1>9, <2>1, <2>2, ConnectionKept
  <2>3. CASE b = c /\ Connected(c)
    <3>1. (Accepted(c)' <=> Accepted(c)) /\ (Waiting(c)' <=> Waiting(c)) /\ ClientEnd(c) \in shut'
      BY <1>2, <1>7, <2>3, OthersKept DEF Waiting
    <3>2. ServerEnd(c) \in shut' <=> ServerEnd(c) \in shut
      BY <1>7 DEF OnlyClient
    <3> QED
      BY <2>1, <2>3, <3>1, <3>2 DEF ConnectionOf
  <2>4. CASE b = c /\ ~Connected(c)
    <3>1. SameConnection(c) /\ SameBytes(c)
      BY <1>2, <1>7, <1>8, <2>4, OthersKept DEF SameConnection, SameBytes, Waiting
    <3> QED
      BY <2>1, <2>4, <3>1, ConnectionKept
  <2> QED
    BY <2>2, <2>3, <2>4
<1>11. Streams'
  <2> SUFFICES ASSUME NEW b \in Clients PROVE StreamOf(b)'
    BY DEF Streams
  <2>1. StreamOf(b) /\ got'[b] = got[b] /\ got[b] \in Seq(Byte)
    BY <1>0 DEF EchoInv, Streams, ClientTypes
  <2>2. CASE b # c
    <3>1. (Whole(b)' <=> Whole(b)) /\ InHand(b)' = InHand(b) /\ LeftClient(b)' = LeftClient(b)
      BY <1>7, <1>9, <2>2, OthersKept DEF Whole, SameConnection, SameBytes
    <3> QED
      BY <1>3, <1>9, <2>1, <2>2, <3>1, StreamKept DEF SameBytes
  <2>3. CASE b = c
    <3>1. code'[c] = 0 => got[c] = Message(c)
      BY <1>3, <2>1, <2>3, MessageIs, StartsIs DEF StreamOf
    <3> QED
      BY <1>2, <1>8, <2>1, <2>3, <3>1, StreamKeptAs DEF Whole
  <2> QED
    BY <2>2, <2>3
<1> QED
  BY <1>4, <1>5, <1>6, <1>7, <1>10, <1>11, ClientMoves

LEMMA HandType ==
  ASSUME EchoInv, NEW c \in Clients
  PROVE  InHand(c) \in Seq(Byte)
<1>1. ASSUME NEW t \in Threads, call[t].op = "send" PROVE Rest(call[t]) \in Seq(Byte)
  <2>1. call[t] \in SendRec
    BY <1>1, CallKinds DEF EchoInv
  <2>2. call[t].buf \in Seq(Byte) /\ call[t].sent \in Nat
    BY <2>1 DEF SendRec
  <2>3. call[t].sent <= Len(call[t].buf)
    <3>1. Handling(hand[t], call[t])
      BY DEF EchoInv, Handlers
    <3> QED
      BY <1>1, <3>1 DEF Handling, Idle
  <2>4. call[t].sent \in 0 .. Len(call[t].buf)
    BY <2>2, <2>3
  <2> QED
    BY <2>2, <2>4, Cut DEF Rest
<1> DEFINE ts == {t \in Threads : SendsTo(call, file[Server], t, c)}
<1>2. CASE ts = {}
  <2>1. \A t \in Threads : ~SendsTo(call, file[Server], t, c)
    BY <1>2
  <2>2. InHand(c) = <<>>
    BY <2>1, HandEmpty, InHandIs
  <2> QED
    BY <2>2
<1>3. CASE ts # {}
  <2> DEFINE t == CHOOSE u \in ts : TRUE
  <2>1. t \in ts
    BY <1>3
  <2>2. HandOf(call, file[Server], c) = Rest(call[t])
    BY <1>3 DEF HandOf
  <2> HIDE DEF t
  <2>3. t \in Threads /\ call[t].op = "send"
    BY <2>1 DEF SendsTo
  <2> QED
    BY <1>1, <2>2, <2>3, InHandIs
<1> QED
  BY <1>2, <1>3

\* send(2) takes some bytes of what a thread or a client still has to send.
LEMMA SendIs ==
  ASSUME EchoInv, NEW t \in Clients \cup Threads, SendSome(t),
         call[t].sent <= Len(call[t].buf)
  PROVE  \E n \in 1 .. Len(call[t].buf) - call[t].sent :
         \E k \in {Idle} \cup AnswerRec \cup ConnectRec \cup SendRec :
           /\ call' = [call EXCEPT ![t] = k]
           /\ SubSeq(Unsent(t), 1, n) \in Seq(Byte)
           /\ wire' = IF Peer(EndOf(t)) \in shut THEN wire
                      ELSE [wire EXCEPT ![Peer(EndOf(t))] = @ \o SubSeq(Unsent(t), 1, n)]
           /\ \/ /\ k.op = "answer" /\ k.err = "OK" /\ call[t].sent + n = Len(call[t].buf)
              \/ /\ k.op = "send" /\ k.fd = call[t].fd /\ k.buf = call[t].buf
                 /\ k.sent = call[t].sent + n /\ k.sent < Len(k.buf)
<1>0. call[t] \in SendRec /\ KernelTypes
  BY CallKinds DEF SendSome, EchoInv
<1>1. call[t].buf \in Seq(Byte) /\ call[t].sent \in Nat /\ Len(call[t].buf) \in Nat /\ call[t].fd \in Fd
  BY <1>0 DEF SendRec
<1>2. call[t].sent \in 0 .. Len(call[t].buf)
  BY <1>1
<1>3. Unsent(t) \in Seq(Byte) /\ Len(Unsent(t)) = Len(call[t].buf) - call[t].sent
  BY <1>1, <1>2, Cut DEF Unsent
<1>4. PICK n \in 1 .. Len(Unsent(t)) :
        /\ wire' = IF Peer(EndOf(t)) \in shut THEN wire
                   ELSE [wire EXCEPT ![Peer(EndOf(t))] = @ \o SubSeq(Unsent(t), 1, n)]
        /\ call' = [call EXCEPT ![t] = IF call[t].sent + n = Len(call[t].buf) THEN Answer("OK")
                                       ELSE [call[t] EXCEPT !.sent = call[t].sent + n]]
  BY DEF SendSome, Advance
<1>5. n \in 0 .. Len(Unsent(t)) /\ n \in 1 .. Len(call[t].buf) - call[t].sent
  BY <1>1, <1>3
<1>6. SubSeq(Unsent(t), 1, n) \in Seq(Byte)
  BY <1>3, <1>5, Cut
<1>7. CASE call[t].sent + n = Len(call[t].buf)
  <2>1. call' = [call EXCEPT ![t] = Answer("OK")]
    BY <1>4, <1>7
  <2> QED
    BY <1>4, <1>5, <1>6, <1>7, <2>1, AnswerIs
<1>8. CASE call[t].sent + n # Len(call[t].buf)
  <2> DEFINE k == [op |-> "send", fd |-> call[t].fd, buf |-> call[t].buf, sent |-> call[t].sent + n]
  <2>1. k \in SendRec /\ k.op = "send" /\ k.fd = call[t].fd /\ k.buf = call[t].buf /\ k.sent = call[t].sent + n
    BY <1>1, <1>5 DEF SendRec
  <2>2. [call[t] EXCEPT !.sent = call[t].sent + n] = k
    <3>1. call[t] = [op |-> "send", fd |-> call[t].fd, buf |-> call[t].buf, sent |-> call[t].sent]
      BY <1>0, CallKinds DEF SendSome
    <3> QED
      BY <3>1
  <2>3. call' = [call EXCEPT ![t] = k]
    BY <1>4, <1>8, <2>2
  <2> HIDE DEF k
  <2>4. k.sent < Len(k.buf)
    <3>1. call[t].sent + n < Len(call[t].buf)
      BY <1>1, <1>5, <1>8
    <3> QED
      BY <2>1, <3>1
  <2> QED
    BY <1>4, <1>5, <1>6, <2>1, <2>3, <2>4
<1> QED
  BY <1>7, <1>8

LEMMA EchoClientSends ==
  ASSUME EchoInv, NEW c \in Clients, SendSome(c), UNCHANGED <<server, clients>>
  PROVE  EchoInv'
<1>0. KernelTypes /\ ClientTypes /\ ClientOf(c) /\ call[c].op = "send"
  BY DEF EchoInv, ClientSide, SendSome
<1>1. ClientPlace(c, "sending", call[c], file[c]) /\ cpc[c] = "sending" /\ got[c] = <<>>
  BY <1>0, CallPlace DEF ClientOf
<1>2. /\ IsOpen(file[c], call[c].fd, ClientEnd(c))
      /\ call[c].buf = Message(c) /\ call[c].sent <= MsgLen[c]
  BY <1>0, <1>1 DEF ClientPlace
<1>3. EndOf(c) = ClientEnd(c) /\ Peer(EndOf(c)) = ServerEnd(c)
  BY <1>2, Names, Things DEF EndOf, IsOpen
<1>4. Len(call[c].buf) = MsgLen[c] /\ MsgLen[c] \in Nat /\ Message(c) \in Seq(Byte)
  BY <1>2, MessageIs
<1>5. call[c].sent \in Nat
  BY <1>0, CallKinds DEF SendRec
<1>6. PICK n \in 1 .. MsgLen[c] - call[c].sent :
      \E k \in {Idle} \cup AnswerRec \cup ConnectRec \cup SendRec :
        /\ call' = [call EXCEPT ![c] = k]
        /\ SubSeq(Unsent(c), 1, n) \in Seq(Byte)
        /\ wire' = IF Peer(EndOf(c)) \in shut THEN wire
                   ELSE [wire EXCEPT ![Peer(EndOf(c))] = @ \o SubSeq(Unsent(c), 1, n)]
        /\ \/ /\ k.op = "answer" /\ k.err = "OK" /\ call[c].sent + n = Len(call[c].buf)
           \/ /\ k.op = "send" /\ k.fd = call[c].fd /\ k.buf = call[c].buf
              /\ k.sent = call[c].sent + n /\ k.sent < Len(k.buf)
  BY <1>2, <1>4, SendIs
<1>7. PICK k \in {Idle} \cup AnswerRec \cup ConnectRec \cup SendRec :
        /\ call' = [call EXCEPT ![c] = k]
        /\ SubSeq(Unsent(c), 1, n) \in Seq(Byte)
        /\ wire' = IF ServerEnd(c) \in shut THEN wire
                   ELSE [wire EXCEPT ![ServerEnd(c)] = @ \o SubSeq(Unsent(c), 1, n)]
        /\ \/ /\ k.op = "answer" /\ k.err = "OK" /\ call[c].sent + n = MsgLen[c]
           \/ /\ k.op = "send" /\ k.fd = call[c].fd /\ k.buf = Message(c)
              /\ k.sent = call[c].sent + n /\ k.sent < MsgLen[c]
  BY <1>2, <1>3, <1>4, <1>6
<1>8. /\ call' \in [Clients \cup Threads -> {Idle} \cup AnswerRec \cup ConnectRec \cup SendRec]
      /\ call'[c] = k
      /\ \A u \in Clients \cup Threads : u # c => call'[u] = call[u]
  BY <1>0, <1>7, CallSet
<1>9. UNCHANGED <<file, backlog, shut, broken>>
  BY DEF SendSome
<1>10. ClientPlace(c, "sending", k, file[c])
  <2>1. k.op = "send" => k.sent <= MsgLen[c]
    BY <1>4, <1>5, <1>7
  <2>2. HasOpen(file[c], ClientEnd(c))
    BY <1>2 DEF IsOpen, HasOpen
  <2> QED
    BY <1>1, <1>2, <1>7, <2>1, <2>2 DEF ClientPlace
<1>11. ClientOf(c)'
  BY <1>0, <1>1, <1>8, <1>9, <1>10 DEF ClientOf, clients
<1>12. ClientTypes'
  BY <1>0 DEF ClientTypes, clients
<1>13. /\ wire' \in [Ends -> Seq(Byte)]
       /\ \A e \in Ends : e # ServerEnd(c) => wire'[e] = wire[e]
       /\ ServerEnd(c) \notin shut => wire'[ServerEnd(c)] = wire[ServerEnd(c)] \o SubSeq(Unsent(c), 1, n)
  <2>1. wire[ServerEnd(c)] \o SubSeq(Unsent(c), 1, n) \in Seq(Byte) /\ ServerEnd(c) \in Ends
    BY <1>0, <1>7, Joined, Things DEF KernelTypes
  <2> QED
    BY <1>0, <1>7, <2>1 DEF KernelTypes
<1>14. KernelTypes'
  BY <1>0, <1>8, <1>9, <1>13 DEF KernelTypes
<1>15. OnlyClient(c)
  BY <1>8, <1>9, OnlyCall
<1>16. Connected(c) /\ \A b \in Clients : Connected(b)' <=> Connected(b)
  BY <1>2, <1>9 DEF Connected, IsOpen, Fd
<1>17. \A b \in Clients : SameConnection(b)
  BY <1>9, <1>15, <1>16, OthersKept DEF SameConnection, Waiting
<1>18. \A b \in Clients : b # c => SameBytes(b)
  BY <1>9, <1>13, Things DEF SameBytes
<1>19. Connections'
  <2> SUFFICES ASSUME NEW b \in Clients PROVE ConnectionOf(b)'
    BY <1>9 DEF EchoInv, Connections
  <2>1. ConnectionOf(b)
    BY DEF EchoInv, Connections
  <2> QED
    BY <1>16, <1>17, <1>18, <2>1, ConnectionKept, ConnectionFlows
<1>20. LeftClient(c) = call[c].sent /\ LeftClient(c)' = call[c].sent + n
  BY <1>0, <1>1, <1>7, <1>8 DEF LeftClient, clients
<1>21. Streams'
  <2> SUFFICES ASSUME NEW b \in Clients PROVE StreamOf(b)'
    BY DEF Streams
  <2>1. StreamOf(b) /\ got'[b] = got[b] /\ code'[b] = code[b] /\ (Whole(b)' <=> Whole(b)) /\ InHand(b)' = InHand(b)
    BY <1>9, <1>15, <1>16, OthersKept DEF EchoInv, Streams, clients, Whole
  <2>2. CASE b # c
    <3>1. LeftClient(b)' = LeftClient(b)
      BY <1>15, <2>2, OthersKept
    <3> QED
      BY <1>18, <2>1, <2>2, <3>1, StreamKept DEF SameBytes
  <2>3. CASE b = c /\ ~Whole(c)
    <3>1. wire'[ClientEnd(c)] = wire[ClientEnd(c)]
      BY <1>13, Things
    <3> QED
      BY <1>9, <2>1, <2>3, <3>1, StreamKept
  <2>4. CASE b = c /\ Whole(c)
    <3> DEFINE g == got[c]
               x == wire[ClientEnd(c)]
               h == InHand(c)
               y == wire[ServerEnd(c)]
               a == SubSeq(Unsent(c), 1, n)
    <3>1. g \in Seq(Byte) /\ x \in Seq(Byte) /\ h \in Seq(Byte) /\ y \in Seq(Byte) /\ a \in Seq(Byte)
      BY <1>0, <1>7, HandType, Things DEF KernelTypes, ClientTypes
    <3> HIDE DEF g, x, h, y, a
    <3>2. g \o x \o h \o (y \o a) = (g \o x \o h \o y) \o a
      <4> DEFINE p == g \o x \o h
      <4>1. p \in Seq(Byte)
        BY <3>1, ConcatProperties
      <4> HIDE DEF p
      <4>2. p \o (y \o a) = (p \o y) \o a
        BY <3>1, <4>1, Assoc
      <4> QED
        BY <4>2 DEF p
    <3>3. g \o x \o h \o y = SubSeq(Message(c), 1, call[c].sent)
      BY <1>20, <2>1, <2>4 DEF StreamOf, g, x, h, y
    <3>4. SubSeq(Message(c), 1, call[c].sent) \o a = SubSeq(Message(c), 1, call[c].sent + n)
      <4>1. call[c].sent \in 0 .. Len(Message(c)) /\ n \in 0 .. Len(Message(c)) - call[c].sent
        BY <1>2, <1>4, <1>5
      <4>2. a = SubSeq(SubSeq(Message(c), call[c].sent + 1, Len(Message(c))), 1, n)
        BY <1>2 DEF Unsent, a
      <4> QED
        BY <1>4, <4>1, <4>2, CutUnsent
    <3>5. /\ got'[c] = g /\ wire'[ClientEnd(c)] = x /\ InHand(c)' = h /\ wire'[ServerEnd(c)] = y \o a
          /\ code'[c] = code[c] /\ broken' = broken /\ Message(c)' = Message(c)
      BY <1>9, <1>13, <2>1, <2>4, Things DEF Whole, Message, g, x, h, y, a
    <3>6. got'[c] \o wire'[ClientEnd(c)] \o InHand(c)' \o wire'[ServerEnd(c)]
            = SubSeq(Message(c), 1, LeftClient(c)')
      BY <1>20, <3>2, <3>3, <3>4, <3>5
    <3> QED
      BY <2>1, <2>4, <3>5, <3>6 DEF StreamOf, g, x
  <2> QED
    BY <2>2, <2>3, <2>4
<1> QED
  BY <1>11, <1>12, <1>14, <1>15, <1>19, <1>21, ClientMoves

\* What tcp_recv answers is a beginning of the bytes that arrived.
LEMMA RecvIs ==
  ASSUME KernelTypes, NEW e \in Ends, NEW cap \in Nat, NEW a \in RecvAnswers(e, cap)
  PROVE  /\ Len(a.data) \in 0 .. Len(wire[e]) /\ Len(a.data) <= cap
         /\ a.data = SubSeq(wire[e], 1, Len(a.data)) /\ a.data \in Seq(Byte)
         /\ SubSeq(wire[e], Len(a.data) + 1, Len(wire[e])) \in Seq(Byte)
         /\ a.data \o SubSeq(wire[e], Len(a.data) + 1, Len(wire[e])) = wire[e]
         /\ e[1] \in broken => a.data = <<>>
         /\ a.data # <<>> => a.err = "OK"
<1>0. wire[e] \in Seq(Byte) /\ Len(wire[e]) \in Nat
  BY DEF KernelTypes
<1>5. a.data # <<>> => a.err = "OK"
  BY DEF RecvAnswers
<1>1. \/ a.data = <<>>
      \/ /\ e[1] \notin broken
         /\ \E n \in (1 .. cap) \cap (1 .. Len(wire[e])) : a.data = SubSeq(wire[e], 1, n)
  BY DEF RecvAnswers
<1>2. \E n \in 0 .. Len(wire[e]) : /\ n <= cap /\ a.data = SubSeq(wire[e], 1, n)
                                   /\ e[1] \in broken => a.data = <<>>
  <2>1. SubSeq(wire[e], 1, 0) = <<>> /\ 0 \in 0 .. Len(wire[e]) /\ 0 <= cap
    BY <1>0
  <2>2. CASE a.data = <<>>
    BY <2>1, <2>2
  <2>3. CASE /\ e[1] \notin broken
             /\ \E n \in (1 .. cap) \cap (1 .. Len(wire[e])) : a.data = SubSeq(wire[e], 1, n)
    <3>1. PICK n \in (1 .. cap) \cap (1 .. Len(wire[e])) : a.data = SubSeq(wire[e], 1, n)
      BY <2>3
    <3>2. n \in 0 .. Len(wire[e]) /\ n <= cap
      BY <1>0
    <3> QED
      BY <2>3, <3>1, <3>2
  <2> QED
    BY <1>1, <2>2, <2>3
<1>3. PICK n \in 0 .. Len(wire[e]) : /\ n <= cap /\ a.data = SubSeq(wire[e], 1, n)
                                     /\ e[1] \in broken => a.data = <<>>
  BY <1>2
<1>4. /\ SubSeq(wire[e], 1, n) \in Seq(Byte) /\ Len(SubSeq(wire[e], 1, n)) = n
      /\ SubSeq(wire[e], n + 1, Len(wire[e])) \in Seq(Byte)
      /\ SubSeq(wire[e], 1, n) \o SubSeq(wire[e], n + 1, Len(wire[e])) = wire[e]
  BY <1>0, Cut
<1> QED
  BY <1>3, <1>4, <1>5

LEMMA EchoClientReads ==
  ASSUME EchoInv, NEW c \in Clients, ClientReads(c), UNCHANGED server
  PROVE  EchoInv'
<1> DEFINE e == ClientEnd(c)
<1>0. KernelTypes /\ ClientTypes /\ ClientOf(c) /\ cpc[c] = "reading" /\ e \in Ends /\ StreamOf(c)
  BY Things DEF EchoInv, ClientSide, ClientReads, Streams
<1>1. ClientPlace(c, "reading", call[c], file[c])
  BY <1>0, CallPlace
<1>2. /\ got[c] \in Seq(Byte) /\ wire[e] \in Seq(Byte) /\ wire[ServerEnd(c)] \in Seq(Byte)
      /\ Len(got[c]) < CliBuf /\ Len(got[c]) \in Nat
  BY <1>0, Things DEF KernelTypes, ClientTypes, StreamOf
<1>3. CliBuf - 1 - Len(got[c]) \in Nat
  BY <1>2, SizesAssumption
<1>4. PICK a \in RecvAnswers(e, CliBuf - 1 - Len(got[c])) :
        /\ Receive(e, a)
        /\ got' = [got EXCEPT ![c] = @ \o a.data]
        /\ cpc' = [cpc EXCEPT ![c] = IF a.data = <<>> THEN "close" ELSE "reading"]
  BY DEF ClientReads
<1> DEFINE x == SubSeq(wire[e], Len(a.data) + 1, Len(wire[e]))
<1>5. /\ Len(a.data) \in 0 .. Len(wire[e]) /\ Len(a.data) <= CliBuf - 1 - Len(got[c])
      /\ a.data \in Seq(Byte) /\ x \in Seq(Byte) /\ a.data \o x = wire[e]
      /\ c \in broken => a.data = <<>>
  <2>1. e[1] = c
    BY Things
  <2> DEFINE cap == CliBuf - 1 - Len(got[c])
  <2>2. cap \in Nat /\ a \in RecvAnswers(e, cap)
    BY <1>3
  <2> HIDE DEF e, cap
  <2>3. /\ Len(a.data) \in 0 .. Len(wire[e]) /\ Len(a.data) <= cap
        /\ a.data \in Seq(Byte) /\ x \in Seq(Byte) /\ a.data \o x = wire[e]
        /\ c \in broken => a.data = <<>>
    BY <1>0, <2>1, <2>2, RecvIs
  <2> QED
    BY <2>3 DEF cap
<1>6. /\ wire' = [wire EXCEPT ![e] = x] /\ UNCHANGED <<file, backlog, shut, broken, call, code>>
  BY <1>0, <1>4 DEF Receive, ClientReads, KernelTypes
<1> HIDE DEF x
<1>7. /\ wire' \in [Ends -> Seq(Byte)] /\ wire'[e] = x
      /\ \A d \in Ends : d # e => wire'[d] = wire[d]
  BY <1>0, <1>5, <1>6 DEF KernelTypes
<1>8. KernelTypes'
  BY <1>0, <1>6, <1>7 DEF KernelTypes
<1>9. /\ got' \in [Clients -> Seq(Byte)] /\ got'[c] = got[c] \o a.data
      /\ \A b \in Clients : b # c => got'[b] = got[b]
  BY <1>0, <1>2, <1>4, <1>5, Joined DEF ClientTypes
<1>10. /\ cpc' \in [Clients -> {"start", "connecting", "sending", "reading", "close", "exit"}]
       /\ cpc'[c] \in {"close", "reading"}
       /\ \A b \in Clients : b # c => cpc'[b] = cpc[b]
  BY <1>0, <1>4 DEF ClientTypes
<1>11. ClientTypes'
  BY <1>0, <1>6, <1>9, <1>10 DEF ClientTypes
<1>12. ClientOf(c)'
  <2>1. ClientPlace(c, cpc'[c], call[c], file[c])
    BY <1>1, <1>10, Things DEF ClientPlace, HasOpen
  <2>2. ClientEnd(c) \notin shut
    BY <1>0 DEF ClientOf
  <2> QED
    BY <1>6, <1>10, <2>1, <2>2 DEF ClientOf
<1>13. OnlyClient(c)
  BY <1>6, <1>9, <1>10 DEF OnlyClient
<1>14. Connected(c) /\ \A b \in Clients : Connected(b)' <=> Connected(b)
  BY <1>1, <1>6 DEF ClientPlace, HasOpen, Connected, Fd
<1>15. \A b \in Clients : SameConnection(b)
  BY <1>6, <1>13, <1>14, OthersKept DEF SameConnection, Waiting
<1>16. \A b \in Clients : b # c => SameBytes(b)
  BY <1>6, <1>7, Things DEF SameBytes
<1>17. Connections'
  <2> SUFFICES ASSUME NEW b \in Clients PROVE ConnectionOf(b)'
    BY <1>6 DEF EchoInv, Connections
  <2>1. ConnectionOf(b)
    BY DEF EchoInv, Connections
  <2> QED
    BY <1>14, <1>15, <1>16, <2>1, ConnectionKept, ConnectionFlows
<1>18. StreamOf(c)'
  <2>1. Message(c)' = Message(c) /\ Message(c) \in Seq(Byte) /\ Len(Message(c)) = MsgLen[c]
    BY MessageIs DEF Message
  <2>2. got'[c] \o wire'[e] = got[c] \o wire[e]
    <3>1. (got[c] \o a.data) \o x = got[c] \o (a.data \o x)
      BY <1>2, <1>5, Assoc
    <3> QED
      BY <1>5, <1>7, <1>9, <3>1
  <2>3. c \notin broken => Starts(got'[c] \o wire'[e], Message(c))
    BY <1>0, <2>2 DEF StreamOf
  <2>4. Starts(got'[c], Message(c))
    <3>1. CASE c \in broken
      <4>1. got[c] \o <<>> = got[c]
        BY <1>2, ConcatEmptySeq
      <4> QED
        BY <1>0, <1>5, <1>9, <3>1, <4>1 DEF StreamOf
    <3>2. CASE c \notin broken
      <4>1. got'[c] \in Seq(Byte) /\ wire'[e] \in Seq(Byte)
        BY <1>0, <1>7, <1>9
      <4> QED
        BY <2>1, <2>3, <3>2, <4>1, StartsConcat
    <3> QED
      BY <3>1, <3>2
  <2>5. Len(got'[c]) < CliBuf
    <3>1. Len(got'[c]) = Len(got[c]) + Len(a.data)
      BY <1>2, <1>5, <1>9
    <3>2. Len(a.data) \in Nat
      BY <1>5
    <3> DEFINE l == Len(a.data)
               m == Len(got[c])
    <3>3. l \in Nat /\ m \in Nat /\ CliBuf \in Nat /\ l <= CliBuf - 1 - m /\ Len(got'[c]) = m + l
      BY <1>2, <1>5, <3>1, <3>2, SizesAssumption
    <3> HIDE DEF l, m
    <3> QED
      BY <3>3
  <2>6. Whole(c)' <=> Whole(c)
    BY <1>6, <1>14 DEF Whole
  <2>7. InHand(c)' = InHand(c)
    BY <1>13, OthersKept
  <2>8. LeftClient(c)' = LeftClient(c)
    <3>1. call[c].op # "send"
      BY <1>1 DEF ClientPlace, Idle
    <3> QED
      BY <1>0, <1>6, <1>10, <3>1 DEF LeftClient
  <2>9. wire'[ServerEnd(c)] = wire[ServerEnd(c)]
    BY <1>7, Things
  <2>10. Whole(c)' => got'[c] \o wire'[e] \o InHand(c)' \o wire'[ServerEnd(c)]
                      = SubSeq(Message(c), 1, LeftClient(c)')
    BY <1>0, <2>2, <2>6, <2>7, <2>8, <2>9 DEF StreamOf
  <2>11. code'[c] # 0
    BY <1>0, <1>6, <2>1 DEF StreamOf, ClientReads
  <2> QED
    BY <1>6, <2>1, <2>3, <2>4, <2>5, <2>10, <2>11 DEF StreamOf
<1>19. Streams'
  <2> SUFFICES ASSUME NEW b \in Clients, b # c PROVE StreamOf(b)'
    BY <1>18 DEF Streams
  <2>1. StreamOf(b)
    BY DEF EchoInv, Streams
  <2>2. (Whole(b)' <=> Whole(b)) /\ InHand(b)' = InHand(b) /\ LeftClient(b)' = LeftClient(b)
    BY <1>6, <1>13, <1>14, OthersKept DEF Whole
  <2> QED
    BY <1>6, <1>9, <1>16, <2>1, <2>2, StreamKept DEF SameBytes
<1> QED
  BY <1>8, <1>11, <1>12, <1>13, <1>17, <1>19, ClientMoves

LEMMA EchoClientStep ==
  ASSUME EchoInv, NEW c \in Clients, ClientStep(c)
  PROVE  EchoInv'
<1>1. UNCHANGED server
  BY DEF ClientStep
<1>2. CASE NextAddress(c) /\ UNCHANGED clients
  BY <1>1, <1>2, EchoNextAddress
<1>3. CASE ConnectOk(c) /\ UNCHANGED clients
  BY <1>1, <1>3, EchoConnectOk
<1>4. CASE ConnectRefused(c) /\ UNCHANGED clients
  BY <1>1, <1>4, EchoConnectRefused
<1>5. CASE SendSome(c) /\ UNCHANGED clients
  BY <1>1, <1>5, EchoClientSends
<1>6. CASE SendFails(c) /\ UNCHANGED clients
  BY <1>1, <1>6, EchoClientSendFails
<1> QED
  BY <1>1, <1>2, <1>3, <1>4, <1>5, <1>6, EchoClientStart, EchoClientConnected, EchoClientSent,
     EchoClientReads, EchoClientHasAll, EchoClientExits DEF ClientStep, SendStep

-----------------------------------------------------------------------------
(* Steps of the server: what they leave of the clients *)

OnlyServer == /\ UNCHANGED clients
              /\ \A c \in Clients : /\ file'[c] = file[c] /\ call'[c] = call[c]
                                    /\ ClientEnd(c) \in shut' <=> ClientEnd(c) \in shut

ServerPart == ServerTypes /\ ServerSide /\ Handlers /\ PoolOwns /\ LoopOwns

LEMMA ServerMoves ==
  ASSUME EchoInv, OnlyServer, KernelTypes', ServerPart', Connections', Streams'
  PROVE  EchoInv'
<1>1. ClientTypes'
  BY DEF EchoInv, ClientTypes, OnlyServer, clients
<1>2. ClientSide'
  BY ClientKept DEF EchoInv, ClientSide, OnlyServer, clients
<1> QED
  BY <1>1, <1>2 DEF EchoInv, ServerPart

LEMMA ClientsKept ==
  ASSUME OnlyServer
  PROVE  \A c \in Clients : /\ Connected(c)' <=> Connected(c)
                            /\ LeftClient(c)' = LeftClient(c)
                            /\ got'[c] = got[c] /\ code'[c] = code[c]
BY DEF OnlyServer, clients, Connected, LeftClient

\* A step of the server that moves no byte.
LEMMA ServerQuiet ==
  ASSUME EchoInv, UNCHANGED <<backlog, wire, shut, broken, clients>>, KernelTypes', ServerPart',
         \A c \in Clients : file'[c] = file[c] /\ call'[c] = call[c],
         \A c \in Clients : Accepted(c)' <=> Accepted(c),
         \A c \in Clients : Whole(c) => InHand(c)' = InHand(c)
  PROVE  EchoInv'
<1>1. OnlyServer
  BY DEF OnlyServer
<1>2. Connections'
  <2> SUFFICES ASSUME NEW c \in Clients PROVE ConnectionOf(c)'
    BY DEF EchoInv, Connections
  <2>1. ConnectionOf(c)
    BY DEF EchoInv, Connections
  <2>2. SameConnection(c) /\ SameBytes(c)
    BY <1>1, ClientsKept DEF SameConnection, SameBytes, Waiting
  <2> QED
    BY <2>1, <2>2, ConnectionKept
<1>3. Streams'
  <2> SUFFICES ASSUME NEW c \in Clients PROVE StreamOf(c)'
    BY DEF Streams
  <2>1. StreamOf(c)
    BY DEF EchoInv, Streams
  <2>2. Whole(c)' <=> Whole(c)
    BY <1>1, ClientsKept DEF Whole
  <2> QED
    BY <1>1, <2>1, <2>2, ClientsKept, StreamKept
<1> QED
  BY <1>1, <1>2, <1>3, ServerMoves

\* A step that leaves files and calls alone.
LEMMA ServerTurn ==
  ASSUME EchoInv, UNCHANGED <<kernel, call, clients>>, ServerPart'
  PROVE  EchoInv'
<1>1. KernelTypes'
  BY DEF EchoInv, KernelTypes, kernel
<1>2. \A c \in Clients : (Accepted(c)' <=> Accepted(c)) /\ InHand(c)' = InHand(c)
  BY HandKept DEF Accepted, kernel
<1> QED
  BY <1>1, <1>2, ServerQuiet DEF kernel

\* Who sends to a client is the one thread that handles it.
LEMMA SoleSender ==
  ASSUME EchoInv, NEW t \in Threads, call[t].op = "send"
  PROVE  /\ hand[t].pc = "send" /\ call[t].fd = hand[t].fd /\ call[t].fd \in Fd
         /\ call[t].sent <= Len(call[t].buf)
         /\ \A u \in Threads : u # t => ~(call[u].op = "send" /\ file[Server][call[u].fd] = file[Server][call[t].fd])
         /\ \E c \in Clients : file[Server][call[t].fd] = ServerEnd(c)
<1>1. \A u \in Threads : call[u].op = "send" =>
         /\ hand[u].pc = "send" /\ call[u].fd = hand[u].fd /\ call[u].fd \in Fd
         /\ call[u].sent <= Len(call[u].buf)
  <2> SUFFICES ASSUME NEW u \in Threads, call[u].op = "send"
               PROVE  /\ hand[u].pc = "send" /\ call[u].fd = hand[u].fd /\ call[u].fd \in Fd
                      /\ call[u].sent <= Len(call[u].buf)
    OBVIOUS
  <2>1. Handling(hand[u], call[u])
    BY DEF EchoInv, Handlers
  <2>2. call[u] \in SendRec
    BY CallKinds DEF EchoInv
  <2> QED
    BY <2>1, <2>2 DEF Handling, Idle, SendRec
<1>2. \A u \in Threads : call[u].op = "send" => file[Server][call[u].fd] \in Ends
  BY <1>1, FdIs DEF EchoInv, Handlers
<1>3. \A u \in Threads : u # t => ~(call[u].op = "send" /\ file[Server][call[u].fd] = file[Server][call[t].fd])
  <2> SUFFICES ASSUME NEW u \in Threads, u # t, call[u].op = "send",
                      file[Server][call[u].fd] = file[Server][call[t].fd]
               PROVE  FALSE
    OBVIOUS
  <2>1. call[u].fd = call[t].fd
    BY <1>1, <1>2, Things DEF EchoInv, ServerSide
  <2> QED
    BY <1>1, <2>1, FdIs DEF EchoInv, Handlers
<1>4. \E c \in Clients : file[Server][call[t].fd] = ServerEnd(c)
  BY <1>1, <1>2, Things DEF EchoInv, ServerSide
<1> QED
  BY <1>1, <1>3, <1>4

\* The server's open connections can be counted.
OpenOf(f) == {f[d] : d \in Fd} \cap Ends

LEMMA OpenIs == ServerOpen = OpenOf(file[Server]) /\ ServerOpen' = OpenOf(file'[Server])
BY DEF ServerOpen, OpenOf, Fd

LEMMA OpenFinite == \A f : IsFiniteSet(OpenOf(f)) /\ Cardinality(OpenOf(f)) \in Nat
<1> SUFFICES ASSUME NEW f PROVE IsFiniteSet(OpenOf(f)) /\ Cardinality(OpenOf(f)) \in Nat
  OBVIOUS
<1> DEFINE g == [d \in Fd |-> f[d]]
           T == {f[d] : d \in Fd}
<1>1. IsFiniteSet(Fd)
  BY SocketAssumption, FS_Interval DEF Fd
<1>2. g \in Surjection(Fd, T)
  BY DEF Surjection
<1>3. IsFiniteSet(T)
  BY <1>1, <1>2, FS_Surjection
<1>4. OpenOf(f) \subseteq T
  BY DEF OpenOf
<1>5. IsFiniteSet(OpenOf(f))
  BY <1>3, <1>4, FS_Subset
<1> QED
  BY <1>5, FS_CardinalityType

LEMMA OpenAdd ==
  ASSUME NEW f, NEW g, NEW d \in Fd, NEW w \in Ends, f[d] \notin Ends, g[d] = w,
         \A e \in Fd : f[e] # w, \A e \in Fd : e # d => g[e] = f[e]
  PROVE  Cardinality(OpenOf(g)) = Cardinality(OpenOf(f)) + 1
<1>1. OpenOf(g) = OpenOf(f) \cup {w}
  BY DEF OpenOf
<1>2. w \notin OpenOf(f)
  BY DEF OpenOf
<1> QED
  BY <1>1, <1>2, OpenFinite, FS_AddElement

LEMMA OpenRemove ==
  ASSUME NEW f, NEW g, NEW d \in Fd, f[d] \in Ends, g[d] \notin Ends,
         \A e \in Fd : e # d => f[e] # f[d], \A e \in Fd : e # d => g[e] = f[e]
  PROVE  Cardinality(OpenOf(g)) = Cardinality(OpenOf(f)) - 1
<1>1. OpenOf(g) = OpenOf(f) \ {f[d]}
  BY DEF OpenOf
<1>2. f[d] \in OpenOf(f)
  BY DEF OpenOf
<1> QED
  BY <1>1, <1>2, OpenFinite, FS_RemoveElement

\* tcp_accept gives the first waiting client a free descriptor of the server.
LEMMA AcceptIs ==
  ASSUME EchoInv, NEW fd, TcpAccept(fd), fd # NoFd, UNCHANGED <<call, clients>>
  PROVE  /\ OnlyServer /\ KernelTypes' /\ Connections' /\ Streams'
         /\ fd \in Fd /\ file[Server][fd] = Free /\ UNCHANGED <<wire, shut, broken>>
         /\ \A d \in Fd : d # fd => file'[Server][d] = file[Server][d]
         /\ \E c \in Clients : /\ file'[Server][fd] = ServerEnd(c)
                               /\ \A d \in Fd : file[Server][d] # ServerEnd(c)
         /\ Cardinality(ServerOpen)' = Cardinality(ServerOpen) + 1
<1>0. KernelTypes
  BY DEF EchoInv
<1>1. /\ backlog # <<>> /\ FreeFds(Server) # {} /\ fd = Lowest(FreeFds(Server))
      /\ file' = [file EXCEPT ![Server][fd] = ServerEnd(Head(backlog))]
      /\ backlog' = Tail(backlog) /\ UNCHANGED <<wire, shut, broken>>
  BY DEF TcpAccept, Opened
<1>2. fd \in Fd /\ file[Server][fd] = Free
  BY <1>0, <1>1, LowestFree
<1>3. PICK c \in Clients : /\ backlog \in Seq(Clients) /\ Len(backlog) \in Nat /\ Len(backlog) > 0
                            /\ c = Head(backlog) /\ c = backlog[1]
  BY <1>0, <1>1 DEF KernelTypes
<1>4. /\ backlog' \in Seq(Clients) /\ Len(backlog') = Len(backlog) - 1
      /\ \A k \in 1 .. Len(backlog') : backlog'[k] = backlog[k + 1]
  BY <1>1, <1>3
<1>5. Waiting(c)
  BY <1>3 DEF Waiting
<1>6. ~Accepted(c) /\ ServerEnd(c) \notin shut
  BY <1>3, <1>5 DEF EchoInv, Connections, ConnectionOf
<1>7. ServerEnd(c) \in Thing /\ ServerEnd(c) \in Ends
  BY <1>3, Things DEF Thing
<1>8. /\ file' \in [Clients \cup {Server} -> [Fd -> Thing]]
      /\ file'[Server][fd] = ServerEnd(c)
      /\ \A d \in Fd : d # fd => file'[Server][d] = file[Server][d]
      /\ \A q \in Clients \cup {Server} : q # Server => file'[q] = file[q]
  <2>1. file' = [file EXCEPT ![Server][fd] = ServerEnd(c)]
    BY <1>1, <1>3
  <2> QED
    BY <1>0, <1>2, <1>7, <2>1, FileSet
<1>9. KernelTypes'
  BY <1>0, <1>1, <1>4, <1>8 DEF KernelTypes
<1>10. OnlyServer
  BY <1>1, <1>8, Names DEF OnlyServer
<1>11. \A d \in Fd : file[Server][d] # ServerEnd(c)
  BY <1>6 DEF Accepted, HasOpen
<1>12. Cardinality(ServerOpen)' = Cardinality(ServerOpen) + 1
  <2>1. file[Server][fd] \notin Ends
    BY <1>2, Things
  <2>2. Cardinality(OpenOf(file'[Server])) = Cardinality(OpenOf(file[Server])) + 1
    BY <1>2, <1>7, <1>8, <1>11, <2>1, OpenAdd
  <2> QED
    BY <2>2, OpenIs
<1>13. Accepted(c)' /\ \A b \in Clients : b # c => (Accepted(b)' <=> Accepted(b))
  <2>1. Accepted(c)'
    BY <1>2, <1>8 DEF Accepted, HasOpen
  <2>2. ASSUME NEW b \in Clients, b # c PROVE Accepted(b)' <=> Accepted(b)
    <3>1. ServerEnd(b) # ServerEnd(c) /\ ServerEnd(b) # Free
      BY <1>3, <2>2, Things
    <3>2. file'[Server][fd] # ServerEnd(b) /\ file[Server][fd] # ServerEnd(b)
      BY <1>2, <1>8, <3>1
    <3> QED
      BY <1>8, <3>2 DEF Accepted, HasOpen
  <2> QED
    BY <2>1, <2>2
<1>14. ~Waiting(c)' /\ \A b \in Clients : b # c => (Waiting(b)' <=> Waiting(b))
  <2>1. \A k, l \in 1 .. Len(backlog) : backlog[k] = backlog[l] => k = l
    BY DEF EchoInv, Connections
  <2>2. \A k \in 1 .. Len(backlog') : k + 1 \in 1 .. Len(backlog) /\ k + 1 # 1
    BY <1>3, <1>4
  <2>3. ~Waiting(c)'
    <3> SUFFICES ASSUME NEW k \in 1 .. Len(backlog'), backlog'[k] = c PROVE FALSE
      BY DEF Waiting
    <3>1. backlog[k + 1] = backlog[1] /\ 1 \in 1 .. Len(backlog)
      BY <1>3, <1>4
    <3> QED
      BY <2>1, <2>2, <3>1
  <2>4. ASSUME NEW b \in Clients, b # c PROVE Waiting(b)' <=> Waiting(b)
    <3>1. Waiting(b)' => Waiting(b)
      BY <1>4, <2>2 DEF Waiting
    <3>2. ASSUME Waiting(b) PROVE Waiting(b)'
      <4>1. PICK k \in 1 .. Len(backlog) : backlog[k] = b
        BY <3>2 DEF Waiting
      <4>2. k # 1
        BY <1>3, <2>4, <4>1
      <4>3. k - 1 \in 1 .. Len(backlog') /\ (k - 1) + 1 = k
        BY <1>3, <1>4, <4>2
      <4> QED
        BY <1>4, <4>1, <4>3 DEF Waiting
    <3> QED
      BY <3>1, <3>2
  <2> QED
    BY <2>3, <2>4
<1>15. Connections'
  <2>1. \A k, l \in 1 .. Len(backlog') : backlog'[k] = backlog'[l] => k = l
    <3> SUFFICES ASSUME NEW k \in 1 .. Len(backlog'), NEW l \in 1 .. Len(backlog'), backlog'[k] = backlog'[l]
                 PROVE  k = l
      OBVIOUS
    <3>1. k + 1 \in 1 .. Len(backlog) /\ l + 1 \in 1 .. Len(backlog)
      BY <1>3, <1>4
    <3>2. k + 1 = l + 1
      BY <1>4, <3>1 DEF EchoInv, Connections
    <3> QED
      BY <1>3, <1>4, <3>2
  <2>2. ASSUME NEW b \in Clients PROVE ConnectionOf(b)'
    <3>1. ConnectionOf(b)
      BY DEF EchoInv, Connections
    <3>2. CASE b # c
      BY <1>1, <1>10, <1>13, <1>14, <3>1, <3>2, ClientsKept, ConnectionKept DEF SameConnection, SameBytes
    <3>3. CASE b = c
      <4>1. Connected(c) \/ ClientEnd(c) \in shut
        BY <1>5, <3>1, <3>3 DEF ConnectionOf
      <4>2. Connected(c)' \/ ClientEnd(c) \in shut'
        BY <1>1, <1>3, <1>10, <4>1, ClientsKept
      <4> QED
        BY <1>1, <1>6, <1>14, <3>3, <4>2 DEF ConnectionOf
    <3> QED
      BY <3>2, <3>3
  <2> QED
    BY <2>1, <2>2 DEF Connections
<1>16. Streams'
  <2> SUFFICES ASSUME NEW b \in Clients PROVE StreamOf(b)'
    BY DEF Streams
  <2>1. StreamOf(b)
    BY DEF EchoInv, Streams
  <2>2. Whole(b)' <=> Whole(b)
    BY <1>1, <1>10, ClientsKept DEF Whole
  <2>3. InHand(b)' = InHand(b)
    <3>1. \A t \in Threads : call[t].op = "send" => call[t].fd # fd /\ file'[Server][call[t].fd] = file[Server][call[t].fd]
      <4> SUFFICES ASSUME NEW t \in Threads, call[t].op = "send"
                   PROVE  call[t].fd # fd /\ file'[Server][call[t].fd] = file[Server][call[t].fd]
        OBVIOUS
      <4>1. call[t].fd \in Fd /\ \E a \in Clients : file[Server][call[t].fd] = ServerEnd(a)
        BY SoleSender
      <4>2. call[t].fd # fd
        BY <1>2, <4>1, Things
      <4> QED
        BY <1>8, <4>1, <4>2
    <3> QED
      BY <3>1, HandKept
  <2> QED
    BY <1>1, <1>10, <2>1, <2>2, <2>3, ClientsKept, StreamKept
<1> QED
  BY <1>1, <1>2, <1>3, <1>8, <1>9, <1>10, <1>11, <1>12, <1>15, <1>16

\* Closing a connection that nobody is sending on.
LEMMA CloseIs ==
  ASSUME EchoInv, NEW d \in Fd, file[Server][d] \in Ends, Close(Server, d), UNCHANGED <<call, clients>>,
         \A t \in Threads : call[t].op = "send" => call[t].fd # d
  PROVE  /\ OnlyServer /\ KernelTypes' /\ Connections' /\ Streams'
         /\ file'[Server][d] = Free
         /\ \A e \in Fd : e # d => file'[Server][e] = file[Server][e]
         /\ Cardinality(ServerOpen)' = Cardinality(ServerOpen) - 1
<1>0. KernelTypes /\ ServerSide
  BY DEF EchoInv
<1>1. PICK c \in Clients : file[Server][d] = ServerEnd(c)
  BY <1>0, Things DEF ServerSide
<1>2. /\ file' = [file EXCEPT ![Server][d] = Free] /\ shut' = shut \cup {ServerEnd(c)}
      /\ broken' = broken \/ broken' = broken \cup {c}
      /\ UNCHANGED <<wire, backlog>>
  <2>1. ServerEnd(c) \in Ends /\ ServerEnd(c) # Listener /\ ServerEnd(c)[1] = c
    BY Things
  <2> QED
    BY <1>1, <2>1 DEF Close
<1>3. /\ file' \in [Clients \cup {Server} -> [Fd -> Thing]]
      /\ file'[Server][d] = Free
      /\ \A e \in Fd : e # d => file'[Server][e] = file[Server][e]
      /\ \A q \in Clients \cup {Server} : q # Server => file'[q] = file[q]
  <2>1. Free \in Thing
    BY DEF Thing
  <2> QED
    BY <1>0, <1>2, <2>1, FileSet
<1>4. KernelTypes'
  BY <1>0, <1>2, <1>3, Things DEF KernelTypes
<1>5. OnlyServer
  BY <1>2, <1>3, Names, Things DEF OnlyServer
<1>6. \A e \in Fd : e # d => file[Server][e] # file[Server][d]
  BY <1>0, <1>1, Things DEF ServerSide
<1>7. Cardinality(ServerOpen)' = Cardinality(ServerOpen) - 1
  <2>1. file'[Server][d] \notin Ends
    BY <1>3, Things
  <2>2. Cardinality(OpenOf(file'[Server])) = Cardinality(OpenOf(file[Server])) - 1
    BY <1>3, <1>6, <2>1, OpenRemove
  <2> QED
    BY <2>2, OpenIs
<1>8. Accepted(c) /\ ~Accepted(c)'
  <2>1. \A e \in Fd : file'[Server][e] # ServerEnd(c)
    BY <1>1, <1>3, <1>6, Things
  <2> QED
    BY <1>1, <2>1 DEF Accepted, HasOpen
<1>9. \A b \in Clients : b # c => SameConnection(b) /\ SameBytes(b)
  <2> SUFFICES ASSUME NEW b \in Clients, b # c PROVE SameConnection(b) /\ SameBytes(b)
    OBVIOUS
  <2>1. file[Server][d] # ServerEnd(b) /\ file'[Server][d] # ServerEnd(b)
    BY <1>1, <1>3, Things
  <2>2. Accepted(b)' <=> Accepted(b)
    BY <1>3, <2>1 DEF Accepted, HasOpen
  <2>3. ServerEnd(b) \in shut' <=> ServerEnd(b) \in shut
    BY <1>2, Things
  <2>4. SameConnection(b)
    BY <1>2, <1>5, <2>2, <2>3, ClientsKept DEF SameConnection, Waiting, OnlyServer
  <2> QED
    BY <1>2, <2>4 DEF SameBytes
<1>10. Connections'
  <2> SUFFICES ASSUME NEW b \in Clients PROVE ConnectionOf(b)'
    BY <1>2 DEF EchoInv, Connections
  <2>1. ConnectionOf(b)
    BY DEF EchoInv, Connections
  <2>2. CASE b # c
    BY <1>9, <2>1, <2>2, ConnectionKept
  <2>3. CASE b = c
    <3>1. (Connected(c) \/ ClientEnd(c) \in shut) /\ ~Waiting(c)
      BY <1>8, <2>1, <2>3 DEF ConnectionOf
    <3>2. (Connected(c)' \/ ClientEnd(c) \in shut') /\ ~Waiting(c)'
      BY <1>2, <1>5, <3>1, ClientsKept DEF OnlyServer, Waiting
    <3> QED
      BY <1>8, <2>3, <3>2 DEF ConnectionOf
  <2> QED
    BY <2>2, <2>3
<1>11. Streams'
  <2> SUFFICES ASSUME NEW b \in Clients PROVE StreamOf(b)'
    BY DEF Streams
  <2>1. StreamOf(b) /\ (c \notin broken' => c \notin broken)
    BY <1>2 DEF EchoInv, Streams
  <2>2. CASE b = c
    <3>1. ~Whole(c)'
      BY <1>2 DEF Whole
    <3> QED
      BY <1>2, <1>5, <2>1, <2>2, <3>1, ClientsKept, StreamKept
  <2>3. CASE b # c
    <3>1. Whole(b)' <=> Whole(b)
      BY <1>9, <2>3 DEF Whole, SameConnection, SameBytes
    <3>2. InHand(b)' = InHand(b)
      <4>1. \A t \in Threads : call[t].op = "send" => file'[Server][call[t].fd] = file[Server][call[t].fd]
        BY <1>3, SoleSender
      <4> QED
        BY <4>1, HandKept
    <3> QED
      BY <1>5, <1>9, <2>1, <2>3, <3>1, <3>2, ClientsKept, StreamKept DEF SameBytes
  <2> QED
    BY <2>2, <2>3
<1> QED
  BY <1>3, <1>4, <1>5, <1>7, <1>10, <1>11

\* tcp_listen_host gives the server a listener on a free descriptor.
LEMMA ListenIs ==
  ASSUME EchoInv, NEW fd \in {NoFd} \cup FreeFds(Server), TcpListenHost(fd), fd # NoFd, UNCHANGED call
  PROVE  /\ KernelTypes'
         /\ fd \in Fd /\ file[Server][fd] = Free /\ file'[Server][fd] = Listener
         /\ \A d \in Fd : d # fd => file'[Server][d] = file[Server][d]
         /\ \A c \in Clients : file'[c] = file[c]
         /\ UNCHANGED <<backlog, wire, shut, broken>>
<1>0. KernelTypes
  BY DEF EchoInv
<1>1. /\ fd \in FreeFds(Server) /\ fd = Lowest(FreeFds(Server))
      /\ file' = [file EXCEPT ![Server][fd] = Listener]
      /\ UNCHANGED <<backlog, wire, shut, broken>>
  BY DEF TcpListenHost, Opened
<1>2. fd \in Fd /\ file[Server][fd] = Free
  BY <1>1 DEF FreeFds, Fd
<1>3. Listener \in Thing
  BY DEF Thing
<1>4. /\ file' \in [Clients \cup {Server} -> [Fd -> Thing]]
      /\ file'[Server][fd] = Listener
      /\ \A d \in Fd : d # fd => file'[Server][d] = file[Server][d]
      /\ \A q \in Clients \cup {Server} : q # Server => file'[q] = file[q]
  <2>1. Server \in Clients \cup {Server} /\ fd \in Fd
    BY <1>2
  <2>2. file' = [file EXCEPT ![Server][fd] = Listener]
    BY <1>1
  <2> QED
    BY <1>0, <1>3, <2>1, <2>2, FileSet
<1>5. KernelTypes'
  BY <1>0, <1>1, <1>4 DEF KernelTypes
<1> QED
  BY <1>1, <1>2, <1>4, <1>5, Names

\* Opening or closing the listener concerns no connection.
LEMMA ListenerOnly ==
  ASSUME EchoInv, UNCHANGED call, NEW fd \in Fd, file[Server][fd] \notin Ends, file'[Server][fd] \notin Ends,
         \A d \in Fd : d # fd => file'[Server][d] = file[Server][d]
  PROVE  /\ \A c \in Clients : (Accepted(c)' <=> Accepted(c)) /\ InHand(c)' = InHand(c)
         /\ ServerOpen' = ServerOpen
<1>1. \A t \in Threads : call[t].op = "send" => file'[Server][call[t].fd] = file[Server][call[t].fd]
  BY SoleSender, Things
<1>2. \A c \in Clients : InHand(c)' = InHand(c)
  BY <1>1, HandKept
<1>3. \A c \in Clients : Accepted(c)' <=> Accepted(c)
  BY Things DEF Accepted, HasOpen
<1>4. ServerOpen' = ServerOpen
  BY DEF ServerOpen, Fd
<1> QED
  BY <1>2, <1>3, <1>4

-----------------------------------------------------------------------------
(* The thread that handles a client *)

\* The thread goes on with its client.
LEMMA HandGoesOn ==
  ASSUME EchoInv, NEW t \in Threads, NEW h,
         UNCHANGED <<mode, main, lfd, cfd, structs, jobs, reg, round>>,
         hand' = [hand EXCEPT ![t] = h], h.pc \in {"recv", "send", "close"}, h.fd = hand[t].fd,
         h \in [pc : {"idle", "recv", "send", "close"}, fd : MaybeFd],
         hand[t].pc # "idle", Handling(h, call'[t]), file'[Server] = file[Server],
         \A u \in Threads : u # t => call'[u] = call[u]
  PROVE  ServerPart'
<1>0. ServerTypes /\ ServerSide /\ Handlers /\ PoolOwns /\ LoopOwns
  BY DEF EchoInv
<1>1. /\ hand' \in [Threads -> [pc : {"idle", "recv", "send", "close"}, fd : MaybeFd]]
      /\ hand'[t] = h /\ \A u \in Threads : u # t => hand'[u] = hand[u]
      /\ \A u \in Threads : hand'[u].fd = hand[u].fd
  BY <1>0 DEF ServerTypes
<1>2. ServerTypes'
  BY <1>0, <1>1 DEF ServerTypes
<1>3. ServerSide'
  BY <1>0 DEF ServerSide, NoneOpen
<1>4. Handlers'
  BY <1>0, <1>1 DEF Handlers
<1>5. hand[t] # NoJob /\ hand'[t] # NoJob
  BY <1>1 DEF NoJob
<1>6. ServerOpen' = ServerOpen
  BY DEF ServerOpen
<1>7. PoolOwns'
  <2> SUFFICES ASSUME mode = "pool" PROVE PoolOwns'
    BY DEF PoolOwns
  <2>1. t # Main /\ hand'[Main] = NoJob
    BY <1>0, <1>1, <1>5, Names DEF PoolOwns
  <2>2. main \notin {"listen", "create", "close", "exit", "gone"}
    BY <1>0, <1>5 DEF PoolOwns
  <2> QED
    BY <1>0, <1>1, <1>6, <2>1, <2>2 DEF PoolOwns
<1>8. LoopOwns'
  <2> SUFFICES ASSUME mode = "loop" PROVE LoopOwns'
    BY DEF LoopOwns
  <2>1. t = Main
    BY <1>0, <1>5, Names DEF LoopOwns, Threads
  <2>2. \A w \in Workers : hand'[w] = hand[w] /\ w # Main
    BY <1>1, <2>1, Names
  <2> QED
    BY <1>0, <1>1, <1>5, <2>1, <2>2 DEF LoopOwns
<1> QED
  BY <1>2, <1>3, <1>4, <1>7, <1>8 DEF ServerPart

\* The same while only its call changes.
LEMMA HandCalls ==
  ASSUME EchoInv, NEW t \in Threads, UNCHANGED server, hand[t].pc # "idle", Handling(hand[t], call'[t]),
         file'[Server] = file[Server], \A u \in Threads : u # t => call'[u] = call[u]
  PROVE  ServerPart'
<1>1. hand' = [hand EXCEPT ![t] = hand[t]] /\ hand[t] \in [pc : {"idle", "recv", "send", "close"}, fd : MaybeFd]
  BY DEF server, EchoInv, ServerTypes
<1>2. hand[t].pc \in {"recv", "send", "close"}
  BY <1>1
<1> QED
  BY <1>1, <1>2, HandGoesOn DEF server

LEMMA EchoHandlerSendFails ==
  ASSUME EchoInv, NEW t \in Threads, SendFails(t), UNCHANGED <<server, clients>>
  PROVE  EchoInv'
<1>0. call[t].op = "send" /\ KernelTypes
  BY DEF SendFails, EchoInv
<1>1. /\ hand[t].pc = "send" /\ call[t].fd = hand[t].fd /\ call[t].fd \in Fd
      /\ \A u \in Threads : u # t => ~(call[u].op = "send" /\ file[Server][call[u].fd] = file[Server][call[t].fd])
  BY <1>0, SoleSender
<1>2. PICK c \in Clients : file[Server][call[t].fd] = ServerEnd(c)
  BY <1>0, SoleSender
<1>3. EndOf(t) = ServerEnd(c)
  BY <1>2, Names DEF EndOf
<1>4. ~Whole(c)
  <2>1. c \in broken \/ ClientEnd(c) \in shut
    BY <1>3, Things DEF SendFails
  <2>2. ASSUME ClientEnd(c) \in shut PROVE ~Connected(c)
    <3>1. NoneOpen(file[c])
      BY <2>2 DEF EchoInv, ClientSide, ClientOf, ClientPlace
    <3> QED
      BY <3>1, Things DEF NoneOpen, Connected, Fd
  <2> QED
    BY <2>1, <2>2 DEF Whole
<1>5. call' = [call EXCEPT ![t] = Answer("IO")] /\ UNCHANGED kernel
  BY DEF SendFails
<1>6. /\ call' \in [Clients \cup Threads -> {Idle} \cup AnswerRec \cup ConnectRec \cup SendRec]
      /\ call'[t] = Answer("IO") /\ Answer("IO").op = "answer"
      /\ \A u \in Clients \cup Threads : u # t => call'[u] = call[u]
  BY <1>0, <1>5, AnswerIs, CallSet
<1>7. KernelTypes'
  BY <1>0, <1>5, <1>6 DEF KernelTypes, kernel
<1>8. Handling(hand[t], call'[t])
  <2>1. Handling(hand[t], call[t])
    BY DEF EchoInv, Handlers
  <2> QED
    BY <1>1, <1>6, <2>1 DEF Handling
<1>9. ServerPart'
  BY <1>1, <1>5, <1>6, <1>8, HandCalls DEF kernel
<1>10. \A b \in Clients : Whole(b) => InHand(b)' = InHand(b)
  <2> SUFFICES ASSUME NEW b \in Clients, Whole(b) PROVE InHand(b)' = InHand(b)
    OBVIOUS
  <2>1. ServerEnd(b) # ServerEnd(c)
    BY <1>4, Things
  <2>2. \A u \in Threads : u # t => call'[u] = call[u]
    BY <1>6
  <2> QED
    BY <1>2, <1>5, <1>6, <2>1, <2>2, HandKept DEF kernel
<1>11. \A b \in Clients : /\ file'[b] = file[b] /\ call'[b] = call[b]
                          /\ Accepted(b)' <=> Accepted(b)
  BY <1>5, <1>6, Names DEF kernel, Accepted
<1> QED
  BY <1>5, <1>7, <1>9, <1>10, <1>11, ServerQuiet DEF kernel

\* A server thread moves bytes of one client.
LEMMA OneStream ==
  ASSUME EchoInv, NEW c \in Clients, OnlyServer, UNCHANGED <<file, backlog, shut, broken>>, Accepted(c),
         \A e \in Ends : e[1] # c => wire'[e] = wire[e],
         \A b \in Clients : b # c => InHand(b)' = InHand(b), StreamOf(c)'
  PROVE  Connections' /\ Streams'
<1>1. \A b \in Clients : SameConnection(b)
  BY ClientsKept DEF SameConnection, Waiting, Accepted
<1>2. \A b \in Clients : b # c => SameBytes(b)
  BY Things DEF SameBytes
<1>3. Connections'
  <2> SUFFICES ASSUME NEW b \in Clients PROVE ConnectionOf(b)'
    BY DEF EchoInv, Connections
  <2>1. ConnectionOf(b)
    BY DEF EchoInv, Connections
  <2>2. b = c => Connected(b) \/ ClientEnd(b) \in shut
    BY <2>1 DEF ConnectionOf
  <2> QED
    BY <1>1, <1>2, <2>1, <2>2, ConnectionKept, ConnectionFlows
<1>4. Streams'
  <2> SUFFICES ASSUME NEW b \in Clients, b # c PROVE StreamOf(b)'
    BY DEF Streams
  <2>1. StreamOf(b)
    BY DEF EchoInv, Streams
  <2>2. Whole(b)' <=> Whole(b)
    BY ClientsKept DEF Whole
  <2> QED
    BY <1>2, <2>1, <2>2, ClientsKept, StreamKept DEF SameBytes
<1> QED
  BY <1>3, <1>4

\* A server end in use belongs to a whole connection unless it was reset or
\* the client is gone.
LEMMA InUse ==
  ASSUME EchoInv, NEW c \in Clients, Accepted(c)
  PROVE  /\ ClientEnd(c) \in shut => ~Connected(c)
         /\ ClientEnd(c) \notin shut /\ c \notin broken => Whole(c)
         /\ ServerEnd(c) \notin shut
<1>1. ConnectionOf(c) /\ ClientOf(c)
  BY DEF EchoInv, Connections, ClientSide
<1>2. ASSUME ClientEnd(c) \in shut PROVE ~Connected(c)
  <2>1. NoneOpen(file[c])
    BY <1>1, <1>2 DEF ClientOf, ClientPlace
  <2> QED
    BY <2>1, Things DEF NoneOpen, Connected, Fd
<1> QED
  BY <1>1, <1>2 DEF ConnectionOf, Whole

LEMMA LeftIs ==
  ASSUME EchoInv, NEW c \in Clients
  PROVE  LeftClient(c) \in 0 .. Len(Message(c))
<1>1. Len(Message(c)) = MsgLen[c] /\ MsgLen[c] \in Nat
  BY MessageIs
<1>2. ASSUME call[c].op = "send" PROVE call[c].sent \in 0 .. MsgLen[c]
  <2>1. ClientPlace(c, "sending", call[c], file[c])
    BY <1>2, CallPlace
  <2>2. call[c].sent \in Nat
    BY <1>2, CallKinds DEF SendRec, EchoInv
  <2> QED
    BY <1>1, <1>2, <2>1, <2>2 DEF ClientPlace
<1> QED
  BY <1>1, <1>2 DEF LeftClient

LEMMA EchoHandlerSends ==
  ASSUME EchoInv, NEW t \in Threads, SendSome(t), UNCHANGED <<server, clients>>
  PROVE  EchoInv'
<1>0. call[t].op = "send" /\ KernelTypes /\ ClientTypes
  BY DEF SendSome, EchoInv
<1>1. /\ hand[t].pc = "send" /\ call[t].fd = hand[t].fd /\ call[t].fd \in Fd
      /\ call[t].sent <= Len(call[t].buf)
      /\ \A u \in Threads : u # t => ~(call[u].op = "send" /\ file[Server][call[u].fd] = file[Server][call[t].fd])
  BY <1>0, SoleSender
<1>2. PICK c \in Clients : file[Server][call[t].fd] = ServerEnd(c)
  BY <1>0, SoleSender
<1>3. EndOf(t) = ServerEnd(c) /\ Peer(EndOf(t)) = ClientEnd(c) /\ EndOf(t)[1] = c
  BY <1>2, Names, Things DEF EndOf
<1>4. Accepted(c) /\ StreamOf(c) /\ c \notin broken
  BY <1>1, <1>2, <1>3 DEF Accepted, HasOpen, EchoInv, Streams, SendSome
<1>5. /\ call[t].buf \in Seq(Byte) /\ call[t].sent \in 0 .. Len(call[t].buf) /\ Len(call[t].buf) \in Nat
      /\ call[t].sent \in Nat
  <2>1. call[t].buf \in Seq(Byte) /\ call[t].sent \in Nat
    BY <1>0, CallKinds DEF SendRec
  <2> QED
    BY <1>1, <2>1
<1>6. PICK n \in 1 .. Len(call[t].buf) - call[t].sent :
      \E k \in {Idle} \cup AnswerRec \cup ConnectRec \cup SendRec :
        /\ call' = [call EXCEPT ![t] = k]
        /\ SubSeq(Unsent(t), 1, n) \in Seq(Byte)
        /\ wire' = IF Peer(EndOf(t)) \in shut THEN wire
                   ELSE [wire EXCEPT ![Peer(EndOf(t))] = @ \o SubSeq(Unsent(t), 1, n)]
        /\ \/ /\ k.op = "answer" /\ k.err = "OK" /\ call[t].sent + n = Len(call[t].buf)
           \/ /\ k.op = "send" /\ k.fd = call[t].fd /\ k.buf = call[t].buf
              /\ k.sent = call[t].sent + n /\ k.sent < Len(k.buf)
  BY <1>1, SendIs
<1>7. PICK k \in {Idle} \cup AnswerRec \cup ConnectRec \cup SendRec :
        /\ call' = [call EXCEPT ![t] = k]
        /\ SubSeq(Unsent(t), 1, n) \in Seq(Byte)
        /\ wire' = IF ClientEnd(c) \in shut THEN wire
                   ELSE [wire EXCEPT ![ClientEnd(c)] = @ \o SubSeq(Unsent(t), 1, n)]
        /\ \/ /\ k.op = "answer" /\ k.err = "OK" /\ call[t].sent + n = Len(call[t].buf)
           \/ /\ k.op = "send" /\ k.fd = call[t].fd /\ k.buf = call[t].buf
              /\ k.sent = call[t].sent + n /\ k.sent < Len(k.buf)
  BY <1>3, <1>6
<1>8. /\ call' \in [Clients \cup Threads -> {Idle} \cup AnswerRec \cup ConnectRec \cup SendRec]
      /\ call'[t] = k
      /\ \A u \in Clients \cup Threads : u # t => call'[u] = call[u]
  BY <1>0, <1>7, CallSet
<1>9. UNCHANGED <<file, backlog, shut, broken>>
  BY DEF SendSome
<1>10. /\ wire' \in [Ends -> Seq(Byte)]
       /\ \A e \in Ends : e # ClientEnd(c) => wire'[e] = wire[e]
       /\ ClientEnd(c) \in shut => wire' = wire
       /\ ClientEnd(c) \notin shut => wire'[ClientEnd(c)] = wire[ClientEnd(c)] \o SubSeq(Unsent(t), 1, n)
  <2>1. wire[ClientEnd(c)] \o SubSeq(Unsent(t), 1, n) \in Seq(Byte) /\ ClientEnd(c) \in Ends
    BY <1>0, <1>7, Joined, Things DEF KernelTypes
  <2> QED
    BY <1>0, <1>7, <2>1 DEF KernelTypes
<1>11. KernelTypes'
  BY <1>0, <1>8, <1>9, <1>10 DEF KernelTypes
<1>12. ServerPart'
  <2>1. Handling(hand[t], call[t])
    BY DEF EchoInv, Handlers
  <2>2. Handling(hand[t], k)
    <3>1. k.op = "send" => k.fd = hand[t].fd /\ k.sent <= Len(k.buf)
      BY <1>1, <1>5, <1>7
    <3> QED
      BY <1>1, <1>7, <2>1, <3>1 DEF Handling
  <2> QED
    BY <1>1, <1>8, <1>9, <2>2, HandCalls
<1>13. OnlyServer
  BY <1>8, <1>9, Names DEF OnlyServer
<1>14. \A b \in Clients : b # c => InHand(b)' = InHand(b)
  <2> SUFFICES ASSUME NEW b \in Clients, b # c PROVE InHand(b)' = InHand(b)
    OBVIOUS
  <2>1. ServerEnd(b) # ServerEnd(c)
    BY Things
  <2>2. \A u \in Threads : u # t => call'[u] = call[u]
    BY <1>8
  <2>3. call'[t].op = "send" => call'[t].fd = call[t].fd
    BY <1>7, <1>8
  <2> QED
    BY <1>2, <1>9, <2>1, <2>2, <2>3, HandKept
<1> DEFINE buf == call[t].buf
           sent == call[t].sent
           a == SubSeq(Unsent(t), 1, n)
           r == SubSeq(buf, sent + n + 1, Len(buf))
<1>15. InHand(c) = SubSeq(buf, sent + 1, Len(buf))
  <2>1. SendsTo(call, file[Server], t, c) /\ \A u \in Threads : SendsTo(call, file[Server], u, c) => u = t
    BY <1>0, <1>1, <1>2 DEF SendsTo
  <2>2. HandOf(call, file[Server], c) = Rest(call[t])
    BY <2>1, HandSole
  <2> QED
    BY <2>2, InHandIs DEF Rest
<1>16. InHand(c)' = r
  <2>0. \A u \in Threads : u # t => ~SendsTo(call', file'[Server], u, c)
    BY <1>1, <1>2, <1>8, <1>9 DEF SendsTo
  <2>1. CASE k.op = "answer" /\ sent + n = Len(buf)
    <3>1. \A u \in Threads : ~SendsTo(call', file'[Server], u, c)
      BY <1>8, <2>0, <2>1 DEF SendsTo
    <3>2. HandOf(call', file'[Server], c) = <<>>
      BY <3>1, HandEmpty
    <3>3. SubSeq(buf, Len(buf) + 1, Len(buf)) = <<>>
      BY <1>5
    <3> QED
      BY <2>1, <3>2, <3>3, InHandIs
  <2>2. CASE /\ k.op = "send" /\ k.fd = call[t].fd /\ k.buf = buf /\ k.sent = sent + n
    <3>1. SendsTo(call', file'[Server], t, c) /\ \A u \in Threads : SendsTo(call', file'[Server], u, c) => u = t
      BY <1>2, <1>8, <1>9, <2>0, <2>2 DEF SendsTo
    <3>2. HandOf(call', file'[Server], c) = Rest(k)
      BY <1>8, <3>1, HandSole
    <3>3. Rest(k) = r
      BY <2>2 DEF Rest
    <3> QED
      BY <3>2, <3>3, InHandIs
  <2> QED
    BY <1>7, <2>1, <2>2
<1>17. a \in Seq(Byte) /\ r \in Seq(Byte) /\ a \o r = InHand(c)
  <2>1. n \in 0 .. Len(buf) - sent
    BY <1>5
  <2> QED
    BY <1>5, <1>15, <2>1, CutUnsent DEF Unsent
<1> HIDE DEF buf, sent, a, r
<1>18. StreamOf(c)'
  <2>0. Message(c)' = Message(c) /\ Message(c) \in Seq(Byte)
    BY MessageIs DEF Message
  <2>1. CASE ClientEnd(c) \in shut
    <3>1. ~Whole(c)'
      BY <1>4, <1>13, <2>1, InUse, ClientsKept DEF Whole
    <3> QED
      BY <1>4, <1>9, <1>10, <1>13, <2>1, <3>1, ClientsKept, StreamKept
  <2>2. CASE ClientEnd(c) \notin shut
    <3>1. Whole(c)
      BY <1>4, <2>2, InUse
    <3> DEFINE g == got[c]
               x == wire[ClientEnd(c)]
               h == InHand(c)
               y == wire[ServerEnd(c)]
    <3>2. g \in Seq(Byte) /\ x \in Seq(Byte) /\ y \in Seq(Byte)
      BY <1>0, Things DEF KernelTypes, ClientTypes
    <3>3. g \o x \o h \o y = SubSeq(Message(c), 1, LeftClient(c))
      BY <1>4, <3>1 DEF StreamOf
    <3>4. got'[c] = g /\ wire'[ClientEnd(c)] = x \o a /\ wire'[ServerEnd(c)] = y
      BY <1>10, <1>13, <2>2, ClientsKept, Things DEF a
    <3>5. LeftClient(c)' = LeftClient(c) /\ code'[c] = code[c]
      BY <1>13, ClientsKept
    <3> HIDE DEF g, x, h, y
    <3>11. a \in Seq(Byte) /\ r \in Seq(Byte) /\ a \o r = h
      BY <1>17 DEF h
    <3>12. a \in Seq(Byte) /\ r \in Seq(Byte)
      BY <3>11
    <3>6. g \o (x \o a) = (g \o x) \o a /\ g \o x \in Seq(Byte) /\ (g \o x) \o a \in Seq(Byte)
      <4>1. g \o x \in Seq(Byte)
        BY <3>2, Joined
      <4>2. g \o (x \o a) = (g \o x) \o a
        BY <3>2, <3>12, Assoc
      <4>3. (g \o x) \o a \in Seq(Byte)
        BY <3>12, <4>1, Joined
      <4> QED
        BY <4>1, <4>2, <4>3
    <3>7. ((g \o x) \o a) \o r = (g \o x) \o h
      <4> DEFINE p == g \o x
      <4>1. p \in Seq(Byte)
        BY <3>6
      <4> HIDE DEF p
      <4>2. (p \o a) \o r = p \o (a \o r)
        BY <3>12, <4>1, Assoc
      <4>3. (p \o a) \o r = p \o h
        BY <3>11, <4>2
      <4> QED
        BY <4>3 DEF p
    <3>8. ((g \o x) \o a) \o r \o y = SubSeq(Message(c), 1, LeftClient(c))
      BY <3>3, <3>7
    <3>9. Starts(g \o (x \o a), Message(c))
      <4> DEFINE p == (g \o x) \o a
      <4>0. r \o y \in Seq(Byte)
        BY <3>12, <3>2, Joined
      <4>1. p \in Seq(Byte)
        BY <3>6
      <4> HIDE DEF p
      <4>2. (p \o r) \o y = p \o (r \o y)
        BY <3>2, <3>12, <4>1, Assoc
      <4>3. p \o (r \o y) = SubSeq(Message(c), 1, LeftClient(c))
        BY <3>8, <4>2 DEF p
      <4>4. Starts(p, Message(c))
        BY <2>0, <4>0, <4>1, <4>3, LeftIs, StartsOfPart
      <4> QED
        BY <3>6, <4>4 DEF p
    <3>10. got'[c] \o wire'[ClientEnd(c)] \o InHand(c)' \o wire'[ServerEnd(c)]
             = SubSeq(Message(c), 1, LeftClient(c)')
      BY <1>16, <3>4, <3>5, <3>6, <3>8
    <3> QED
      BY <1>4, <2>0, <3>4, <3>5, <3>9, <3>10 DEF StreamOf, g
  <2> QED
    BY <2>1, <2>2
<1>19. Connections' /\ Streams'
  <2>1. \A e \in Ends : e[1] # c => wire'[e] = wire[e]
    BY <1>10, Things
  <2> QED
    BY <1>4, <1>9, <1>13, <1>14, <1>18, <2>1, OneStream
<1> QED
  BY <1>11, <1>12, <1>13, <1>19, ServerMoves

\* A thread with a client: its descriptor is a connection, nobody else's.
LEMMA InHands ==
  ASSUME EchoInv, NEW t \in Threads, hand[t].pc # "idle"
  PROVE  /\ hand[t].fd \in Fd /\ hand[t].fd # NoFd
         /\ hand[t] = [pc |-> hand[t].pc, fd |-> hand[t].fd]
         /\ \E c \in Clients : file[Server][hand[t].fd] = ServerEnd(c)
         /\ \A u \in Threads : u # t => hand[u].fd # hand[t].fd
<1>1. hand[t] \in [pc : {"idle", "recv", "send", "close"}, fd : MaybeFd] /\ Handling(hand[t], call[t])
  BY DEF EchoInv, ServerTypes, Handlers
<1>2. hand[t].fd \in MaybeFd /\ hand[t].fd # NoFd /\ hand[t] = [pc |-> hand[t].pc, fd |-> hand[t].fd]
  BY <1>1 DEF Handling
<1>3. hand[t].fd \in Fd
  BY <1>2 DEF MaybeFd
<1>4. file[Server][hand[t].fd] \in Ends /\ \A u \in Threads : u # t => hand[u].fd # hand[t].fd
  BY <1>2 DEF EchoInv, Handlers
<1>5. \E c \in Clients : file[Server][hand[t].fd] = ServerEnd(c)
  BY <1>3, <1>4, Things DEF EchoInv, ServerSide
<1> QED
  BY <1>2, <1>3, <1>4, <1>5

LEMMA EchoHandlerReads ==
  ASSUME EchoInv, NEW t \in Threads, HandlerReads(t), UNCHANGED clients
  PROVE  EchoInv'
<1> DEFINE fd == hand[t].fd
<1>0. /\ hand[t].pc = "recv" /\ KernelTypes /\ ClientTypes
      /\ UNCHANGED <<mode, main, lfd, cfd, structs, jobs, reg, round>>
  BY DEF HandlerReads, EchoInv
<1>1. /\ fd \in Fd /\ fd # NoFd /\ hand[t] = [pc |-> "recv", fd |-> fd]
      /\ \A u \in Threads : u # t => hand[u].fd # fd
  BY <1>0, InHands
<1>2. PICK c \in Clients : file[Server][fd] = ServerEnd(c)
  BY <1>0, InHands
<1> DEFINE e == ServerEnd(c)
<1>3. call[t] = Idle /\ Idle.op = "none"
  BY <1>0 DEF EchoInv, Handlers, Handling, Idle
<1>4. PICK a \in RecvAnswers(e, SrvBuf) :
        /\ Receive(e, a)
        /\ hand' = [hand EXCEPT ![t] = [hand[t] EXCEPT !.pc = AfterRecv(a)]]
        /\ call' = IF a.data = <<>> THEN call ELSE [call EXCEPT ![t] = Sending(fd, a.data)]
  BY <1>2 DEF HandlerReads, Handle
<1> DEFINE z == SubSeq(wire[e], Len(a.data) + 1, Len(wire[e]))
<1>5. /\ a.data \in Seq(Byte) /\ z \in Seq(Byte) /\ a.data \o z = wire[e]
      /\ a.data # <<>> => c \notin broken /\ a.err = "OK"
      /\ e \in Ends /\ wire[e] \in Seq(Byte)
  <2>1. e \in Ends /\ e[1] = c /\ SrvBuf \in Nat
    BY Things, SizesAssumption
  <2> HIDE DEF e
  <2> QED
    BY <1>0, <2>1, RecvIs DEF KernelTypes
<1>6. UNCHANGED <<file, backlog, shut, broken>> /\ wire' = [wire EXCEPT ![e] = z]
  BY <1>0, <1>4, <1>5 DEF Receive, KernelTypes
<1>7. /\ wire' \in [Ends -> Seq(Byte)] /\ wire'[e] = z
      /\ \A d \in Ends : d # e => wire'[d] = wire[d]
  <2> HIDE DEF z
  <2> QED
    BY <1>0, <1>5, <1>6 DEF KernelTypes
<1> DEFINE h == [pc |-> AfterRecv(a), fd |-> fd]
<1>8. hand' = [hand EXCEPT ![t] = h]
  <2>1. [hand[t] EXCEPT !.pc = AfterRecv(a)] = h
    BY <1>1
  <2> QED
    BY <1>4, <2>1
<1>9. /\ h \in [pc : {"idle", "recv", "send", "close"}, fd : MaybeFd]
      /\ h.pc = (IF a.data = <<>> THEN "close" ELSE "send") /\ h.fd = fd
  <2>1. AfterRecv(a) = IF a.data = <<>> THEN "close" ELSE "send"
    BY <1>5 DEF AfterRecv
  <2> QED
    BY <1>1, <2>1, FdIs
<1> HIDE DEF h, z
<1>10. CASE a.data = <<>>
  <2>1. wire' = wire
    <3>1. <<>> \o z = z
      BY <1>5, ConcatEmptySeq
    <3>2. z = wire[e]
      BY <1>5, <1>10, <3>1
    <3> QED
      BY <1>0, <1>6, <3>2 DEF KernelTypes
  <2>2. call' = call
    BY <1>4, <1>10
  <2>3. Handling(h, call'[t])
    BY <1>1, <1>3, <1>9, <1>10, <2>2 DEF Handling
  <2>4. ServerPart'
    BY <1>0, <1>6, <1>8, <1>9, <1>10, <2>2, <2>3, HandGoesOn
  <2>5. KernelTypes'
    BY <1>0, <1>6, <2>1, <2>2 DEF KernelTypes
  <2>6. \A b \in Clients : (Accepted(b)' <=> Accepted(b)) /\ InHand(b)' = InHand(b)
    BY <1>6, <2>2, HandKept DEF Accepted
  <2> QED
    BY <1>6, <2>1, <2>2, <2>4, <2>5, <2>6, ServerQuiet
<1>11. CASE a.data # <<>>
  <2> DEFINE k == Sending(fd, a.data)
  <2>1. k \in SendRec /\ k.op = "send" /\ k.fd = fd /\ k.buf = a.data /\ k.sent = 0
    BY <1>1, <1>5 DEF Sending, SendRec
  <2>2. call' = [call EXCEPT ![t] = k]
    BY <1>4, <1>11
  <2> HIDE DEF k
  <2>3. /\ call' \in [Clients \cup Threads -> {Idle} \cup AnswerRec \cup ConnectRec \cup SendRec]
        /\ call'[t] = k
        /\ \A u \in Clients \cup Threads : u # t => call'[u] = call[u]
    BY <1>0, <2>1, <2>2, CallSet
  <2>4. KernelTypes'
    BY <1>0, <1>6, <1>7, <2>3 DEF KernelTypes
  <2>5. Len(a.data) \in Nat
    BY <1>5
  <2>6. Handling(h, k)
    BY <1>1, <1>9, <1>11, <2>1, <2>5 DEF Handling
  <2>7. ServerPart'
    BY <1>0, <1>6, <1>8, <1>9, <1>11, <2>3, <2>6, HandGoesOn
  <2>8. OnlyServer
    BY <1>6, <2>3, Names DEF OnlyServer
  <2>9. \A u \in Threads : u # t => ~SendsTo(call, file[Server], u, c)
    <3> SUFFICES ASSUME NEW u \in Threads, u # t, SendsTo(call, file[Server], u, c) PROVE FALSE
      OBVIOUS
    <3>1. call[u].op = "send" /\ file[Server][call[u].fd] = ServerEnd(c)
      BY DEF SendsTo
    <3>2. call[u].fd = hand[u].fd /\ call[u].fd \in Fd
      BY <3>1, SoleSender
    <3>3. call[u].fd = fd
      BY <1>1, <1>2, <3>1, <3>2, Things DEF EchoInv, ServerSide
    <3> QED
      BY <1>1, <3>2, <3>3
  <2>10. InHand(c) = <<>>
    <3>1. ~SendsTo(call, file[Server], t, c)
      BY <1>3 DEF SendsTo
    <3> QED
      BY <2>9, <3>1, HandEmpty, InHandIs
  <2>11. InHand(c)' = a.data
    <3>1. SendsTo(call', file'[Server], t, c)
      BY <1>2, <1>6, <2>1, <2>3 DEF SendsTo
    <3>2. \A u \in Threads : SendsTo(call', file'[Server], u, c) => u = t
      BY <1>6, <2>3, <2>9 DEF SendsTo
    <3>3. HandOf(call', file'[Server], c) = Rest(k)
      BY <2>3, <3>1, <3>2, HandSole
    <3>4. SubSeq(a.data, 0 + 1, Len(a.data)) = a.data
      BY <1>5, SubSeqFull
    <3> QED
      BY <2>1, <3>3, <3>4, InHandIs DEF Rest
  <2>12. \A b \in Clients : b # c => InHand(b)' = InHand(b)
    <3> SUFFICES ASSUME NEW b \in Clients, b # c PROVE InHand(b)' = InHand(b)
      OBVIOUS
    <3>1. ServerEnd(b) # ServerEnd(c)
      BY Things
    <3>2. \A u \in Threads : u # t => call'[u] = call[u]
      BY <2>3
    <3> QED
      BY <1>2, <1>3, <1>6, <2>1, <2>3, <3>1, <3>2, HandKept
  <2>13. Accepted(c) /\ StreamOf(c)
    BY <1>1, <1>2 DEF Accepted, HasOpen, EchoInv, Streams
  <2>14. StreamOf(c)'
    <3>0. Message(c)' = Message(c)
      BY DEF Message
    <3>1. /\ got'[c] = got[c] /\ code'[c] = code[c] /\ LeftClient(c)' = LeftClient(c)
          /\ wire'[ClientEnd(c)] = wire[ClientEnd(c)]
      BY <1>7, <2>8, ClientsKept, Things
    <3>2. Whole(c)' <=> Whole(c)
      BY <1>6, <2>8, ClientsKept DEF Whole
    <3> DEFINE p == got[c] \o wire[ClientEnd(c)]
    <3>3. p \in Seq(Byte)
      BY <1>0, Joined, Things DEF KernelTypes, ClientTypes
    <3>4. Whole(c) => p \o <<>> \o wire[e] = SubSeq(Message(c), 1, LeftClient(c))
      BY <2>10, <2>13 DEF StreamOf
    <3> HIDE DEF p
    <3>5. p \o <<>> = p
      BY <3>3, ConcatEmptySeq
    <3>6. (p \o a.data) \o z = p \o (a.data \o z)
      <4>1. a.data \in Seq(Byte) /\ z \in Seq(Byte)
        BY <1>5
      <4> QED
        BY <3>3, <4>1, Assoc
    <3>7. Whole(c) => (p \o a.data) \o z = SubSeq(Message(c), 1, LeftClient(c))
      BY <1>5, <3>4, <3>5, <3>6
    <3>8. Whole(c)' => got'[c] \o wire'[ClientEnd(c)] \o InHand(c)' \o wire'[ServerEnd(c)]
                        = SubSeq(Message(c), 1, LeftClient(c)')
      BY <1>7, <2>11, <3>1, <3>2, <3>7 DEF p
    <3> QED
      BY <1>6, <2>13, <3>0, <3>1, <3>8 DEF StreamOf
  <2>15. Connections' /\ Streams'
    <3>1. \A d \in Ends : d[1] # c => wire'[d] = wire[d]
      BY <1>7, Things
    <3> QED
      BY <1>6, <2>8, <2>12, <2>13, <2>14, <3>1, OneStream
  <2> QED
    BY <2>4, <2>7, <2>8, <2>15, ServerMoves
<1> QED
  BY <1>10, <1>11

LEMMA EchoHandlerSent ==
  ASSUME EchoInv, NEW t \in Threads, HandlerSent(t), UNCHANGED clients
  PROVE  EchoInv'
<1> DEFINE fd == hand[t].fd
<1>0. /\ hand[t].pc = "send" /\ call[t].op = "answer" /\ KernelTypes /\ UNCHANGED kernel
      /\ UNCHANGED <<mode, main, lfd, cfd, structs, jobs, reg, round>>
      /\ call' = [call EXCEPT ![t] = Idle]
  BY DEF HandlerSent, EchoInv
<1>1. /\ fd \in Fd /\ fd # NoFd /\ hand[t] = [pc |-> "send", fd |-> fd]
  BY <1>0, InHands
<1>2. /\ call' \in [Clients \cup Threads -> {Idle} \cup AnswerRec \cup ConnectRec \cup SendRec]
      /\ call'[t] = Idle /\ Idle.op # "send"
      /\ \A u \in Clients \cup Threads : u # t => call'[u] = call[u]
  BY <1>0, CallSet DEF Idle
<1>3. KernelTypes'
  BY <1>0, <1>2 DEF KernelTypes, kernel
<1>4. ServerPart'
  <2>1. ASSUME NEW p \in {"recv", "close"}, hand' = [hand EXCEPT ![t] = [hand[t] EXCEPT !.pc = p]]
        PROVE  ServerPart'
    <3> DEFINE h == [pc |-> p, fd |-> fd]
    <3>1. [hand[t] EXCEPT !.pc = p] = h
      BY <1>1
    <3>2. h \in [pc : {"idle", "recv", "send", "close"}, fd : MaybeFd] /\ h.pc = p /\ h.fd = fd
      BY <1>1, FdIs
    <3>3. hand' = [hand EXCEPT ![t] = h]
      BY <2>1, <3>1
    <3> HIDE DEF h
    <3>4. Handling(h, call'[t])
      BY <1>1, <1>2, <3>2 DEF Handling
    <3> QED
      BY <1>0, <1>2, <3>2, <3>3, <3>4, HandGoesOn DEF kernel
  <2>2. ASSUME hand' = [hand EXCEPT ![t] = NoJob], mode # "pool" PROVE ServerPart'
    <3>0. ServerTypes /\ ServerSide /\ Handlers /\ PoolOwns /\ LoopOwns
      BY DEF EchoInv
    <3>1. mode = "loop" /\ t = Main
      <4>1. hand[t] # NoJob
        BY <1>0 DEF NoJob
      <4> QED
        BY <2>2, <3>0, <4>1, Names DEF ServerTypes, LoopOwns, Threads
    <3>2. /\ hand' \in [Threads -> [pc : {"idle", "recv", "send", "close"}, fd : MaybeFd]]
          /\ hand'[t] = NoJob /\ \A u \in Threads : u # t => hand'[u] = hand[u]
          /\ NoJob.pc = "idle" /\ NoJob.fd = NoFd
      BY <2>2, <3>0, FdIs DEF ServerTypes, NoJob
    <3>3. ServerTypes'
      BY <1>0, <3>0, <3>2 DEF ServerTypes
    <3>4. ServerSide'
      BY <1>0, <3>0 DEF ServerSide, NoneOpen, kernel
    <3>5. Handlers'
      BY <1>0, <1>2, <3>0, <3>2 DEF Handlers, Handling, kernel
    <3>6. PoolOwns'
      BY <1>0, <2>2 DEF PoolOwns
    <3>7. LoopOwns'
      BY <1>0, <3>0, <3>1, <3>2, Names DEF LoopOwns, kernel
    <3> QED
      BY <3>3, <3>4, <3>5, <3>6, <3>7 DEF ServerPart
  <2> QED
    BY <2>1, <2>2 DEF HandlerSent, Handle
<1>5. \A b \in Clients : /\ file'[b] = file[b] /\ call'[b] = call[b]
                         /\ Accepted(b)' <=> Accepted(b)
  BY <1>0, <1>2, Names DEF kernel, Accepted
<1>6. \A b \in Clients : InHand(b)' = InHand(b)
  <2>1. \A u \in Threads : u # t => call'[u] = call[u]
    BY <1>2
  <2> QED
    BY <1>0, <1>2, <2>1, HandKept DEF kernel
<1> QED
  BY <1>0, <1>3, <1>4, <1>5, <1>6, ServerQuiet DEF kernel

LEMMA EchoHandlerCloses ==
  ASSUME EchoInv, NEW t \in Threads, HandlerCloses(t), UNCHANGED clients
  PROVE  EchoInv'
<1> DEFINE fd == hand[t].fd
<1>0. /\ hand[t].pc = "close" /\ Close(Server, fd)
      /\ ServerTypes /\ ServerSide /\ Handlers /\ PoolOwns /\ LoopOwns
      /\ UNCHANGED <<call, mode, main, lfd, cfd, jobs, round>>
      /\ hand' = [hand EXCEPT ![t] = NoJob]
      /\ mode = "pool" => structs' = structs - 1 /\ reg' = reg
      /\ mode # "pool" => reg' = Without(fd) /\ structs' = structs
  BY DEF HandlerCloses, EchoInv, Handle
<1>1. /\ fd \in Fd /\ fd # NoFd
      /\ \A u \in Threads : u # t => hand[u].fd # fd
  BY <1>0, InHands
<1>2. PICK c \in Clients : file[Server][fd] = ServerEnd(c)
  BY <1>0, InHands
<1>3. file[Server][fd] \in Ends /\ file[Server][fd] # Listener /\ file[Server][fd] # Free
  BY <1>2, Things
<1>4. \A u \in Threads : call[u].op = "send" => call[u].fd # fd
  BY <1>0, <1>1, SoleSender
<1>5. /\ OnlyServer /\ KernelTypes' /\ Connections' /\ Streams'
      /\ file'[Server][fd] = Free
      /\ \A e \in Fd : e # fd => file'[Server][e] = file[Server][e]
      /\ Cardinality(ServerOpen)' = Cardinality(ServerOpen) - 1
  BY <1>0, <1>1, <1>3, <1>4, CloseIs
<1>6. /\ hand' \in [Threads -> [pc : {"idle", "recv", "send", "close"}, fd : MaybeFd]]
      /\ hand'[t] = NoJob /\ \A u \in Threads : u # t => hand'[u] = hand[u]
      /\ NoJob.pc = "idle" /\ NoJob.fd = NoFd
  BY <1>0, FdIs DEF ServerTypes, NoJob
<1>7. fd # cfd /\ fd # lfd
  BY <1>0, <1>1, <1>3 DEF Handlers, ServerSide
<1>8. reg' \subseteq reg /\ (mode = "loop" => \A r \in reg : r \in reg' <=> r.fd # fd)
  BY <1>0 DEF Without
<1>9. ServerTypes'
  <2>1. structs' \in Int
    BY <1>0 DEF ServerTypes
  <2> QED
    BY <1>0, <1>6, <1>8, <2>1 DEF ServerTypes
<1>10. ServerSide'
  <2>1. \A d \in Fd : file'[Server][d] \in {Free, Listener} \cup {ServerEnd(b) : b \in Clients}
    BY <1>0, <1>5 DEF ServerSide
  <2>2. \A d, e \in Fd : file'[Server][d] # Free /\ file'[Server][d] = file'[Server][e] => d = e
    BY <1>0, <1>5 DEF ServerSide
  <2>3. \A d \in Fd : file'[Server][d] = Listener <=> d = lfd
    BY <1>0, <1>5, <1>7, Things DEF ServerSide
  <2>4. cfd # NoFd => file'[Server][cfd] \in Ends
    <3>1. cfd # NoFd => cfd \in Fd
      BY <1>0 DEF ServerTypes, MaybeFd
    <3> QED
      BY <1>0, <1>5, <1>7, <3>1 DEF ServerSide
  <2>5. main # "gone"
    BY <1>0, <1>1, <1>3 DEF ServerSide, NoneOpen
  <2> QED
    BY <1>0, <2>1, <2>2, <2>3, <2>4, <2>5 DEF ServerSide
<1>11. Handlers'
  <2>1. \A u \in Threads : hand'[u].fd # NoFd => u # t /\ hand'[u] = hand[u] /\ hand[u].fd \in Fd /\ hand[u].fd # fd
    BY <1>0, <1>1, <1>6 DEF ServerTypes, MaybeFd
  <2>2. Handling(hand'[t], call'[t])
    BY <1>0, <1>6 DEF Handlers, Handling
  <2> QED
    BY <1>0, <1>5, <1>6, <2>1, <2>2 DEF Handlers
<1>12. PoolOwns'
  <2> SUFFICES ASSUME mode = "pool" PROVE PoolOwns'
    BY <1>0 DEF PoolOwns
  <2>1. hand'[Main] = NoJob /\ reg' = {}
    BY <1>0, <1>6, Names DEF PoolOwns
  <2>2. \A k \in 1 .. Len(jobs) : jobs[k] # fd /\ jobs[k] \in Fd
    BY <1>0 DEF PoolOwns, ServerTypes
  <2>3. \A k \in 1 .. Len(jobs) : /\ file'[Server][jobs[k]] \in Ends /\ jobs[k] # cfd
                                  /\ \A u \in Threads : hand'[u].fd # jobs[k]
    BY <1>0, <1>1, <1>5, <1>6, <2>2, FdIs DEF PoolOwns
  <2>4. \A d \in Fd : file'[Server][d] \in Ends =>
          \/ d = cfd \/ (\E k \in 1 .. Len(jobs) : jobs[k] = d) \/ (\E u \in Threads : hand'[u].fd = d)
    <3> SUFFICES ASSUME NEW d \in Fd, file'[Server][d] \in Ends
                 PROVE  \/ d = cfd \/ (\E k \in 1 .. Len(jobs) : jobs[k] = d) \/ (\E u \in Threads : hand'[u].fd = d)
      OBVIOUS
    <3>1. d # fd /\ file[Server][d] \in Ends
      BY <1>5, Things
    <3> QED
      BY <1>0, <1>6, <3>1 DEF PoolOwns
  <2>5. main \notin {"listen", "create", "close", "exit", "gone"}
    BY <1>0, <1>6 DEF PoolOwns
  <2>6. structs' = Cardinality(ServerOpen)' + (IF main = "accept" THEN 1 ELSE 0)
    <3>1. Cardinality(ServerOpen) \in Nat
      BY OpenFinite, OpenIs
    <3> QED
      BY <1>0, <1>5, <3>1 DEF PoolOwns
  <2> QED
    BY <1>0, <2>1, <2>3, <2>4, <2>5, <2>6 DEF PoolOwns
<1>13. LoopOwns'
  <2> SUFFICES ASSUME mode = "loop" PROVE LoopOwns'
    BY <1>0 DEF LoopOwns
  <2>1. hand[t] # NoJob
    BY <1>0 DEF NoJob
  <2>2. t = Main /\ main = "poll"
    BY <1>0, <2>1, Names DEF LoopOwns, Threads
  <2>3. \A w \in Workers : hand'[w] = NoJob
    BY <1>0, <1>6, <2>2, Names DEF LoopOwns
  <2>4. \A r \in reg' : r \in reg /\ r.fd # fd /\ r.fd \in Fd
    BY <1>0, <1>8 DEF ServerTypes, RegRec
  <2>5. \A r \in reg' : file'[Server][r.fd] = r.id /\ r.fd # cfd
    BY <1>0, <1>5, <2>4 DEF LoopOwns
  <2>6. \A d \in Fd : file'[Server][d] # Free => d = cfd \/ \E r \in reg' : r.fd = d
    <3> SUFFICES ASSUME NEW d \in Fd, file'[Server][d] # Free, d # cfd PROVE \E r \in reg' : r.fd = d
      OBVIOUS
    <3>1. d # fd /\ file[Server][d] # Free
      BY <1>5
    <3>2. PICK r \in reg : r.fd = d
      BY <1>0, <2>2, <3>1 DEF LoopOwns
    <3> QED
      BY <1>8, <3>1, <3>2
  <2> QED
    BY <1>0, <1>6, <2>2, <2>3, <2>5, <2>6 DEF LoopOwns
<1> QED
  BY <1>5, <1>9, <1>10, <1>11, <1>12, <1>13, ServerMoves DEF ServerPart

LEMMA EchoHandlerStep ==
  ASSUME EchoInv, NEW t \in Threads, HandlerStep(t)
  PROVE  EchoInv'
BY EchoHandlerReads, EchoHandlerSent, EchoHandlerCloses, EchoHandlerSends, EchoHandlerSendFails
   DEF HandlerStep, SendStep

-----------------------------------------------------------------------------
(* Steps of the server's main *)

LEMMA ServerParts == EchoInv => ServerTypes /\ ServerSide /\ Handlers /\ PoolOwns /\ LoopOwns /\ KernelTypes
BY DEF EchoInv

LEMMA EchoStartJob ==
  ASSUME EchoInv, NEW w \in Workers, StartJob(w), UNCHANGED <<mode, call, clients>>
  PROVE  EchoInv'
<1>0. /\ ServerTypes /\ ServerSide /\ Handlers /\ PoolOwns /\ LoopOwns
      /\ hand[w] = NoJob /\ jobs # <<>> /\ jobs' = Tail(jobs)
      /\ hand' = [hand EXCEPT ![w] = [pc |-> "recv", fd |-> Head(jobs)]]
      /\ UNCHANGED <<kernel, main, lfd, cfd, structs, reg, round, mode, call>>
  BY ServerParts DEF StartJob, Handle
<1>1. mode = "pool"
  BY <1>0 DEF LoopOwns, ServerTypes
<1>2. /\ jobs \in Seq(Fd) /\ Len(jobs) \in Nat /\ Len(jobs) > 0 /\ Head(jobs) = jobs[1] /\ jobs[1] \in Fd
      /\ jobs' \in Seq(Fd) /\ Len(jobs') = Len(jobs) - 1
      /\ \A k \in 1 .. Len(jobs') : jobs'[k] = jobs[k + 1]
  BY <1>0 DEF ServerTypes
<1> DEFINE fd == jobs[1]
<1>3. 1 \in 1 .. Len(jobs) /\ \A k \in 1 .. Len(jobs') : k + 1 \in 1 .. Len(jobs) /\ k + 1 # 1
  BY <1>2
<1>4. /\ file[Server][fd] \in Ends /\ fd # cfd /\ \A t \in Threads : hand[t].fd # fd
      /\ \A k \in 1 .. Len(jobs') : jobs'[k] # fd
  BY <1>0, <1>1, <1>2, <1>3 DEF PoolOwns
<1>5. w \in Threads /\ w # Main
  BY Names
<1>6. /\ hand' \in [Threads -> [pc : {"idle", "recv", "send", "close"}, fd : MaybeFd]]
      /\ hand'[w].pc = "recv" /\ hand'[w].fd = fd /\ \A u \in Threads : u # w => hand'[u] = hand[u]
      /\ NoJob.pc = "idle" /\ NoJob.fd = NoFd
  BY <1>0, <1>2, <1>5, FdIs DEF ServerTypes, NoJob
<1> HIDE DEF fd
<1>7. ServerTypes'
  BY <1>0, <1>2, <1>6 DEF ServerTypes
<1>8. ServerSide'
  BY <1>0 DEF ServerSide, NoneOpen, kernel
<1>9. Handlers'
  <2>1. Handling(hand'[w], call'[w])
    BY <1>0, <1>2, <1>5, <1>6, FdIs DEF Handlers, Handling, fd
  <2>2. \A u \in Threads : u # w => Handling(hand'[u], call'[u])
    BY <1>0, <1>6 DEF Handlers
  <2>3. \A t \in Threads : /\ Handling(hand'[t], call'[t])
                           /\ hand'[t].fd # NoFd => file'[Server][hand'[t].fd] \in Ends
                           /\ hand'[t].fd # NoFd => hand'[t].fd # cfd'
    BY <1>0, <1>4, <1>6, <2>1, <2>2 DEF Handlers, kernel
  <2>4. \A t, u \in Threads : hand'[t].fd # NoFd /\ hand'[t].fd = hand'[u].fd => t = u
    BY <1>0, <1>4, <1>6 DEF Handlers
  <2> QED
    BY <2>3, <2>4 DEF Handlers
<1>10. PoolOwns'
  <2>1. hand'[Main] = NoJob /\ reg' = {}
    BY <1>0, <1>1, <1>5, <1>6, Names DEF PoolOwns
  <2>2. \A k \in 1 .. Len(jobs') : /\ file'[Server][jobs'[k]] \in Ends /\ jobs'[k] # cfd'
                                   /\ \A t \in Threads : hand'[t].fd # jobs'[k]
    <3> SUFFICES ASSUME NEW k \in 1 .. Len(jobs')
                 PROVE  /\ file'[Server][jobs'[k]] \in Ends /\ jobs'[k] # cfd'
                        /\ \A t \in Threads : hand'[t].fd # jobs'[k]
      OBVIOUS
    <3>1. k + 1 \in 1 .. Len(jobs) /\ jobs'[k] = jobs[k + 1] /\ jobs'[k] # fd
      BY <1>2, <1>3, <1>4
    <3> QED
      BY <1>0, <1>1, <1>6, <3>1 DEF PoolOwns, kernel
  <2>3. \A k, l \in 1 .. Len(jobs') : jobs'[k] = jobs'[l] => k = l
    <3> SUFFICES ASSUME NEW k \in 1 .. Len(jobs'), NEW l \in 1 .. Len(jobs'), jobs'[k] = jobs'[l] PROVE k = l
      OBVIOUS
    <3>1. k + 1 = l + 1
      BY <1>0, <1>1, <1>2, <1>3 DEF PoolOwns
    <3> QED
      BY <1>2, <3>1
  <2>4. \A d \in Fd : file'[Server][d] \in Ends =>
          \/ d = cfd' \/ (\E k \in 1 .. Len(jobs') : jobs'[k] = d) \/ (\E t \in Threads : hand'[t].fd = d)
    <3> SUFFICES ASSUME NEW d \in Fd, file[Server][d] \in Ends, d # cfd, d # fd,
                        \A t \in Threads : hand'[t].fd # d
                 PROVE  \E k \in 1 .. Len(jobs') : jobs'[k] = d
      BY <1>0, <1>5, <1>6 DEF kernel
    <3>1. \A t \in Threads : hand[t].fd # d
      BY <1>0, <1>6, FdIs
    <3>2. PICK k \in 1 .. Len(jobs) : jobs[k] = d
      BY <1>0, <1>1, <3>1 DEF PoolOwns
    <3>3. k # 1
      BY <3>2 DEF fd
    <3>4. k - 1 \in 1 .. Len(jobs') /\ (k - 1) + 1 = k
      BY <1>2, <3>3
    <3>5. jobs'[k - 1] = d
      BY <1>2, <3>2, <3>4
    <3> QED
      BY <3>4, <3>5
  <2>5. main \notin {"listen", "create", "close", "exit", "gone"}
    BY <1>0, <1>1 DEF PoolOwns
  <2>6. ServerOpen' = ServerOpen
    BY <1>0 DEF ServerOpen, kernel
  <2> QED
    BY <1>0, <1>1, <2>1, <2>2, <2>3, <2>4, <2>5, <2>6 DEF PoolOwns
<1>11. LoopOwns'
  BY <1>0, <1>1 DEF LoopOwns
<1>12. ServerPart'
  BY <1>7, <1>8, <1>9, <1>10, <1>11 DEF ServerPart
<1> QED
  BY <1>0, <1>12, ServerTurn

\* Steps of main that leave every descriptor alone.
LEMMA MainTurn ==
  ASSUME EchoInv, UNCHANGED <<kernel, call, clients, mode, lfd, cfd, jobs, hand, reg>>,
         round' \subseteq reg \/ round' \subseteq round,
         main' \in {"create", "malloc", "accept", "submit", "drain", "poll", "add", "close", "exit"},
         structs' \in Int, ServerSide', PoolOwns', LoopOwns'
  PROVE  EchoInv'
<1>1. ServerTypes'
  BY ServerParts DEF ServerTypes
<1>2. Handlers'
  BY ServerParts DEF Handlers, kernel
<1> QED
  BY <1>1, <1>2, ServerTurn DEF ServerPart

LEMMA OpenKept == ASSUME file'[Server] = file[Server] PROVE ServerOpen' = ServerOpen
BY DEF ServerOpen

LEMMA OpenNat == Cardinality(ServerOpen) \in Nat
BY OpenFinite, OpenIs

LEMMA EchoMalloc ==
  ASSUME EchoInv, Malloc, UNCHANGED <<mode, call, clients>>
  PROVE  EchoInv'
<1>0. /\ ServerTypes /\ ServerSide /\ Handlers /\ PoolOwns /\ LoopOwns
      /\ main = "malloc" /\ UNCHANGED <<kernel, lfd, cfd, jobs, hand, reg, round, mode>>
      /\ \/ main' = "accept" /\ structs' = structs + 1
         \/ main' = "drain" /\ structs' = structs
  BY ServerParts DEF Malloc, Goes
<1>1. ServerSide'
  BY <1>0 DEF ServerSide, NoneOpen, kernel
<1>2. structs' \in Int
  BY <1>0 DEF ServerTypes
<1>3. mode = "pool" /\ ServerOpen' = ServerOpen
  BY <1>0, OpenKept DEF ServerSide, kernel
<1>4. structs' = Cardinality(ServerOpen) + (IF main' = "accept" THEN 1 ELSE 0)
  BY <1>0, <1>3, OpenNat DEF PoolOwns
<1>5. PoolOwns'
  BY <1>0, <1>3, <1>4 DEF PoolOwns, kernel
<1>6. LoopOwns'
  BY <1>0, <1>3 DEF LoopOwns
<1> QED
  BY <1>0, <1>1, <1>2, <1>5, <1>6, MainTurn

LEMMA EchoDrained ==
  ASSUME EchoInv, Drained, UNCHANGED <<mode, call, clients>>
  PROVE  EchoInv'
<1>0. /\ ServerTypes /\ ServerSide /\ Handlers /\ PoolOwns /\ LoopOwns
      /\ main = "drain" /\ main' = "close" /\ jobs = <<>> /\ \A w \in Workers : hand[w] = NoJob
      /\ UNCHANGED <<kernel, lfd, cfd, structs, jobs, hand, reg, round, mode>>
  BY ServerParts DEF Drained, Goes
<1>1. ServerSide'
  BY <1>0 DEF ServerSide, NoneOpen, kernel
<1>2. mode = "pool" /\ ServerOpen' = ServerOpen
  BY <1>0, OpenKept DEF ServerSide, kernel
<1>3. \A t \in Threads : hand[t] = NoJob
  BY <1>0, <1>2 DEF PoolOwns, Threads
<1>4. PoolOwns'
  BY <1>0, <1>2, <1>3 DEF PoolOwns, kernel
<1>5. LoopOwns'
  BY <1>0, <1>2 DEF LoopOwns
<1>6. structs' \in Int
  BY <1>0 DEF ServerTypes
<1> QED
  BY <1>0, <1>1, <1>4, <1>5, <1>6, MainTurn

LEMMA EchoCreate ==
  ASSUME EchoInv, Create, UNCHANGED <<mode, call, clients>>
  PROVE  EchoInv'
<1>0. /\ ServerTypes /\ ServerSide /\ Handlers /\ PoolOwns /\ LoopOwns
      /\ main = "create" /\ UNCHANGED <<kernel, lfd, cfd, structs, jobs, hand, round, mode>>
      /\ \/ main' = "close" /\ reg' = reg
         \/ mode = "pool" /\ main' = "malloc" /\ reg' = reg
         \/ mode # "pool" /\ main' = "poll" /\ reg' = {[fd |-> lfd, id |-> Listener]}
  BY ServerParts DEF Create, Goes
<1>1. lfd \in Fd /\ cfd = NoFd
  BY <1>0 DEF ServerSide, ServerTypes, MaybeFd
<1>2. reg' \subseteq RegRec
  <2>1. [fd |-> lfd, id |-> Listener] \in RegRec
    BY <1>1 DEF RegRec
  <2> QED
    BY <1>0, <2>1 DEF ServerTypes
<1>3. ServerTypes'
  BY <1>0, <1>2 DEF ServerTypes
<1>4. ServerSide'
  <2>1. mode \in {"pool", "loop"}
    BY <1>0 DEF ServerTypes
  <2> QED
    BY <1>0, <2>1 DEF ServerSide, NoneOpen, kernel
<1>5. Handlers'
  BY <1>0 DEF Handlers, kernel
<1>6. ServerOpen' = ServerOpen
  BY <1>0, OpenKept DEF kernel
<1>7. PoolOwns'
  BY <1>0, <1>6 DEF PoolOwns, kernel
<1>8. LoopOwns'
  <2> SUFFICES ASSUME mode = "loop" PROVE LoopOwns'
    BY <1>0 DEF LoopOwns
  <2>1. CASE main' = "close" /\ reg' = reg
    BY <1>0, <2>1 DEF LoopOwns
  <2>2. CASE main' = "poll" /\ reg' = {[fd |-> lfd, id |-> Listener]}
    <3>1. \A r \in reg' : r.fd = lfd /\ r.id = Listener
      BY <2>2
    <3>2. [fd |-> lfd, id |-> Listener].fd = lfd
      OBVIOUS
    <3>3. \A d \in Fd : file[Server][d] # Free => d = lfd
      <4> SUFFICES ASSUME NEW d \in Fd, file[Server][d] # Free PROVE d = lfd
        OBVIOUS
      <4>1. file[Server][d] \notin Ends
        BY <1>0 DEF LoopOwns
      <4>2. file[Server][d] = Listener
        BY <1>0, <4>1, Things DEF ServerSide
      <4> QED
        BY <1>0, <4>2 DEF ServerSide
    <3>4. \A d \in Fd : file[Server][d] # Free => \E r \in reg' : r.fd = d
      BY <2>2, <3>2, <3>3
    <3>5. file[Server][lfd] = Listener /\ lfd # cfd
      BY <1>0, <1>1, FdIs DEF ServerSide
    <3>6. hand[Main] = NoJob
      BY <1>0 DEF LoopOwns
    <3> QED
      BY <1>0, <2>2, <3>1, <3>4, <3>5, <3>6 DEF LoopOwns, kernel
  <2> QED
    BY <1>0, <2>1, <2>2
<1> QED
  BY <1>0, <1>3, <1>4, <1>5, <1>7, <1>8, ServerTurn DEF ServerPart

LEMMA EchoListen ==
  ASSUME EchoInv, Listen, UNCHANGED <<mode, call, clients>>
  PROVE  EchoInv'
<1>0. /\ ServerTypes /\ ServerSide /\ Handlers /\ PoolOwns /\ LoopOwns /\ KernelTypes
      /\ main = "listen" /\ UNCHANGED <<cfd, structs, jobs, hand, reg, round, mode>>
  BY ServerParts DEF Listen
<1>1. PICK fd \in {NoFd} \cup FreeFds(Server) : /\ TcpListenHost(fd) /\ lfd' = fd
                                                /\ main' = IF fd = NoFd THEN "exit" ELSE "create"
  BY DEF Listen, Goes
<1>2. lfd = NoFd /\ cfd = NoFd /\ \A d \in Fd : file[Server][d] # Listener
  BY <1>0, FdIs DEF ServerSide
<1>3. ASSUME NEW d \in Fd PROVE file[Server][d] \in {Free} \cup {ServerEnd(c) : c \in Clients}
  BY <1>0, <1>2 DEF ServerSide
<1>4. CASE fd = NoFd
  <2>1. UNCHANGED kernel
    <3>1. FreeFds(Server) # {} => fd # Lowest(FreeFds(Server))
      BY <1>0, <1>4, LowestFree, FdIs
    <3> QED
      BY <1>1, <3>1 DEF TcpListenHost, kernel
  <2>2. ServerTypes'
    BY <1>0, <1>1, <1>4, FdIs DEF ServerTypes
  <2>3. ServerSide'
    BY <1>0, <1>1, <1>2, <1>4, <2>1, FdIs DEF ServerSide, kernel
  <2>4. Handlers'
    BY <1>0, <2>1 DEF Handlers, kernel
  <2>5. ServerOpen' = ServerOpen
    BY <2>1, OpenKept DEF kernel
  <2>6. PoolOwns'
    BY <1>0, <1>1, <1>4, <2>1, <2>5 DEF PoolOwns, kernel
  <2>7. LoopOwns'
    BY <1>0, <1>1, <1>4, <2>1 DEF LoopOwns, kernel
  <2> QED
    BY <2>1, <2>2, <2>3, <2>4, <2>6, <2>7, ServerTurn DEF ServerPart
<1>5. CASE fd # NoFd
  <2>1. /\ KernelTypes' /\ fd \in Fd /\ file[Server][fd] = Free /\ file'[Server][fd] = Listener
        /\ \A d \in Fd : d # fd => file'[Server][d] = file[Server][d]
        /\ \A c \in Clients : file'[c] = file[c]
        /\ UNCHANGED <<backlog, wire, shut, broken>>
    BY <1>1, <1>5, ListenIs
  <2>2. file[Server][fd] \notin Ends /\ file'[Server][fd] \notin Ends
    BY <2>1, Things
  <2>3. /\ \A c \in Clients : (Accepted(c)' <=> Accepted(c)) /\ InHand(c)' = InHand(c)
        /\ ServerOpen' = ServerOpen
    BY <2>1, <2>2, ListenerOnly
  <2>4. main' = "create" /\ lfd' = fd
    BY <1>1, <1>5
  <2>5. ServerTypes'
    BY <1>0, <2>1, <2>4, FdIs DEF ServerTypes
  <2>6. ServerSide'
    <3>1. \A d \in Fd : file'[Server][d] \in {Free, Listener} \cup {ServerEnd(c) : c \in Clients}
      BY <1>3, <2>1
    <3>2. \A d, e \in Fd : file'[Server][d] # Free /\ file'[Server][d] = file'[Server][e] => d = e
      BY <1>0, <1>2, <2>1 DEF ServerSide
    <3>3. \A d \in Fd : file'[Server][d] = Listener <=> d = fd
      BY <1>2, <2>1
    <3> QED
      BY <1>0, <1>2, <2>1, <2>4, <3>1, <3>2, <3>3, FdIs DEF ServerSide
  <2>7. \A d \in Fd : file'[Server][d] \in Ends <=> file[Server][d] \in Ends
    BY <2>1, <2>2
  <2>8. Handlers'
    <3>1. \A t \in Threads : hand[t].fd # NoFd => hand[t].fd \in Fd
      BY <1>0 DEF ServerTypes, MaybeFd
    <3> QED
      BY <1>0, <2>7, <3>1 DEF Handlers
  <2>9. PoolOwns'
    <3>1. \A k \in 1 .. Len(jobs) : jobs[k] \in Fd
      BY <1>0 DEF ServerTypes
    <3> QED
      BY <1>0, <2>3, <2>4, <2>7, <3>1 DEF PoolOwns
  <2>10. LoopOwns'
    BY <1>0, <2>4, <2>7 DEF LoopOwns
  <2>11. ServerPart'
    BY <2>5, <2>6, <2>8, <2>9, <2>10 DEF ServerPart
  <2> QED
    BY <2>1, <2>3, <2>11, ServerQuiet
<1> QED
  BY <1>4, <1>5

LEMMA EchoCloseListener ==
  ASSUME EchoInv, CloseListener, UNCHANGED <<mode, call, clients>>
  PROVE  EchoInv'
<1>0. /\ ServerTypes /\ ServerSide /\ Handlers /\ PoolOwns /\ LoopOwns /\ KernelTypes
      /\ main = "close" /\ main' = "exit" /\ lfd' = NoFd /\ Close(Server, lfd)
      /\ UNCHANGED <<cfd, structs, jobs, hand, reg, round, mode, call>>
  BY ServerParts DEF CloseListener, Goes
<1>1. lfd \in Fd /\ cfd = NoFd /\ file[Server][lfd] = Listener /\ Listener \notin Ends
  BY <1>0, Things DEF ServerSide, ServerTypes, MaybeFd
<1>2. /\ file' = [file EXCEPT ![Server][lfd] = Free] /\ UNCHANGED <<shut, wire>>
      /\ broken' = broken \cup {backlog[k] : k \in DOMAIN backlog} /\ backlog' = <<>>
  BY <1>0, <1>1 DEF Close
<1>3. /\ file' \in [Clients \cup {Server} -> [Fd -> Thing]]
      /\ file'[Server][lfd] = Free
      /\ \A e \in Fd : e # lfd => file'[Server][e] = file[Server][e]
      /\ \A q \in Clients \cup {Server} : q # Server => file'[q] = file[q]
  <2>1. Free \in Thing
    BY DEF Thing
  <2> QED
    BY <1>0, <1>1, <1>2, <2>1, FileSet
<1>4. backlog \in Seq(Clients) /\ DOMAIN backlog = 1 .. Len(backlog)
  BY <1>0 DEF KernelTypes
<1>5. KernelTypes' /\ \A c \in Clients : (c \in broken' <=> c \in broken \/ Waiting(c)) /\ ~Waiting(c)'
  <2>1. broken' \subseteq Clients
    BY <1>0, <1>2, <1>4 DEF KernelTypes
  <2>2. KernelTypes'
    BY <1>0, <1>2, <1>3, <2>1 DEF KernelTypes
  <2>3. \A c \in Clients : c \in broken' <=> c \in broken \/ Waiting(c)
    BY <1>2, <1>4 DEF Waiting
  <2>4. Len(backlog') = 0
    BY <1>2
  <2> QED
    BY <2>2, <2>3, <2>4 DEF Waiting
<1>6. file[Server][lfd] \notin Ends /\ file'[Server][lfd] \notin Ends
  BY <1>1, <1>3, Things
<1>7. /\ \A c \in Clients : (Accepted(c)' <=> Accepted(c)) /\ InHand(c)' = InHand(c)
      /\ ServerOpen' = ServerOpen
  BY <1>0, <1>1, <1>3, <1>6, ListenerOnly
<1>8. OnlyServer
  BY <1>0, <1>2, <1>3, Names DEF OnlyServer
<1>9. Connections'
  <2>1. Len(backlog') = 0
    BY <1>2
  <2> SUFFICES ASSUME NEW c \in Clients PROVE ConnectionOf(c)'
    BY <2>1 DEF Connections
  <2>2. ConnectionOf(c)
    BY DEF EchoInv, Connections
  <2> QED
    BY <1>2, <1>5, <1>7, <1>8, <2>2, ClientsKept DEF ConnectionOf
<1>10. Streams'
  <2> SUFFICES ASSUME NEW c \in Clients PROVE StreamOf(c)'
    BY DEF Streams
  <2>1. StreamOf(c)
    BY DEF EchoInv, Streams
  <2>2. Whole(c)' => Whole(c)
    BY <1>2, <1>5, <1>8, ClientsKept DEF Whole
  <2> QED
    BY <1>2, <1>5, <1>7, <1>8, <2>1, <2>2, ClientsKept, StreamKept
<1>11. \A d \in Fd : file'[Server][d] \in Ends <=> file[Server][d] \in Ends
  BY <1>3, <1>6
<1>12. ServerTypes'
  BY <1>0, FdIs DEF ServerTypes
<1>13. ServerSide'
  <2>1. \A d \in Fd : file'[Server][d] \in {Free, Listener} \cup {ServerEnd(c) : c \in Clients}
    BY <1>0, <1>3 DEF ServerSide
  <2>2. \A d, e \in Fd : file'[Server][d] # Free /\ file'[Server][d] = file'[Server][e] => d = e
    BY <1>0, <1>3 DEF ServerSide
  <2>3. \A d \in Fd : file'[Server][d] # Listener
    BY <1>0, <1>3, Things DEF ServerSide
  <2> QED
    BY <1>0, <1>1, <2>1, <2>2, <2>3, FdIs DEF ServerSide
<1>14. Handlers'
  <2>1. \A t \in Threads : hand[t].fd # NoFd => hand[t].fd \in Fd
    BY <1>0 DEF ServerTypes, MaybeFd
  <2> QED
    BY <1>0, <1>11, <2>1 DEF Handlers
<1>15. PoolOwns'
  <2>1. \A k \in 1 .. Len(jobs) : jobs[k] \in Fd
    BY <1>0 DEF ServerTypes
  <2> QED
    BY <1>0, <1>7, <1>11, <2>1 DEF PoolOwns
<1>16. LoopOwns'
  BY <1>0 DEF LoopOwns
<1> QED
  BY <1>5, <1>8, <1>9, <1>10, <1>12, <1>13, <1>14, <1>15, <1>16, ServerMoves DEF ServerPart

\* A failed accept leaves the kernel as it was.
LEMMA AcceptFails == ASSUME KernelTypes, TcpAccept(NoFd) PROVE UNCHANGED kernel
<1>1. FreeFds(Server) # {} => NoFd # Lowest(FreeFds(Server))
  BY LowestFree, FdIs
<1> QED
  BY <1>1 DEF TcpAccept, kernel

LEMMA EchoAccept ==
  ASSUME EchoInv, Accept, UNCHANGED <<mode, call, clients>>
  PROVE  EchoInv'
<1>0. /\ ServerTypes /\ ServerSide /\ Handlers /\ PoolOwns /\ LoopOwns /\ KernelTypes
      /\ main = "accept" /\ UNCHANGED <<lfd, jobs, hand, reg, round, mode, call>>
  BY ServerParts DEF Accept
<1>1. PICK fd \in {NoFd} \cup FreeFds(Server) :
        /\ TcpAccept(fd) /\ cfd' = fd
        /\ IF fd = NoFd THEN main' = "drain" /\ structs' = structs - 1
                        ELSE main' = "submit" /\ structs' = structs
  BY DEF Accept, Goes
<1>2. mode = "pool" /\ cfd = NoFd /\ structs = Cardinality(ServerOpen) + 1 /\ Cardinality(ServerOpen) \in Nat
  BY <1>0, OpenNat DEF ServerSide, PoolOwns
<1>3. LoopOwns'
  BY <1>0, <1>2 DEF LoopOwns
<1>4. CASE fd = NoFd
  <2>1. UNCHANGED kernel /\ main' = "drain" /\ structs' = structs - 1 /\ UNCHANGED cfd
    BY <1>0, <1>1, <1>2, <1>4, AcceptFails
  <2>2. ServerSide'
    BY <1>0, <1>2, <2>1 DEF ServerSide, NoneOpen, kernel
  <2>3. ServerOpen' = ServerOpen
    BY <2>1, OpenKept DEF kernel
  <2>4. structs' = Cardinality(ServerOpen) /\ structs' \in Int
    BY <1>2, <2>1
  <2>5. PoolOwns'
    BY <1>0, <2>1, <2>3, <2>4 DEF PoolOwns, kernel
  <2> QED
    BY <1>0, <1>3, <2>1, <2>2, <2>4, <2>5, MainTurn
<1>5. CASE fd # NoFd
  <2>1. /\ OnlyServer /\ KernelTypes' /\ Connections' /\ Streams'
        /\ fd \in Fd /\ file[Server][fd] = Free
        /\ \A d \in Fd : d # fd => file'[Server][d] = file[Server][d]
        /\ \E c \in Clients : /\ file'[Server][fd] = ServerEnd(c)
                              /\ \A d \in Fd : file[Server][d] # ServerEnd(c)
        /\ Cardinality(ServerOpen)' = Cardinality(ServerOpen) + 1
    BY <1>0, <1>1, <1>5, AcceptIs
  <2>2. PICK c \in Clients : /\ file'[Server][fd] = ServerEnd(c)
                             /\ \A d \in Fd : file[Server][d] # ServerEnd(c)
    BY <2>1
  <2>3. main' = "submit" /\ structs' = structs /\ cfd' = fd
    BY <1>1, <1>5
  <2>4. file'[Server][fd] \in Ends /\ file[Server][fd] \notin Ends
    BY <2>1, <2>2, Things
  <2>5. ServerTypes'
    BY <1>0, <2>1, <2>3, FdIs DEF ServerTypes
  <2>6. ServerSide'
    <3>1. \A d \in Fd : file'[Server][d] \in {Free, Listener} \cup {ServerEnd(b) : b \in Clients}
      BY <1>0, <2>1, <2>2 DEF ServerSide
    <3>2. \A d, e \in Fd : file'[Server][d] # Free /\ file'[Server][d] = file'[Server][e] => d = e
      BY <1>0, <2>1, <2>2 DEF ServerSide
    <3>3. \A d \in Fd : file'[Server][d] = Listener <=> d = lfd
      <4>1. file[Server][fd] # Listener /\ file'[Server][fd] # Listener
        BY <2>1, <2>2, Things
      <4> QED
        BY <1>0, <2>1, <4>1 DEF ServerSide
    <3> QED
      BY <1>0, <1>2, <2>1, <2>3, <2>4, <3>1, <3>2, <3>3, FdIs DEF ServerSide
  <2>7. Handlers'
    <3>1. \A t \in Threads : hand[t].fd # NoFd => hand[t].fd \in Fd /\ hand[t].fd # fd
      BY <1>0, <2>4 DEF Handlers, ServerTypes, MaybeFd
    <3> QED
      BY <1>0, <2>1, <2>3, <3>1 DEF Handlers
  <2>8. PoolOwns'
    <3>1. \A k \in 1 .. Len(jobs) : jobs[k] \in Fd /\ jobs[k] # fd
      BY <1>0, <1>2, <2>4 DEF ServerTypes, PoolOwns
    <3>2. \A k \in 1 .. Len(jobs) : /\ file'[Server][jobs[k]] \in Ends /\ jobs[k] # fd
                                    /\ \A t \in Threads : hand[t].fd # jobs[k]
      BY <1>0, <1>2, <2>1, <3>1 DEF PoolOwns
    <3>3. \A d \in Fd : file'[Server][d] \in Ends =>
            \/ d = fd \/ (\E k \in 1 .. Len(jobs) : jobs[k] = d) \/ (\E t \in Threads : hand[t].fd = d)
      BY <1>0, <1>2, <2>1, FdIs DEF PoolOwns
    <3>4. structs = Cardinality(ServerOpen)'
      BY <1>2, <2>1
    <3> QED
      BY <1>0, <1>2, <2>3, <3>2, <3>3, <3>4 DEF PoolOwns
  <2> QED
    BY <1>3, <2>1, <2>5, <2>6, <2>7, <2>8, ServerMoves DEF ServerPart
<1> QED
  BY <1>4, <1>5

LEMMA EchoSubmitOk ==
  ASSUME EchoInv, SubmitOk, UNCHANGED <<mode, call, clients>>
  PROVE  EchoInv'
<1>0. /\ ServerTypes /\ ServerSide /\ Handlers /\ PoolOwns /\ LoopOwns
      /\ main = "submit" /\ main' = "malloc" /\ jobs' = Append(jobs, cfd) /\ cfd' = NoFd
      /\ UNCHANGED <<kernel, lfd, structs, hand, reg, round, mode, call>>
  BY ServerParts DEF SubmitOk, Goes
<1>1. mode = "pool" /\ cfd \in Fd /\ file[Server][cfd] \in Ends
  BY <1>0 DEF ServerSide, ServerTypes, MaybeFd
<1>2. /\ jobs \in Seq(Fd) /\ Len(jobs) \in Nat /\ jobs' \in Seq(Fd) /\ Len(jobs') = Len(jobs) + 1
      /\ jobs'[Len(jobs) + 1] = cfd /\ \A k \in 1 .. Len(jobs) : jobs'[k] = jobs[k]
  BY <1>0, <1>1 DEF ServerTypes
<1>3. \A k \in 1 .. Len(jobs') : k \in 1 .. Len(jobs) \/ k = Len(jobs) + 1
  BY <1>2
<1>4. ServerTypes'
  BY <1>0, <1>2, FdIs DEF ServerTypes
<1>5. ServerSide'
  BY <1>0, FdIs DEF ServerSide, kernel
<1>6. Handlers'
  BY <1>0, FdIs DEF Handlers, kernel
<1>7. PoolOwns'
  <2>1. \A k \in 1 .. Len(jobs') : /\ file[Server][jobs'[k]] \in Ends /\ jobs'[k] # NoFd
                                   /\ \A t \in Threads : hand[t].fd # jobs'[k]
    <3> SUFFICES ASSUME NEW k \in 1 .. Len(jobs')
                 PROVE  /\ file[Server][jobs'[k]] \in Ends /\ jobs'[k] # NoFd
                        /\ \A t \in Threads : hand[t].fd # jobs'[k]
      OBVIOUS
    <3>1. CASE k \in 1 .. Len(jobs)
      BY <1>0, <1>1, <1>2, <3>1, FdIs DEF PoolOwns
    <3>2. CASE k = Len(jobs) + 1
      BY <1>0, <1>1, <1>2, <3>2, FdIs DEF Handlers
    <3> QED
      BY <1>3, <3>1, <3>2
  <2>2. \A k, l \in 1 .. Len(jobs') : jobs'[k] = jobs'[l] => k = l
    BY <1>0, <1>1, <1>2, <1>3 DEF PoolOwns
  <2>3. \A d \in Fd : file[Server][d] \in Ends =>
          (\E k \in 1 .. Len(jobs') : jobs'[k] = d) \/ (\E t \in Threads : hand[t].fd = d)
    <3> SUFFICES ASSUME NEW d \in Fd, file[Server][d] \in Ends, \A t \in Threads : hand[t].fd # d
                 PROVE  \E k \in 1 .. Len(jobs') : jobs'[k] = d
      OBVIOUS
    <3>1. CASE d = cfd
      BY <1>2, <3>1
    <3>2. ASSUME NEW k \in 1 .. Len(jobs), jobs[k] = d PROVE \E l \in 1 .. Len(jobs') : jobs'[l] = d
      BY <1>2, <3>2
    <3> QED
      BY <1>0, <1>1, <3>1, <3>2 DEF PoolOwns
  <2>4. ServerOpen' = ServerOpen
    BY <1>0, OpenKept DEF kernel
  <2> QED
    BY <1>0, <1>1, <2>1, <2>2, <2>3, <2>4 DEF PoolOwns, kernel
<1>8. LoopOwns'
  BY <1>0, <1>1 DEF LoopOwns
<1> QED
  BY <1>0, <1>4, <1>5, <1>6, <1>7, <1>8, ServerTurn DEF ServerPart

\* Closing the client just accepted, which no thread handles yet.
LEMMA CloseNew ==
  ASSUME EchoInv, main \in {"submit", "add"}, Close(Server, cfd), UNCHANGED <<call, clients>>
  PROVE  /\ OnlyServer /\ KernelTypes' /\ Connections' /\ Streams'
         /\ cfd \in Fd /\ file[Server][cfd] \in Ends /\ file'[Server][cfd] = Free
         /\ \A e \in Fd : e # cfd => file'[Server][e] = file[Server][e]
         /\ Cardinality(ServerOpen)' = Cardinality(ServerOpen) - 1
         /\ \A d \in Fd : file'[Server][d] \in {Free, Listener} \cup {ServerEnd(c) : c \in Clients}
         /\ \A d, e \in Fd : file'[Server][d] # Free /\ file'[Server][d] = file'[Server][e] => d = e
         /\ \A d \in Fd : file'[Server][d] = Listener <=> d = lfd
<1>0. ServerTypes /\ ServerSide /\ Handlers
  BY ServerParts
<1>1. cfd \in Fd /\ file[Server][cfd] \in Ends
  BY <1>0 DEF ServerSide, ServerTypes, MaybeFd
<1>2. \A t \in Threads : call[t].op = "send" => call[t].fd # cfd
  BY <1>0, SoleSender, FdIs DEF Handlers
<1>3. /\ OnlyServer /\ KernelTypes' /\ Connections' /\ Streams'
      /\ file'[Server][cfd] = Free
      /\ \A e \in Fd : e # cfd => file'[Server][e] = file[Server][e]
      /\ Cardinality(ServerOpen)' = Cardinality(ServerOpen) - 1
  BY <1>1, <1>2, CloseIs
<1>4. \A d \in Fd : file'[Server][d] \in {Free, Listener} \cup {ServerEnd(c) : c \in Clients}
  BY <1>0, <1>3 DEF ServerSide
<1>5. \A d, e \in Fd : file'[Server][d] # Free /\ file'[Server][d] = file'[Server][e] => d = e
  BY <1>0, <1>3 DEF ServerSide
<1>6. \A d \in Fd : file'[Server][d] = Listener <=> d = lfd
  <2>1. file[Server][cfd] # Listener /\ file'[Server][cfd] # Listener
    BY <1>1, <1>3, Things
  <2> QED
    BY <1>0, <1>3, <2>1 DEF ServerSide
<1> QED
  BY <1>1, <1>3, <1>4, <1>5, <1>6

LEMMA EchoSubmitFails ==
  ASSUME EchoInv, SubmitFails, UNCHANGED <<mode, call, clients>>
  PROVE  EchoInv'
<1>0. /\ ServerTypes /\ ServerSide /\ Handlers /\ PoolOwns /\ LoopOwns
      /\ main = "submit" /\ main' = "drain" /\ structs' = structs - 1 /\ cfd' = NoFd /\ Close(Server, cfd)
      /\ UNCHANGED <<lfd, jobs, hand, reg, round, mode, call>>
  BY ServerParts DEF SubmitFails, Goes
<1>1. /\ OnlyServer /\ KernelTypes' /\ Connections' /\ Streams'
      /\ cfd \in Fd /\ file[Server][cfd] \in Ends /\ file'[Server][cfd] = Free
      /\ \A e \in Fd : e # cfd => file'[Server][e] = file[Server][e]
      /\ Cardinality(ServerOpen)' = Cardinality(ServerOpen) - 1
      /\ \A d \in Fd : file'[Server][d] \in {Free, Listener} \cup {ServerEnd(c) : c \in Clients}
      /\ \A d, e \in Fd : file'[Server][d] # Free /\ file'[Server][d] = file'[Server][e] => d = e
      /\ \A d \in Fd : file'[Server][d] = Listener <=> d = lfd
  BY <1>0, CloseNew
<1>2. mode = "pool" /\ structs = Cardinality(ServerOpen) /\ Cardinality(ServerOpen) \in Nat
  BY <1>0, OpenNat DEF ServerSide, PoolOwns
<1>3. ServerTypes'
  <2>1. structs' \in Int
    BY <1>0, <1>2
  <2> QED
    BY <1>0, <2>1, FdIs DEF ServerTypes
<1>4. ServerSide'
  BY <1>0, <1>1, <1>2 DEF ServerSide
<1>5. Handlers'
  <2>1. \A t \in Threads : hand[t].fd # NoFd => hand[t].fd \in Fd /\ hand[t].fd # cfd
    BY <1>0 DEF Handlers, ServerTypes, MaybeFd
  <2> QED
    BY <1>0, <1>1, <2>1 DEF Handlers
<1>6. PoolOwns'
  <2>1. \A k \in 1 .. Len(jobs) : jobs[k] \in Fd /\ jobs[k] # cfd
    BY <1>0, <1>2 DEF ServerTypes, PoolOwns
  <2>2. \A k \in 1 .. Len(jobs) : /\ file'[Server][jobs[k]] \in Ends /\ jobs[k] # NoFd
                                  /\ \A t \in Threads : hand[t].fd # jobs[k]
    BY <1>0, <1>1, <1>2, <2>1, FdIs DEF PoolOwns
  <2>3. \A d \in Fd : file'[Server][d] \in Ends =>
          (\E k \in 1 .. Len(jobs) : jobs[k] = d) \/ (\E t \in Threads : hand[t].fd = d)
    <3> SUFFICES ASSUME NEW d \in Fd, file'[Server][d] \in Ends
                 PROVE  (\E k \in 1 .. Len(jobs) : jobs[k] = d) \/ (\E t \in Threads : hand[t].fd = d)
      OBVIOUS
    <3>1. d # cfd /\ file[Server][d] \in Ends
      BY <1>1, Things
    <3> QED
      BY <1>0, <1>2, <3>1 DEF PoolOwns
  <2>4. structs' = Cardinality(ServerOpen)'
    BY <1>0, <1>1, <1>2
  <2> QED
    BY <1>0, <1>2, <2>2, <2>3, <2>4 DEF PoolOwns
<1>7. LoopOwns'
  BY <1>0, <1>2 DEF LoopOwns
<1> QED
  BY <1>1, <1>3, <1>4, <1>5, <1>6, <1>7, ServerMoves DEF ServerPart

\* In the loop server only main handles clients.
LEMMA LoopHands ==
  ASSUME EchoInv, mode = "loop", hand[Main] = NoJob
  PROVE  \A t \in Threads : hand[t].fd = NoFd /\ hand[t].pc = "idle" /\ call[t] = Idle
<1>1. \A t \in Threads : hand[t] = NoJob
  BY ServerParts, Names DEF LoopOwns, Threads
<1>2. \A t \in Threads : Handling(hand[t], call[t])
  BY ServerParts DEF Handlers
<1> QED
  BY <1>1, <1>2 DEF Handling, NoJob

LEMMA EchoDispatchClient ==
  ASSUME EchoInv, main = "poll", NEW r \in round, DispatchClient(r), UNCHANGED <<mode, call, clients>>
  PROVE  EchoInv'
<1>0. /\ ServerTypes /\ ServerSide /\ Handlers /\ PoolOwns /\ LoopOwns
      /\ hand[Main] = NoJob /\ r.id # Listener /\ round' = round \ {r} /\ mode = "loop"
      /\ UNCHANGED <<kernel, main, lfd, cfd, structs, jobs, reg, mode, call>>
  BY ServerParts DEF DispatchClient, ServerSide
<1>1. CASE r \notin reg
  <2>1. hand' = hand
    BY <1>1 DEF DispatchClient, Registered
  <2>2. ServerSide'
    BY <1>0 DEF ServerSide, NoneOpen, kernel
  <2>3. PoolOwns'
    BY <1>0 DEF PoolOwns
  <2>4. LoopOwns'
    BY <1>0, <2>1 DEF LoopOwns, kernel
  <2>5. structs' \in Int
    BY <1>0 DEF ServerTypes
  <2> QED
    BY <1>0, <2>1, <2>2, <2>3, <2>4, <2>5, MainTurn
<1>2. CASE r \in reg
  <2>1. hand' = [hand EXCEPT ![Main] = [pc |-> "recv", fd |-> r.fd]]
    BY <1>2 DEF DispatchClient, Registered, Handle
  <2>2. r.fd \in Fd /\ r.fd # NoFd /\ r.fd # cfd /\ file[Server][r.fd] \in Ends
    <3>1. r \in RegRec
      BY <1>0 DEF ServerTypes
    <3>2. r.fd \in Fd /\ r.id \in Ends
      BY <1>0, <3>1 DEF RegRec
    <3> QED
      BY <1>0, <1>2, <3>2, FdIs DEF LoopOwns
  <2>3. \A t \in Threads : hand[t].fd = NoFd /\ hand[t].pc = "idle" /\ call[t] = Idle
    BY <1>0, LoopHands
  <2>4. /\ hand' \in [Threads -> [pc : {"idle", "recv", "send", "close"}, fd : MaybeFd]]
        /\ hand'[Main].pc = "recv" /\ hand'[Main].fd = r.fd
        /\ \A u \in Threads : u # Main => hand'[u] = hand[u]
    BY <1>0, <2>1, <2>2, Names, FdIs DEF ServerTypes
  <2>5. ServerTypes'
    BY <1>0, <2>4 DEF ServerTypes
  <2>6. ServerSide'
    BY <1>0 DEF ServerSide, NoneOpen, kernel
  <2>7. Handlers'
    <3>1. \A t \in Threads : Handling(hand'[t], call[t])
      BY <2>2, <2>3, <2>4 DEF Handling
    <3> QED
      BY <1>0, <2>2, <2>3, <2>4, <3>1 DEF Handlers, kernel
  <2>8. PoolOwns'
    BY <1>0 DEF PoolOwns
  <2>9. LoopOwns'
    <3>1. \A w \in Workers : w # Main => hand'[w] = NoJob
      BY <1>0, <2>4 DEF LoopOwns, Threads
    <3>2. \E q \in reg : q.fd = hand'[Main].fd
      BY <1>2, <2>4
    <3> QED
      BY <1>0, <3>1, <3>2 DEF LoopOwns, kernel
  <2> QED
    BY <1>0, <2>5, <2>6, <2>7, <2>8, <2>9, ServerTurn DEF ServerPart
<1> QED
  BY <1>1, <1>2

LEMMA EchoPoll ==
  ASSUME EchoInv, Poll, UNCHANGED <<mode, call, clients>>
  PROVE  EchoInv'
<1>0. /\ ServerTypes /\ ServerSide /\ Handlers /\ PoolOwns /\ LoopOwns
      /\ main = "poll" /\ hand[Main] = NoJob /\ mode = "loop"
      /\ UNCHANGED <<kernel, lfd, cfd, structs, jobs, hand, mode, call>>
  BY ServerParts DEF Poll, ServerSide
<1>1. PoolOwns'
  BY <1>0 DEF PoolOwns
<1>2. CASE main' = main /\ reg' = reg /\ round' \subseteq reg
  <2>1. ServerSide'
    BY <1>0, <1>2 DEF ServerSide, NoneOpen, kernel
  <2>2. LoopOwns'
    BY <1>0, <1>2 DEF LoopOwns, kernel
  <2>3. structs' \in Int
    BY <1>0 DEF ServerTypes
  <2> QED
    BY <1>0, <1>1, <1>2, <2>1, <2>2, <2>3, MainTurn
<1>3. CASE main' = "close" /\ reg' = {} /\ round' = round
  <2>1. ServerTypes'
    BY <1>0, <1>3 DEF ServerTypes
  <2>2. ServerSide'
    BY <1>0, <1>3 DEF ServerSide, NoneOpen, kernel
  <2>3. Handlers'
    BY <1>0 DEF Handlers, kernel
  <2>4. LoopOwns'
    BY <1>0, <1>3 DEF LoopOwns, kernel
  <2> QED
    BY <1>0, <1>1, <2>1, <2>2, <2>3, <2>4, ServerTurn DEF ServerPart
<1>4. \/ main' = main /\ reg' = reg /\ round' \subseteq reg
      \/ main' = "close" /\ reg' = {} /\ round' = round
  BY DEF Poll, Goes
<1> QED
  BY <1>2, <1>3, <1>4

LEMMA EchoOnAccept ==
  ASSUME EchoInv, main = "poll", NEW r \in round, OnAccept(r), UNCHANGED <<mode, call, clients>>
  PROVE  EchoInv'
<1>0. /\ ServerTypes /\ ServerSide /\ Handlers /\ PoolOwns /\ LoopOwns /\ KernelTypes
      /\ hand[Main] = NoJob /\ round' = round \ {r} /\ mode = "loop" /\ cfd = NoFd
      /\ UNCHANGED <<lfd, structs, jobs, hand, reg, mode, call>>
  BY ServerParts DEF OnAccept, ServerSide
<1>1. PICK fd \in {NoFd} \cup FreeFds(Server) :
        TcpAccept(fd) /\ cfd' = fd /\ main' = (IF fd = NoFd THEN "poll" ELSE "add")
  BY DEF OnAccept, Goes
<1>2. PoolOwns'
  BY <1>0 DEF PoolOwns
<1>3. structs' \in Int
  BY <1>0 DEF ServerTypes
<1>4. CASE fd = NoFd
  <2>1. UNCHANGED <<kernel, main, cfd>>
    BY <1>0, <1>1, <1>4, AcceptFails
  <2>2. ServerSide'
    BY <1>0, <2>1 DEF ServerSide, NoneOpen, kernel
  <2>3. LoopOwns'
    BY <1>0, <2>1 DEF LoopOwns, kernel
  <2> QED
    BY <1>0, <1>2, <1>3, <2>1, <2>2, <2>3, MainTurn
<1>5. CASE fd # NoFd
  <2>1. /\ OnlyServer /\ KernelTypes' /\ Connections' /\ Streams'
        /\ fd \in Fd /\ file[Server][fd] = Free
        /\ \A d \in Fd : d # fd => file'[Server][d] = file[Server][d]
        /\ \E c \in Clients : /\ file'[Server][fd] = ServerEnd(c)
                              /\ \A d \in Fd : file[Server][d] # ServerEnd(c)
    BY <1>0, <1>1, <1>5, AcceptIs
  <2>2. PICK c \in Clients : /\ file'[Server][fd] = ServerEnd(c)
                             /\ \A d \in Fd : file[Server][d] # ServerEnd(c)
    BY <2>1
  <2>3. main' = "add" /\ cfd' = fd
    BY <1>1, <1>5
  <2>4. file'[Server][fd] \in Ends /\ file[Server][fd] \notin Ends
    BY <2>1, <2>2, Things
  <2>5. ServerTypes'
    BY <1>0, <2>1, <2>3, FdIs DEF ServerTypes
  <2>6. ServerSide'
    <3>1. \A d \in Fd : file'[Server][d] \in {Free, Listener} \cup {ServerEnd(b) : b \in Clients}
      BY <1>0, <2>1, <2>2 DEF ServerSide
    <3>2. \A d, e \in Fd : file'[Server][d] # Free /\ file'[Server][d] = file'[Server][e] => d = e
      BY <1>0, <2>1, <2>2 DEF ServerSide
    <3>3. \A d \in Fd : file'[Server][d] = Listener <=> d = lfd
      <4>1. file[Server][fd] # Listener /\ file'[Server][fd] # Listener
        BY <2>1, <2>2, Things
      <4> QED
        BY <1>0, <2>1, <4>1 DEF ServerSide
    <3> QED
      BY <1>0, <2>1, <2>3, <2>4, <3>1, <3>2, <3>3, FdIs DEF ServerSide
  <2>7. Handlers'
    <3>1. \A t \in Threads : hand[t].fd = NoFd
      BY <1>0, LoopHands
    <3> QED
      BY <1>0, <3>1 DEF Handlers
  <2>8. LoopOwns'
    <3>1. \A q \in reg : q.fd \in Fd /\ q.id # Free
      BY <1>0, Things DEF ServerTypes, RegRec
    <3>2. \A q \in reg : file'[Server][q.fd] = q.id /\ q.fd # fd
      BY <1>0, <2>1, <3>1 DEF LoopOwns
    <3>3. \A d \in Fd : file'[Server][d] # Free => d = fd \/ \E q \in reg : q.fd = d
      BY <1>0, <2>1, FdIs DEF LoopOwns
    <3> QED
      BY <1>0, <2>3, <3>2, <3>3 DEF LoopOwns
  <2> QED
    BY <1>2, <2>1, <2>5, <2>6, <2>7, <2>8, ServerMoves DEF ServerPart
<1> QED
  BY <1>4, <1>5

LEMMA EchoAdd ==
  ASSUME EchoInv, Add, UNCHANGED <<mode, call, clients>>
  PROVE  EchoInv'
<1>0. /\ ServerTypes /\ ServerSide /\ Handlers /\ PoolOwns /\ LoopOwns
      /\ main = "add" /\ main' = "poll" /\ cfd' = NoFd /\ mode = "loop"
      /\ UNCHANGED <<lfd, structs, jobs, hand, round, mode, call>>
  BY ServerParts DEF Add, Goes, ServerSide
<1>1. PoolOwns'
  BY <1>0 DEF PoolOwns
<1>2. \A t \in Threads : hand[t].fd = NoFd /\ hand[t].pc = "idle" /\ call[t] = Idle
  <2>1. hand[Main] = NoJob
    BY <1>0 DEF LoopOwns
  <2> QED
    BY <1>0, <2>1, LoopHands
<1>3. Handlers'
  BY <1>0, <1>2 DEF Handlers
<1>4. cfd \in Fd /\ file[Server][cfd] \in Ends /\ cfd # NoFd
  BY <1>0 DEF ServerSide, ServerTypes, MaybeFd
<1>5. CASE UNCHANGED kernel /\ reg' = reg \cup {[fd |-> cfd, id |-> file[Server][cfd]]}
  <2> DEFINE k == [fd |-> cfd, id |-> file[Server][cfd]]
  <2>1. k \in RegRec /\ k.fd = cfd /\ k.id = file[Server][cfd] /\ reg' = reg \cup {k}
    BY <1>4, <1>5 DEF RegRec
  <2> HIDE DEF k
  <2>2. ServerTypes'
    BY <1>0, <2>1, FdIs DEF ServerTypes
  <2>3. ServerSide'
    BY <1>0, <1>5, FdIs DEF ServerSide, NoneOpen, kernel
  <2>4. LoopOwns'
    <3>1. \A r \in reg' : r.fd \in Fd
      BY <1>0, <2>1, <2>2 DEF ServerTypes, RegRec
    <3>2. \A r \in reg' : file[Server][r.fd] = r.id /\ r.fd # NoFd
      BY <1>0, <2>1, <3>1, FdIs DEF LoopOwns
    <3>3. \A d \in Fd : file[Server][d] # Free => \E r \in reg' : r.fd = d
      BY <1>0, <2>1 DEF LoopOwns
    <3> QED
      BY <1>0, <1>5, <3>2, <3>3 DEF LoopOwns, kernel
  <2> QED
    BY <1>0, <1>1, <1>3, <1>5, <2>2, <2>3, <2>4, ServerTurn DEF ServerPart
<1>6. CASE Close(Server, cfd) /\ reg' = reg
  <2>1. /\ OnlyServer /\ KernelTypes' /\ Connections' /\ Streams'
        /\ cfd \in Fd /\ file[Server][cfd] \in Ends /\ file'[Server][cfd] = Free
        /\ \A e \in Fd : e # cfd => file'[Server][e] = file[Server][e]
        /\ \A d \in Fd : file'[Server][d] \in {Free, Listener} \cup {ServerEnd(c) : c \in Clients}
        /\ \A d, e \in Fd : file'[Server][d] # Free /\ file'[Server][d] = file'[Server][e] => d = e
        /\ \A d \in Fd : file'[Server][d] = Listener <=> d = lfd
    BY <1>0, <1>6, CloseNew
  <2>2. ServerTypes'
    BY <1>0, <1>6, FdIs DEF ServerTypes
  <2>3. ServerSide'
    BY <1>0, <2>1 DEF ServerSide
  <2>4. LoopOwns'
    <3>1. \A r \in reg : r.fd \in Fd
      BY <1>0 DEF ServerTypes, RegRec
    <3>2. \A r \in reg : file'[Server][r.fd] = r.id /\ r.fd # NoFd
      BY <1>0, <2>1, <3>1, FdIs DEF LoopOwns
    <3>3. \A d \in Fd : file'[Server][d] # Free => \E r \in reg : r.fd = d
      BY <1>0, <2>1 DEF LoopOwns
    <3> QED
      BY <1>0, <1>6, <3>2, <3>3 DEF LoopOwns
  <2> QED
    BY <1>1, <1>3, <2>1, <2>2, <2>3, <2>4, ServerMoves DEF ServerPart
<1> QED
  BY <1>5, <1>6 DEF Add

LEMMA EchoExit ==
  ASSUME EchoInv, Exit
  PROVE  EchoInv'
<1>0. /\ ServerTypes /\ ServerSide /\ Handlers /\ PoolOwns /\ LoopOwns /\ KernelTypes
      /\ main = "exit" /\ main' = "gone"
      /\ file' = [file EXCEPT ![Server] = [d \in 1 .. MaxFd |-> Free]]
      /\ shut' = shut \cup ServerOpen
      /\ broken' = broken \cup {e[1] : e \in {x \in ServerOpen : wire[x] # <<>>}}
      /\ UNCHANGED <<backlog, wire, call, mode, lfd, cfd, structs, jobs, hand, reg, round, clients>>
  BY ServerParts DEF Exit
<1>1. \A t \in Threads : hand[t].fd = NoFd /\ call[t] = Idle /\ call[t].op # "send"
  <2>1. \A t \in Threads : hand[t] = NoJob
    <3>1. CASE mode = "pool"
      BY <1>0, <3>1 DEF PoolOwns
    <3>2. CASE mode = "loop"
      BY <1>0, <3>2, Names DEF LoopOwns, Threads
    <3> QED
      BY <1>0, <3>1, <3>2 DEF ServerTypes
  <2>2. \A t \in Threads : Handling(hand[t], call[t])
    BY <1>0 DEF Handlers
  <2> QED
    BY <2>1, <2>2 DEF Handling, NoJob, Idle
<1>2. /\ file'[Server] = [d \in Fd |-> Free] /\ \A c \in Clients : file'[c] = file[c]
      /\ file' \in [Clients \cup {Server} -> [Fd -> Thing]]
  BY <1>0, Names DEF KernelTypes, Fd, Thing
<1>3. \A c \in Clients : ServerEnd(c) \in ServerOpen <=> Accepted(c)
  BY Things DEF ServerOpen, Accepted, HasOpen, Fd
<1>4. \A e \in ServerOpen : \E c \in Clients : e = ServerEnd(c) /\ e[1] = c /\ Accepted(c)
  <2>1. \A e \in ServerOpen : \E c \in Clients : e = ServerEnd(c)
    BY <1>0, Things DEF ServerOpen, ServerSide, Fd
  <2> QED
    BY <1>3, <2>1, Things
<1>5. \A c \in Clients : /\ c \in broken' => c \in broken \/ Accepted(c)
                         /\ ServerEnd(c) \in shut' <=> ServerEnd(c) \in shut \/ Accepted(c)
                         /\ ClientEnd(c) \in shut' <=> ClientEnd(c) \in shut
  <2> SUFFICES ASSUME NEW c \in Clients
               PROVE  /\ c \in broken' => c \in broken \/ Accepted(c)
                      /\ ServerEnd(c) \in shut' <=> ServerEnd(c) \in shut \/ Accepted(c)
                      /\ ClientEnd(c) \in shut' <=> ClientEnd(c) \in shut
    OBVIOUS
  <2>1. c \in broken' => c \in broken \/ Accepted(c)
    BY <1>0, <1>4
  <2>2. ClientEnd(c) \notin ServerOpen
    BY <1>4, Things
  <2> QED
    BY <1>0, <1>3, <2>1, <2>2
<1>6. KernelTypes'
  <2>1. shut' \subseteq Ends
    BY <1>0 DEF KernelTypes, ServerOpen
  <2>2. broken' \subseteq Clients
    BY <1>0, <1>4 DEF KernelTypes
  <2> QED
    BY <1>0, <1>2, <2>1, <2>2 DEF KernelTypes
<1>7. OnlyServer
  BY <1>0, <1>2, <1>5 DEF OnlyServer
<1>8. \A c \in Clients : ~Accepted(c)'
  BY <1>2, Things DEF Accepted, HasOpen
<1>9. Connections'
  <2>1. \A c \in Clients : Waiting(c)' <=> Waiting(c)
    BY <1>0 DEF Waiting
  <2> SUFFICES ASSUME NEW c \in Clients PROVE ConnectionOf(c)'
    BY <1>0 DEF EchoInv, Connections
  <2>2. ConnectionOf(c)
    BY DEF EchoInv, Connections
  <2> QED
    BY <1>0, <1>5, <1>7, <1>8, <2>1, <2>2, ClientsKept DEF ConnectionOf
<1>10. Streams'
  <2> SUFFICES ASSUME NEW c \in Clients PROVE StreamOf(c)'
    BY DEF Streams
  <2>1. StreamOf(c)
    BY DEF EchoInv, Streams
  <2>2. InHand(c)' = InHand(c)
    BY <1>0, <1>1, HandKept
  <2>3. Whole(c)' => Whole(c)
    BY <1>0, <1>5, <1>7, ClientsKept DEF Whole
  <2>4. c \notin broken' => c \notin broken
    BY <1>0
  <2> QED
    BY <1>0, <1>7, <2>1, <2>2, <2>3, <2>4, ClientsKept, StreamKept
<1>11. ServerTypes'
  BY <1>0 DEF ServerTypes
<1>12. ServerSide'
  <2>1. \A d \in Fd : file'[Server][d] = Free
    BY <1>2
  <2>2. lfd = NoFd /\ cfd = NoFd
    BY <1>0 DEF ServerSide
  <2> QED
    BY <1>0, <2>1, <2>2, Things, FdIs DEF ServerSide, NoneOpen
<1>13. Handlers'
  BY <1>0, <1>1 DEF Handlers
<1>14. PoolOwns'
  <2> SUFFICES ASSUME mode = "pool" PROVE PoolOwns'
    BY <1>0 DEF PoolOwns
  <2>1. jobs = <<>> /\ cfd = NoFd /\ structs = Cardinality(ServerOpen) /\ Len(jobs) = 0
    BY <1>0, OpenNat DEF PoolOwns, ServerSide
  <2>2. \A d \in Fd : file[Server][d] \notin Ends
    BY <1>0, <1>1, <2>1, FdIs DEF PoolOwns
  <2>3. ServerOpen = {} /\ ServerOpen' = {}
    BY <1>2, <2>2, Things DEF ServerOpen, Fd
  <2>4. \A d \in Fd : file'[Server][d] \notin Ends
    BY <1>2, Things
  <2>5. structs' = Cardinality(ServerOpen)' + (IF main' = "accept" THEN 1 ELSE 0)
    <3>1. structs' = Cardinality(ServerOpen) /\ Cardinality(ServerOpen) \in Nat
      BY <1>0, <2>1, OpenNat
    <3> QED
      BY <1>0, <2>3, <3>1
  <2>6. hand' = hand /\ jobs' = <<>> /\ reg' = {} /\ \A t \in Threads : hand[t] = NoJob
    BY <1>0, <2>1 DEF PoolOwns
  <2>7. \A k \in 1 .. Len(jobs') : FALSE
    BY <1>0, <2>1
  <2> QED
    BY <2>4, <2>5, <2>6, <2>7, Names DEF PoolOwns
<1>15. LoopOwns'
  <2> SUFFICES ASSUME mode = "loop" PROVE LoopOwns'
    BY <1>0 DEF LoopOwns
  <2>1. reg = {}
    BY <1>0 DEF LoopOwns
  <2> QED
    BY <1>0, <2>1 DEF LoopOwns
<1> QED
  BY <1>6, <1>7, <1>9, <1>10, <1>11, <1>12, <1>13, <1>14, <1>15, ServerMoves DEF ServerPart

LEMMA EchoMainStep == ASSUME EchoInv, MainStep PROVE EchoInv'
BY EchoListen, EchoCreate, EchoCloseListener, EchoMalloc, EchoAccept, EchoSubmitOk, EchoSubmitFails,
   EchoDrained, EchoDispatchClient, EchoOnAccept, EchoPoll, EchoAdd
   DEF MainStep

LEMMA EchoStutter == ASSUME EchoInv, UNCHANGED vars PROVE EchoInv'
<1>1. ServerPart'
  BY ServerKept DEF vars, kernel, ServerPart
<1> QED
  BY <1>1, ServerTurn DEF vars

LEMMA EchoNext == ASSUME EchoInv, [Next]_vars PROVE EchoInv'
<1>1. \A c \in Clients : ClientStep(c) => EchoInv'
  BY EchoClientStep
<1>2. \A c \in Clients : Reset(c) /\ UNCHANGED <<server, clients>> => EchoInv'
  BY EchoReset
<1>3. \A w \in Workers : WorkerStep(w) => EchoInv'
  BY EchoStartJob, EchoHandlerStep, Names DEF WorkerStep
<1>4. HandlerStep(Main) => EchoInv'
  BY EchoHandlerStep, Names
<1> QED
  BY <1>1, <1>2, <1>3, <1>4, EchoMainStep, EchoExit, EchoStutter DEF Next

-----------------------------------------------------------------------------
(* What the invariant says of the echo programs *)

LEMMA EchoInvExact == EchoInv => EchoIsExact
<1> SUFFICES ASSUME EchoInv, NEW c \in Clients
             PROVE  /\ got[c] = SubSeq(Message(c), 1, Len(got[c]))
                    /\ Len(got[c]) < CliBuf
                    /\ Connected(c) /\ c \notin broken /\ ServerEnd(c) \notin shut =>
                         got[c] \o wire[ClientEnd(c)] \o InHand(c) \o wire[ServerEnd(c)]
                           = SubSeq(Message(c), 1, LeftClient(c))
                    /\ code[c] = 0 => got[c] = Message(c)
  BY DEF EchoIsExact
<1>1. StreamOf(c)
  BY DEF EchoInv, Streams
<1>2. got[c] \in Seq(Byte)
  BY DEF EchoInv, ClientTypes
<1>3. Starts(got[c], Message(c))
  BY <1>1 DEF StreamOf
<1>4. got[c] = SubSeq(Message(c), 1, Len(got[c]))
  BY <1>2, <1>3, StartsIs, MessageIs
<1> QED
  BY <1>1, <1>4 DEF StreamOf, Whole

LEMMA EchoInvHeld == EchoInv => NoDescriptorLost
<1> SUFFICES ASSUME EchoInv PROVE NoDescriptorLost
  OBVIOUS
<1>0. /\ ServerTypes /\ ServerSide /\ Handlers /\ PoolOwns /\ LoopOwns
  BY ServerParts
<1>1. mode = "pool" => structs = Cardinality(ServerOpen) + (IF main = "accept" THEN 1 ELSE 0)
  BY <1>0 DEF PoolOwns
<1>2. \A c \in Clients : cpc[c] = "exit" => FreeFds(c) = 1 .. MaxFd
  BY DEF EchoInv, ClientSide, ClientOf, ClientPlace, NoneOpen, FreeFds, Fd
<1>3. ASSUME main \notin (IF mode = "pool" THEN {"gone"} ELSE {"close", "exit", "gone"})
      PROVE  {d \in 1 .. MaxFd : file[Server][d] # Free} = Held \ {NoFd}
  <2>1. ASSUME NEW d \in Fd, file[Server][d] # Free PROVE d \in Held /\ d # NoFd
    <3>1. CASE file[Server][d] \notin Ends
      <4>1. file[Server][d] = Listener
        BY <1>0, <2>1, <3>1, Things DEF ServerSide
      <4> QED
        BY <1>0, <4>1, FdIs DEF ServerSide, Held
    <3>2. CASE file[Server][d] \in Ends /\ mode = "pool"
      <4>1. DOMAIN jobs = 1 .. Len(jobs)
        BY <1>0 DEF ServerTypes
      <4> QED
        BY <1>0, <3>2, <4>1, FdIs DEF PoolOwns, Held
    <3>3. CASE file[Server][d] \in Ends /\ mode = "loop"
      <4>1. main \notin {"malloc", "accept", "submit", "drain"}
        BY <1>0, <3>3 DEF ServerSide
      <4>2. main \in {"poll", "add"}
        BY <1>0, <1>3, <3>3, <4>1 DEF LoopOwns, ServerTypes
      <4> QED
        BY <1>0, <2>1, <3>3, <4>2, FdIs DEF LoopOwns, Held
    <3> QED
      BY <1>0, <3>1, <3>2, <3>3 DEF ServerTypes
  <2>2. ASSUME NEW d \in Held, d # NoFd PROVE d \in Fd /\ file[Server][d] # Free
    <3>1. CASE d = lfd
      BY <1>0, <2>2, <3>1, Things DEF ServerSide, ServerTypes, MaybeFd
    <3>2. CASE d = cfd
      BY <1>0, <2>2, <3>2, Things DEF ServerSide, ServerTypes, MaybeFd
    <3>3. ASSUME NEW k \in DOMAIN jobs, d = jobs[k] PROVE d \in Fd /\ file[Server][d] # Free
      <4>1. jobs \in Seq(Fd) /\ k \in 1 .. Len(jobs) /\ jobs[k] \in Fd
        BY <1>0, <3>3 DEF ServerTypes
      <4>2. jobs # <<>>
        BY <4>1
      <4>3. mode = "pool"
        BY <1>0, <4>2 DEF LoopOwns, ServerTypes
      <4> QED
        BY <1>0, <3>3, <4>1, <4>3, Things DEF PoolOwns
    <3>4. ASSUME NEW t \in Threads, d = hand[t].fd PROVE d \in Fd /\ file[Server][d] # Free
      BY <1>0, <2>2, <3>4, Things DEF Handlers, ServerTypes, MaybeFd
    <3>5. ASSUME NEW r \in reg, d = r.fd PROVE d \in Fd /\ file[Server][d] # Free
      <4>1. r.fd \in Fd /\ r.id # Free
        BY <1>0, Things DEF ServerTypes, RegRec
      <4>2. mode = "loop"
        BY <1>0 DEF PoolOwns, ServerTypes
      <4> QED
        BY <1>0, <3>5, <4>1, <4>2 DEF LoopOwns
    <3> QED
      BY <2>2, <3>1, <3>2, <3>3, <3>4, <3>5 DEF Held
  <2> QED
    BY <2>1, <2>2 DEF Fd
<1> QED
  BY <1>1, <1>2, <1>3 DEF NoDescriptorLost

(***************************************************************************)
(* echo_client_demo.c with echo_server_demo.c or evloop_server_demo.c, for *)
(* any number of clients, workers and descriptors and for messages and     *)
(* buffers of any size: what a client has read, what is on its way in      *)
(* either direction and what the server has in hand are always the bytes   *)
(* the client sent, each once and in order, however tcp_send_all and       *)
(* tcp_recv cut them up and whoever fails; exit code 0 means that all came *)
(* back.                                                                   *)
(***************************************************************************)
THEOREM EchoExact == Spec => []EchoIsExact
<1>1. Init => EchoInv
  BY EchoStart
<1>2. EchoInv /\ [Next]_vars => EchoInv'
  BY EchoNext
<1>3. EchoInv => EchoIsExact
  BY EchoInvExact
<1> QED
  BY <1>1, <1>2, <1>3, PTL DEF Spec

(***************************************************************************)
(* The same programs never lose a descriptor and never use a closed one:   *)
(* what is open is what the servers' variables hold, in every state up to  *)
(* the end of the process and after every failing connect, accept, submit  *)
(* and registration; and the pool server has one TcpSocket for each client *)
(* it handles.                                                             *)
(***************************************************************************)
THEOREM EchoHolds == Spec => []NoDescriptorLost
<1>1. Init => EchoInv
  BY EchoStart
<1>2. EchoInv /\ [Next]_vars => EchoInv'
  BY EchoNext
<1>3. EchoInv => NoDescriptorLost
  BY EchoInvHeld
<1> QED
  BY <1>1, <1>2, <1>3, PTL DEF Spec

-----------------------------------------------------------------------------
(* UnixListen *)

File == [U!Missing EXCEPT !.kind = "file"]

(***************************************************************************)
(* The inductive invariant.  Sockets: who has one open.  Displaced: once a *)
(* server was bound, the path names the socket of the newest one, or       *)
(* nothing while somebody who unlinked it is about to bind his own, or     *)
(* after that bind failed.  Private: the socket of the newest server is    *)
(* private once its unix_listen has returned, unless its chmod failed.     *)
(***************************************************************************)
Places == upc \in [Procs -> {"idle", "lstat", "unlink", "bind", "chmod"}]

Entries == /\ entry \in [kind : {"none", "file", "socket"}, owner : Procs \cup {Nobody},
                         private : BOOLEAN]
           /\ entry.kind = "none" => entry = U!Missing
           /\ newest \in Procs \cup {Nobody}

Sockets == /\ sfd \subseteq Procs
           /\ kfd = sfd \cup {p \in Procs : upc[p] # "idle"}
           /\ listens = sfd \cup {p \in Procs : upc[p] = "chmod"}
           /\ \A p \in sfd : upc[p] = "idle"

Spared == IF wasFile THEN /\ entry = File /\ newest = Nobody
                          /\ \A p \in Procs : upc[p] \in {"idle", "lstat", "bind"}
          ELSE entry.kind # "file"

Displaced == newest # Nobody =>
               /\ entry.kind = "socket" => entry.owner = newest
               /\ entry.kind = "none" => "bind" \in faults \/ \E p \in Procs : upc[p] = "bind"

Private == newest \in sfd /\ entry.kind = "socket" => entry.private \/ "chmod" \in faults

PathInv == Places /\ Entries /\ Sockets /\ Spared /\ Displaced /\ Private

LEMMA PathInvInit == U!Init => PathInv
<1> SUFFICES ASSUME U!Init PROVE PathInv  OBVIOUS
<1>1. Places  BY DEF U!Init, Places
<1>2. Entries
  <2>1. entry \in {[kind |-> k, owner |-> Nobody, private |-> FALSE] : k \in {"none", "file", "socket"}}
    BY DEF U!Init, U!Missing
  <2>2. PICK k \in {"none", "file", "socket"} :
          entry = [kind |-> k, owner |-> Nobody, private |-> FALSE]
    BY <2>1
  <2> QED  BY <2>2 DEF U!Init, Entries, U!Missing
<1>3. Sockets  BY DEF U!Init, Sockets
<1>4. Spared  BY DEF U!Init, Spared, U!Missing, File
<1>5. Displaced  BY DEF U!Init, Displaced
<1>6. Private  BY DEF U!Init, Private
<1> QED  BY <1>1, <1>2, <1>3, <1>4, <1>5, <1>6 DEF PathInv

\* The call starts, or returns an error with nothing changed.
LEMMA BeginKeeps == ASSUME NEW p \in Procs, U!Begin(p), PathInv PROVE PathInv'
<1>1. Places'  BY DEF U!Begin, U!At, PathInv, Places
<1>2. Entries'  BY DEF U!Begin, PathInv, Entries, U!Missing
<1>3. Sockets'  BY DEF U!Begin, U!At, PathInv, Places, Sockets
<1>4. Spared'  BY DEF U!Begin, U!At, PathInv, Places, Spared, U!Missing, File
<1>5. Displaced'  BY DEF U!Begin, U!At, PathInv, Places, Displaced
<1>6. Private'  BY DEF U!Begin, PathInv, Private
<1> QED  BY <1>1, <1>2, <1>3, <1>4, <1>5, <1>6 DEF PathInv

\* A path that is free sends the call to bind, a socket to unlink, a file back;
\* one that lstat fails on counts as free.
LEMMA LstatKeeps == ASSUME NEW p \in Procs, U!Lstat(p), PathInv PROVE PathInv'
<1>1. Places'  BY DEF U!Lstat, U!At, PathInv, Places
<1>2. Entries'  BY DEF U!Lstat, PathInv, Entries, U!Missing
<1>3. Sockets'  BY DEF U!Lstat, U!At, U!GiveUp, PathInv, Places, Sockets
<1>4. Spared'  BY DEF U!Lstat, U!At, U!IsSocket, PathInv, Places, Spared, U!Missing, File
<1>5. Displaced'  BY DEF U!Lstat, U!At, PathInv, Places, Displaced
<1>6. Private'  BY DEF U!Lstat, PathInv, Private
<1> QED  BY <1>1, <1>2, <1>3, <1>4, <1>5, <1>6 DEF PathInv

\* Whoever clears the path is the one who is about to bind.
LEMMA UnlinkKeeps == ASSUME NEW p \in Procs, U!Unlink(p), PathInv PROVE PathInv'
<1>1. Places'  BY DEF U!Unlink, U!At, PathInv, Places
<1>2. Entries'
  <2>1. newest' = newest /\ (entry' = entry \/ entry' = U!Missing)  BY DEF U!Unlink
  <2>2. CASE entry' = entry  BY <2>1, <2>2 DEF PathInv, Entries, U!Missing
  <2>3. CASE entry' = U!Missing  BY <2>1, <2>3 DEF PathInv, Entries, U!Missing
  <2> QED  BY <2>1, <2>2, <2>3
<1>3. Sockets'  BY DEF U!Unlink, U!At, PathInv, Places, Sockets
<1>4. Spared'  BY DEF U!Unlink, U!At, PathInv, Places, Spared, U!Missing, File
<1>5. Displaced'  BY DEF U!Unlink, U!At, PathInv, Places, Displaced, U!Missing
<1>6. Private'  BY DEF U!Unlink, PathInv, Private, U!Missing
<1> QED  BY <1>1, <1>2, <1>3, <1>4, <1>5, <1>6 DEF PathInv

\* Who loses the race leaves what the winner bound; who wins is the newest.
LEMMA BindKeeps == ASSUME NEW p \in Procs, U!Bind(p), PathInv PROVE PathInv'
<1>1. Places'  BY DEF U!Bind, U!BindFails, U!At, PathInv, Places
<1>0. \/ entry' = entry /\ newest' = newest
      \/ entry = U!Missing /\ entry' = U!SocketOf(p) /\ newest' = p
  BY DEF U!Bind, U!BindFails
<1>2. Entries'
  <2>1. CASE entry' = entry /\ newest' = newest  BY <2>1 DEF PathInv, Entries, U!Missing
  <2>2. CASE entry' = U!SocketOf(p) /\ newest' = p  BY <2>2 DEF Entries, U!Missing, U!SocketOf
  <2> QED  BY <1>0, <2>1, <2>2
<1>3. Sockets'  BY DEF U!Bind, U!BindFails, U!At, U!GiveUp, PathInv, Places, Sockets
<1>4. Spared'
  <2>1. CASE wasFile
    <3>1. entry # U!Missing  BY <2>1 DEF PathInv, Spared, File, U!Missing
    <3> QED  BY <2>1, <3>1 DEF U!Bind, U!BindFails, U!At, PathInv, Places, Spared, File, U!Missing
  <2>2. CASE ~wasFile
    <3>1. entry' = entry \/ entry' = U!SocketOf(p)  BY <1>0
    <3> QED  BY <2>2, <3>1 DEF U!Bind, U!BindFails, PathInv, Spared, U!SocketOf
  <2> QED  BY <2>1, <2>2
<1>5. Displaced'
  <2>1. CASE U!BindFails(p)
    <3>1. entry' = entry /\ newest' = newest /\ (entry = U!Missing => "bind" \in faults')
      BY <2>1 DEF U!BindFails
    <3> QED  BY <3>1 DEF PathInv, Displaced, Entries
  <2>2. CASE entry' = U!SocketOf(p) /\ newest' = p
    BY <2>2 DEF Displaced, U!SocketOf
  <2> QED  BY <2>1, <2>2 DEF U!Bind
<1>6. Private'
  <2>1. CASE U!BindFails(p)
    BY <2>1 DEF U!BindFails, PathInv, Private
  <2>2. CASE newest' = p /\ sfd' = sfd
    <3>1. p \notin sfd  BY DEF U!Bind, U!BindFails, U!At, PathInv, Sockets
    <3> QED  BY <2>2, <3>1 DEF Private
  <2> QED  BY <2>1, <2>2 DEF U!Bind
<1> QED  BY <1>1, <1>2, <1>3, <1>4, <1>5, <1>6 DEF PathInv

\* chmod makes private whatever the path names, so the newest server's too, or
\* it fails.
LEMMA ChmodKeeps == ASSUME NEW p \in Procs, U!Chmod(p), PathInv PROVE PathInv'
<1>1. Places'  BY DEF U!Chmod, U!At, PathInv, Places
<1>2. Entries'  BY DEF U!Chmod, PathInv, Entries, U!Missing
<1>3. Sockets'  BY DEF U!Chmod, U!At, PathInv, Places, Sockets
<1>4. Spared'
  <2>1. wasFile => upc[p] # "chmod"  BY DEF PathInv, Spared
  <2>2. ~wasFile  BY <2>1 DEF U!Chmod, U!At
  <2>3. entry' = entry \/ entry' = [entry EXCEPT !.private = TRUE]  BY DEF U!Chmod
  <2>4. entry'.kind = entry.kind  BY <2>3 DEF PathInv, Entries
  <2> QED  BY <2>2, <2>4 DEF U!Chmod, PathInv, Spared
<1>5. Displaced'  BY DEF U!Chmod, U!At, PathInv, Places, Entries, Displaced, U!Missing
<1>6. Private'  BY DEF U!Chmod, PathInv, Private, Entries, U!Missing
<1> QED  BY <1>1, <1>2, <1>3, <1>4, <1>5, <1>6 DEF PathInv

\* A listener that is closed leaves its socket file.
LEMMA CloseKeeps == ASSUME NEW p \in Procs, U!CloseListener(p), PathInv PROVE PathInv'
<1>1. Places'  BY DEF U!CloseListener, PathInv, Places
<1>2. Entries'  BY DEF U!CloseListener, PathInv, Entries, U!Missing
<1>3. Sockets'  BY DEF U!CloseListener, PathInv, Places, Sockets
<1>4. Spared'  BY DEF U!CloseListener, PathInv, Spared, U!Missing, File
<1>5. Displaced'  BY DEF U!CloseListener, PathInv, Displaced
<1>6. Private'  BY DEF U!CloseListener, PathInv, Private
<1> QED  BY <1>1, <1>2, <1>3, <1>4, <1>5, <1>6 DEF PathInv

LEMMA PathInvNext == PathInv /\ [U!Next]_U!vars => PathInv'
<1> SUFFICES ASSUME PathInv, [U!Next]_U!vars PROVE PathInv'  OBVIOUS
<1>1. CASE UNCHANGED U!vars
  BY <1>1 DEF U!vars, PathInv, Places, Entries, Sockets, Spared, Displaced, Private, U!Missing, File
<1>2. CASE U!Next
  BY <1>2, BeginKeeps, LstatKeeps, UnlinkKeeps, BindKeeps, ChmodKeeps, CloseKeeps DEF U!Next
<1> QED  BY <1>1, <1>2

\* With no call in progress nobody is about to bind, so the path is not empty
\* unless a bind failed.
LEMMA PathInvSound == Nobody \notin Procs /\ PathInv => U!PathIsSound
<1> SUFFICES ASSUME Nobody \notin Procs, PathInv PROVE U!PathIsSound  OBVIOUS
<1>1. wasFile => entry = [U!Missing EXCEPT !.kind = "file"]  BY DEF PathInv, Spared, File
<1>2. kfd = sfd \cup {p \in Procs : upc[p] # "idle"}  BY DEF PathInv, Sockets
<1>3. ASSUME \A p \in Procs : upc[p] = "idle", newest \in sfd
      PROVE  /\ U!Reaches = newest \/ (U!Reaches = Nobody /\ "bind" \in faults)
             /\ U!Reaches = newest => entry.private \/ "chmod" \in faults
  <2>1. newest \in Procs /\ newest \in listens /\ newest # Nobody
    BY <1>3 DEF PathInv, Sockets
  <2>2. entry.kind # "file"  BY <2>1 DEF PathInv, Spared
  <2>3. CASE entry.kind = "none"
    <3>1. "bind" \in faults  BY <1>3, <2>1, <2>3 DEF PathInv, Displaced
    <3>2. U!Reaches = Nobody  BY <2>3 DEF U!Reaches
    <3> QED  BY <2>1, <3>1, <3>2
  <2>4. CASE entry.kind = "socket"
    BY <1>3, <2>1, <2>4 DEF PathInv, Displaced, Private, U!Reaches
  <2> QED  BY <2>2, <2>3, <2>4 DEF PathInv, Entries
<1> QED  BY <1>1, <1>2, <1>3 DEF U!PathIsSound

(***************************************************************************)
(* unix_socket.c, for any number of processes that run unix_listen and     *)
(* unix_close on one path, interleaved at every system call, each of which *)
(* may fail: a file that is no socket is left alone, every descriptor      *)
(* belongs to a call or to a UnixSocket, and when the calls have returned  *)
(* the path leads to the newest listener unless a bind of the free path    *)
(* failed after it was bound, and is private unless its chmod failed.      *)
(* Nobody else creates, removes or renames what the path names.            *)
(***************************************************************************)
THEOREM Path == U!Spec => []UnixPathIsSound
<1>1. PathInv => UnixPathIsSound
  BY PathInvSound, NobodyAssumption DEF UnixPathIsSound
<1> QED
  BY PathInvInit, PathInvNext, <1>1, PTL DEF U!Spec

-----------------------------------------------------------------------------
(* Udp *)

(***************************************************************************)
(* The inductive invariant.  What is in flight was sent by the host it is  *)
(* from: a request, or the beginning of a request that was answered; and   *)
(* a stranger's datagram waits only at a socket that it could reach.       *)
(***************************************************************************)
FlightIs ==
    \A d \in flight :
      /\ d.from = "stranger" => d.to \in D!Hosts /\ family[d.to] = 6 /\ d.data \in Requests
      /\ d.from # "stranger" =>
           \/ d.to = "server" /\ d.from = "client" /\ d.data \in asked
           \/ d.to = "client" /\ d.from = "server" /\ \E p \in asked : D!IsCut(d.data, p)

UdpInv == /\ family \in [D!Hosts -> {4, 6, NoSocket}]
          /\ inbox = [h \in D!Hosts |-> inbox[h]]
          /\ asked \subseteq Requests
          /\ FlightIs
          /\ DatagramsAreWhole

\* recvfrom cuts what is longer than its buffer, and cuts it once.
LEMMA TakenIs ==
  /\ \A d : D!IsCut(D!Taken(d), d.data)
  /\ \A d : \A p \in Requests : D!IsCut(d.data, p) => D!IsCut(D!Taken(d), p)
<1>1. \A d : D!IsCut(D!Taken(d), d.data)
  BY DEF D!IsCut, D!Taken
<1>2. ASSUME NEW d, NEW p \in Requests, D!IsCut(d.data, p) PROVE D!IsCut(D!Taken(d), p)
  <2>1. p \in Seq(Nat) /\ RecvCap \in Nat /\ Len(p) \in Nat
    BY DatagramsAssumption
  <2> DEFINE n == D!Least(RecvCap, Len(p))
             s == SubSeq(p, 1, n)
  <2>2. n \in Nat /\ n <= Len(p) /\ n <= RecvCap
    BY <2>1 DEF D!Least
  <2>3. d.data = s /\ s \in Seq(Nat) /\ Len(s) = n
    BY <1>2, <2>1, <2>2, SubSeqProperties DEF D!IsCut
  <2>4. D!Least(RecvCap, Len(s)) = n
    BY <2>1, <2>2, <2>3 DEF D!Least
  <2> HIDE DEF n
  <2>5. SubSeq(s, 1, n) = s
    <3>1. SubSeq(s, 1, Len(s)) = s
      BY <2>3, SubSeqFull
    <3> QED
      BY <2>3, <3>1
  <2>6. D!Taken(d) = s
    BY <2>3, <2>4, <2>5 DEF D!Taken
  <2> QED
    BY <1>2, <2>3, <2>6 DEF D!IsCut
<1> QED
  BY <1>1, <1>2

LEMMA UdpInvInit == D!Init => UdpInv
BY DEF D!Init, UdpInv, FlightIs, DatagramsAreWhole, D!DatagramsAreWhole, D!Hosts

\* What was received stays received.
LEMMA InboxKept ==
  ASSUME DatagramsAreWhole, inbox' = inbox, asked \subseteq asked'
  PROVE  DatagramsAreWhole'
BY DEF DatagramsAreWhole, D!DatagramsAreWhole, D!IsCut, D!Least

LEMMA CutIs == \A s, p : D!IsCut(s, p)' <=> D!IsCut(s, p)
BY DEF D!IsCut, D!Least

LEMMA UdpOpenKeeps == ASSUME UdpInv, NEW h \in D!Hosts, D!UdpOpenHost(h) PROVE UdpInv'
<1>1. /\ family[h] = NoSocket /\ UNCHANGED <<flight, inbox, asked>>
      /\ \E f \in {4, 6} : family' = [family EXCEPT ![h] = f]
  BY DEF D!UdpOpenHost
<1>2. family' \in [D!Hosts -> {4, 6, NoSocket}] /\ \A g \in D!Hosts : g # h => family'[g] = family[g]
  BY <1>1 DEF UdpInv
<1>3. \A g \in D!Hosts : family[g] = 6 => family'[g] = 6
  BY <1>1, <1>2, DatagramsAssumption
<1>4. FlightIs'
  BY <1>1, <1>3 DEF UdpInv, FlightIs, D!IsCut, D!Least
<1>5. DatagramsAreWhole'
  BY <1>1, InboxKept DEF UdpInv
<1> QED
  BY <1>1, <1>2, <1>4, <1>5 DEF UdpInv

LEMMA UdpCloseKeeps == ASSUME UdpInv, NEW h \in D!Hosts, D!UdpClose(h) PROVE UdpInv'
<1>1. /\ family' = [family EXCEPT ![h] = NoSocket] /\ flight' = {d \in flight : d.to # h}
      /\ UNCHANGED <<inbox, asked>>
  BY DEF D!UdpClose
<1>2. family' \in [D!Hosts -> {4, 6, NoSocket}] /\ \A g \in D!Hosts : g # h => family'[g] = family[g]
  BY <1>1 DEF UdpInv
<1>3. FlightIs'
  BY <1>1, <1>2 DEF UdpInv, FlightIs, D!IsCut, D!Least
<1>4. DatagramsAreWhole'
  BY <1>1, InboxKept DEF UdpInv
<1> QED
  BY <1>1, <1>2, <1>3, <1>4 DEF UdpInv

LEMMA AskKeeps == ASSUME UdpInv, D!Ask PROVE UdpInv'
<1>1. PICK p \in Requests : D!UdpSendTo("client", "server", p) /\ asked' = asked \cup {p} /\ UNCHANGED <<family, inbox>>
  BY DEF D!Ask
<1> DEFINE k == [from |-> "client", to |-> "server", data |-> p]
<1>2. k.from = "client" /\ k.to = "server" /\ k.data = p /\ (flight' = flight \cup {k} \/ flight' = flight)
  BY <1>1 DEF D!UdpSendTo
<1> HIDE DEF k
<1>3. FlightIs'
  <2> SUFFICES ASSUME NEW d \in flight'
               PROVE  /\ d.from = "stranger" => d.to \in D!Hosts /\ family[d.to] = 6 /\ d.data \in Requests
                      /\ d.from # "stranger" =>
                           \/ d.to = "server" /\ d.from = "client" /\ d.data \in asked'
                           \/ d.to = "client" /\ d.from = "server" /\ \E q \in asked' : D!IsCut(d.data, q)
    BY <1>1, CutIs DEF FlightIs
  <2>1. CASE d = k
    BY <1>1, <1>2, <2>1
  <2>2. CASE d \in flight
    BY <1>1, <2>2 DEF UdpInv, FlightIs
  <2> QED
    BY <1>2, <2>1, <2>2
<1>4. DatagramsAreWhole'
  BY <1>1, InboxKept DEF UdpInv
<1> QED
  BY <1>1, <1>3, <1>4 DEF UdpInv

LEMMA StrangerKeeps == ASSUME UdpInv, NEW h \in D!Hosts, D!Stranger(h) PROVE UdpInv'
<1>1. PICK p \in Requests : flight' = flight \cup {[from |-> "stranger", to |-> h, data |-> p]}
  BY DEF D!Stranger
<1>2. family[h] = 6 /\ UNCHANGED <<family, inbox, asked>>
  BY DEF D!Stranger
<1>3. FlightIs'
  BY <1>1, <1>2 DEF UdpInv, FlightIs, D!IsCut, D!Least
<1>4. DatagramsAreWhole'
  BY <1>2, InboxKept DEF UdpInv
<1> QED
  BY <1>1, <1>2, <1>3, <1>4 DEF UdpInv

LEMMA UdpRecvKeeps == ASSUME UdpInv, NEW h \in D!Hosts, D!UdpRecvFrom(h) PROVE UdpInv'
<1>1. PICK d \in flight :
        /\ d.to = h /\ family[h] # NoSocket
        /\ inbox' = [inbox EXCEPT ![h] = @ \cup {[from |-> D!SenderOf(h, d), data |-> D!Taken(d)]}]
        /\ \E again \in {{}, {d}} :
             flight' = (flight \ {d}) \cup again
                         \cup {x \in {[from |-> h, to |-> D!SenderOf(h, d), data |-> D!Taken(d)]} :
                                 h = "server" /\ family[h] = 4}
        /\ UNCHANGED <<family, asked>>
  BY DEF D!UdpRecvFrom
<1> DEFINE m == [from |-> D!SenderOf(h, d), data |-> D!Taken(d)]
           a == [from |-> h, to |-> D!SenderOf(h, d), data |-> D!Taken(d)]
<1>2. m.from = D!SenderOf(h, d) /\ m.data = D!Taken(d)
      /\ a.from = h /\ a.to = D!SenderOf(h, d) /\ a.data = D!Taken(d)
  OBVIOUS
<1>3. /\ inbox'[h] = inbox[h] \cup {m} /\ \A g \in D!Hosts : g # h => inbox'[g] = inbox[g]
      /\ inbox' = [g \in D!Hosts |-> inbox'[g]]
  BY <1>1 DEF UdpInv
<1>4. \A x \in flight' : x \in flight \/ (x = a /\ h = "server" /\ family[h] = 4)
  BY <1>1
<1> HIDE DEF m, a
<1>5. D!SenderOf(h, d) = (IF family[h] = 4 THEN d.from ELSE "misread")
  BY DEF D!SenderOf, D!Misread
<1>6. family[h] = 4 => d.from # "stranger"
  BY <1>1 DEF UdpInv, FlightIs
<1>7. h = "server" => (d.from = "stranger" /\ d.data \in Requests) \/ (d.from = "client" /\ d.data \in asked)
  BY <1>1 DEF UdpInv, FlightIs
<1>8. h = "client" /\ d.from = "server" => \E p \in asked : D!IsCut(D!Taken(d), p)
  BY <1>1, TakenIs DEF UdpInv, FlightIs
<1>9. FlightIs'
  <2> SUFFICES ASSUME NEW x \in flight'
               PROVE  /\ x.from = "stranger" => x.to \in D!Hosts /\ family[x.to] = 6 /\ x.data \in Requests
                      /\ x.from # "stranger" =>
                           \/ x.to = "server" /\ x.from = "client" /\ x.data \in asked
                           \/ x.to = "client" /\ x.from = "server" /\ \E q \in asked : D!IsCut(x.data, q)
    BY <1>1, CutIs DEF FlightIs
  <2>1. CASE x \in flight
    BY <2>1 DEF UdpInv, FlightIs
  <2>2. CASE x = a /\ h = "server" /\ family[h] = 4
    BY <1>2, <1>5, <1>6, <1>7, <2>2, TakenIs
  <2> QED
    BY <1>4, <2>1, <2>2
<1>10. DatagramsAreWhole'
  <2>1. D!DatagramsAreWhole
    BY DEF UdpInv, DatagramsAreWhole
  <2>2. ASSUME NEW x \in inbox'["server"]
        PROVE  \E p \in Requests : /\ D!IsCut(x.data, p) /\ x.from \in {"client", "misread"}
                                   /\ x.from = "client" => p \in asked
    <3>1. CASE x \in inbox["server"]
      BY <2>1, <3>1 DEF D!DatagramsAreWhole, D!Misread
    <3>2. CASE x = m /\ h = "server"
      <4>1. d.data \in Requests /\ D!IsCut(x.data, d.data)
        BY <1>2, <1>7, <3>2, TakenIs DEF UdpInv
      <4>2. x.from \in {"client", "misread"} /\ (x.from = "client" => d.data \in asked)
        BY <1>2, <1>5, <1>6, <1>7, <3>2
      <4> QED
        BY <4>1, <4>2
    <3> QED
      BY <1>3, <3>1, <3>2 DEF D!Hosts
  <2>3. ASSUME NEW x \in inbox'["client"], x.from = "server"
        PROVE  \E p \in asked : D!IsCut(x.data, p)
    <3>1. CASE x \in inbox["client"]
      BY <2>1, <2>3, <3>1 DEF D!DatagramsAreWhole
    <3>2. CASE x = m /\ h = "client"
      BY <1>2, <1>5, <1>8, <2>3, <3>2
    <3> QED
      BY <1>3, <3>1, <3>2 DEF D!Hosts
  <2> QED
    BY <1>1, <2>2, <2>3, CutIs DEF DatagramsAreWhole, D!DatagramsAreWhole, D!Misread
<1> QED
  BY <1>1, <1>3, <1>9, <1>10 DEF UdpInv

LEMMA UdpInvNext == UdpInv /\ [D!Next]_D!vars => UdpInv'
<1> SUFFICES ASSUME UdpInv, [D!Next]_D!vars PROVE UdpInv'
  OBVIOUS
<1>1. CASE UNCHANGED D!vars
  <2>1. UNCHANGED <<family, flight, inbox, asked>>
    BY <1>1 DEF D!vars
  <2>2. DatagramsAreWhole'
    BY <2>1, InboxKept DEF UdpInv
  <2> QED
    BY <2>1, <2>2, CutIs DEF UdpInv, FlightIs
<1>2. CASE D!Next
  BY <1>2, UdpOpenKeeps, UdpCloseKeeps, StrangerKeeps, UdpRecvKeeps, AskKeeps DEF D!Next
<1> QED
  BY <1>1, <1>2

\* udp.c, for requests and a receive buffer of any size, however the network
\* loses, repeats and reorders datagrams and the sockets are closed and opened
\* again, as IPv4 or IPv6 ones: udp_recv_from returns the beginning of exactly
\* one datagram, and between IPv4 sockets it names its sender, so that every
\* answer the client reads is the beginning of one of its own requests.
THEOREM Datagrams == D!Spec => []DatagramsAreWhole
<1>1. UdpInv => DatagramsAreWhole
  BY DEF UdpInv
<1> QED
  BY UdpInvInit, UdpInvNext, <1>1, PTL DEF D!Spec
=============================================================================
