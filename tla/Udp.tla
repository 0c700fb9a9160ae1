--------------------------------- MODULE Udp ---------------------------------
(***************************************************************************)
(* src/src/networking/udp.c: a client that sends numbered datagrams and a  *)
(* server that answers each one to the endpoint udp_recv_from reported.    *)
(* The network loses, duplicates and reorders datagrams.  A socket opened  *)
(* on an address with a colon is an IPv6 one; destinations are always      *)
(* resolved to IPv4, and the sender of a datagram is always read as an     *)
(* IPv4 address.                                                           *)
(***************************************************************************)
EXTENDS Integers, Sequences, FiniteSets

CONSTANTS Requests,   \* the payloads the client sends: sequences of bytes
          RecvCap,    \* capacity of the receive buffers
          NoSocket

Hosts == {"client", "server"}
Misread == "misread"   \* the host that the bytes of an IPv6 address look like

VARIABLES family,  \* host -> family of its open socket, or NoSocket
          flight,  \* datagrams the network may deliver
          inbox,   \* history: what each host's calls returned
          asked    \* payloads the client has sent

vars == <<family, flight, inbox, asked>>

Init == /\ family = [h \in Hosts |-> NoSocket]
        /\ flight = {}
        /\ inbox = [h \in Hosts |-> {}]
        /\ asked = {}

\* udp_open_host: a socket that cannot be bound is closed.
UdpOpenHost(h) == /\ family[h] = NoSocket
                  /\ \E f \in {4, 6} : family' = [family EXCEPT ![h] = f]
                  /\ UNCHANGED <<flight, inbox, asked>>

UdpClose(h) == /\ family[h] # NoSocket
               /\ family' = [family EXCEPT ![h] = NoSocket]
               /\ flight' = {d \in flight : d.to # h}
               /\ UNCHANGED <<inbox, asked>>

\* sendto on an open socket: one datagram, complete, to an IPv4 address; it
\* may be lost at once.  An IPv6 socket cannot send there (ERR_IO).
UdpSendTo(h, to, payload) ==
    /\ family[h] = 4
    /\ \/ flight' = flight \cup {[from |-> h, to |-> to, data |-> payload]}
       \/ UNCHANGED flight

Ask == \E p \in Requests \ asked : /\ UdpSendTo("client", "server", p)
                                   /\ asked' = asked \cup {p}
                                   /\ UNCHANGED <<family, inbox>>

\* Somebody else's IPv6 datagram arrives at an IPv6 socket.
Stranger(h) == /\ family[h] = 6
               /\ \E p \in Requests :
                    flight' = flight \cup {[from |-> "stranger", to |-> h, data |-> p]}
               /\ UNCHANGED <<family, inbox, asked>>

Least(a, b) == IF a < b THEN a ELSE b

\* Mutant: the length of the datagram, not of what fits.
TakenWhole(d) == d.data

\* recvfrom: one datagram; what does not fit is cut off.
Taken(d) == SubSeq(d.data, 1, Least(RecvCap, Len(d.data)))

\* The endpoint inet_ntop makes of the sender's address.
SenderOf(h, d) == IF family[h] = 4 THEN d.from ELSE Misread

\* udp_recv_from; the network may deliver the datagram again.  The server
\* answers with what it read.
UdpRecvFrom(h) ==
    \E d \in {x \in flight : x.to = h} :
      /\ family[h] # NoSocket
      /\ inbox' = [inbox EXCEPT ![h] = @ \cup {[from |-> SenderOf(h, d), data |-> Taken(d)]}]
      /\ LET answer == {x \in {[from |-> h, to |-> SenderOf(h, d), data |-> Taken(d)]} :
                          h = "server" /\ family[h] = 4}
         IN \E again \in {{}, {d}} : flight' = (flight \ {d}) \cup again \cup answer
      /\ UNCHANGED <<family, asked>>

Next == \/ \E h \in Hosts : UdpOpenHost(h) \/ UdpClose(h) \/ Stranger(h) \/ UdpRecvFrom(h)
        \/ Ask

Spec == Init /\ [][Next]_vars

IsCut(data, p) == data = SubSeq(p, 1, Least(RecvCap, Len(p)))

(***************************************************************************)
(* udp.c: a call returns the beginning of exactly one datagram, never two  *)
(* joined or one out of the middle; between IPv4 sockets the endpoint      *)
(* reported is the sender, so the server's answers reach the client that   *)
(* asked and carry (the beginning of) one of its requests.                 *)
(***************************************************************************)
DatagramsAreWhole ==
    /\ \A m \in inbox["server"] : \E p \in Requests :
         /\ IsCut(m.data, p)
         /\ m.from \in {"client", Misread}
         /\ m.from = "client" => p \in asked
    /\ \A m \in inbox["client"] : m.from = "server" =>
         \E p \in asked : IsCut(m.data, p)
=============================================================================
