------------------------------ MODULE MCNetwork ------------------------------
(***************************************************************************)
(* The networking module for TLC: the echo programs over TCP, processes    *)
(* that listen on one Unix path, and UDP.  They share nothing but the      *)
(* library, so a behaviour shows one of them, its subject.                 *)
(***************************************************************************)
EXTENDS EchoService, TLC

CONSTANTS c1, c2,
          Procs, Nobody,                    \* UnixListen's
          Requests, RecvCap, NoSocket       \* Udp's

VARIABLES subject,
          entry, upc, kfd, listens, sfd, newest, wasFile, faults,
          family, flight, inbox, asked

ASSUME NobodyAssumption == Nobody \notin Procs
ASSUME DatagramsAssumption == /\ Requests \subseteq Seq(Nat) /\ RecvCap \in Nat
                              /\ NoSocket \notin {4, 6}

U == INSTANCE UnixListen
D == INSTANCE Udp

UnixVars == <<entry, upc, kfd, listens, sfd, newest, wasFile, faults>>
UdpVars == <<family, flight, inbox, asked>>
NetworkVars == <<subject, vars, UnixVars, UdpVars>>

\* The message of c1 is as long as the client's buffer, which is one byte too
\* long, and just short enough to pass through the buffers on the way.
Lengths == (c1 :> 3) @@ (c2 :> 2)
Payloads == {<<1>>, <<2, 2, 2>>}

Echo(A) == subject = "echo" /\ A /\ UNCHANGED <<subject, UnixVars, UdpVars>>

NetworkInit == /\ subject \in {"echo", "unix", "udp"}
               /\ Init /\ U!Init /\ D!Init
               /\ subject # "echo" => mode = "pool"
               /\ subject # "unix" => entry = U!Missing

UnixStep == subject = "unix" /\ U!Next /\ UNCHANGED <<subject, vars, UdpVars>>
UdpStep == subject = "udp" /\ D!Next /\ UNCHANGED <<subject, vars, UnixVars>>

NetworkNext == Echo(Next) \/ UnixStep \/ UdpStep

NetworkSpec ==
    /\ NetworkInit /\ [][NetworkNext]_NetworkVars
    /\ \A c \in Clients : WF_NetworkVars(Echo(ClientStep(c)))
    /\ WF_NetworkVars(Echo(ServerStep))
    /\ \A w \in Workers : WF_NetworkVars(Echo(WorkerStep(w)))
    /\ SF_NetworkVars(Echo(AcceptOk))

-----------------------------------------------------------------------------
(* Properties: EchoService's EchoIsExact and NoDescriptorLost, and *)

(***************************************************************************)
(* Every client of either echo server comes to an end.                     *)
(***************************************************************************)
EveryClientFinishes == subject = "echo" => ClientsFinish

(***************************************************************************)
(* unix_socket.c: the path leads to the newest listener; files are spared. *)
(***************************************************************************)
UnixPathIsSound == U!PathIsSound

(***************************************************************************)
(* udp.c: datagrams keep their boundaries and their senders.               *)
(***************************************************************************)
DatagramsAreWhole == D!DatagramsAreWhole
=============================================================================
