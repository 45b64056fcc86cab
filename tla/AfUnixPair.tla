----------------------------- MODULE AfUnixPair -----------------------------
(***************************************************************************)
(* The benchmark programs of 1148/ as they are started by hand, in any     *)
(* order and more than once: AF_UNIX_server, which writes 1e8 bytes to the *)
(* first client it accepts and ends; AF_UNIX_client, which reads until     *)
(* read fails; and the LOOPBACK_TCP programs, which give an AF_INET        *)
(* address to an AF_UNIX socket.                                           *)
(***************************************************************************)
EXTENDS AfUnix

CONSTANTS LoopbackServers, LoopbackClients,
          Mortal,  \* clients that may be killed
          Size,    \* units a call of read or write asks for
          Room,    \* units a connection holds
          Top      \* units after which the server ends

Nobody == "nobody"

ASSUME PairAssumption ==
  /\ Servers \cap Clients = {}
  /\ LoopbackServers \cap (Servers \cup Clients) = {}
  /\ LoopbackClients \cap (Servers \cup Clients \cup LoopbackServers) = {}
  /\ Mortal \subseteq Clients /\ Nobody \notin Clients
  /\ Size \in Nat \ {0} /\ Room \in Nat \ {0} /\ Top \in Nat

Programs == Servers \cup Clients \cup LoopbackServers \cup LoopbackClients

VARIABLES
  pc,     \* where each program is
  clifd,  \* the client whose connection a server has accepted
  left,   \* units that are still to be written by a server's call
  total,  \* total_trffic of each server
  got     \* history: units each client has read

vars == <<kernel, pc, clifd, left, total, got>>

Go(p, from, next) == pc[p] = from /\ pc' = [pc EXCEPT ![p] = next]

-----------------------------------------------------------------------------
(* AF_UNIX_server                                                          *)
ServerStart(s) ==
  /\ Go(s, "none", "bind")
  /\ Construct(s)
  /\ UNCHANGED <<clifd, left, total, got>>

ServerBind(s) ==
  /\ \/ Bind(s) /\ Go(s, "bind", "listen")
     \/ BindFails /\ Go(s, "bind", "exit1") /\ UNCHANGED kernel
  /\ UNCHANGED <<clifd, left, total, got>>

ServerListen(s) ==
  /\ Go(s, "listen", "accept")
  /\ Listen(s)
  /\ UNCHANGED <<clifd, left, total, got>>

ServerConnect(s) ==
  /\ Go(s, "accept", "write")
  /\ Accept(s)
  /\ clifd' = [clifd EXCEPT ![s] = Oldest(s)]
  /\ left' = [left EXCEPT ![s] = Size]
  /\ UNCHANGED <<total, got>>

\* mutant: a write into a connection that is full
ServerWriteUnitAnyway(s) ==
  /\ pc[s] = "write" /\ left[s] > 0
  /\ conn[clifd[s]] = "open"
  /\ Write(clifd[s], 1)
  /\ left' = [left EXCEPT ![s] = @ - 1]
  /\ UNCHANGED <<pc, clifd, total, got>>

\* a call of write blocks until all of its units are in the connection
ServerWriteUnit(s) ==
  /\ pc[s] = "write" /\ left[s] > 0
  /\ conn[clifd[s]] = "open" /\ buf[clifd[s]] < Room
  /\ Write(clifd[s], 1)
  /\ left' = [left EXCEPT ![s] = @ - 1]
  /\ UNCHANGED <<pc, clifd, total, got>>

\* mutant: a write that returns when the connection is full
ServerWriteReturnsShort(s) ==
  /\ pc[s] = "write" /\ (left[s] = 0 \/ buf[clifd[s]] = Room)
  /\ left' = [left EXCEPT ![s] = Size]
  /\ total' = [total EXCEPT ![s] = @ + Size]
  /\ Go(s, "write", IF total'[s] >= Top THEN "close" ELSE "write")
  /\ UNCHANGED <<kernel, clifd, got>>

ServerWriteReturns(s) ==
  /\ left[s] = 0
  /\ left' = [left EXCEPT ![s] = Size]
  /\ total' = [total EXCEPT ![s] = @ + Size]
  /\ Go(s, "write", IF total'[s] >= Top THEN "close" ELSE "write")
  /\ UNCHANGED <<kernel, clifd, got>>

\* SIGPIPE: the client's end is closed
ServerKilled(s) ==
  /\ left[s] > 0 /\ conn[clifd[s]] = "closed"
  /\ Go(s, "write", "killed")
  /\ CloseListening(s)
  /\ UNCHANGED <<clifd, left, total, got>>

ServerClose(s) ==
  /\ Go(s, "close", "return")
  /\ CloseListening(s)
  /\ UNCHANGED <<clifd, left, total, got>>

\* the end of the process closes clifd
ServerReturn(s) ==
  /\ Go(s, "return", "ended")
  /\ CloseAccepted(clifd[s])
  /\ UNCHANGED <<clifd, left, total, got>>

-----------------------------------------------------------------------------
(* AF_UNIX_client.  A read that returns 0 is no failure: after the end of  *)
(* the server the client calls read for ever, which changes nothing.       *)
ClientConnect(c) ==
  /\ \/ Connect(c) /\ Go(c, "none", "read")
     \/ ConnectFails /\ Go(c, "none", "exit1") /\ UNCHANGED kernel
  /\ UNCHANGED <<clifd, left, total, got>>

ClientRead(c) ==
  /\ pc[c] = "read"
  /\ Read(c, Size)
  /\ got' = [got EXCEPT ![c] = @ + Readable(c, Size)]
  /\ UNCHANGED <<pc, clifd, left, total>>

\* mutant: the client goes on until read returns 0, and not until it fails
ClientCloseAtEnd(c) ==
  /\ ReadEnd(c)
  /\ Go(c, "read", "ended")
  /\ CloseClient(c)
  /\ UNCHANGED <<clifd, left, total, got>>

ClientClose(c) ==
  /\ ReadReset(c)
  /\ Go(c, "read", "ended")
  /\ CloseClient(c)
  /\ UNCHANGED <<clifd, left, total, got>>

ClientKilled(c) ==
  /\ c \in Mortal
  /\ Go(c, "read", "killed")
  /\ CloseClient(c)
  /\ UNCHANGED <<clifd, left, total, got>>

-----------------------------------------------------------------------------
(* The LOOPBACK_TCP programs: EINVAL from bind and connect, after the      *)
(* server's constructor has unlinked the path of the others.               *)
LoopbackConstruct(s) ==
  /\ Go(s, "none", "bind")
  /\ path' = NoSock
  /\ UNCHANGED <<sock, pend, conn, buf, clifd, left, total, got>>

LoopbackInit(s) ==
  /\ Go(s, "bind", "exit1")
  /\ UNCHANGED <<kernel, clifd, left, total, got>>

LoopbackConnect(c) ==
  /\ Go(c, "none", "exit1")
  /\ UNCHANGED <<kernel, clifd, left, total, got>>

-----------------------------------------------------------------------------
Init ==
  /\ KernelInit
  /\ pc = [p \in Programs |-> "none"]
  /\ clifd = [s \in Servers |-> Nobody]
  /\ left = [s \in Servers |-> 0]
  /\ total = [s \in Servers |-> 0]
  /\ got = [c \in Clients |-> 0]

\* what a program does once it runs
Server(s) ==
  \/ ServerBind(s) \/ ServerListen(s) \/ ServerConnect(s)
  \/ ServerWriteUnit(s) \/ ServerWriteReturns(s) \/ ServerKilled(s)
  \/ ServerClose(s) \/ ServerReturn(s)

Client(c) == ClientRead(c) \/ ClientClose(c)

Next ==
  \/ \E s \in Servers : ServerStart(s) \/ Server(s)
  \/ \E c \in Clients : ClientConnect(c) \/ Client(c) \/ ClientKilled(c)
  \/ \E s \in LoopbackServers : LoopbackConstruct(s) \/ LoopbackInit(s)
  \/ \E c \in LoopbackClients : LoopbackConnect(c)

Spec == Init /\ [][Next]_vars

(* Programs that run are scheduled; nobody has to start one.               *)
FairSpec ==
  /\ Spec
  /\ \A s \in Servers : WF_vars(Server(s))
  /\ \A c \in Clients : WF_vars(Client(c))

-----------------------------------------------------------------------------
(* The types of the variables.                                             *)
TypeOK ==
  /\ path \in Servers \cup {NoSock, OldSock}
  /\ sock \in [Servers -> {"none", "bound", "listening", "closed"}]
  /\ pend \in [Servers -> Seq(Clients)]
  /\ conn \in [Clients -> {"none", "pending", "open", "eof", "reset", "closed"}]
  /\ buf \in [Clients -> 0 .. Room]
  /\ pc \in [Programs -> {"none", "bind", "listen", "accept", "write", "close",
                          "return", "read", "exit1", "killed", "ended"}]
  /\ clifd \in [Servers -> Clients \cup {Nobody}]
  /\ left \in [Servers -> 0 .. Size]
  /\ total \in [Servers -> Nat] /\ got \in [Clients -> Nat]

(* Servers that start at once unlink and bind in any order, at a path an   *)
(* earlier server may have left behind: never do all of them fail in bind  *)
(* (AF_UNIX_server.cpp:47, :58).                                           *)
SomebodyServes ==
  LET started == {s \in Servers : pc[s] # "none"}
  IN  started # {} => \E s \in started : pc[s] # "exit1"

(* Nothing is lost, kept twice or given to another client on the way: what *)
(* a client has read and what is in its connection is what the server that *)
(* accepted it has written, the units of its last call included, before    *)
(* and after that server closes; unless the client is killed               *)
(* (AF_UNIX_server.cpp:121-143, AF_UNIX_client.cpp:90-94).                 *)
NothingIsLost ==
  \A s \in Servers, c \in Clients :
    clifd[s] = c /\ pc[c] # "killed" => got[c] + buf[c] + left[s] = total[s] + Size

(* What a server has written when it ends its client gets, all of it,      *)
(* however the calls of write were cut up and although the server closes   *)
(* the connection first; unless the client is killed                       *)
(* (AF_UNIX_server.cpp:121-143, AF_UNIX_client.cpp:90-94).                 *)
EverythingArrives ==
  \A s \in Servers, c \in Clients :
    (pc[s] = "write" /\ clifd[s] = c)
      ~> \/ pc[s] = "ended" /\ got[c] = total[s]
         \/ pc[c] = "killed"

(* A client that has connected does not wait for ever for a server that    *)
(* took another one: it is accepted or its read fails and it ends, even    *)
(* when its server lost the path to a second one                           *)
(* (AF_UNIX_server.cpp:72, :137; AF_UNIX_client.cpp:91).                   *)
NobodyWaitsInVain ==
  \A c \in Clients : pc[c] = "read" ~> got[c] > 0 \/ pc[c] \in {"ended", "killed"}
=============================================================================
