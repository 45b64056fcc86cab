---------------------------- MODULE AfUnixProofs ----------------------------
(***************************************************************************)
(* Proofs about the benchmark programs, for any number of them: who        *)
(* serves, the types, and that nothing that is written gets lost.          *)
(*                                                                         *)
(* The argument for the first: a server fails in bind only if another one  *)
(* has bound the path since it unlinked it (Owned), and not because of a   *)
(* socket that was left behind, which the first server to start removes    *)
(* (Unlinked).                                                             *)
(***************************************************************************)
EXTENDS AfUnixPair, TLAPS

Typed ==
  /\ DOMAIN pc = Programs
  /\ path \in Servers \cup {NoSock, OldSock}

\* the states of a server that has not bound its socket
Unbound == {"none", "bind", "exit1"}

Owned == path \in Servers => pc[path] \notin Unbound

Unlinked == (\E s \in Servers : pc[s] # "none") => path # OldSock

IInv == Typed /\ Owned /\ Unlinked /\ SomebodyServes

(* What other programs do, and what a server does that has bound its       *)
(* socket, leaves who serves as it is.                                     *)
LEMMA OthersKeep ==
  ASSUME IInv, DOMAIN pc' = Programs, path' = path \/ path' = NoSock,
         \A s \in Servers : \/ pc'[s] = pc[s]
                            \/ pc[s] \notin Unbound /\ pc'[s] \notin Unbound
  PROVE  IInv'
<1>1. NoSock \notin Servers /\ NoSock # OldSock
  BY AfUnixAssumption
<1>2. \A s \in Servers : /\ pc'[s] = "none" <=> pc[s] = "none"
                         /\ pc'[s] = "exit1" <=> pc[s] = "exit1"
                         /\ pc'[s] \in Unbound <=> pc[s] \in Unbound
  BY DEF Unbound
<1>3. Typed'
  BY DEF IInv, Typed
<1>4. Owned'
  BY <1>1, <1>2 DEF IInv, Owned
<1>5. Unlinked'
  BY <1>1, <1>2 DEF IInv, Unlinked
<1>6. SomebodyServes'
  BY <1>2 DEF IInv, SomebodyServes
<1> QED BY <1>3, <1>4, <1>5, <1>6 DEF IInv

(* A server that starts unlinks the path and has not failed yet.           *)
LEMMA StartKeeps ==
  ASSUME IInv, NEW s \in Servers, ServerStart(s)
  PROVE  IInv'
<1>1. /\ path' = NoSock /\ DOMAIN pc' = Programs /\ pc'[s] = "bind"
      /\ NoSock \notin Servers /\ NoSock # OldSock
  BY AfUnixAssumption
     DEF ServerStart, Construct, Go, IInv, Typed, Programs
<1>2. Typed' /\ Owned' /\ Unlinked'
  BY <1>1 DEF Typed, Owned, Unlinked
<1>3. SomebodyServes'
  BY <1>1 DEF SomebodyServes
<1> QED BY <1>2, <1>3 DEF IInv

(* A server that binds serves; for one that cannot, another one does.      *)
LEMMA BindKeeps ==
  ASSUME IInv, NEW s \in Servers, ServerBind(s)
  PROVE  IInv'
<1>1. /\ NoSock \notin Servers /\ OldSock \notin Servers
      /\ s \in DOMAIN pc /\ pc[s] = "bind"
  BY AfUnixAssumption DEF ServerBind, Go, IInv, Typed, Programs
<1>2. CASE Bind(s) /\ Go(s, "bind", "listen")
  <2>1. path' = s /\ DOMAIN pc' = Programs /\ pc'[s] = "listen"
    BY <1>1, <1>2 DEF Bind, Go, IInv, Typed
  <2>2. Typed' /\ Owned' /\ Unlinked'
    BY <1>1, <2>1 DEF Typed, Owned, Unlinked, Unbound
  <2>3. SomebodyServes'
    BY <2>1 DEF SomebodyServes
  <2> QED BY <2>2, <2>3 DEF IInv
<1>3. CASE BindFails /\ Go(s, "bind", "exit1") /\ UNCHANGED kernel
  <2>1. /\ path' = path /\ pc' = [pc EXCEPT ![s] = "exit1"]
        /\ path # NoSock
    BY <1>3 DEF BindFails, Go, kernel
  <2>2. path \in Servers /\ path # s /\ pc[path] \notin Unbound
    BY <1>1, <2>1 DEF IInv, Typed, Owned, Unlinked, Unbound
  <2>3. DOMAIN pc' = Programs /\ pc'[path] \notin Unbound
    BY <2>1, <2>2 DEF IInv, Typed
  <2>4. Typed' /\ Owned' /\ Unlinked'
    BY <1>1, <2>1, <2>2, <2>3 DEF IInv, Typed, Owned, Unlinked
  <2>5. SomebodyServes'
    BY <2>2, <2>3 DEF SomebodyServes, Unbound
  <2> QED BY <2>4, <2>5 DEF IInv
<1> QED BY <1>2, <1>3 DEF ServerBind

(* The steps of a server that has bound its socket.                        *)
LEMMA ServingKeeps ==
  ASSUME IInv, NEW s \in Servers,
         \/ ServerListen(s) \/ ServerConnect(s)
         \/ ServerWriteUnit(s) \/ ServerWriteReturns(s) \/ ServerKilled(s)
         \/ ServerClose(s) \/ ServerReturn(s)
  PROVE  IInv'
<1>1. path' = path
  BY DEF ServerListen, ServerConnect, ServerWriteUnit, ServerWriteReturns,
         ServerKilled, ServerClose, ServerReturn, Listen, Accept, Write,
         CloseListening, CloseAccepted, kernel
<1>2. \/ pc' = pc
      \/ \E from, next \in {"listen", "accept", "write", "close", "return",
                            "ended", "killed"} : Go(s, from, next)
  BY DEF ServerListen, ServerConnect, ServerWriteUnit, ServerWriteReturns,
         ServerKilled, ServerClose, ServerReturn
<1>3. /\ DOMAIN pc' = Programs
      /\ \A x \in Servers : \/ pc'[x] = pc[x]
                            \/ pc[x] \notin Unbound /\ pc'[x] \notin Unbound
  BY <1>2 DEF Go, Unbound, IInv, Typed, Programs
<1> QED BY <1>1, <1>3, OthersKeep

(* The steps of the programs that are not AF_UNIX_server.                  *)
LEMMA OtherProgramsKeep ==
  ASSUME IInv, NEW p \in Programs \ Servers,
         \/ ClientConnect(p) \/ Client(p) \/ ClientKilled(p)
         \/ LoopbackConstruct(p) \/ LoopbackInit(p) \/ LoopbackConnect(p)
  PROVE  IInv'
<1>1. path' = path \/ path' = NoSock
  BY DEF ClientConnect, Client, ClientRead, ClientClose, ClientKilled,
         LoopbackConstruct, LoopbackInit, LoopbackConnect, Connect, Read,
         CloseClient, kernel
<1>2. pc' = pc \/ \E v : pc' = [pc EXCEPT ![p] = v]
  BY DEF ClientConnect, Client, ClientRead, ClientClose, ClientKilled,
         LoopbackConstruct, LoopbackInit, LoopbackConnect, Go
<1>3. DOMAIN pc' = Programs /\ \A s \in Servers : pc'[s] = pc[s]
  BY <1>2 DEF IInv, Typed, Programs
<1> QED BY <1>1, <1>3, OthersKeep

(* However many servers are started, in whatever order they unlink and     *)
(* bind, and whatever was at the path before: not all of them fail.        *)
THEOREM SomebodyServesHolds == Spec => []SomebodyServes
<1>1. Init => IInv
  BY AfUnixAssumption
     DEF Init, KernelInit, IInv, Typed, Owned, Unlinked, SomebodyServes, Programs
<1>2. IInv /\ [Next]_vars => IInv'
  <2> SUFFICES ASSUME IInv, [Next]_vars PROVE IInv'
    OBVIOUS
  <2>1. CASE UNCHANGED vars
    <3>1. path' = path /\ pc' = pc
      BY <2>1 DEF vars, kernel
    <3> QED BY <3>1, OthersKeep DEF IInv, Typed
  <2>2. ASSUME NEW s \in Servers, ServerStart(s) \/ Server(s) PROVE IInv'
    BY <2>2, StartKeeps, BindKeeps, ServingKeeps DEF Server
  <2>3. ASSUME NEW c \in Clients, ClientConnect(c) \/ Client(c) \/ ClientKilled(c)
        PROVE  IInv'
    <3>1. c \in Programs \ Servers
      BY PairAssumption DEF Programs
    <3> QED BY <2>3, <3>1, OtherProgramsKeep
  <2>4. ASSUME NEW s \in LoopbackServers, LoopbackConstruct(s) \/ LoopbackInit(s)
        PROVE  IInv'
    <3>1. s \in Programs \ Servers
      BY PairAssumption DEF Programs
    <3> QED BY <2>4, <3>1, OtherProgramsKeep
  <2>5. ASSUME NEW c \in LoopbackClients, LoopbackConnect(c) PROVE IInv'
    <3>1. c \in Programs \ Servers
      BY PairAssumption DEF Programs
    <3> QED BY <2>5, <3>1, OtherProgramsKeep
  <2> QED BY <2>1, <2>2, <2>3, <2>4, <2>5 DEF Next
<1>3. IInv => SomebodyServes
  BY DEF IInv
<1> QED BY <1>1, <1>2, <1>3, PTL DEF Spec

-----------------------------------------------------------------------------
(* The types.  A server that is past accept has a client, and puts into    *)
(* its connection only what there is room for.                             *)
Accepted == \A s \in Servers : pc[s] \in {"write", "close", "return"} => clifd[s] \in Clients

TypeInv == TypeOK /\ Accepted

Labels == {"none", "bind", "listen", "accept", "write", "close", "return", "read",
           "exit1", "killed", "ended"}

(* What the kernel does keeps its types.                                   *)
LEMMA KernelTypes ==
  ASSUME TypeInv, NEW s \in Servers
  PROVE  /\ pend[s] # <<>> => Oldest(s) \in Clients /\ Tail(pend[s]) \in Seq(Clients)
         /\ \A c \in Clients : Append(pend[s], c) \in Seq(Clients)
         /\ clifd[s] \in Clients /\ buf[clifd[s]] < Room =>
              buf[clifd[s]] + 1 \in 0 .. Room
<1>1. pend[s] \in Seq(Clients) /\ buf \in [Clients -> 0 .. Room] /\ Room \in Nat
  BY PairAssumption DEF TypeInv, TypeOK
<1>2. pend[s] # <<>> => Oldest(s) \in Clients /\ Tail(pend[s]) \in Seq(Clients)
  BY <1>1 DEF Oldest
<1>3. \A c \in Clients : Append(pend[s], c) \in Seq(Clients)
  BY <1>1
<1>4. clifd[s] \in Clients /\ buf[clifd[s]] < Room => buf[clifd[s]] + 1 \in 0 .. Room
  <2> SUFFICES ASSUME clifd[s] \in Clients, buf[clifd[s]] < Room
               PROVE  buf[clifd[s]] + 1 \in 0 .. Room
    OBVIOUS
  <2>1. buf[clifd[s]] \in 0 .. Room
    BY <1>1
  <2> QED BY <1>1, <2>1
<1> QED BY <1>2, <1>3, <1>4

LEMMA ServerTypes ==
  ASSUME TypeInv, NEW s \in Servers, ServerStart(s) \/ Server(s)
  PROVE  TypeInv'
<1>1. /\ s \in Programs /\ Size \in Nat /\ Top \in Nat /\ s \notin Clients
      /\ pc[s] \in {"write", "close", "return"} => clifd[s] \in Clients
  BY PairAssumption DEF Programs, TypeInv, Accepted
<1>2. CASE ServerStart(s)
  BY <1>1, <1>2 DEF ServerStart, Go, Construct, TypeInv, TypeOK, Accepted
<1>3. CASE ServerBind(s)
  <2>1. CASE Bind(s) /\ Go(s, "bind", "listen")
    <3>1. /\ path' \in Servers \cup {NoSock, OldSock}
          /\ sock' \in [Servers -> {"none", "bound", "listening", "closed"}]
      BY <2>1 DEF Bind, TypeInv, TypeOK
    <3> QED BY <1>1, <1>3, <2>1, <3>1
            DEF ServerBind, Go, Bind, TypeInv, TypeOK, Accepted
  <2>2. CASE Go(s, "bind", "exit1") /\ UNCHANGED kernel
    BY <1>1, <1>3, <2>2 DEF ServerBind, Go, kernel, TypeInv, TypeOK, Accepted
  <2> QED BY <1>3, <2>1, <2>2 DEF ServerBind
<1>4. CASE ServerListen(s)
  BY <1>1, <1>4 DEF ServerListen, Go, Listen, TypeInv, TypeOK, Accepted
<1>5. CASE ServerConnect(s)
  <2>1. Oldest(s) \in Clients /\ Tail(pend[s]) \in Seq(Clients)
    BY <1>5, KernelTypes DEF ServerConnect, Accept
  <2>2. pend' \in [Servers -> Seq(Clients)]
    BY <1>5, <2>1 DEF ServerConnect, Accept, TypeInv, TypeOK
  <2>3. conn' \in [Clients -> {"none", "pending", "open", "eof", "reset", "closed"}]
    BY <1>5, <2>1 DEF ServerConnect, Accept, TypeInv, TypeOK
  <2>4. /\ clifd' \in [Servers -> Clients \cup {Nobody}] /\ clifd'[s] \in Clients
        /\ \A x \in Servers \ {s} : clifd'[x] = clifd[x]
    BY <1>5, <2>1 DEF ServerConnect, TypeInv, TypeOK
  <2>5. /\ left' \in [Servers -> 0 .. Size]
        /\ UNCHANGED <<path, sock, buf, total, got>>
    BY <1>1, <1>5 DEF ServerConnect, Accept, TypeInv, TypeOK
  <2>6. pc' = [pc EXCEPT ![s] = "write"] /\ pc' \in [Programs -> Labels]
    BY <1>5 DEF ServerConnect, Go, TypeInv, TypeOK, Labels
  <2>7. TypeOK'
    BY <2>2, <2>3, <2>4, <2>5, <2>6 DEF TypeInv, TypeOK, Labels
  <2>8. Accepted'
    BY <2>4, <2>6 DEF TypeInv, TypeOK, Accepted
  <2> QED BY <2>7, <2>8 DEF TypeInv
<1>6. CASE ServerWriteUnit(s)
  <2>1. buf[clifd[s]] + 1 \in 0 .. Room /\ clifd[s] \in Clients
    BY <1>1, <1>6, KernelTypes DEF ServerWriteUnit
  <2>2. buf' \in [Clients -> 0 .. Room]
    BY <1>6, <2>1 DEF ServerWriteUnit, Write, TypeInv, TypeOK
  <2>3. left' \in [Servers -> 0 .. Size]
    <3>1. left \in [Servers -> 0 .. Size] /\ left[s] > 0
      BY <1>6 DEF ServerWriteUnit, TypeInv, TypeOK
    <3>2. left[s] - 1 \in 0 .. Size
      BY <1>1, <3>1
    <3> QED BY <1>6, <3>1, <3>2 DEF ServerWriteUnit
  <2> QED BY <1>6, <2>2, <2>3 DEF ServerWriteUnit, Write, TypeInv, TypeOK, Accepted
<1>7. CASE ServerWriteReturns(s)
  <2>1. PICK next \in {"close", "write"} : Go(s, "write", next)
    BY <1>7 DEF ServerWriteReturns
  <2>2. total' \in [Servers -> Nat] /\ left' \in [Servers -> 0 .. Size]
    BY <1>1, <1>7 DEF ServerWriteReturns, TypeInv, TypeOK
  <2> QED BY <1>1, <1>7, <2>1, <2>2
          DEF ServerWriteReturns, kernel, Go, TypeInv, TypeOK, Accepted
<1>8. CASE ServerKilled(s) \/ ServerClose(s)
  <2>1. /\ CloseListening(s) /\ UNCHANGED <<clifd, left, total, got>>
        /\ \E from \in {"write", "close"}, next \in {"killed", "return"} :
             /\ Go(s, from, next)
    BY <1>8 DEF ServerKilled, ServerClose
  <2>2. /\ pend' \in [Servers -> Seq(Clients)]
        /\ conn' \in [Clients -> {"none", "pending", "open", "eof", "reset", "closed"}]
        /\ sock' \in [Servers -> {"none", "bound", "listening", "closed"}]
        /\ UNCHANGED <<path, buf>>
    BY <2>1 DEF CloseListening, TypeInv, TypeOK
  <2> QED BY <1>1, <2>1, <2>2 DEF Go, TypeInv, TypeOK, Accepted
<1>9. CASE ServerReturn(s)
  <2>1. conn' \in [Clients -> {"none", "pending", "open", "eof", "reset", "closed"}]
    BY <1>9 DEF ServerReturn, CloseAccepted, TypeInv, TypeOK
  <2> QED BY <1>1, <1>9, <2>1
          DEF ServerReturn, CloseAccepted, Go, TypeInv, TypeOK, Accepted
<1> QED BY <1>2, <1>3, <1>4, <1>5, <1>6, <1>7, <1>8, <1>9 DEF Server

LEMMA ClientTypes ==
  ASSUME TypeInv, NEW c \in Clients, ClientConnect(c) \/ Client(c) \/ ClientKilled(c)
  PROVE  TypeInv'
<1>1. c \in Programs /\ c \notin Servers /\ Size \in Nat
  BY PairAssumption DEF Programs
<1>2. CASE ClientConnect(c)
  <2>1. CASE Connect(c) /\ Go(c, "none", "read")
    <3>1. path \in Servers /\ Append(pend[path], c) \in Seq(Clients)
      BY <2>1, KernelTypes DEF Connect, ConnectFails
    <3>2. /\ pend' \in [Servers -> Seq(Clients)]
          /\ conn' \in [Clients -> {"none", "pending", "open", "eof", "reset", "closed"}]
      BY <2>1, <3>1 DEF Connect, TypeInv, TypeOK
    <3> QED BY <1>1, <1>2, <2>1, <3>2
            DEF ClientConnect, Connect, Go, TypeInv, TypeOK, Accepted
  <2>2. CASE Go(c, "none", "exit1") /\ UNCHANGED kernel
    BY <1>1, <1>2, <2>2 DEF ClientConnect, Go, kernel, TypeInv, TypeOK, Accepted
  <2> QED BY <1>2, <2>1, <2>2 DEF ClientConnect
<1>3. CASE ClientRead(c)
  <2>1. Readable(c, Size) \in Nat /\ buf[c] - Readable(c, Size) \in 0 .. Room
    <3>1. buf[c] \in 0 .. Room /\ Room \in Nat
      BY PairAssumption DEF TypeInv, TypeOK
    <3> QED BY <1>1, <3>1 DEF Readable
  <2>2. buf' \in [Clients -> 0 .. Room] /\ got' \in [Clients -> Nat]
    BY <1>3, <2>1 DEF ClientRead, Read, TypeInv, TypeOK
  <2> QED BY <1>3, <2>2 DEF ClientRead, Read, TypeInv, TypeOK, Accepted
<1>4. CASE ClientClose(c) \/ ClientKilled(c)
  <2>1. /\ CloseClient(c) /\ UNCHANGED <<clifd, left, total, got>>
        /\ \E next \in {"ended", "killed"} : Go(c, "read", next)
    BY <1>4 DEF ClientClose, ClientKilled
  <2>2. 0 \in 0 .. Room
    BY PairAssumption
  <2>3. /\ conn' \in [Clients -> {"none", "pending", "open", "eof", "reset", "closed"}]
        /\ buf' \in [Clients -> 0 .. Room] /\ UNCHANGED <<path, sock, pend>>
    BY <2>1, <2>2 DEF CloseClient, TypeInv, TypeOK
  <2> QED BY <1>1, <2>1, <2>3 DEF Go, TypeInv, TypeOK, Accepted
<1> QED BY <1>2, <1>3, <1>4 DEF Client

LEMMA LoopbackTypes ==
  ASSUME TypeInv, NEW p \in LoopbackServers \cup LoopbackClients,
         LoopbackConstruct(p) \/ LoopbackInit(p) \/ LoopbackConnect(p)
  PROVE  TypeInv'
<1>1. p \in Programs /\ p \notin Servers
  BY PairAssumption DEF Programs
<1>2. /\ \E from, next \in {"none", "bind", "exit1"} : Go(p, from, next)
      /\ path' = NoSock \/ path' = path
      /\ UNCHANGED <<sock, pend, conn, buf, clifd, left, total, got>>
  BY DEF LoopbackConstruct, LoopbackInit, LoopbackConnect, kernel
<1> QED BY <1>1, <1>2 DEF Go, TypeInv, TypeOK, Accepted

(* The types, for any number of programs: in particular no connection      *)
(* ever holds more than it has room for (AF_UNIX_server.cpp:121-124).       *)
THEOREM PairTypes == Spec => []TypeOK
<1>1. Init => TypeInv
  BY PairAssumption DEF Init, KernelInit, TypeInv, TypeOK, Accepted, Programs
<1>2. TypeInv /\ [Next]_vars => TypeInv'
  <2> SUFFICES ASSUME TypeInv, [Next]_vars PROVE TypeInv'
    OBVIOUS
  <2>1. CASE UNCHANGED vars
    BY <2>1 DEF vars, kernel, TypeInv, TypeOK, Accepted
  <2> QED BY <2>1, ServerTypes, ClientTypes, LoopbackTypes DEF Next
<1>3. TypeInv => TypeOK
  BY DEF TypeInv
<1> QED BY <1>1, <1>2, <1>3, PTL DEF Spec

-----------------------------------------------------------------------------
(* What is written arrives.  The argument: a client waits at one place of  *)
(* one queue, and has nothing as long (Queued); it is accepted from there  *)
(* by one server, and its read fails only if it is not (Taken).            *)
Early == {"none", "bind", "listen", "accept"}

At(s, i, c) == i \in DOMAIN pend[s] /\ pend[s][i] = c

QueuedOnce ==
  \A c \in Clients, r, s \in Servers : \A i \in DOMAIN pend[r], j \in DOMAIN pend[s] :
    At(r, i, c) /\ At(s, j, c) => r = s /\ i = j

Queued ==
  \A c \in Clients, s \in Servers : \A i \in DOMAIN pend[s] : At(s, i, c) =>
    /\ got[c] = 0 /\ buf[c] = 0
    /\ (pc[c] = "read" /\ conn[c] = "pending") \/ pc[c] = "killed"
    /\ \A r \in Servers : clifd[r] # c

Taken ==
  \A c \in Clients, s \in Servers : clifd[s] = c =>
    /\ (pc[c] = "read" /\ conn[c] \in {"open", "eof"}) \/ pc[c] = "killed"
    /\ \A r \in Servers : clifd[r] = c => r = s

Fresh ==
  /\ \A c \in Clients : pc[c] = "none" => got[c] = 0 /\ buf[c] = 0
  /\ \A s \in Servers : pc[s] \in Early => total[s] = 0

Places == QueuedOnce /\ Queued /\ Taken

FlowInv == TypeInv /\ Places /\ Fresh /\ NothingIsLost

(* The steps that move neither a connection nor data.                      *)
LEMMA IdleKeeps ==
  ASSUME FlowInv, UNCHANGED <<pend, conn, buf, clifd, left, total, got>>,
         \A s \in Servers : pc'[s] \in Early => pc[s] \in Early,
         \A c \in Clients : pc'[c] = pc[c] \/ (pc[c] = "none" /\ pc'[c] # "none")
  PROVE  Places' /\ Fresh' /\ NothingIsLost'
<1>1. QueuedOnce'
  BY DEF FlowInv, Places, QueuedOnce, At
<1>2. Queued' /\ Taken'
  BY DEF FlowInv, Places, Queued, Taken, At
<1>3. Fresh'
  BY DEF FlowInv, Fresh
<1>4. NothingIsLost'
  <2> SUFFICES ASSUME NEW s \in Servers, NEW c \in Clients, clifd[s] = c, pc'[c] # "killed"
               PROVE  got[c] + buf[c] + left[s] = total[s] + Size
    BY DEF NothingIsLost
  <2>1. pc[c] # "killed"
    BY DEF FlowInv, Places, Taken
  <2> QED BY <2>1 DEF FlowInv, NothingIsLost
<1> QED BY <1>1, <1>2, <1>3, <1>4 DEF Places

(* What the program of a server leaves alone.                              *)
LEMMA ServerAlone ==
  ASSUME TypeInv, NEW s \in Servers, NEW from, NEW next, Go(s, from, next)
  PROVE  /\ pc[s] = from /\ pc'[s] = next
         /\ \A r \in Servers \ {s} : pc'[r] = pc[r]
         /\ \A c \in Clients : pc'[c] = pc[c]
<1>1. s \in Programs /\ s \notin Clients /\ DOMAIN pc = Programs
      /\ Clients \subseteq Programs /\ Servers \subseteq Programs
  BY PairAssumption DEF Programs, TypeInv, TypeOK
<1> QED BY <1>1 DEF Go

(* accept gives the connection to one server, and it leaves the queue.     *)
LEMMA ConnectFlows ==
  ASSUME FlowInv, NEW s \in Servers, ServerConnect(s)
  PROVE  Places' /\ Fresh' /\ NothingIsLost'
<1> DEFINE o == Oldest(s)
<1>1. /\ pend[s] # <<>> /\ pend' = [pend EXCEPT ![s] = Tail(@)]
      /\ conn' = [conn EXCEPT ![o] = IF @ = "pending" THEN "open" ELSE @]
      /\ clifd' = [clifd EXCEPT ![s] = o] /\ left' = [left EXCEPT ![s] = Size]
      /\ buf' = buf /\ total' = total /\ got' = got
  BY DEF ServerConnect, Accept
<1>2. /\ pc[s] = "accept" /\ pc'[s] = "write"
      /\ \A r \in Servers \ {s} : pc'[r] = pc[r]
      /\ \A c \in Clients : pc'[c] = pc[c]
  BY ServerAlone DEF ServerConnect, FlowInv
<1>3. /\ o \in Clients /\ At(s, 1, o) /\ 1 \in DOMAIN pend[s]
      /\ pend \in [Servers -> Seq(Clients)]
  <2>1. pend \in [Servers -> Seq(Clients)] /\ o \in Clients
    BY <1>1, KernelTypes DEF FlowInv, TypeInv, TypeOK
  <2>2. pend[s] \in Seq(Clients) /\ pend[s] # <<>>
    BY <1>1, <2>1
  <2>3. 1 \in DOMAIN pend[s] /\ pend[s][1] = o
    BY <2>2 DEF Oldest
  <2> QED BY <2>1, <2>3 DEF At
<1>4. /\ got[o] = 0 /\ buf[o] = 0
      /\ (pc[o] = "read" /\ conn[o] = "pending") \/ pc[o] = "killed"
      /\ \A r \in Servers : clifd[r] # o
  BY <1>3 DEF FlowInv, Places, Queued
<1>5. /\ \A r \in Servers \ {s} : pend'[r] = pend[r] /\ clifd'[r] = clifd[r]
                                  /\ left'[r] = left[r]
      /\ pend'[s] = Tail(pend[s]) /\ clifd'[s] = o /\ left'[s] = Size
      /\ \A c \in Clients \ {o} : conn'[c] = conn[c]
      /\ conn'[o] = IF conn[o] = "pending" THEN "open" ELSE conn[o]
  BY <1>1, <1>3 DEF FlowInv, TypeInv, TypeOK
<1>6. ASSUME NEW r \in Servers, NEW i \in DOMAIN pend'[r], NEW c \in Clients, At(r, i, c)'
      PROVE  /\ c # o
             /\ \E j \in DOMAIN pend[r] : At(r, j, c) /\ j = IF r = s THEN i + 1 ELSE i
  <2>1. CASE r # s
    <3>1. i \in DOMAIN pend[r] /\ At(r, i, c)
      BY <1>5, <1>6, <2>1 DEF At
    <3>2. c # o
      BY <1>3, <2>1, <3>1 DEF FlowInv, Places, QueuedOnce
    <3> QED BY <2>1, <3>1, <3>2
  <2>2. CASE r = s
    <3>1. /\ i \in 1 .. Len(Tail(pend[s])) /\ Tail(pend[s])[i] = c
          /\ pend[s] \in Seq(Clients) /\ pend[s] # <<>>
      BY <1>1, <1>3, <1>5, <1>6, <2>2 DEF At
    <3>2. i + 1 \in DOMAIN pend[s] /\ pend[s][i + 1] = c /\ i + 1 # 1
      BY <3>1
    <3>3. At(s, i + 1, c)
      BY <3>2 DEF At
    <3>4. c # o
      BY <1>3, <3>2, <3>3 DEF FlowInv, Places, QueuedOnce
    <3> QED BY <2>2, <3>2, <3>3, <3>4
  <2> QED BY <2>1, <2>2
<1>7. QueuedOnce'
  <2> SUFFICES ASSUME NEW c \in Clients, NEW r \in Servers, NEW t \in Servers,
                      NEW i \in DOMAIN pend'[r], NEW j \in DOMAIN pend'[t],
                      At(r, i, c)', At(t, j, c)'
               PROVE  r = t /\ i = j
    BY DEF QueuedOnce
  <2>1. PICK k \in DOMAIN pend[r] : At(r, k, c) /\ k = IF r = s THEN i + 1 ELSE i
    BY <1>6
  <2>2. PICK l \in DOMAIN pend[t] : At(t, l, c) /\ l = IF t = s THEN j + 1 ELSE j
    BY <1>6
  <2>3. r = t /\ k = l
    BY <2>1, <2>2 DEF FlowInv, Places, QueuedOnce
  <2>4. pend' \in [Servers -> Seq(Clients)]
    BY <1>1, <1>3, KernelTypes DEF FlowInv
  <2>5. i \in Nat /\ j \in Nat
    BY <2>4
  <2> QED BY <2>1, <2>2, <2>3, <2>5
<1>8. Queued'
  <2> SUFFICES ASSUME NEW c \in Clients, NEW r \in Servers,
                      NEW i \in DOMAIN pend'[r], At(r, i, c)'
               PROVE  /\ got[c] = 0 /\ buf[c] = 0
                      /\ (pc'[c] = "read" /\ conn'[c] = "pending") \/ pc'[c] = "killed"
                      /\ \A t \in Servers : clifd'[t] # c
    BY <1>1 DEF Queued
  <2>1. c # o /\ \E j \in DOMAIN pend[r] : At(r, j, c)
    BY <1>6
  <2>2. /\ got[c] = 0 /\ buf[c] = 0
        /\ (pc[c] = "read" /\ conn[c] = "pending") \/ pc[c] = "killed"
        /\ \A t \in Servers : clifd[t] # c
    BY <2>1 DEF FlowInv, Places, Queued
  <2> QED BY <1>2, <1>5, <2>1, <2>2
<1>9. Taken'
  <2> SUFFICES ASSUME NEW c \in Clients, NEW r \in Servers, clifd'[r] = c
               PROVE  /\ \/ pc'[c] = "read" /\ conn'[c] \in {"open", "eof"}
                         \/ pc'[c] = "killed"
                      /\ \A t \in Servers : clifd'[t] = c => t = r
    BY DEF Taken
  <2>1. CASE r = s
    BY <1>2, <1>4, <1>5, <2>1
  <2>2. CASE r # s
    <3>1. clifd[r] = c /\ c # o
      BY <1>4, <1>5, <2>2
    <3>2. /\ (pc[c] = "read" /\ conn[c] \in {"open", "eof"}) \/ pc[c] = "killed"
          /\ \A t \in Servers : clifd[t] = c => t = r
      BY <3>1 DEF FlowInv, Places, Taken
    <3> QED BY <1>2, <1>5, <3>1, <3>2
  <2> QED BY <2>1, <2>2
<1>10. Fresh'
  <2>1. "write" \notin Early
    BY DEF Early
  <2> QED BY <1>1, <1>2, <2>1 DEF FlowInv, Fresh
<1>11. NothingIsLost'
  <2> SUFFICES ASSUME NEW r \in Servers, NEW c \in Clients, clifd'[r] = c, pc'[c] # "killed"
               PROVE  got[c] + buf[c] + left'[r] = total[r] + Size
    BY <1>1 DEF NothingIsLost
  <2>1. CASE r = s
    <3>1. total[s] = 0
      BY <1>2 DEF FlowInv, Fresh, Early
    <3> QED BY <1>4, <1>5, <2>1, <3>1, PairAssumption
  <2>2. CASE r # s
    BY <1>2, <1>5, <2>2 DEF FlowInv, NothingIsLost
  <2> QED BY <2>1, <2>2
<1> QED BY <1>7, <1>8, <1>9, <1>10, <1>11 DEF Places

(* A unit is written, and a call of write returns.                         *)
LEMMA WriteFlows ==
  ASSUME FlowInv, NEW s \in Servers, ServerWriteUnit(s)
  PROVE  Places' /\ Fresh' /\ NothingIsLost'
<1> DEFINE o == clifd[s]
<1>1. /\ pc[s] = "write" /\ conn[o] = "open" /\ o \in Clients
      /\ buf' = [buf EXCEPT ![o] = @ + 1] /\ left' = [left EXCEPT ![s] = @ - 1]
      /\ UNCHANGED <<pc, pend, conn, clifd, total, got>>
  BY DEF ServerWriteUnit, Write, FlowInv, TypeInv, Accepted
<1>2. /\ buf'[o] = buf[o] + 1 /\ left'[s] = left[s] - 1
      /\ \A c \in Clients \ {o} : buf'[c] = buf[c]
      /\ \A r \in Servers \ {s} : left'[r] = left[r]
  BY <1>1 DEF FlowInv, TypeInv, TypeOK
<1>3. /\ (pc[o] = "read" /\ conn[o] \in {"open", "eof"}) \/ pc[o] = "killed"
      /\ \A r \in Servers : clifd[r] = o => r = s
  BY <1>1 DEF FlowInv, Places, Taken
<1>4. QueuedOnce' /\ Taken'
  BY <1>1 DEF FlowInv, Places, QueuedOnce, Taken, At
<1>5. Queued'
  BY <1>1, <1>2 DEF FlowInv, Places, Queued, At
<1>6. Fresh'
  BY <1>1, <1>2, <1>3 DEF FlowInv, Fresh
<1>7. NothingIsLost'
  <2> SUFFICES ASSUME NEW r \in Servers, NEW c \in Clients, clifd[r] = c, pc[c] # "killed"
               PROVE  got[c] + buf'[c] + left'[r] = total[r] + Size
    BY <1>1 DEF NothingIsLost
  <2>1. got[c] + buf[c] + left[r] = total[r] + Size
    BY DEF FlowInv, NothingIsLost
  <2>2. /\ got[c] \in Nat /\ buf[c] \in 0 .. Room /\ left[r] \in 0 .. Size
        /\ total[r] \in Nat /\ Size \in Nat /\ Room \in Nat
    BY PairAssumption DEF FlowInv, TypeInv, TypeOK
  <2>3. CASE r = s
    BY <1>2, <2>1, <2>2, <2>3
  <2>4. CASE r # s
    <3>1. c # o
      BY <1>3, <2>4
    <3> QED BY <1>2, <2>1, <2>4, <3>1
  <2> QED BY <2>3, <2>4
<1> QED BY <1>4, <1>5, <1>6, <1>7 DEF Places

LEMMA ReturnFlows ==
  ASSUME FlowInv, NEW s \in Servers, ServerWriteReturns(s)
  PROVE  Places' /\ Fresh' /\ NothingIsLost'
<1>1. /\ left[s] = 0 /\ UNCHANGED <<pend, conn, buf, clifd, got>>
      /\ total' = [total EXCEPT ![s] = @ + Size] /\ left' = [left EXCEPT ![s] = Size]
      /\ \E next \in {"write", "close"} : Go(s, "write", next)
  BY DEF ServerWriteReturns, kernel
<1>2. /\ pc[s] = "write" /\ pc'[s] \in {"write", "close"}
      /\ \A r \in Servers \ {s} : pc'[r] = pc[r]
      /\ \A c \in Clients : pc'[c] = pc[c]
  BY <1>1, ServerAlone DEF FlowInv
<1>3. /\ left'[s] = Size /\ total'[s] = total[s] + Size
      /\ \A r \in Servers \ {s} : left'[r] = left[r] /\ total'[r] = total[r]
  BY <1>1 DEF FlowInv, TypeInv, TypeOK
<1>4. QueuedOnce' /\ Queued' /\ Taken'
  BY <1>1, <1>2 DEF FlowInv, Places, QueuedOnce, Queued, Taken, At
<1>5. Fresh'
  BY <1>1, <1>2, <1>3 DEF FlowInv, Fresh, Early
<1>6. NothingIsLost'
  <2> SUFFICES ASSUME NEW r \in Servers, NEW c \in Clients, clifd[r] = c, pc[c] # "killed"
               PROVE  got[c] + buf[c] + left'[r] = total'[r] + Size
    BY <1>1, <1>2 DEF NothingIsLost
  <2>1. got[c] + buf[c] + left[r] = total[r] + Size
    BY DEF FlowInv, NothingIsLost
  <2>2. got[c] \in Nat /\ buf[c] \in 0 .. Room /\ total[r] \in Nat /\ Size \in Nat /\ Room \in Nat
    BY PairAssumption DEF FlowInv, TypeInv, TypeOK
  <2> QED BY <1>1, <1>3, <2>1, <2>2
<1> QED BY <1>4, <1>5, <1>6 DEF Places

(* close of the listening socket resets only connections that wait for     *)
(* this server; those of others, and the one it has accepted, go on.       *)
LEMMA CloseFlows ==
  ASSUME FlowInv, NEW s \in Servers, ServerClose(s) \/ ServerKilled(s)
  PROVE  Places' /\ Fresh' /\ NothingIsLost'
<1>1. /\ CloseListening(s) /\ UNCHANGED <<clifd, left, total, got>>
      /\ \E from \in {"close", "write"}, next \in {"return", "killed"} : Go(s, from, next)
  BY DEF ServerClose, ServerKilled
<1>2. /\ pc'[s] \in {"return", "killed"}
      /\ \A r \in Servers \ {s} : pc'[r] = pc[r]
      /\ \A c \in Clients : pc'[c] = pc[c]
  BY <1>1, ServerAlone DEF FlowInv
<1>3. pend'[s] = <<>> /\ \A r \in Servers \ {s} : pend'[r] = pend[r]
  BY <1>1 DEF CloseListening, FlowInv, TypeInv, TypeOK
<1>4. /\ buf' = buf
      /\ \A c \in Clients : conn'[c] = conn[c] \/ \E i \in DOMAIN pend[s] : At(s, i, c)
  BY <1>1 DEF CloseListening, At
<1>5. \A r \in Servers, c \in Clients : \A i \in DOMAIN pend'[r] :
        At(r, i, c)' => r # s /\ i \in DOMAIN pend[r] /\ At(r, i, c)
  BY <1>3 DEF At
<1>6. QueuedOnce'
  BY <1>3, <1>5 DEF FlowInv, Places, QueuedOnce
<1>7. Queued'
  <2> SUFFICES ASSUME NEW c \in Clients, NEW r \in Servers,
                      NEW i \in DOMAIN pend'[r], At(r, i, c)'
               PROVE  /\ got[c] = 0 /\ buf[c] = 0
                      /\ (pc[c] = "read" /\ conn'[c] = "pending") \/ pc[c] = "killed"
                      /\ \A t \in Servers : clifd[t] # c
    BY <1>1, <1>2, <1>4 DEF Queued
  <2>1. r # s /\ i \in DOMAIN pend[r] /\ At(r, i, c)
    BY <1>5
  <2>2. conn'[c] = conn[c]
    BY <1>4, <2>1 DEF FlowInv, Places, QueuedOnce
  <2> QED BY <2>1, <2>2 DEF FlowInv, Places, Queued
<1>8. Taken'
  <2> SUFFICES ASSUME NEW c \in Clients, NEW r \in Servers, clifd[r] = c
               PROVE  /\ \/ pc[c] = "read" /\ conn'[c] \in {"open", "eof"}
                         \/ pc[c] = "killed"
                      /\ \A t \in Servers : clifd[t] = c => t = r
    BY <1>1, <1>2 DEF Taken
  <2>1. conn'[c] = conn[c]
    BY <1>4 DEF FlowInv, Places, Queued
  <2> QED BY <2>1 DEF FlowInv, Places, Taken
<1>9. Fresh'
  BY <1>1, <1>2, <1>4 DEF FlowInv, Fresh, Early
<1>10. NothingIsLost'
  BY <1>1, <1>2, <1>4 DEF FlowInv, NothingIsLost
<1> QED BY <1>6, <1>7, <1>8, <1>9, <1>10 DEF Places

(* The end of the server: its client reads what is left, then 0.           *)
LEMMA EndFlows ==
  ASSUME FlowInv, NEW s \in Servers, ServerReturn(s)
  PROVE  Places' /\ Fresh' /\ NothingIsLost'
<1>1. /\ conn' = [conn EXCEPT ![clifd[s]] = IF @ = "open" THEN "eof" ELSE @]
      /\ UNCHANGED <<pend, buf, clifd, left, total, got>>
      /\ clifd[s] \in Clients
  BY DEF ServerReturn, CloseAccepted, Go, FlowInv, TypeInv, Accepted
<1>2. /\ pc'[s] = "ended"
      /\ \A r \in Servers \ {s} : pc'[r] = pc[r]
      /\ \A c \in Clients : pc'[c] = pc[c]
  BY ServerAlone DEF ServerReturn, FlowInv
<1>3. /\ \A c \in Clients \ {clifd[s]} : conn'[c] = conn[c]
      /\ conn'[clifd[s]] = IF conn[clifd[s]] = "open" THEN "eof" ELSE conn[clifd[s]]
  BY <1>1 DEF FlowInv, TypeInv, TypeOK
<1>4. QueuedOnce'
  BY <1>1 DEF FlowInv, Places, QueuedOnce, At
<1>5. Queued'
  BY <1>1, <1>2, <1>3 DEF FlowInv, Places, Queued, At
<1>6. Taken'
  BY <1>1, <1>2, <1>3 DEF FlowInv, Places, Taken
<1>7. Fresh' /\ NothingIsLost'
  BY <1>1, <1>2 DEF FlowInv, Fresh, NothingIsLost, Early
<1> QED BY <1>4, <1>5, <1>6, <1>7 DEF Places

(* What the program of a client leaves alone.                              *)
LEMMA ClientAlone ==
  ASSUME TypeInv, NEW c \in Clients, NEW from, NEW next, Go(c, from, next)
  PROVE  /\ pc[c] = from /\ pc'[c] = next
         /\ \A d \in Clients \ {c} : pc'[d] = pc[d]
         /\ \A s \in Servers : pc'[s] = pc[s]
<1>1. c \in Programs /\ c \notin Servers /\ DOMAIN pc = Programs
      /\ Clients \subseteq Programs /\ Servers \subseteq Programs
  BY PairAssumption DEF Programs, TypeInv, TypeOK
<1> QED BY <1>1 DEF Go

(* A client that connects is last in one queue.                            *)
LEMMA QueueFlows ==
  ASSUME FlowInv, NEW c \in Clients, Connect(c), Go(c, "none", "read"),
         UNCHANGED <<clifd, left, total, got>>
  PROVE  Places' /\ Fresh' /\ NothingIsLost'
<1>1. /\ path \in Servers /\ pend' = [pend EXCEPT ![path] = Append(@, c)]
      /\ conn' = [conn EXCEPT ![c] = "pending"] /\ buf' = buf
  BY DEF Connect, ConnectFails
<1>2. /\ pc[c] = "none" /\ pc'[c] = "read"
      /\ \A d \in Clients \ {c} : pc'[d] = pc[d]
      /\ \A s \in Servers : pc'[s] = pc[s]
  BY ClientAlone DEF FlowInv
<1>3. /\ \A r \in Servers \ {path} : pend'[r] = pend[r]
      /\ pend'[path] = Append(pend[path], c) /\ pend[path] \in Seq(Clients)
      /\ conn'[c] = "pending" /\ \A d \in Clients \ {c} : conn'[d] = conn[d]
  BY <1>1 DEF FlowInv, TypeInv, TypeOK
<1>4. /\ got[c] = 0 /\ buf[c] = 0
      /\ \A r \in Servers : clifd[r] # c
      /\ \A r \in Servers : \A i \in DOMAIN pend[r] : ~At(r, i, c)
  <2>1. got[c] = 0 /\ buf[c] = 0
    BY <1>2 DEF FlowInv, Fresh
  <2>2. \A r \in Servers : clifd[r] # c
    BY <1>2 DEF FlowInv, Places, Taken
  <2>3. \A r \in Servers : \A i \in DOMAIN pend[r] : ~At(r, i, c)
    BY <1>2 DEF FlowInv, Places, Queued
  <2> QED BY <2>1, <2>2, <2>3
<1>5. ASSUME NEW r \in Servers, NEW i \in DOMAIN pend'[r], NEW d \in Clients, At(r, i, d)'
      PROVE  \/ i \in DOMAIN pend[r] /\ At(r, i, d) /\ d # c
             \/ r = path /\ i = Len(pend[path]) + 1 /\ d = c
  <2>1. CASE r # path
    BY <1>3, <1>4, <1>5, <2>1 DEF At
  <2>2. CASE r = path
    <3>1. \/ i \in DOMAIN pend[path] /\ pend[path][i] = d
          \/ i = Len(pend[path]) + 1 /\ d = c
      BY <1>3, <1>5, <2>2 DEF At
    <3> QED BY <1>4, <2>2, <3>1 DEF At
  <2> QED BY <2>1, <2>2
<1>6. QueuedOnce'
  <2> SUFFICES ASSUME NEW d \in Clients, NEW r \in Servers, NEW t \in Servers,
                      NEW i \in DOMAIN pend'[r], NEW j \in DOMAIN pend'[t],
                      At(r, i, d)', At(t, j, d)'
               PROVE  r = t /\ i = j
    BY DEF QueuedOnce
  <2>1. CASE d = c
    BY <1>5, <2>1
  <2>2. CASE d # c
    BY <1>5, <2>2 DEF FlowInv, Places, QueuedOnce
  <2> QED BY <2>1, <2>2
<1>7. Queued'
  <2> SUFFICES ASSUME NEW d \in Clients, NEW r \in Servers,
                      NEW i \in DOMAIN pend'[r], At(r, i, d)'
               PROVE  /\ got[d] = 0 /\ buf[d] = 0
                      /\ (pc'[d] = "read" /\ conn'[d] = "pending") \/ pc'[d] = "killed"
                      /\ \A t \in Servers : clifd[t] # d
    BY <1>1 DEF Queued
  <2>1. CASE d = c
    BY <1>2, <1>3, <1>4, <2>1
  <2>2. CASE d # c
    <3>1. i \in DOMAIN pend[r] /\ At(r, i, d)
      BY <1>5, <2>2
    <3> QED BY <1>2, <1>3, <2>2, <3>1 DEF FlowInv, Places, Queued
  <2> QED BY <2>1, <2>2
<1>8. Taken' /\ NothingIsLost'
  BY <1>1, <1>2, <1>3, <1>4 DEF FlowInv, Places, Taken, NothingIsLost
<1>9. Fresh'
  BY <1>1, <1>2 DEF FlowInv, Fresh
<1> QED BY <1>6, <1>7, <1>8, <1>9 DEF Places

(* read moves data from the connection to the client.                      *)
LEMMA ReadFlows ==
  ASSUME FlowInv, NEW c \in Clients, ClientRead(c)
  PROVE  Places' /\ Fresh' /\ NothingIsLost'
<1> DEFINE n == Readable(c, Size)
<1>1. /\ pc[c] = "read" /\ buf[c] > 0
      /\ buf' = [buf EXCEPT ![c] = @ - n] /\ got' = [got EXCEPT ![c] = @ + n]
      /\ UNCHANGED <<pc, pend, conn, clifd, left, total>>
  BY DEF ClientRead, Read
<1>2. /\ buf'[c] = buf[c] - n /\ got'[c] = got[c] + n
      /\ \A d \in Clients \ {c} : buf'[d] = buf[d] /\ got'[d] = got[d]
  BY <1>1 DEF FlowInv, TypeInv, TypeOK
<1>3. /\ buf[c] \in 0 .. Room /\ got[c] \in Nat /\ Room \in Nat
      /\ n \in Nat /\ buf[c] # 0
  BY <1>1, PairAssumption DEF FlowInv, TypeInv, TypeOK, Readable
<1>4. got'[c] + buf'[c] = got[c] + buf[c]
  BY <1>2, <1>3
<1>5. QueuedOnce' /\ Taken'
  BY <1>1 DEF FlowInv, Places, QueuedOnce, Taken, At
<1>6. Queued'
  <2> SUFFICES ASSUME NEW d \in Clients, NEW r \in Servers,
                      NEW i \in DOMAIN pend[r], At(r, i, d)
               PROVE  /\ got'[d] = 0 /\ buf'[d] = 0
                      /\ (pc[d] = "read" /\ conn[d] = "pending") \/ pc[d] = "killed"
                      /\ \A t \in Servers : clifd[t] # d
    BY <1>1 DEF Queued, At
  <2>1. d # c
    BY <1>3 DEF FlowInv, Places, Queued
  <2> QED BY <1>2, <2>1 DEF FlowInv, Places, Queued
<1>7. Fresh'
  BY <1>1, <1>2 DEF FlowInv, Fresh
<1>8. NothingIsLost'
  BY <1>1, <1>2, <1>4 DEF FlowInv, NothingIsLost
<1> QED BY <1>5, <1>6, <1>7, <1>8 DEF Places

(* A client ends: by itself only if no server has accepted it.             *)
LEMMA LeaveFlows ==
  ASSUME FlowInv, NEW c \in Clients, ClientClose(c) \/ ClientKilled(c)
  PROVE  Places' /\ Fresh' /\ NothingIsLost'
<1>1. /\ conn' = [conn EXCEPT ![c] = "closed"] /\ buf' = [buf EXCEPT ![c] = 0]
      /\ UNCHANGED <<pend, clifd, left, total, got>>
      /\ \/ Go(c, "read", "killed")
         \/ Go(c, "read", "ended") /\ conn[c] = "reset"
  BY DEF ClientClose, ClientKilled, CloseClient, ReadReset
<1>2. /\ pc[c] = "read"
      /\ pc'[c] = "killed" \/ (pc'[c] = "ended" /\ conn[c] = "reset")
      /\ \A d \in Clients \ {c} : pc'[d] = pc[d]
      /\ \A s \in Servers : pc'[s] = pc[s]
  <2>1. PICK next \in {"killed", "ended"} :
          Go(c, "read", next) /\ (next = "killed" \/ conn[c] = "reset")
    BY <1>1
  <2> QED BY <2>1, ClientAlone DEF FlowInv
<1>3. /\ buf'[c] = 0
      /\ \A d \in Clients \ {c} : conn'[d] = conn[d] /\ buf'[d] = buf[d]
  BY <1>1 DEF FlowInv, TypeInv, TypeOK
<1>4. QueuedOnce'
  BY <1>1 DEF FlowInv, Places, QueuedOnce, At
<1>5. Queued'
  <2> SUFFICES ASSUME NEW d \in Clients, NEW r \in Servers,
                      NEW i \in DOMAIN pend[r], At(r, i, d)
               PROVE  /\ got[d] = 0 /\ buf'[d] = 0
                      /\ (pc'[d] = "read" /\ conn'[d] = "pending") \/ pc'[d] = "killed"
                      /\ \A t \in Servers : clifd[t] # d
    BY <1>1 DEF Queued, At
  <2>1. /\ got[d] = 0 /\ buf[d] = 0
        /\ (pc[d] = "read" /\ conn[d] = "pending") \/ pc[d] = "killed"
        /\ \A t \in Servers : clifd[t] # d
    BY DEF FlowInv, Places, Queued
  <2> QED BY <1>2, <1>3, <2>1
<1>6. Taken'
  <2> SUFFICES ASSUME NEW d \in Clients, NEW r \in Servers, clifd[r] = d
               PROVE  /\ \/ pc'[d] = "read" /\ conn'[d] \in {"open", "eof"}
                         \/ pc'[d] = "killed"
                      /\ \A t \in Servers : clifd[t] = d => t = r
    BY <1>1 DEF Taken
  <2>1. /\ (pc[d] = "read" /\ conn[d] \in {"open", "eof"}) \/ pc[d] = "killed"
        /\ \A t \in Servers : clifd[t] = d => t = r
    BY DEF FlowInv, Places, Taken
  <2> QED BY <1>2, <1>3, <2>1
<1>7. Fresh'
  BY <1>1, <1>2, <1>3 DEF FlowInv, Fresh
<1>8. NothingIsLost'
  <2> SUFFICES ASSUME NEW s \in Servers, NEW d \in Clients, clifd[s] = d, pc'[d] # "killed"
               PROVE  got[d] + buf'[d] + left[s] = total[s] + Size
    BY <1>1 DEF NothingIsLost
  <2>1. d # c
    <3>1. pc[d] = "killed" \/ conn[d] \in {"open", "eof"}
      BY DEF FlowInv, Places, Taken
    <3> QED BY <1>2, <3>1
  <2> QED BY <1>2, <1>3, <2>1 DEF FlowInv, NothingIsLost
<1> QED BY <1>4, <1>5, <1>6, <1>7, <1>8 DEF Places

LEMMA ServerFlows ==
  ASSUME FlowInv, NEW s \in Servers, ServerStart(s) \/ Server(s)
  PROVE  Places' /\ Fresh' /\ NothingIsLost'
<1>1. CASE ServerStart(s) \/ ServerBind(s) \/ ServerListen(s)
  <2>1. /\ UNCHANGED <<pend, conn, buf, clifd, left, total, got>>
        /\ \E from \in {"none", "bind", "listen"}, next \in {"bind", "listen", "accept", "exit1"} :
             Go(s, from, next)
    BY <1>1 DEF ServerStart, ServerBind, ServerListen, Construct, Bind, Listen, kernel
  <2>2. /\ pc[s] \in Early
        /\ \A r \in Servers \ {s} : pc'[r] = pc[r]
        /\ \A c \in Clients : pc'[c] = pc[c]
    <3>1. PICK from \in {"none", "bind", "listen"},
               next \in {"bind", "listen", "accept", "exit1"} : Go(s, from, next)
      BY <2>1
    <3> QED BY <3>1, ServerAlone DEF FlowInv, Early
  <2> QED BY <2>1, <2>2, IdleKeeps
<1> QED BY <1>1, ConnectFlows, WriteFlows, ReturnFlows, CloseFlows, EndFlows DEF Server

LEMMA ClientFlows ==
  ASSUME FlowInv, NEW c \in Clients, ClientConnect(c) \/ Client(c) \/ ClientKilled(c)
  PROVE  Places' /\ Fresh' /\ NothingIsLost'
<1>1. CASE ClientConnect(c)
  <2>1. CASE Connect(c) /\ Go(c, "none", "read")
    BY <1>1, <2>1, QueueFlows DEF ClientConnect
  <2>2. CASE Go(c, "none", "exit1") /\ UNCHANGED kernel
    <3>1. UNCHANGED <<pend, conn, buf, clifd, left, total, got>>
      BY <1>1, <2>2 DEF ClientConnect, kernel
    <3>2. /\ pc[c] = "none" /\ pc'[c] = "exit1"
          /\ \A d \in Clients \ {c} : pc'[d] = pc[d]
          /\ \A s \in Servers : pc'[s] = pc[s]
      BY <2>2, ClientAlone DEF FlowInv
    <3> QED BY <3>1, <3>2, IdleKeeps
  <2> QED BY <1>1, <2>1, <2>2 DEF ClientConnect
<1> QED BY <1>1, ReadFlows, LeaveFlows DEF Client

LEMMA LoopbackFlows ==
  ASSUME FlowInv, NEW p \in LoopbackServers \cup LoopbackClients,
         LoopbackConstruct(p) \/ LoopbackInit(p) \/ LoopbackConnect(p)
  PROVE  Places' /\ Fresh' /\ NothingIsLost'
<1>1. p \notin Servers /\ p \notin Clients /\ DOMAIN pc = Programs
  BY PairAssumption DEF FlowInv, TypeInv, TypeOK
<1>2. /\ \E next \in {"bind", "exit1"} : pc' = [pc EXCEPT ![p] = next]
      /\ UNCHANGED <<pend, conn, buf, clifd, left, total, got>>
  BY DEF LoopbackConstruct, LoopbackInit, LoopbackConnect, kernel, Go
<1>3. \A q \in Servers \cup Clients : pc'[q] = pc[q]
  BY <1>1, <1>2 DEF Programs
<1> QED BY <1>2, <1>3, IdleKeeps

(* For any number of programs, any size of the calls and of the            *)
(* connections, and clients killed at any time: what a client has read and *)
(* what is in its connection is what the server that accepted it has       *)
(* written (AF_UNIX_server.cpp:121-143, AF_UNIX_client.cpp:90-94).         *)
THEOREM NothingIsLostHolds == Spec => []NothingIsLost
<1>1. Init => FlowInv
  <2> SUFFICES ASSUME Init PROVE FlowInv
    OBVIOUS
  <2>1. TypeInv
    BY PairAssumption DEF Init, KernelInit, TypeInv, TypeOK, Accepted, Programs
  <2>2. \A s \in Servers : pend[s] = <<>> /\ clifd[s] \notin Clients /\ total[s] = 0
    BY PairAssumption DEF Init, KernelInit
  <2>3. \A c \in Clients : got[c] = 0 /\ buf[c] = 0
    BY DEF Init, KernelInit
  <2> QED BY <2>1, <2>2, <2>3
          DEF FlowInv, Places, QueuedOnce, Queued, Taken, Fresh, NothingIsLost, At
<1>2. FlowInv /\ [Next]_vars => FlowInv'
  <2> SUFFICES ASSUME FlowInv, [Next]_vars PROVE FlowInv'
    OBVIOUS
  <2>1. CASE UNCHANGED vars
    <3>1. UNCHANGED <<path, sock, pend, conn, buf, pc, clifd, left, total, got>>
      BY <2>1 DEF vars, kernel
    <3>2. TypeInv'
      BY <2>1 DEF vars, kernel, FlowInv, TypeInv, TypeOK, Accepted
    <3> QED BY <3>1, <3>2, IdleKeeps DEF FlowInv
  <2>2. CASE Next
    <3>1. TypeInv'
      BY <2>2, ServerTypes, ClientTypes, LoopbackTypes DEF Next, FlowInv
    <3>2. Places' /\ Fresh' /\ NothingIsLost'
      BY <2>2, ServerFlows, ClientFlows, LoopbackFlows DEF Next
    <3> QED BY <3>1, <3>2 DEF FlowInv
  <2> QED BY <2>1, <2>2
<1>3. FlowInv => NothingIsLost
  BY DEF FlowInv
<1> QED BY <1>1, <1>2, <1>3, PTL DEF Spec
=============================================================================
