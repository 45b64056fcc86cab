---------------------------- MODULE C4CallProofs ----------------------------
(***************************************************************************)
(* Proofs about the calls of C4, for every set of processes and channels   *)
(* and every way of using them: the types, and that a process never has    *)
(* two datagrams under way.                                                *)
(*                                                                         *)
(* The argument: a process that is not dead has a datagram or an answer    *)
(* under way only while it waits for it in the call that asked, and it     *)
(* makes no other call until the answer has come.  A dead process makes    *)
(* none at all.                                                            *)
(***************************************************************************)
EXTENDS C4, FiniteSetTheorems, SequenceTheorems, TLAPS

\* what iChannel() leaves out it leaves out for good
Built ==
  \A c \in Channels :
    /\ chan[c].msgrAddr = (c \notin DefaultBuilt)
    /\ c \notin DefaultBuilt => chan[c].localAddr \in Addrs

\* a process calls the operations of its own channels
Own ==
  \A p \in Procs :
    /\ call[p].op \notin {"idle", "dead"} => ProcOf[call[p].chan] = p
    /\ call[p].op = "listen" => call[p].chan \in Listeners
    /\ call[p].op = "connect" => call[p].chan \in Connectors
                                 /\ call[p].to \in ServerAddrs
    /\ call[p].op = "accept" => /\ call[p].chan \in Listeners
                                /\ call[p].new \in Acceptees
                                /\ ProcOf[call[p].new] = p

\* the datagram m is what the present call of its process has sent
SentBy(m, op, channel) ==
  \/ /\ m.mode = "SERVER_LISTEN_REQ" /\ op = "listen"
     /\ m.localAddr = channel.localAddr
  \/ /\ m.mode = "CLIENT_CONN_REQ" /\ op = "connect"
     /\ m.localAddr = channel.localAddr
  \/ m.mode \in {"CONNECT_CLOSE", "LISTEN_CLOSE"} /\ op = "close"

WellFormed(m) ==
  /\ m.mode = "SERVER_LISTEN_REQ" => m.shmId = m.port
  /\ m.mode = "CLIENT_CONN_REQ" => m.peerAddr \in ServerAddrs
  /\ m.mode = "CONNECT_CLOSE" => m.shmId = 0

Asked ==
  \A i \in DOMAIN inbox :
    LET p == inbox[i].port IN
    /\ WellFormed(inbox[i])
    /\ call[p].op # "dead" => /\ SentBy(inbox[i], call[p].op, chan[call[p].chan])
                              /\ call[p].op = "connect" =>
                                   inbox[i].peerAddr = call[p].to

Replied ==
  \A p \in Procs :
    reply[p] # NoReply /\ call[p].op # "dead" =>
      /\ call[p].op \in {"listen", "connect", "close"}
      /\ reply[p].mode = "MNGR_CONN_RES" => call[p].op = "connect"

OneEach ==
  \A i, j \in DOMAIN inbox :
    /\ reply[inbox[i].port] = NoReply
    /\ inbox[i].port = inbox[j].port => i = j

CallInv == TypeOK /\ Built /\ Own /\ Asked /\ Replied /\ OneEach

-----------------------------------------------------------------------------
LEMMA InitCallInv == Init => CallInv
<1> SUFFICES ASSUME Init PROVE CallInv
  OBVIOUS
<1> USE DEF Init, MsgrInit, FreeListInit, ChannelInit
<1>1. TypeOK
  <2>1. chan \in [Channels -> Members]
    BY ChannelAssumption DEF Members, NoId
  <2>2. /\ reply \in [Procs -> [mode : Answers, shmId : Int]]
        /\ call \in [Procs -> Calls]
    BY DEF Answers, NoReply, NoId, Calls
  <2>3. /\ free_list_ \in Seq(Int) /\ count_ \in Nat /\ nextFd \in Nat
        /\ segs \subseteq Nat
    BY FreeListAssumption
  <2> QED BY <2>1, <2>2, <2>3 DEF TypeOK
<1>2. Built
  BY ChannelAssumption DEF Built
<1>3. Own /\ Asked /\ Replied /\ OneEach
  BY DEF Own, Asked, Replied, OneEach, Idle
<1> QED BY <1>1, <1>2, <1>3 DEF CallInv

-----------------------------------------------------------------------------
(* Elements of the variables have the types of the variables' elements.    *)
LEMMA Elements ==
  ASSUME TypeOK
  PROVE  /\ \A i \in DOMAIN inbox : inbox[i] \in Datagrams
         /\ \A p \in Procs : reply[p] \in [mode : Answers, shmId : Int]
         /\ \A p \in Procs : queue[p] \in Seq(Nodes)
         /\ \A p \in Procs : call[p] \in Calls
         /\ \A c \in Channels : chan[c] \in Members /\ ProcOf[c] \in Procs
  BY SharedAssumption DEF TypeOK

(* The head of the inbox and its tail.                                     *)
LEMMA FirstDatagram ==
  ASSUME CallInv, inbox # <<>>
  PROVE  /\ pkg \in Datagrams /\ pkg = inbox[1] /\ 1 \in DOMAIN inbox
         /\ Tail(inbox) \in Seq(Datagrams)
         /\ \A i \in DOMAIN Tail(inbox) :
              /\ i + 1 \in DOMAIN inbox /\ Tail(inbox)[i] = inbox[i + 1]
              /\ i + 1 # 1 /\ i \in Nat
         /\ WellFormed(pkg)
<1>1. inbox \in Seq(Datagrams)
  BY DEF CallInv, TypeOK
<1>2. /\ Head(inbox) \in Datagrams /\ Head(inbox) = inbox[1] /\ 1 \in DOMAIN inbox
      /\ Tail(inbox) \in Seq(Datagrams)
      /\ \A i \in DOMAIN Tail(inbox) :
              i \in Nat \ {0} /\ i + 1 \in DOMAIN inbox /\ Tail(inbox)[i] = inbox[i + 1]
  BY <1>1
<1>3. WellFormed(inbox[1])
  BY <1>2 DEF CallInv, Asked
<1>4. \A i \in Nat \ {0} : i + 1 # 1
  OBVIOUS
<1> QED BY <1>2, <1>3, <1>4 DEF pkg

(* The answer to a datagram takes the place of the datagram.               *)
LEMMA AnswerKeeps ==
  ASSUME CallInv, inbox # <<>>, inbox' = Tail(inbox), UNCHANGED <<call, chan>>,
         NEW mode \in Answers, NEW shmId \in Int, Answer(mode, shmId),
         mode = "MNGR_CONN_RES" => pkg.mode = "CLIENT_CONN_REQ"
  PROVE  /\ inbox' \in Seq(Datagrams)
         /\ reply' \in [Procs -> [mode : Answers, shmId : Int]]
         /\ (Built /\ Own /\ Asked /\ Replied /\ OneEach)'
<1>1. /\ pkg.port \in Procs
      /\ reply' = [reply EXCEPT ![pkg.port] = [mode |-> mode, shmId |-> shmId]]
      /\ reply \in [Procs -> [mode : Answers, shmId : Int]]
  BY FirstDatagram DEF Datagrams, Answer, CallInv, TypeOK
<1>2. /\ \A p \in Procs \ {pkg.port} : reply'[p] = reply[p]
      /\ reply'[pkg.port] = [mode |-> mode, shmId |-> shmId]
      /\ reply' \in [Procs -> [mode : Answers, shmId : Int]]
  BY <1>1
<1>3. \A i \in DOMAIN Tail(inbox) : Tail(inbox)[i].port # pkg.port
                                     /\ Tail(inbox)[i].port \in Procs
  <2> SUFFICES ASSUME NEW i \in DOMAIN Tail(inbox)
               PROVE  Tail(inbox)[i].port # pkg.port /\ Tail(inbox)[i].port \in Procs
    OBVIOUS
  <2>1. i + 1 \in DOMAIN inbox /\ Tail(inbox)[i] = inbox[i + 1] /\ i + 1 # 1
    BY FirstDatagram
  <2>2. inbox[i + 1].port # inbox[1].port
    BY <2>1, FirstDatagram DEF CallInv, OneEach
  <2>3. inbox[i + 1].port \in Procs
    BY <2>1, Elements DEF CallInv, Datagrams
  <2> QED BY <2>1, <2>2, <2>3, FirstDatagram
<1>4. Built' /\ Own'
  BY DEF CallInv, Built, Own
<1>5. Asked'
  BY FirstDatagram DEF CallInv, Asked
<1>6. OneEach'
  <2> SUFFICES ASSUME NEW i \in DOMAIN Tail(inbox), NEW j \in DOMAIN Tail(inbox)
               PROVE  /\ reply'[Tail(inbox)[i].port] = NoReply
                      /\ Tail(inbox)[i].port = Tail(inbox)[j].port => i = j
    BY DEF OneEach
  <2>1. /\ i + 1 \in DOMAIN inbox /\ Tail(inbox)[i] = inbox[i + 1] /\ i \in Nat
        /\ j + 1 \in DOMAIN inbox /\ Tail(inbox)[j] = inbox[j + 1] /\ j \in Nat
    BY FirstDatagram
  <2>2. reply[inbox[i + 1].port] = NoReply
    BY <2>1 DEF CallInv, OneEach
  <2>3. Tail(inbox)[i].port = Tail(inbox)[j].port => i + 1 = j + 1
    BY <2>1 DEF CallInv, OneEach
  <2>4. reply'[Tail(inbox)[i].port] = reply[inbox[i + 1].port]
    <3>1. Tail(inbox)[i].port \in Procs \ {pkg.port}
      BY <1>3
    <3> QED BY <1>2, <2>1, <3>1
  <2>5. i + 1 = j + 1 => i = j
    BY <2>1
  <2> QED BY <2>2, <2>3, <2>4, <2>5
<1>7. Replied'
  <2> SUFFICES ASSUME NEW p \in Procs, reply'[p] # NoReply, call[p].op # "dead"
               PROVE  /\ call[p].op \in {"listen", "connect", "close"}
                      /\ reply'[p].mode = "MNGR_CONN_RES" => call[p].op = "connect"
    BY DEF Replied
  <2>1. CASE p # pkg.port
    BY <1>2, <2>1 DEF CallInv, Replied
  <2>2. CASE p = pkg.port
    BY <1>2, <2>2, FirstDatagram DEF CallInv, Asked, SentBy
  <2> QED BY <2>1, <2>2
<1> QED BY <1>2, <1>4, <1>5, <1>6, <1>7, FirstDatagram

(* So does a datagram that takes the manager down.                         *)
LEMMA CrashKeeps ==
  ASSUME CallInv, inbox # <<>>, inbox' = Tail(inbox), Crash,
         UNCHANGED <<alive, call, chan, use, told, taken>>
  PROVE  CallInv'
<1>1. TypeOK'
  BY FirstDatagram DEF CallInv, TypeOK, Crash, freeListVars
<1>2. (Built /\ Own /\ Replied)'
  BY DEF CallInv, Built, Own, Replied, Crash
<1>3. Asked'
  BY FirstDatagram DEF CallInv, Asked
<1>4. OneEach'
  <2> SUFFICES ASSUME NEW i \in DOMAIN Tail(inbox), NEW j \in DOMAIN Tail(inbox)
               PROVE  /\ reply[Tail(inbox)[i].port] = NoReply
                      /\ Tail(inbox)[i].port = Tail(inbox)[j].port => i = j
    BY DEF OneEach, Crash
  <2>1. /\ i + 1 \in DOMAIN inbox /\ Tail(inbox)[i] = inbox[i + 1] /\ i \in Nat
        /\ j + 1 \in DOMAIN inbox /\ Tail(inbox)[j] = inbox[j + 1] /\ j \in Nat
    BY FirstDatagram
  <2>2. reply[inbox[i + 1].port] = NoReply
    BY <2>1 DEF CallInv, OneEach
  <2>3. Tail(inbox)[i].port = Tail(inbox)[j].port => i + 1 = j + 1
    BY <2>1 DEF CallInv, OneEach
  <2> QED BY <2>1, <2>2, <2>3
<1> QED BY <1>1, <1>2, <1>3, <1>4 DEF CallInv

-----------------------------------------------------------------------------
(* An id comes from the list, or from its extension.                       *)
LEMMA GetFreeFdTypes ==
  ASSUME TypeOK, GetFreeFd
  PROVE  /\ count_' \in Nat /\ nextFd' \in Nat /\ segs' \subseteq Nat
         /\ free_list_' \in Seq(Int) /\ FreeFront \in Int
<1>1. /\ count_ \in Nat /\ nextFd \in Nat /\ segs \subseteq Nat
      /\ free_list_ \in Seq(Int)
      /\ EXTENDSIZE \in Nat \ {0} /\ FdLimit \in Nat
  BY FreeListAssumption DEF TypeOK
<1>2. CASE free_list_ # <<>>
  <2>1. Tail(free_list_) \in Seq(Int) /\ Head(free_list_) \in Int
    BY <1>1, <1>2
  <2> QED BY <1>1, <1>2, <2>1 DEF GetFreeFd, FreeFront
<1>3. CASE free_list_ = <<>>
  <2> DEFINE list == [i \in 1 .. EXTENDSIZE |-> OpenedFd(i)]
             names == {ExtendedName(i) : i \in {j \in 1 .. EXTENDSIZE : OpenedFd(j) # NoFd}}
  <2>1. \A i \in Nat : ExtendedName(i) \in Nat
    <3>1. \A i \in Nat : i * (i + 1) \in Nat
      OBVIOUS
    <3>2. \A x \in Nat : x \div 2 \in Nat
      OBVIOUS
    <3>3. \A i \in Nat : (i * (i + 1)) \div 2 \in Nat
      BY <3>1, <3>2
    <3>4. \A x, y \in Nat : x + y \in Nat
      OBVIOUS
    <3> QED BY <1>1, <3>3, <3>4, Zenon DEF ExtendedName
  <2>2. \A i \in Nat : OpenedFd(i) \in Int
    BY <1>1 DEF OpenedFd, NoFd
  <2>3. list \in Seq(Int) /\ list # <<>>
    BY <1>1, <2>2
  <2>4. names \subseteq Nat
    BY <1>1, <2>1
  <2>5. /\ free_list_' = Tail(list) /\ segs' = segs \cup names
        /\ count_' = ExtendedName(EXTENDSIZE)
    BY <1>3, Zenon DEF GetFreeFd
  <2>7. nextFd' \in Nat /\ FreeFront = OpenedFd(1)
    BY <1>1, <1>3 DEF GetFreeFd, FreeFront
  <2> HIDE DEF list, names
  <2>6. Tail(list) \in Seq(Int)
    BY <2>3
  <2> QED BY <1>1, <2>1, <2>2, <2>4, <2>5, <2>6, <2>7
<1> QED BY <1>2, <1>3

LEMMA ManagerKeeps ==
  ASSUME CallInv, Manager
  PROVE  CallInv'
<1> USE DEF Receive
<1>1. inbox # <<>> /\ inbox' = Tail(inbox) /\ UNCHANGED <<alive, call, chan>>
      /\ UNCHANGED <<use, told, taken>>
  BY DEF Manager, MsgrNext, ConnNotRegistered, ConnQueueFull, ConnMatched,
         ListenReq, ListenReqNoFd, ConnectClose, ListenClose, ListenCloseUnknown,
         channelVars
<1>2. /\ pkg \in Datagrams /\ WellFormed(pkg) /\ TypeOK
      /\ \A a \in ServerAddrs : a \in Addrs
  BY <1>1, FirstDatagram, ChannelAssumption DEF CallInv, ServerAddrs
<1> DEFINE TypesOf ==
      /\ queue' \in [Procs -> Seq(Nodes)]
      /\ aqHash' \in [Addrs -> Procs \cup {NoProc}]
      /\ mgrUp' \in BOOLEAN /\ pops' \in Nat
      /\ count_' \in Nat /\ nextFd' \in Nat /\ segs' \subseteq Nat
      /\ free_list_' \in Seq(Int)
<1>3. ASSUME TypesOf, NEW mode \in Answers, NEW shmId \in Int, Answer(mode, shmId),
             mode = "MNGR_CONN_RES" => pkg.mode = "CLIENT_CONN_REQ"
      PROVE  CallInv'
  <2>1. /\ inbox' \in Seq(Datagrams)
        /\ reply' \in [Procs -> [mode : Answers, shmId : Int]]
        /\ (Built /\ Own /\ Asked /\ Replied /\ OneEach)'
    BY <1>1, <1>3, AnswerKeeps
  <2>2. TypeOK'
    BY <1>1, <1>2, <1>3, <2>1 DEF TypeOK
  <2> QED BY <2>1, <2>2 DEF CallInv
<1>4. CASE ConnNotRegistered
  <2>1. TypesOf
    BY <1>2, <1>4 DEF ConnNotRegistered, TypeOK, msgrVars, freeListVars
  <2> QED BY <1>3, <1>4, <2>1 DEF ConnNotRegistered, Answers
<1>5. CASE ConnQueueFull
  <2>1. TypesOf
    BY <1>2, <1>5 DEF ConnQueueFull, TypeOK, msgrVars, freeListVars
  <2> QED BY <1>3, <1>5, <2>1 DEF ConnQueueFull, Answers
<1>6. CASE ConnMatched
  <2>1. /\ count_' \in Nat /\ nextFd' \in Nat /\ segs' \subseteq Nat
        /\ free_list_' \in Seq(Int) /\ FreeFront \in Int
    BY <1>2, <1>6, GetFreeFdTypes DEF ConnMatched
  <2>2. pkg.peerAddr \in Addrs /\ pkg.localAddr \in Addrs
    BY <1>2, <1>6 DEF ConnMatched, WellFormed, Datagrams
  <2>3. aqHash[pkg.peerAddr] \in Procs
    BY <1>2, <1>6, <2>2 DEF ConnMatched, TypeOK
  <2>4. node(FreeFront, pkg.localAddr) \in Nodes
    BY <2>1, <2>2 DEF node, Nodes
  <2>5. CASE FreeFront = NoFd
    <3>1. TypesOf
      <4>1. UNCHANGED <<aqHash, mgrUp, queue>> /\ pops' = pops + 1
        BY <1>6, <2>5 DEF ConnMatched
      <4>2. /\ aqHash \in [Addrs -> Procs \cup {NoProc}] /\ mgrUp \in BOOLEAN
            /\ pops \in Nat /\ queue \in [Procs -> Seq(Nodes)]
        BY <1>2 DEF TypeOK
      <4> QED BY <2>1, <4>1, <4>2
    <3> QED BY <1>3, <1>6, <2>5, <3>1 DEF ConnMatched, Answers
  <2>6. CASE FreeFront # NoFd
    <3> DEFINE p == aqHash[pkg.peerAddr]
               longer == Append(queue[p], node(FreeFront, pkg.localAddr))
    <3>1. queue' \in [Procs -> Seq(Nodes)]
      <4>1. queue[p] \in Seq(Nodes)
        BY <1>2, <2>3 DEF TypeOK
      <4>2. longer \in Seq(Nodes)
        BY <2>4, <4>1
      <4>3. queue' = [queue EXCEPT ![p] = longer]
        BY <1>6, <2>6 DEF ConnMatched
      <4> HIDE DEF longer, p
      <4> QED BY <1>2, <4>2, <4>3 DEF TypeOK
    <3>2. TypesOf
      <4>1. UNCHANGED <<aqHash, mgrUp>> /\ pops' = pops + 1
        BY <1>6 DEF ConnMatched
      <4>2. aqHash \in [Addrs -> Procs \cup {NoProc}] /\ mgrUp \in BOOLEAN /\ pops \in Nat
        BY <1>2 DEF TypeOK
      <4> HIDE DEF p, longer
      <4>3. aqHash' \in [Addrs -> Procs \cup {NoProc}] /\ mgrUp' \in BOOLEAN /\ pops' \in Nat
        BY <4>1, <4>2
      <4> QED BY <2>1, <3>1, <4>3
    <3>3. Answer("MNGR_CONN_RES", FreeFront) /\ pkg.mode = "CLIENT_CONN_REQ"
      BY <1>6, <2>6 DEF ConnMatched
    <3> QED BY <1>3, <2>1, <3>2, <3>3 DEF Answers
  <2> QED BY <2>5, <2>6
<1>7. CASE ListenReq
  <2>1. pkg.shmId \in Procs /\ pkg.localAddr \in Addrs
    BY <1>2, <1>7 DEF ListenReq, WellFormed, Datagrams
  <2>2. TypesOf
    BY <1>2, <1>7, <2>1 DEF ListenReq, TypeOK
  <2> QED BY <1>3, <1>7, <2>2 DEF ListenReq, Answers
<1>8. CASE ConnectClose
  <2>1. pkg.shmId = 0
    BY <1>2, <1>8 DEF ConnectClose, WellFormed
  <2>2. TypesOf
    BY <1>2, <1>8, <2>1 DEF ConnectClose, FreeFd, TypeOK
  <2> QED BY <1>3, <1>8, <2>2 DEF ConnectClose, Answers
<1>9. CASE ListenClose
  <2> DEFINE p == aqHash[pkg.localAddr]
             drained == [i \in DOMAIN queue[p] |-> queue[p][i].shmId]
  <2>1. pkg.localAddr \in Addrs /\ p \in Procs
    BY <1>2, <1>9 DEF ListenClose, Datagrams, TypeOK
  <2>2. drained \in Seq(Int)
    <3>1. queue[p] \in Seq(Nodes)
      BY <1>2, <2>1 DEF TypeOK
    <3>2. \A i \in DOMAIN queue[p] : queue[p][i].shmId \in Int
      <4>1. \A i \in DOMAIN queue[p] : queue[p][i] \in Nodes
        BY <3>1
      <4> QED BY <4>1 DEF Nodes
    <3>3. DOMAIN queue[p] = 1 .. Len(queue[p]) /\ Len(queue[p]) \in Nat
      BY <3>1
    <3> QED BY <3>2, <3>3
  <2>3. free_list_' \in Seq(Int)
    <3>1. free_list_' = free_list_ \o drained
      BY <1>9 DEF ListenClose
    <3>2. free_list_ \in Seq(Int)
      BY <1>2 DEF TypeOK
    <3> HIDE DEF drained
    <3> QED BY <2>2, <3>1, <3>2
  <2>4. <<>> \in Seq(Nodes)
    OBVIOUS
  <2>5. TypesOf
    BY <1>2, <1>9, <2>1, <2>3, <2>4 DEF ListenClose, TypeOK
  <2> QED BY <1>3, <1>9, <2>5 DEF ListenClose, Answers
<1>10. CASE ListenReqNoFd \/ ListenCloseUnknown
  BY <1>1, <1>10, CrashKeeps DEF ListenReqNoFd, ListenCloseUnknown
<1> QED BY <1>4, <1>5, <1>6, <1>7, <1>8, <1>9, <1>10 DEF Manager, MsgrNext

-----------------------------------------------------------------------------
(* A process that waits for no answer has nothing under way, and one that  *)
(* has its answer has no datagram.                                         *)
LEMMA NothingUnderWay ==
  ASSUME CallInv, NEW p \in Procs
  PROVE  /\ call[p].op \in {"idle", "accept", "check", "drain"} =>
              reply[p] = NoReply /\ \A i \in DOMAIN inbox : inbox[i].port # p
         /\ reply[p] # NoReply => \A i \in DOMAIN inbox : inbox[i].port # p
<1>1. call[p].op \in {"idle", "accept", "check", "drain"} => reply[p] = NoReply
  BY DEF CallInv, Replied
<1>2. ASSUME NEW i \in DOMAIN inbox, inbox[i].port = p
      PROVE  call[p].op \notin {"idle", "accept", "check", "drain"}
  BY <1>2 DEF CallInv, Asked, SentBy
<1>3. ASSUME NEW i \in DOMAIN inbox, inbox[i].port = p
      PROVE  reply[p] = NoReply
  BY <1>3 DEF CallInv, OneEach
<1> QED BY <1>1, <1>2, <1>3

\* process p goes over to the call "new", and touches no channel but its own
Moves(p, new) ==
  /\ call' = [call EXCEPT ![p] = new]
  /\ \A d \in Channels : ProcOf[d] # p => chan'[d] = chan[d]

OthersAsk(p) ==
  \A i \in DOMAIN inbox, q \in Procs \ {p} :
    q = inbox[i].port /\ call'[q].op # "dead" =>
      /\ SentBy(inbox[i], call'[q].op, chan'[call'[q].chan])
      /\ call'[q].op = "connect" => inbox[i].peerAddr = call'[q].to

(* What a process does to its own call and channels is nothing to the      *)
(* datagrams of the others.                                                *)
LEMMA OthersKeep ==
  ASSUME CallInv, NEW p \in Procs, NEW new, Moves(p, new)
  PROVE  /\ call'[p] = new /\ \A q \in Procs \ {p} : call'[q] = call[q]
         /\ OthersAsk(p)
<1>1. call'[p] = new /\ \A q \in Procs \ {p} : call'[q] = call[q]
  BY DEF CallInv, TypeOK, Moves
<1>2. SUFFICES ASSUME NEW i \in DOMAIN inbox, NEW q \in Procs \ {p},
                      q = inbox[i].port, call'[q].op # "dead"
               PROVE  /\ SentBy(inbox[i], call'[q].op, chan'[call'[q].chan])
                      /\ call'[q].op = "connect" => inbox[i].peerAddr = call'[q].to
  BY <1>1 DEF OthersAsk
<1>3. q \in Procs /\ call'[q] = call[q]
  BY <1>1
<1>4. /\ SentBy(inbox[i], call[q].op, chan[call[q].chan])
      /\ call[q].op = "connect" => inbox[i].peerAddr = call[q].to
  BY <1>2, <1>3 DEF CallInv, Asked
<1>5. call[q].op \in {"listen", "connect", "close"}
  BY <1>4 DEF SentBy
<1>6. call[q].chan \in Channels /\ ProcOf[call[q].chan] = q
  BY <1>3, <1>5, Elements DEF CallInv, Own, Calls, Idle, Dead
<1>7. chan'[call[q].chan] = chan[call[q].chan]
  BY <1>6 DEF Moves
<1> QED BY <1>3, <1>4, <1>7

\* the call "new" is one that process p may be in
OwnCall(p, new) ==
  /\ new \in Calls
  /\ new.op \notin {"idle", "dead"} => ProcOf[new.chan] = p
  /\ new.op = "listen" => new.chan \in Listeners
  /\ new.op = "connect" => new.chan \in Connectors /\ new.to \in ServerAddrs
  /\ new.op = "accept" => /\ new.chan \in Listeners /\ new.new \in Acceptees
                          /\ ProcOf[new.new] = p

LEMMA OwnKeeps ==
  ASSUME CallInv, NEW p \in Procs, NEW new, Moves(p, new), OwnCall(p, new)
  PROVE  Own' /\ call' \in [Procs -> Calls]
<1>1. \A q \in Procs : call'[q] = IF q = p THEN new ELSE call[q]
  BY DEF CallInv, TypeOK, Moves
<1>2. call' \in [Procs -> Calls]
  BY DEF CallInv, TypeOK, OwnCall, Moves
<1>3. ASSUME NEW q \in Procs PROVE OwnCall(q, call'[q])
  BY <1>1, Elements DEF CallInv, Own, OwnCall
<1>4. Own'
  BY <1>3 DEF Own, OwnCall, ServerAddrs
<1> QED BY <1>2, <1>4

(* A step by which a process comes to wait for nothing.                    *)
LEMMA QuietKeeps ==
  ASSUME CallInv, NEW p \in Procs, NEW new, Moves(p, new),
         OwnCall(p, new),
         new.op \in {"idle", "dead", "accept", "check", "drain"},
         UNCHANGED inbox,
         \/ UNCHANGED reply
         \/ reply' = [reply EXCEPT ![p] = NoReply],
         \/ new.op = "dead"
         \/ reply'[p] = NoReply /\ \A i \in DOMAIN inbox : inbox[i].port # p
  PROVE  /\ call' \in [Procs -> Calls]
         /\ reply' \in [Procs -> [mode : Answers, shmId : Int]]
         /\ (Own /\ Asked /\ Replied /\ OneEach)'
<1>1. \A i \in DOMAIN inbox : inbox[i].port \in Procs /\ WellFormed(inbox[i])
  BY Elements DEF CallInv, Asked, Datagrams
<1>0. /\ call'[p] = new /\ \A q \in Procs \ {p} : call'[q] = call[q]
      /\ OthersAsk(p)
  BY OthersKeep
<1>2. /\ reply' \in [Procs -> [mode : Answers, shmId : Int]]
      /\ \A q \in Procs : reply'[q] # NoReply => reply'[q] = reply[q]
  <2>1. NoReply \in [mode : Answers, shmId : Int]
    BY DEF NoReply, Answers, NoId
  <2> QED BY <2>1 DEF CallInv, TypeOK
<1>3. Asked'
  <2> SUFFICES ASSUME NEW i \in DOMAIN inbox, NEW q, q = inbox[i].port
               PROVE  /\ WellFormed(inbox[i])
                      /\ call'[q].op # "dead" =>
                           /\ SentBy(inbox[i], call'[q].op, chan'[call'[q].chan])
                           /\ call'[q].op = "connect" =>
                                inbox[i].peerAddr = call'[q].to
    BY DEF Asked, WellFormed, ServerAddrs
  <2>1. CASE q # p
    <3>1. call'[q].op # "dead" =>
            /\ SentBy(inbox[i], call'[q].op, chan'[call'[q].chan])
            /\ call'[q].op = "connect" => inbox[i].peerAddr = call'[q].to
      BY <1>0, <1>1, <2>1 DEF OthersAsk
    <3> QED BY <1>1, <3>1
  <2>2. CASE q = p
    <3>1. call'[p].op = "dead"
      BY <1>0, <2>2
    <3> QED BY <1>1, <2>2, <3>1
  <2> QED BY <2>1, <2>2
<1>4. Replied'
  <2> SUFFICES ASSUME NEW q \in Procs, reply'[q] # NoReply, call'[q].op # "dead"
               PROVE  /\ call'[q].op \in {"listen", "connect", "close"}
                      /\ reply'[q].mode = "MNGR_CONN_RES" => call'[q].op = "connect"
    BY DEF Replied
  <2>1. CASE q # p
    <3>1. call'[q] = call[q] /\ reply'[q] = reply[q]
      BY <1>0, <1>2, <2>1
    <3> QED BY <3>1 DEF CallInv, Replied
  <2>2. CASE q = p
    BY <1>0, <2>2
  <2> QED BY <2>1, <2>2
<1>5. OneEach'
  BY <1>1, <1>2 DEF CallInv, OneEach
<1> QED BY <1>2, <1>3, <1>4, <1>5, OwnKeeps

(* A step by which a process that has nothing under way sends a datagram   *)
(* and waits.                                                              *)
LEMMA SendKeeps ==
  ASSUME CallInv, NEW p \in Procs, NEW new, Moves(p, new),
         OwnCall(p, new), new.op \in {"listen", "connect", "close"},
         UNCHANGED reply, reply[p] = NoReply,
         \A i \in DOMAIN inbox : inbox[i].port # p,
         NEW m \in Datagrams, m.port = p, WellFormed(m),
         SentBy(m, new.op, chan'[new.chan]),
         new.op = "connect" => m.peerAddr = new.to,
         SendUdp(m) \/ UNCHANGED inbox
  PROVE  /\ call' \in [Procs -> Calls] /\ inbox' \in Seq(Datagrams)
         /\ (Own /\ Asked /\ Replied /\ OneEach)'
<1>1. \A i \in DOMAIN inbox : inbox[i].port \in Procs /\ WellFormed(inbox[i])
  BY Elements DEF CallInv, Asked, Datagrams
<1>0. /\ call'[p] = new /\ \A q \in Procs \ {p} : call'[q] = call[q]
      /\ OthersAsk(p)
  BY OthersKeep
<1>2. inbox \in Seq(Datagrams) /\ inbox' \in Seq(Datagrams)
  <2>1. inbox \in Seq(Datagrams)
    BY DEF CallInv, TypeOK
  <2>2. Append(inbox, m) \in Seq(Datagrams)
    BY <2>1
  <2> QED BY <2>1, <2>2 DEF SendUdp
<1>3. \A i \in DOMAIN inbox' :
        \/ i \in DOMAIN inbox /\ inbox'[i] = inbox[i]
        \/ i \notin DOMAIN inbox /\ i = Len(inbox) + 1 /\ inbox'[i] = m
  BY <1>2 DEF SendUdp
<1>4. Asked'
  <2> SUFFICES ASSUME NEW i \in DOMAIN inbox', NEW q, q = inbox'[i].port
               PROVE  /\ WellFormed(inbox'[i])
                      /\ call'[q].op # "dead" =>
                           /\ SentBy(inbox'[i], call'[q].op, chan'[call'[q].chan])
                           /\ call'[q].op = "connect" =>
                                inbox'[i].peerAddr = call'[q].to
    BY DEF Asked, WellFormed, ServerAddrs
  <2>1. CASE i \in DOMAIN inbox /\ inbox'[i] = inbox[i]
    <3>1. q # p /\ q = inbox[i].port
      BY <2>1
    <3>2. call'[q].op # "dead" =>
            /\ SentBy(inbox[i], call'[q].op, chan'[call'[q].chan])
            /\ call'[q].op = "connect" => inbox[i].peerAddr = call'[q].to
      BY <1>0, <1>1, <2>1, <3>1 DEF OthersAsk
    <3> QED BY <1>1, <2>1, <3>2
  <2>2. CASE inbox'[i] = m
    <3>1. q = p /\ call'[p] = new
      BY <1>0, <2>2
    <3> QED BY <2>2, <3>1
  <2> QED BY <1>3, <2>1, <2>2
<1>5. Replied'
  <2> SUFFICES ASSUME NEW q \in Procs, reply[q] # NoReply, call'[q].op # "dead"
               PROVE  /\ call'[q].op \in {"listen", "connect", "close"}
                      /\ reply[q].mode = "MNGR_CONN_RES" => call'[q].op = "connect"
    BY DEF Replied
  <2>1. q # p /\ call'[q] = call[q]
    BY <1>0
  <2> QED BY <2>1 DEF CallInv, Replied
<1>6. OneEach'
  <2> SUFFICES ASSUME NEW i \in DOMAIN inbox', NEW j \in DOMAIN inbox'
               PROVE  /\ reply[inbox'[i].port] = NoReply
                      /\ inbox'[i].port = inbox'[j].port => i = j
    BY DEF OneEach
  <2> QED BY <1>3 DEF CallInv, OneEach
<1> QED BY <1>2, <1>4, <1>5, <1>6, OwnKeeps

-----------------------------------------------------------------------------
\* the types of what only channels change
ChannelTypes ==
  /\ chan \in [Channels -> Members]
  /\ queue \in [Procs -> Seq(Nodes)]
  /\ alive \subseteq Int \X {"server", "client"}
  /\ use \in [Channels -> {"unused", "open", "closed"}]
  /\ told \subseteq Channels \X Int
  /\ taken \in Seq(Procs \X Nodes)

(* The two ways in which a call's steps keep CallInv.                      *)
LEMMA QuietStep ==
  ASSUME CallInv, UNCHANGED <<msgrVars, inbox>>, NEW p \in Procs, NEW new,
         Moves(p, new), OwnCall(p, new),
         new.op \in {"idle", "dead", "accept", "check", "drain"},
         \/ UNCHANGED reply
         \/ reply' = [reply EXCEPT ![p] = NoReply],
         \/ new.op = "dead"
         \/ UNCHANGED reply /\ call[p].op \in {"idle", "accept", "check", "drain"}
         \/ reply' = [reply EXCEPT ![p] = NoReply] /\ reply[p] # NoReply,
         ChannelTypes', Built'
  PROVE  CallInv'
<1>1. \/ new.op = "dead"
      \/ reply'[p] = NoReply /\ \A i \in DOMAIN inbox : inbox[i].port # p
  BY NothingUnderWay DEF CallInv, TypeOK
<1>2. /\ call' \in [Procs -> Calls]
      /\ reply' \in [Procs -> [mode : Answers, shmId : Int]]
      /\ (Own /\ Asked /\ Replied /\ OneEach)'
  BY <1>1, QuietKeeps
<1>3. TypeOK'
  BY <1>2 DEF CallInv, TypeOK, ChannelTypes, msgrVars, freeListVars
<1> QED BY <1>2, <1>3 DEF CallInv

LEMMA SendStep ==
  ASSUME CallInv, UNCHANGED <<msgrVars, reply>>, NEW p \in Procs, NEW new,
         Moves(p, new), OwnCall(p, new), new.op \in {"listen", "connect", "close"},
         call[p].op \in {"idle", "check"},
         NEW m \in Datagrams, m.port = p, WellFormed(m),
         SentBy(m, new.op, chan'[new.chan]),
         new.op = "connect" => m.peerAddr = new.to,
         SendUdp(m) \/ UNCHANGED inbox,
         ChannelTypes', Built'
  PROVE  CallInv'
<1>1. reply[p] = NoReply /\ \A i \in DOMAIN inbox : inbox[i].port # p
  BY NothingUnderWay
<1>2. /\ call' \in [Procs -> Calls] /\ inbox' \in Seq(Datagrams)
      /\ (Own /\ Asked /\ Replied /\ OneEach)'
  BY <1>1, SendKeeps
<1>3. TypeOK'
  BY <1>2 DEF CallInv, TypeOK, ChannelTypes, msgrVars, freeListVars
<1> QED BY <1>2, <1>3 DEF CallInv

LEMMA ListenKeeps ==
  ASSUME CallInv, UNCHANGED msgrVars, NEW c \in Channels,
         ListenSend(c) \/ ListenFails(c) \/ ListenReturn(c)
  PROVE  CallInv'
<1> DEFINE p == ProcOf[c]
<1>1. p \in Procs /\ chan[c] \in Members /\ ChannelTypes /\ Built
      /\ call[p] \in Calls
  BY Elements DEF CallInv, TypeOK, ChannelTypes
<1>2. CASE ListenSend(c)
  <2> DEFINE new == [op |-> "listen", chan |-> c]
             m   == iMsg(p, "SERVER_LISTEN_REQ", chan[c].localAddr, NoAddr, p)
  <2>1. /\ c \in Listeners /\ call[p] = Idle /\ UNCHANGED reply /\ SendUdp(m)
        /\ call' = [call EXCEPT ![p] = new]
        /\ chan' = [chan EXCEPT ![c].isServer = TRUE, ![c].acceptQueue = p]
        /\ UNCHANGED <<queue, alive, use, told, taken>>
    BY <1>2 DEF ListenSend, Ready, Enter
  <2>2. /\ \A d \in Channels \ {c} : chan'[d] = chan[d]
        /\ chan'[c] = [chan[c] EXCEPT !.isServer = TRUE, !.acceptQueue = p]
        /\ chan' \in [Channels -> Members]
    BY <1>1, <2>1 DEF ChannelTypes, Members
  <2>3. Moves(p, new) /\ OwnCall(p, new)
    BY <2>1, <2>2 DEF Moves, OwnCall, Calls
  <2>4. chan[c].localAddr \in Addrs
    BY <1>1, <2>1, ChannelAssumption DEF Built
  <2>5. /\ m \in Datagrams /\ m.port = p /\ WellFormed(m)
        /\ SentBy(m, new.op, chan'[new.chan])
    <3>1. chan'[c].localAddr = chan[c].localAddr
      BY <1>1, <2>2 DEF Members
    <3>2. m \in Datagrams /\ m.port = p /\ WellFormed(m)
      BY <1>1, <2>4 DEF iMsg, Datagrams, Modes, WellFormed
    <3>3. SentBy(m, new.op, chan'[new.chan])
      BY <3>1 DEF iMsg, SentBy
    <3> QED BY <3>2, <3>3
  <2>6. Built'
    BY <1>1, <2>2 DEF Built, Members
  <2>7. ChannelTypes' /\ call[p].op = "idle"
    BY <1>1, <2>1, <2>2 DEF ChannelTypes, Idle
  <2> HIDE DEF m
  <2> QED BY <1>1, <2>1, <2>3, <2>5, <2>6, <2>7, SendStep
<1>3. CASE ListenReturn(c)
  <2>1. Moves(p, Idle) /\ OwnCall(p, Idle) /\ Idle.op = "idle"
    BY <1>3 DEF ListenReturn, Return, Moves, OwnCall, Calls, Idle
  <2>2. reply' = [reply EXCEPT ![p] = NoReply] /\ reply[p] # NoReply
    BY <1>3 DEF ListenReturn, TakeReply, Answered
  <2>3. ChannelTypes' /\ Built' /\ UNCHANGED inbox
    BY <1>1, <1>3 DEF ListenReturn, ChannelTypes, Built
  <2> QED BY <1>1, <2>1, <2>2, <2>3, QuietStep
<1>4. CASE ListenFails(c)
  <2>1. /\ call[p] = Idle /\ chan' = [chan EXCEPT ![c].isServer = TRUE]
        /\ UNCHANGED <<inbox, reply, queue, alive, call, use, told, taken>>
    BY <1>4 DEF ListenFails, Ready
  <2>2. /\ \A d \in Channels \ {c} : chan'[d] = chan[d]
        /\ chan'[c] = [chan[c] EXCEPT !.isServer = TRUE]
        /\ chan' \in [Channels -> Members]
    BY <1>1, <2>1 DEF ChannelTypes, Members
  <2>3. call' = [call EXCEPT ![p] = Idle]
    BY <2>1 DEF CallInv, TypeOK
  <2>4. Moves(p, Idle) /\ OwnCall(p, Idle) /\ Idle.op = "idle"
    BY <2>2, <2>3 DEF Moves, OwnCall, Calls, Idle
  <2>5. ChannelTypes' /\ Built'
    BY <1>1, <2>1, <2>2 DEF ChannelTypes, Built, Members
  <2> QED BY <1>1, <2>1, <2>4, <2>5, QuietStep
<1> QED BY <1>2, <1>3, <1>4

LEMMA ConnectKeeps ==
  ASSUME CallInv, UNCHANGED msgrVars, NEW c \in Channels,
         \/ \E a \in ServerAddrs : ConnectSend(c, a)
         \/ ConnectReturn(c) \/ ConnectRefused(c) \/ ConnectNoSegment(c)
  PROVE  CallInv'
<1> DEFINE p == ProcOf[c]
<1>1. p \in Procs /\ chan[c] \in Members /\ ChannelTypes /\ Built
      /\ call[p] \in Calls
  BY Elements DEF CallInv, TypeOK, ChannelTypes
<1>2. /\ OwnCall(p, Idle) /\ Idle.op = "idle" /\ OwnCall(p, Dead) /\ Dead.op = "dead"
      /\ \A a \in ServerAddrs : a \in Addrs
  BY ChannelAssumption DEF OwnCall, Calls, Idle, Dead, ServerAddrs
<1>3. ASSUME NEW a \in ServerAddrs, ConnectSend(c, a) PROVE CallInv'
  <2> DEFINE new == [op |-> "connect", chan |-> c, to |-> a]
             m   == iMsg(p, "CLIENT_CONN_REQ", chan[c].localAddr, a, 0)
  <2>1. /\ c \in Connectors /\ call[p] = Idle /\ UNCHANGED reply /\ SendUdp(m)
        /\ call' = [call EXCEPT ![p] = new]
        /\ chan' = [chan EXCEPT ![c].isServer = FALSE]
        /\ UNCHANGED <<queue, alive, use, told, taken>>
    BY <1>3 DEF ConnectSend, Ready
  <2>2. /\ \A d \in Channels \ {c} : chan'[d] = chan[d]
        /\ chan'[c] = [chan[c] EXCEPT !.isServer = FALSE]
        /\ chan' \in [Channels -> Members]
    BY <1>1, <2>1 DEF ChannelTypes, Members
  <2>3. Moves(p, new) /\ OwnCall(p, new)
    BY <1>2, <2>1, <2>2 DEF Moves, OwnCall, Calls
  <2>4. chan[c].localAddr \in Addrs
    BY <1>1, <2>1, ChannelAssumption DEF Built
  <2>5. /\ m \in Datagrams /\ m.port = p /\ WellFormed(m)
        /\ SentBy(m, new.op, chan'[new.chan]) /\ m.peerAddr = a
    <3>1. chan'[c].localAddr = chan[c].localAddr
      BY <1>1, <2>2 DEF Members
    <3>2. m \in Datagrams /\ m.port = p /\ WellFormed(m) /\ m.peerAddr = a
      BY <1>1, <1>2, <2>4 DEF iMsg, Datagrams, Modes, WellFormed
    <3>3. SentBy(m, new.op, chan'[new.chan])
      BY <3>1 DEF iMsg, SentBy
    <3> QED BY <3>2, <3>3
  <2>6. Built'
    BY <1>1, <2>2 DEF Built, Members
  <2>7. ChannelTypes' /\ call[p].op = "idle"
    BY <1>1, <2>1, <2>2 DEF ChannelTypes, Idle
  <2> HIDE DEF m
  <2> QED BY <1>1, <2>1, <2>3, <2>5, <2>6, <2>7, SendStep
<1>4. CASE ConnectReturn(c)
  <2> DEFINE id == reply[p].shmId
  <2>1. /\ call[p].op = "connect" /\ call[p].chan = c
        /\ chan' = [chan EXCEPT ![c].shmId = id, ![c].peerAddr = call[p].to]
        /\ alive' = alive \cup {<<id, "client">>}
        /\ use' = [use EXCEPT ![c] = "open"]
        /\ reply' = [reply EXCEPT ![p] = NoReply] /\ reply[p] # NoReply
        /\ call' = [call EXCEPT ![p] = Idle]
        /\ UNCHANGED <<inbox, queue, told, taken>>
    BY <1>4 DEF ConnectReturn, Calling, Answered, TakeReply, Return
  <2>2. id \in Int /\ call[p].to \in Addrs
    BY <1>1, <1>2, <2>1, Elements DEF CallInv, Own
  <2>3. /\ \A d \in Channels \ {c} : chan'[d] = chan[d]
        /\ chan'[c] = [chan[c] EXCEPT !.shmId = id, !.peerAddr = call[p].to]
        /\ chan' \in [Channels -> Members]
    BY <1>1, <2>1, <2>2 DEF ChannelTypes, Members
  <2>4. Moves(p, Idle)
    BY <2>1, <2>3 DEF Moves
  <2>5. Built'
    BY <1>1, <2>3 DEF Built, Members
  <2>6. ChannelTypes'
    BY <1>1, <2>1, <2>2, <2>3 DEF ChannelTypes
  <2> QED BY <1>1, <1>2, <2>1, <2>4, <2>5, <2>6, QuietStep
<1>5. CASE ConnectRefused(c)
  <2>1. /\ call' = [call EXCEPT ![p] = Idle]
        /\ reply' = [reply EXCEPT ![p] = NoReply] /\ reply[p] # NoReply
        /\ UNCHANGED <<inbox, queue, alive, chan, use, told, taken>>
    BY <1>5 DEF ConnectRefused, Answered, TakeReply, Return
  <2>2. Moves(p, Idle) /\ ChannelTypes' /\ Built'
    BY <1>1, <2>1 DEF Moves, ChannelTypes, Built
  <2> QED BY <1>1, <1>2, <2>1, <2>2, QuietStep
<1>6. CASE ConnectNoSegment(c)
  <2>1. /\ call' = [call EXCEPT ![p] = Dead]
        /\ reply' = [reply EXCEPT ![p] = NoReply] /\ reply[p] # NoReply
        /\ UNCHANGED <<inbox, queue, alive, chan, use, told, taken>>
    BY <1>6 DEF ConnectNoSegment, Answered, TakeReply, Segfault
  <2>2. Moves(p, Dead) /\ ChannelTypes' /\ Built'
    BY <1>1, <2>1 DEF Moves, ChannelTypes, Built
  <2> QED BY <1>1, <1>2, <2>1, <2>2, QuietStep
<1> QED BY <1>3, <1>4, <1>5, <1>6

LEMMA AcceptKeeps ==
  ASSUME CallInv, UNCHANGED msgrVars, NEW c \in Channels,
         (\E new \in Channels : AcceptDequeue(c, new)) \/ AcceptAttach(c)
  PROVE  CallInv'
<1> DEFINE p == ProcOf[c]
<1>1. /\ p \in Procs /\ chan[c] \in Members /\ ChannelTypes /\ Built
      /\ call[p] \in Calls
  BY Elements DEF CallInv, TypeOK, ChannelTypes
<1>2. /\ OwnCall(p, Idle) /\ Idle.op = "idle" /\ OwnCall(p, Dead) /\ Dead.op = "dead"
  BY DEF OwnCall, Calls, Idle, Dead
<1>3. ASSUME NEW d \in Channels, AcceptDequeue(c, d) PROVE CallInv'
  <2> DEFINE q   == queue[p]
             new == [op |-> "accept", chan |-> c, new |-> d, nd |-> Head(q)]
  <2>1. /\ c \in Listeners /\ call[p] = Idle /\ d \in Acceptees /\ ProcOf[d] = p
        /\ q # <<>>
        /\ queue' = [queue EXCEPT ![p] = Tail(q)]
        /\ call' = [call EXCEPT ![p] = new]
        /\ taken' = Append(taken, <<p, Head(q)>>)
        /\ UNCHANGED <<inbox, reply, alive, chan, use, told>>
    BY <1>3 DEF AcceptDequeue, Ready
  <2>2. Head(q) \in Nodes /\ Tail(q) \in Seq(Nodes)
    <3>1. q \in Seq(Nodes)
      BY <1>1 DEF ChannelTypes
    <3> QED BY <2>1, <3>1
  <2>3. Moves(p, new) /\ OwnCall(p, new)
    BY <2>1, <2>2 DEF Moves, OwnCall, Calls
  <2>4. ChannelTypes'
    BY <1>1, <2>1, <2>2 DEF ChannelTypes
  <2>5. Built' /\ call[p].op = "idle" /\ new.op = "accept"
    BY <1>1, <2>1 DEF Built, Idle
  <2> HIDE DEF new
  <2> QED BY <1>1, <2>1, <2>3, <2>4, <2>5, QuietStep
<1>4. CASE AcceptAttach(c)
  <2> DEFINE d  == call[p].new
             nd == call[p].nd
  <2>1. call[p].op = "accept" /\ call[p].chan = c /\ call[p] # Idle /\ call[p] # Dead
    <3>1. call[p].op = "accept" /\ call[p].chan = c
      BY <1>4 DEF AcceptAttach, Calling
    <3> QED BY <1>2, <3>1
  <2>2. d \in Acceptees /\ d \in Channels /\ ProcOf[d] = p /\ c \in Listeners
    BY <1>1, <2>1, ChannelAssumption DEF CallInv, Own
  <2>3. nd \in Nodes
    BY <1>1, <2>1 DEF Calls
  <2>4. UNCHANGED <<inbox, reply, queue, told, taken>>
    BY <1>4 DEF AcceptAttach
  <2>5. CASE nd.shmId \in segs
    <3>1. /\ chan' = [chan EXCEPT ![d].shmId = nd.shmId,
                                  ![d].localAddr = chan[c].localAddr,
                                  ![d].peerAddr = nd.peerAddr,
                                  ![d].isServer = TRUE]
          /\ alive' = alive \cup {<<nd.shmId, "server">>}
          /\ use' = [use EXCEPT ![d] = "open"]
          /\ call' = [call EXCEPT ![p] = Idle]
      BY <1>4, <2>5 DEF AcceptAttach, Return
    <3>2. chan[c].localAddr \in Addrs
      BY <1>1, <2>2, ChannelAssumption DEF Built
    <3>3. /\ \A e \in Channels \ {d} : chan'[e] = chan[e]
          /\ chan'[d] = [chan[d] EXCEPT !.shmId = nd.shmId,
                                        !.localAddr = chan[c].localAddr,
                                        !.peerAddr = nd.peerAddr,
                                        !.isServer = TRUE]
      BY <1>1, <2>2, <3>1 DEF ChannelTypes
    <3>4. /\ chan'[d] \in Members /\ chan'[d].localAddr \in Addrs
          /\ chan'[d].msgrAddr = chan[d].msgrAddr
      <4>1. chan[d] \in Members /\ nd.shmId \in Int /\ nd.peerAddr \in Addrs
        BY <1>1, <2>2, <2>3 DEF ChannelTypes, Nodes
      <4> QED BY <3>2, <3>3, <4>1 DEF Members
    <3>5. chan' \in [Channels -> Members]
      <4>1. chan' = [e \in Channels |-> chan'[e]]
        BY <1>1, <3>1 DEF ChannelTypes
      <4>2. \A e \in Channels : chan'[e] \in Members
        BY <1>1, <3>3, <3>4 DEF ChannelTypes
      <4> QED BY <4>1, <4>2
    <3>6. Moves(p, Idle)
      BY <2>2, <3>1, <3>3 DEF Moves
    <3>7. Built'
      BY <1>1, <3>3, <3>4 DEF Built
    <3>8. alive' \subseteq Int \X {"server", "client"}
      <4>1. nd.shmId \in Int
        BY <2>3 DEF Nodes
      <4>2. <<nd.shmId, "server">> \in Int \X {"server", "client"}
        BY <4>1
      <4> HIDE DEF nd
      <4> QED BY <1>1, <3>1, <4>2 DEF ChannelTypes
    <3>9. ChannelTypes'
      BY <1>1, <2>4, <3>1, <3>5, <3>8 DEF ChannelTypes
    <3> QED BY <1>1, <1>2, <2>1, <2>4, <3>6, <3>7, <3>9, QuietStep
  <2>6. CASE nd.shmId \notin segs
    <3>1. call' = [call EXCEPT ![p] = Dead] /\ UNCHANGED <<chan, alive, use>>
      BY <1>4, <2>6 DEF AcceptAttach, Segfault
    <3>2. Moves(p, Dead) /\ ChannelTypes' /\ Built'
      BY <1>1, <2>4, <3>1 DEF Moves, ChannelTypes, Built
    <3> QED BY <1>1, <1>2, <2>4, <3>2, QuietStep
  <2> QED BY <2>5, <2>6
<1> QED BY <1>3, <1>4

LEMMA CloseKeeps ==
  ASSUME CallInv, UNCHANGED msgrVars, NEW c \in Channels,
         \/ CloseMark(c) \/ CloseKept(c) \/ CloseTell(c) \/ CloseReturn(c)
         \/ CloseCheckFirst(c) \/ CloseDrain(c) \/ CloseNull(c)
  PROVE  CallInv'
<1> DEFINE p == ProcOf[c]
<1>1. /\ p \in Procs /\ chan[c] \in Members /\ ChannelTypes /\ Built
      /\ call[p] \in Calls
  BY Elements DEF CallInv, TypeOK, ChannelTypes
<1>2. /\ OwnCall(p, Idle) /\ Idle.op = "idle" /\ OwnCall(p, Dead) /\ Dead.op = "dead"
      /\ \A op \in {"check", "drain", "close"} : OwnCall(p, [op |-> op, chan |-> c])
  BY DEF OwnCall, Calls, Idle, Dead
<1>3. \A f : (alive \ {f}) \subseteq Int \X {"server", "client"}
  BY <1>1 DEF ChannelTypes
<1>4. CASE CloseMark(c) \/ (CloseCheckFirst(c) /\ PeerFlag(c) \in alive)
  <2>1. /\ call[p].op = "idle"
        /\ UNCHANGED <<inbox, reply, queue, chan, use, told, taken>>
        /\ alive' = alive \/ alive' = alive \ {OwnFlag(c)}
        /\ \E op \in {"check", "drain"} :
             call' = [call EXCEPT ![p] = [op |-> op, chan |-> c]]
    BY <1>4 DEF CloseMark, CloseCheckFirst, MayClose, Ready, Enter, Idle
  <2>2. PICK op \in {"check", "drain"} :
          call' = [call EXCEPT ![p] = [op |-> op, chan |-> c]]
    BY <2>1
  <2>3. /\ Moves(p, [op |-> op, chan |-> c]) /\ OwnCall(p, [op |-> op, chan |-> c])
        /\ ChannelTypes' /\ Built'
    BY <1>1, <1>2, <1>3, <2>1, <2>2 DEF Moves, ChannelTypes, Built
  <2> QED BY <1>1, <2>1, <2>3, QuietStep
<1>5. CASE CloseKept(c) \/ CloseDrain(c)
  <2>1. /\ call[p].op \in {"check", "drain"} /\ call' = [call EXCEPT ![p] = Idle]
        /\ UNCHANGED <<inbox, reply, queue, chan, told, taken>>
        /\ use' = [use EXCEPT ![c] = "closed"]
        /\ alive' = alive \/ alive' = alive \ {OwnFlag(c)}
    BY <1>5 DEF CloseKept, CloseDrain, Calling, Return
  <2>2. Moves(p, Idle) /\ ChannelTypes' /\ Built'
    BY <1>1, <1>3, <2>1 DEF Moves, ChannelTypes, Built
  <2> QED BY <1>1, <1>2, <2>1, <2>2, QuietStep
<1>6. CASE CloseReturn(c)
  <2>1. /\ call' = [call EXCEPT ![p] = Idle]
        /\ reply' = [reply EXCEPT ![p] = NoReply] /\ reply[p] # NoReply
        /\ UNCHANGED <<inbox, queue, alive, chan, told, taken>>
        /\ use' = [use EXCEPT ![c] = "closed"]
    BY <1>6 DEF CloseReturn, Return, Answered, TakeReply
  <2>2. Moves(p, Idle) /\ ChannelTypes' /\ Built'
    BY <1>1, <2>1 DEF Moves, ChannelTypes, Built
  <2> QED BY <1>1, <1>2, <2>1, <2>2, QuietStep
<1>7. CASE CloseNull(c)
  <2>1. /\ call' = [call EXCEPT ![p] = Dead]
        /\ UNCHANGED <<inbox, reply, queue, alive, chan, use, told, taken>>
    BY <1>7 DEF CloseNull, Segfault
  <2>2. Moves(p, Dead) /\ ChannelTypes' /\ Built'
    BY <1>1, <2>1 DEF Moves, ChannelTypes, Built
  <2> QED BY <1>1, <1>2, <2>1, <2>2, QuietStep
<1>8. CASE CloseTell(c) \/ (CloseCheckFirst(c) /\ PeerFlag(c) \notin alive)
  <2> DEFINE new    == [op |-> "close", chan |-> c]
             conn   == iMsg(p, "CONNECT_CLOSE", chan[c].localAddr, chan[c].shmId, 0)
             listen == iMsg(p, "LISTEN_CLOSE", chan[c].localAddr, NoAddr, 0)
  <2>1. TellManager(c) /\ call[p].op \in {"idle", "check"}
        /\ (alive' = alive \/ alive' = alive \ {OwnFlag(c)})
    BY <1>8 DEF CloseTell, CloseCheckFirst, MayClose, Ready, Calling, Idle
  <2>2. /\ call' = [call EXCEPT ![p] = new]
        /\ told' = told \cup {<<c, chan[c].shmId>>}
        /\ UNCHANGED <<reply, queue, chan, use, taken>>
        /\ \/ chan[c].msgrAddr /\ (SendUdp(conn) \/ SendUdp(listen))
           \/ UNCHANGED inbox
    BY <2>1 DEF TellManager, Enter
  <2>3. Moves(p, new) /\ OwnCall(p, new)
    BY <1>2, <2>2 DEF Moves
  <2>4. ChannelTypes' /\ Built'
    BY <1>1, <1>3, <2>1, <2>2 DEF ChannelTypes, Built, Members
  <2>5. CASE chan[c].msgrAddr
    <3>1. chan[c].localAddr \in Addrs /\ chan[c].shmId \in Int
      BY <1>1, <2>5 DEF Built, Members
    <3>2. ASSUME NEW m \in {conn, listen}
          PROVE  /\ m \in Datagrams /\ m.port = p /\ WellFormed(m)
                 /\ SentBy(m, new.op, chan'[new.chan])
      BY <1>1, <3>1 DEF iMsg, Datagrams, Modes, WellFormed, SentBy
    <3>3. PICK m \in {conn, listen} : SendUdp(m) \/ UNCHANGED inbox
      BY <2>2
    <3> HIDE DEF conn, listen
    <3> QED BY <1>1, <2>1, <2>2, <2>3, <2>4, <3>2, <3>3, SendStep
  <2>6. CASE ~chan[c].msgrAddr
    <3>1. UNCHANGED inbox
      BY <2>2, <2>6
    <3>2. PICK a \in Addrs : TRUE
      BY ChannelAssumption
    <3> DEFINE m == iMsg(p, "CONNECT_CLOSE", a, 0, 0)
    <3>3. /\ m \in Datagrams /\ m.port = p /\ WellFormed(m)
          /\ SentBy(m, new.op, chan'[new.chan])
      BY <1>1 DEF iMsg, Datagrams, Modes, WellFormed, SentBy
    <3> HIDE DEF m
    <3> QED BY <1>1, <2>1, <2>2, <2>3, <2>4, <3>1, <3>3, SendStep
  <2> QED BY <2>5, <2>6
<1> QED BY <1>4, <1>5, <1>6, <1>7, <1>8

(* A process that is killed leaves its datagram or its answer behind.      *)
LEMMA DieKeeps ==
  ASSUME CallInv, UNCHANGED msgrVars, NEW p \in Procs, Die(p)
  PROVE  CallInv'
<1>1. /\ call' = [call EXCEPT ![p] = Dead]
      /\ UNCHANGED <<inbox, reply, queue, alive, chan, use, told, taken>>
  BY DEF Die
<1>2. Moves(p, Dead) /\ OwnCall(p, Dead) /\ Dead.op = "dead"
  BY <1>1 DEF Moves, OwnCall, Calls, Dead
<1>3. ChannelTypes' /\ Built'
  BY <1>1 DEF CallInv, TypeOK, ChannelTypes, Built
<1> QED BY <1>1, <1>2, <1>3, QuietStep

(* A process has a datagram or an answer under way only in the call that   *)
(* waits for it (iChannel.cpp:74-78, :99-102, :159-162).                   *)
THEOREM CallInvariant == Spec => []CallInv
<1>1. CallInv /\ [Next]_vars => CallInv'
  <2> SUFFICES ASSUME CallInv, [Next]_vars PROVE CallInv'
    OBVIOUS
  <2>1. CASE Manager
    BY <2>1, ManagerKeeps
  <2>2. ASSUME NEW c \in Channels, Call(c) \/ Proceed(c) PROVE CallInv'
    <3>1. UNCHANGED msgrVars
      BY <2>2 DEF Call, Proceed
    <3>2. MakeCall(c) \/ InCall(c)
      BY <2>2 DEF Call, Proceed
    <3> QED BY <3>1, <3>2, ListenKeeps, ConnectKeeps, AcceptKeeps, CloseKeeps
            DEF MakeCall, InCall
  <2>3. ASSUME NEW p \in Procs, Kill(p) PROVE CallInv'
    BY <2>3, DieKeeps DEF Kill
  <2>4. CASE UNCHANGED vars
    BY <2>4 DEF vars, sharedVars, msgrVars, channelVars, freeListVars, CallInv,
                TypeOK, Built, Own, Asked, Replied, OneEach, SentBy, WellFormed
  <2> QED BY <2>1, <2>2, <2>3, <2>4 DEF Next
<1> QED BY InitCallInv, <1>1, PTL DEF Spec

-----------------------------------------------------------------------------
(* The variables of the manager, the processes and what they share keep    *)
(* their types (msgr.cpp:106-241, iChannel.cpp:44-219).                    *)
THEOREM C4Types == Spec => []TypeOK
<1>1. CallInv => TypeOK
  BY DEF CallInv
<1> QED BY CallInvariant, <1>1, PTL

(* A process never has two datagrams under way, request and answer taken   *)
(* together (iChannel.cpp:74-78, :99-102, :159-162).                       *)
THEOREM OneInFlightHolds == Spec => []OneInFlight
<1>1. CallInv => OneInFlight
  <2> SUFFICES ASSUME CallInv, NEW p \in Procs
               PROVE  LET requests == {i \in DOMAIN inbox : inbox[i].port = p}
                      IN  Cardinality(requests)
                            + (IF reply[p] = NoReply THEN 0 ELSE 1) <= 1
    BY DEF OneInFlight
  <2> DEFINE requests == {i \in DOMAIN inbox : inbox[i].port = p}
  <2>1. \A i, j \in requests : i = j
    BY DEF CallInv, OneEach
  <2>2. requests # {} => reply[p] = NoReply
    BY DEF CallInv, OneEach
  <2>3. CASE requests = {}
    BY <2>3, FS_EmptySet
  <2>4. CASE requests # {}
    <3>1. \E i : requests = {i}
      BY <2>1, <2>4
    <3>2. Cardinality(requests) = 1
      <4> HIDE DEF requests
      <4> QED BY <3>1, FS_Singleton
    <3> QED BY <2>2, <2>4, <3>2
  <2> QED BY <2>3, <2>4
<1> QED BY CallInvariant, <1>1, PTL
=============================================================================
