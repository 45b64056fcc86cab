------------------------------ MODULE C4Proofs ------------------------------
(***************************************************************************)
(* Proofs about the connections of C4, for every set of processes,         *)
(* channels and addresses, when each channel has one role (OneRole).       *)
(*                                                                         *)
(* The argument: an id other than 0 leaves the free list once, for nothing *)
(* gives it back.  From then on its node is in one place, an accept queue  *)
(* or the history of what was accepted; one connector holds it, in the     *)
(* answer and then in its channel, and at most one channel that was given  *)
(* to accept.  Each of the two has its own alive flag, which is up only    *)
(* while the channel is open: so an end that finds the other's flag up     *)
(* when it closes leaves somebody behind (Raised).                         *)
(*                                                                         *)
(* So an id other than 0 that the manager grants is in no line and at no   *)
(* end, which is what Rendezvous asks of a connect.  For the refinement    *)
(* the ends of a step are followed channel by channel: most steps change   *)
(* none of them (Quiet), the others one (Becomes).                         *)
(***************************************************************************)
EXTENDS C4CallProofs

\* what the role of a channel settles of its members m and its use u
RoleOf(c, m, u) ==
  /\ c \notin Acceptees => m.localAddr = AddrOf[c]
  /\ c \in Connectors => ~m.isServer
  /\ m.shmId # NoId => c \in Connectors \cup Acceptees
  /\ c \in Acceptees /\ m.shmId # NoId =>
       /\ m.isServer
       /\ \E l \in Listeners : ProcOf[l] = ProcOf[c] /\ AddrOf[l] = m.localAddr
  /\ c \notin Listeners \cup DefaultBuilt => m.acceptQueue = NoProc
  /\ u # "unused" => m.shmId # NoId

Roles == \A c \in Channels : RoleOf(c, chan[c], use[c])

\* what a call relies on while it goes on
Busy ==
  \A p \in Procs :
    /\ call[p].op \in {"check", "drain", "close"} => use[call[p].chan] = "open"
    /\ call[p].op = "connect" => use[call[p].chan] # "open"
    /\ call[p].op = "accept" => use[call[p].new] # "open"
    /\ call[p].op = "close" => <<call[p].chan, chan[call[p].chan].shmId>> \in told

\* whoever the manager takes for the server of an address listens there
Serving ==
  /\ \A a \in Addrs : aqHash[a] # NoProc => ListensAt(aqHash[a], a)
  /\ \A i \in DOMAIN inbox :
       /\ inbox[i].mode # "LISTEN_CLOSE"
       /\ inbox[i].mode = "SERVER_LISTEN_REQ" =>
            ListensAt(inbox[i].port, inbox[i].localAddr)
       /\ inbox[i].mode = "CLIENT_CONN_REQ" /\ call[inbox[i].port].op # "dead" =>
            inbox[i].localAddr = AddrOf[call[inbox[i].port].chan]

RoleInv == CallInv /\ Roles /\ Busy /\ Serving

-----------------------------------------------------------------------------
Real(id) == id # 0 /\ id # NoId

\* the id is in an accept queue, or was
InLine(id)   == \E p \in Procs : \E i \in DOMAIN queue[p] : queue[p][i].shmId = id
Accepted(id) == \E i \in DOMAIN taken : taken[i][2].shmId = id

\* the id was a descriptor of the manager
Used(id) == id \in 1 .. FdLimit - 1 /\ id < nextFd

\* the ids that can be granted are new
Fresh ==
  /\ \A i \in DOMAIN free_list_, id \in Int : free_list_[i] = id /\ Real(id) =>
       Used(id) /\ ~InLine(id) /\ ~Accepted(id)
  /\ \A i, j \in DOMAIN free_list_ :
       Real(free_list_[i]) /\ free_list_[i] = free_list_[j] => i = j

\* a node is in one place
Once ==
  /\ \A p, q \in Procs : \A i \in DOMAIN queue[p], j \in DOMAIN queue[q] :
       Real(queue[p][i].shmId) /\ queue[p][i].shmId = queue[q][j].shmId =>
         p = q /\ i = j
  /\ \A i, j \in DOMAIN taken :
       Real(taken[i][2].shmId) /\ taken[i][2].shmId = taken[j][2].shmId => i = j
  /\ \A id \in Int : Real(id) => ~(InLine(id) /\ Accepted(id))
  /\ \A id \in Int : Real(id) /\ (InLine(id) \/ Accepted(id)) => Used(id)
  /\ \A p \in Procs : Len(queue[p]) <= Backlog

\* the connector c holds id, for a connection to the address "to"
Client(c, id, to) ==
  \/ chan[c].shmId = id /\ chan[c].peerAddr = to
  \/ /\ Calling(c, "connect") /\ call[ProcOf[c]].to = to
     /\ reply[ProcOf[c]] = [mode |-> "MNGR_CONN_RES", shmId |-> id]

\* the channel d holds id, accepted from a client with the address "from"
Server(d, id, from) ==
  \/ chan[d].shmId = id /\ chan[d].peerAddr = from
  \/ LET p == ProcOf[d] IN
     call[p].op = "accept" /\ call[p].new = d /\ call[p].nd = node(id, from)

Everyone == Addrs \cup {NoAddr}

\* a process that listens at "to" has, or had, the node of the id in its queue
Met(id, from, to) ==
  \E p \in Procs :
    /\ ListensAt(p, to)
    /\ \/ \E i \in DOMAIN queue[p] : queue[p][i] = node(id, from)
       \/ \E i \in DOMAIN taken : taken[i] = <<p, node(id, from)>>

Holders ==
  /\ \A c, d \in Connectors, id \in Int, a, b \in Everyone :
       Real(id) /\ Client(c, id, a) /\ Client(d, id, b) => c = d
  /\ \A c, d \in Acceptees, id \in Int, a, b \in Everyone :
       Real(id) /\ Server(c, id, a) /\ Server(d, id, b) => c = d
  /\ \A c \in Connectors, id \in Int, to \in Everyone :
       Real(id) /\ Client(c, id, to) => Met(id, AddrOf[c], to)
  /\ \A d \in Acceptees, id \in Int, from \in Everyone :
       Real(id) /\ Server(d, id, from) =>
         \E i \in DOMAIN taken : taken[i] = <<ProcOf[d], node(id, from)>>

IdInv == Fresh /\ Once /\ Holders

-----------------------------------------------------------------------------
\* the alive flag of a channel that holds an id
FlagOf(c) ==
  Real(chan[c].shmId) =>
    /\ Open(c) /\ ~Closing(c) /\ call[ProcOf[c]] # Dead => OwnFlag(c) \in alive
    /\ use[c] = "closed" \/ Calling(c, "check") \/ Calling(c, "close") =>
         OwnFlag(c) \notin alive

Flags == \A c \in Channels : FlagOf(c)

\* it is nobody else's
OwnFlagsDiffer ==
  \A c, d \in Channels :
    Real(chan[c].shmId) /\ OwnFlag(c) = OwnFlag(d) => c = d

ConnInv == RoleInv /\ IdInv /\ Flags

-----------------------------------------------------------------------------
LEMMA InitRoleInv ==
  ASSUME OneRole, Init
  PROVE  RoleInv
<1> USE DEF Init, MsgrInit, ChannelInit
<1>1. CallInv
  BY InitCallInv
<1>2. \A c \in Channels :
        /\ chan[c].shmId = NoId /\ chan[c].isServer = FALSE /\ use[c] = "unused"
        /\ c \notin DefaultBuilt =>
             chan[c].acceptQueue = NoProc /\ chan[c].localAddr = AddrOf[c]
  OBVIOUS
<1>3. Roles
  BY <1>2, ChannelAssumption DEF Roles, RoleOf
<1>4. Busy /\ Serving
  BY DEF Busy, Serving, Idle
<1> QED BY <1>1, <1>3, <1>4 DEF RoleInv

\* ListensAt in the next state, of a process and an address in this one
WillListen(p, a) ==
  \E l \in Listeners : /\ ProcOf[l] = p /\ chan'[l].acceptQueue = p
                       /\ chan'[l].localAddr = a

(* A process that listens at an address goes on doing so.                  *)
LEMMA ListensOn ==
  ASSUME \A l \in Listeners :
           /\ chan'[l].localAddr = chan[l].localAddr
           /\ chan'[l].acceptQueue = chan[l].acceptQueue \/ chan[l].acceptQueue = NoProc
  PROVE  \A p \in Procs : \A a : ListensAt(p, a) => WillListen(p, a)
BY SharedAssumption DEF ListensAt, WillListen

(* The manager takes for a server only whoever said that it listens.       *)
LEMMA ManagerRoles ==
  ASSUME OneRole, RoleInv, Manager
  PROVE  (Roles /\ Busy /\ Serving)'
<1>1. inbox # <<>> /\ inbox' = Tail(inbox) /\ UNCHANGED <<alive, call, chan>>
      /\ UNCHANGED <<use, told, taken>>
  BY DEF Manager, MsgrNext, ConnNotRegistered, ConnQueueFull, ConnMatched, Receive,
         ListenReq, ListenReqNoFd, ConnectClose, ListenClose, ListenCloseUnknown,
         channelVars
<1>2. CallInv /\ pkg \in Datagrams /\ WellFormed(pkg) /\ pkg = inbox[1] /\ 1 \in DOMAIN inbox
  BY <1>1, FirstDatagram DEF RoleInv
<1>3. Roles' /\ Busy'
  BY <1>1 DEF RoleInv, Roles, Busy
<1>4. pkg.mode # "LISTEN_CLOSE"
  BY <1>2 DEF RoleInv, Serving
<1>5. \A p, a : ListensAt(p, a)' <=> ListensAt(p, a)
  BY <1>1 DEF ListensAt
<1>6. \A a \in Addrs : aqHash'[a] # NoProc => ListensAt(aqHash'[a], a)
  <2>1. CASE ListenReq
    <3>1. aqHash' = [aqHash EXCEPT ![pkg.localAddr] = pkg.port]
      BY <1>2, <2>1 DEF ListenReq, Receive, WellFormed
    <3>2. ListensAt(pkg.port, pkg.localAddr)
      BY <1>2, <2>1 DEF ListenReq, Receive, RoleInv, Serving
    <3> QED BY <1>2, <3>1, <3>2 DEF RoleInv, CallInv, TypeOK, Serving
  <2>2. CASE UNCHANGED aqHash
    BY <2>2 DEF RoleInv, Serving
  <2> QED BY <1>4, <2>1, <2>2
          DEF Manager, MsgrNext, ConnNotRegistered, ConnQueueFull, ConnMatched, Receive,
              ListenReqNoFd, ConnectClose, ListenClose, ListenCloseUnknown, Crash,
              msgrVars
<1>7. ASSUME NEW i \in DOMAIN Tail(inbox)
      PROVE  /\ Tail(inbox)[i].mode # "LISTEN_CLOSE"
             /\ Tail(inbox)[i].mode = "SERVER_LISTEN_REQ" =>
                  ListensAt(Tail(inbox)[i].port, Tail(inbox)[i].localAddr)
             /\ Tail(inbox)[i].mode = "CLIENT_CONN_REQ"
                 /\ call[Tail(inbox)[i].port].op # "dead" =>
                  Tail(inbox)[i].localAddr = AddrOf[call[Tail(inbox)[i].port].chan]
  <2>1. i + 1 \in DOMAIN inbox /\ Tail(inbox)[i] = inbox[i + 1]
    BY <1>1, <1>2, FirstDatagram
  <2> QED BY <2>1 DEF RoleInv, Serving
<1>8. Serving'
  BY <1>1, <1>5, <1>6, <1>7 DEF Serving
<1> QED BY <1>3, <1>8

(* What another process does concerns neither the calls nor the datagrams  *)
(* of a process; what a process sends, it sends in its own name.           *)
LEMMA SendServing ==
  ASSUME RoleInv, NEW p \in Procs, NEW new, call' = [call EXCEPT ![p] = new],
         \A l \in Listeners :
           /\ chan'[l].localAddr = chan[l].localAddr
           /\ chan'[l].acceptQueue = chan[l].acceptQueue \/ chan[l].acceptQueue = NoProc,
         UNCHANGED aqHash,
         \/ /\ UNCHANGED inbox
            /\ new.op = "dead" \/ \A i \in DOMAIN inbox : inbox[i].port # p
         \/ \E m \in Datagrams :
              /\ SendUdp(m) /\ m.port = p /\ m.mode # "LISTEN_CLOSE"
              /\ \A i \in DOMAIN inbox : inbox[i].port # p
              /\ m.mode = "SERVER_LISTEN_REQ" => WillListen(p, m.localAddr)
              /\ m.mode = "CLIENT_CONN_REQ" => m.localAddr = AddrOf[new.chan]
  PROVE  Serving'
<1>1. \A q \in Procs : call'[q] = IF q = p THEN new ELSE call[q]
  BY DEF RoleInv, CallInv, TypeOK
<1>2. \A i \in DOMAIN inbox : inbox[i].port \in Procs
  BY Elements DEF RoleInv, CallInv, Datagrams
<1>3. \A q \in Procs : \A a : ListensAt(q, a) => WillListen(q, a)
  BY ListensOn
<1>4. \A a \in Addrs : aqHash'[a] # NoProc => WillListen(aqHash'[a], a)
  BY <1>3 DEF RoleInv, Serving, CallInv, TypeOK
<1> DEFINE Fit(m) == /\ m.mode # "LISTEN_CLOSE"
                     /\ m.mode = "SERVER_LISTEN_REQ" => WillListen(m.port, m.localAddr)
                     /\ m.mode = "CLIENT_CONN_REQ" /\ call'[m.port].op # "dead" =>
                          m.localAddr = AddrOf[call'[m.port].chan]
<1>5. ASSUME NEW i \in DOMAIN inbox,
             inbox[i].port # p \/ new.op = "dead"
      PROVE  Fit(inbox[i])
  BY <1>1, <1>2, <1>3, <1>5 DEF RoleInv, Serving
<1>6. CASE UNCHANGED inbox /\ (new.op = "dead" \/ \A i \in DOMAIN inbox : inbox[i].port # p)
  <2>1. \A i \in DOMAIN inbox' : Fit(inbox'[i])
    BY <1>5, <1>6
  <2> QED BY <1>4, <2>1 DEF Serving, ListensAt, WillListen
<1>7. ASSUME NEW m \in Datagrams, SendUdp(m), m.port = p, m.mode # "LISTEN_CLOSE",
             \A i \in DOMAIN inbox : inbox[i].port # p,
             m.mode = "SERVER_LISTEN_REQ" => WillListen(p, m.localAddr),
             m.mode = "CLIENT_CONN_REQ" => m.localAddr = AddrOf[new.chan]
      PROVE  Serving'
  <2>1. Fit(m)
    BY <1>1, <1>7
  <2>2. \A i \in DOMAIN inbox' : \/ i \in DOMAIN inbox /\ inbox'[i] = inbox[i]
                                 \/ inbox'[i] = m
    <3>1. inbox \in Seq(Datagrams)
      BY DEF RoleInv, CallInv, TypeOK
    <3> QED BY <1>7, <3>1 DEF SendUdp
  <2>3. \A i \in DOMAIN inbox : Fit(inbox[i])
    BY <1>5, <1>7
  <2> HIDE DEF Fit
  <2>4. \A i \in DOMAIN inbox' : Fit(inbox'[i])
    BY <2>1, <2>2, <2>3
  <2> QED BY <1>4, <2>4 DEF Serving, ListensAt, WillListen, Fit
<1> QED BY <1>6, <1>7

BusyNext(new) ==
  /\ new.op \in {"check", "drain", "close"} => use'[new.chan] = "open"
  /\ new.op = "connect" => use'[new.chan] # "open"
  /\ new.op = "accept" => use'[new.new] # "open"
  /\ new.op = "close" => <<new.chan, chan'[new.chan].shmId>> \in told'

LEMMA BusyKeeps ==
  ASSUME RoleInv, NEW p \in Procs, NEW new, Moves(p, new),
         \A d \in Channels : ProcOf[d] # p => use'[d] = use[d],
         told \subseteq told', BusyNext(new)
  PROVE  Busy'
<1>1. \A q \in Procs : call'[q] = IF q = p THEN new ELSE call[q]
  BY DEF RoleInv, CallInv, TypeOK, Moves
<1>2. SUFFICES ASSUME NEW q \in Procs, q # p
               PROVE  BusyNext(call[q])
  BY <1>1 DEF Busy, BusyNext
<1>3. CASE call[q].op \in {"idle", "dead", "listen"}
  BY <1>3 DEF BusyNext
<1>4. CASE call[q].op \in {"check", "drain", "close", "connect"}
  <2>1. call[q].chan \in Channels /\ ProcOf[call[q].chan] = q
    BY <1>4, Elements DEF RoleInv, CallInv, Own, Calls, Idle, Dead
  <2>2. use'[call[q].chan] = use[call[q].chan] /\ chan'[call[q].chan] = chan[call[q].chan]
    BY <1>2, <2>1 DEF Moves
  <2> QED BY <1>4, <2>2 DEF RoleInv, Busy, BusyNext
<1>5. CASE call[q].op = "accept"
  <2>1. call[q].new \in Channels /\ ProcOf[call[q].new] = q
    BY <1>5, ChannelAssumption DEF RoleInv, CallInv, Own
  <2>2. use'[call[q].new] = use[call[q].new]
    BY <1>2, <2>1
  <2> QED BY <1>5, <2>2 DEF RoleInv, Busy, BusyNext
<1> QED BY <1>3, <1>4, <1>5, Elements DEF RoleInv, CallInv, Calls, Idle, Dead

LEMMA ListenRoles ==
  ASSUME OneRole, RoleInv, NEW c \in Channels, UNCHANGED msgrVars,
         ListenSend(c) \/ ListenFails(c) \/ ListenReturn(c)
  PROVE  (Roles /\ Busy /\ Serving)'
<1> DEFINE p == ProcOf[c]
<1>1. /\ CallInv /\ p \in Procs /\ Idle.op = "idle" /\ UNCHANGED aqHash
      /\ c \in Listeners => c \notin Connectors \cup Acceptees
  BY Elements DEF RoleInv, CallInv, OneRole, Idle, msgrVars
<1>2. CASE ListenSend(c)
  <2> DEFINE new == [op |-> "listen", chan |-> c]
             m   == iMsg(p, "SERVER_LISTEN_REQ", chan[c].localAddr, NoAddr, p)
  <2>1. /\ c \in Listeners /\ call[p].op = "idle" /\ SendUdp(m)
        /\ call' = [call EXCEPT ![p] = new] /\ chan[c].acceptQueue = NoProc
        /\ chan' = [chan EXCEPT ![c].isServer = TRUE, ![c].acceptQueue = p]
        /\ UNCHANGED <<use, told, taken>>
    BY <1>1, <1>2 DEF ListenSend, Ready, Enter
  <2>2. /\ \A d \in Channels \ {c} : chan'[d] = chan[d]
        /\ chan'[c] = [chan[c] EXCEPT !.isServer = TRUE, !.acceptQueue = p]
        /\ chan[c] \in Members
    BY <2>1 DEF RoleInv, CallInv, TypeOK
  <2>3. /\ chan'[c].localAddr = chan[c].localAddr /\ chan'[c].acceptQueue = p
        /\ chan'[c].shmId = chan[c].shmId
    BY <2>2 DEF Members
  <2>4. Roles'
    <3>1. RoleOf(c, chan'[c], use'[c])
      BY <1>1, <2>1, <2>3 DEF RoleInv, Roles, RoleOf
    <3> QED BY <2>1, <2>2, <3>1 DEF RoleInv, Roles
  <2>5. Busy'
    <3>1. Moves(p, new) /\ BusyNext(new)
      BY <2>1, <2>2 DEF Moves, BusyNext
    <3> QED BY <1>1, <2>1, <3>1, BusyKeeps
  <2>6. Serving'
    <3>1. /\ chan[c].localAddr \in Addrs /\ WillListen(p, chan[c].localAddr)
          /\ \A i \in DOMAIN inbox : inbox[i].port # p
      BY <1>1, <2>1, <2>3, NothingUnderWay, ChannelAssumption
         DEF CallInv, Built, WillListen
    <3>2. /\ m \in Datagrams /\ m.port = p /\ m.mode # "LISTEN_CLOSE"
          /\ m.mode # "CLIENT_CONN_REQ"
          /\ WillListen(p, m.localAddr)
      BY <1>1, <3>1 DEF iMsg, Datagrams, Modes
    <3>3. \A l \in Listeners :
           /\ chan'[l].localAddr = chan[l].localAddr
           /\ chan'[l].acceptQueue = chan[l].acceptQueue \/ chan[l].acceptQueue = NoProc
      BY <2>1, <2>2, <2>3, ChannelAssumption
    <3> HIDE DEF m
    <3> QED BY <1>1, <2>1, <3>1, <3>2, <3>3, SendServing
  <2> QED BY <2>4, <2>5, <2>6
<1>3. CASE ListenReturn(c)
  <2>1. /\ call' = [call EXCEPT ![p] = Idle] /\ reply[p] # NoReply
        /\ UNCHANGED <<inbox, chan, use, told>>
    BY <1>3 DEF ListenReturn, Return, Answered
  <2>2. Roles'
    BY <2>1 DEF RoleInv, Roles
  <2>3. Busy'
    <3>1. Moves(p, Idle) /\ BusyNext(Idle)
      BY <1>1, <2>1 DEF Moves, BusyNext
    <3> QED BY <1>1, <2>1, <3>1, BusyKeeps
  <2>4. Serving'
    <3>1. \A i \in DOMAIN inbox : inbox[i].port # p
      BY <1>1, <2>1, NothingUnderWay
    <3> QED BY <1>1, <2>1, <3>1, SendServing
  <2> QED BY <2>2, <2>3, <2>4
<1>4. CASE ListenFails(c)
  <2>1. /\ c \in Listeners /\ call[p] = Idle /\ UNCHANGED <<inbox, call, use, told>>
        /\ chan' = [chan EXCEPT ![c].isServer = TRUE]
    BY <1>4 DEF ListenFails, Ready
  <2>2. /\ \A d \in Channels \ {c} : chan'[d] = chan[d]
        /\ chan'[c] = [chan[c] EXCEPT !.isServer = TRUE]
        /\ chan[c] \in Members /\ call' = [call EXCEPT ![p] = Idle]
    BY <1>1, <2>1 DEF CallInv, TypeOK
  <2>3. /\ chan'[c].localAddr = chan[c].localAddr
        /\ chan'[c].acceptQueue = chan[c].acceptQueue /\ chan'[c].shmId = chan[c].shmId
    BY <2>2 DEF Members
  <2>4. Roles'
    <3>1. RoleOf(c, chan'[c], use'[c])
      BY <1>1, <2>1, <2>3 DEF RoleInv, Roles, RoleOf
    <3> QED BY <2>1, <2>2, <3>1 DEF RoleInv, Roles
  <2>5. Busy'
    <3>1. Moves(p, Idle) /\ BusyNext(Idle)
      BY <1>1, <2>1, <2>2 DEF Moves, BusyNext
    <3> QED BY <1>1, <2>1, <3>1, BusyKeeps
  <2>6. Serving'
    <3>1. \A i \in DOMAIN inbox : inbox[i].port # p
      BY <1>1, <2>1, NothingUnderWay
    <3>2. \A l \in Listeners :
           /\ chan'[l].localAddr = chan[l].localAddr
           /\ chan'[l].acceptQueue = chan[l].acceptQueue \/ chan[l].acceptQueue = NoProc
      BY <2>2, <2>3, ChannelAssumption
    <3> QED BY <1>1, <2>1, <2>2, <3>1, <3>2, SendServing
  <2> QED BY <2>4, <2>5, <2>6
<1> QED BY <1>2, <1>3, <1>4

LEMMA ConnectRoles ==
  ASSUME OneRole, RoleInv, NEW c \in Channels, UNCHANGED msgrVars,
         \/ \E a \in ServerAddrs : ConnectSend(c, a)
         \/ ConnectReturn(c) \/ ConnectRefused(c) \/ ConnectNoSegment(c)
  PROVE  (Roles /\ Busy /\ Serving)'
<1> DEFINE p == ProcOf[c]
<1>1. /\ CallInv /\ p \in Procs /\ Idle.op = "idle" /\ Dead.op = "dead"
      /\ c \in Connectors => c \notin Listeners \cup Acceptees
      /\ UNCHANGED aqHash
  BY Elements DEF RoleInv, CallInv, OneRole, Idle, Dead, msgrVars
<1>2. ASSUME NEW a \in ServerAddrs, ConnectSend(c, a)
      PROVE  (Roles /\ Busy /\ Serving)'
  <2> DEFINE new == [op |-> "connect", chan |-> c, to |-> a]
             m   == iMsg(p, "CLIENT_CONN_REQ", chan[c].localAddr, a, 0)
  <2>1. /\ c \in Connectors /\ call[p].op = "idle" /\ SendUdp(m) /\ use[c] # "open"
        /\ call' = [call EXCEPT ![p] = new]
        /\ chan' = [chan EXCEPT ![c].isServer = FALSE]
        /\ UNCHANGED <<use, told, taken>>
    BY <1>1, <1>2 DEF ConnectSend, Ready
  <2>2. /\ \A d \in Channels \ {c} : chan'[d] = chan[d]
        /\ chan'[c] = [chan[c] EXCEPT !.isServer = FALSE]
        /\ chan[c] \in Members
    BY <2>1 DEF RoleInv, CallInv, TypeOK
  <2>3. /\ chan'[c].localAddr = chan[c].localAddr /\ chan'[c].isServer = FALSE
        /\ chan'[c].acceptQueue = chan[c].acceptQueue /\ chan'[c].shmId = chan[c].shmId
    BY <2>2 DEF Members
  <2>4. Roles'
    <3>1. RoleOf(c, chan'[c], use'[c])
      BY <1>1, <2>1, <2>3 DEF RoleInv, Roles, RoleOf
    <3> QED BY <2>1, <2>2, <3>1 DEF RoleInv, Roles
  <2>5. Busy'
    <3>1. Moves(p, new) /\ BusyNext(new)
      BY <2>1, <2>2 DEF Moves, BusyNext
    <3> QED BY <1>1, <2>1, <3>1, BusyKeeps
  <2>6. Serving'
    <3>1. /\ chan[c].localAddr \in Addrs /\ chan[c].localAddr = AddrOf[c]
          /\ \A i \in DOMAIN inbox : inbox[i].port # p
      <4>1. chan[c].localAddr = AddrOf[c]
        BY <1>1, <2>1 DEF RoleInv, Roles, RoleOf
      <4> QED BY <1>1, <2>1, <4>1, NothingUnderWay, ChannelAssumption
    <3>2. a \in Addrs
      BY ChannelAssumption DEF ServerAddrs
    <3>3. /\ m \in Datagrams /\ m.port = p /\ m.mode = "CLIENT_CONN_REQ"
          /\ m.localAddr = AddrOf[new.chan]
      BY <1>1, <3>1, <3>2 DEF iMsg, Datagrams, Modes
    <3>4. \A l \in Listeners :
           /\ chan'[l].localAddr = chan[l].localAddr
           /\ chan'[l].acceptQueue = chan[l].acceptQueue \/ chan[l].acceptQueue = NoProc
      BY <2>1, <2>2, <2>3, ChannelAssumption
    <3> HIDE DEF m, new
    <3> QED BY <1>1, <2>1, <3>1, <3>3, <3>4, SendServing
  <2> QED BY <2>4, <2>5, <2>6
<1>3. CASE ConnectReturn(c)
  <2> DEFINE id == reply[p].shmId
  <2>1. /\ call[p].op = "connect" /\ call[p].chan = c
        /\ chan' = [chan EXCEPT ![c].shmId = id, ![c].peerAddr = call[p].to]
        /\ use' = [use EXCEPT ![c] = "open"] /\ id \in segs
        /\ call' = [call EXCEPT ![p] = Idle] /\ reply[p] # NoReply
        /\ UNCHANGED <<inbox, told>>
    BY <1>3 DEF ConnectReturn, Calling, Answered, Return
  <2>2. /\ \A d \in Channels \ {c} : chan'[d] = chan[d]
        /\ chan'[c] = [chan[c] EXCEPT !.shmId = id, !.peerAddr = call[p].to]
        /\ chan[c] \in Members /\ id # NoId
        /\ \A d \in Channels : use'[d] = IF d = c THEN "open" ELSE use[d]
    BY <2>1 DEF RoleInv, CallInv, TypeOK, NoId
  <2>3. /\ chan'[c].localAddr = chan[c].localAddr /\ chan'[c].shmId = id
        /\ chan'[c].acceptQueue = chan[c].acceptQueue
        /\ chan'[c].isServer = chan[c].isServer
    BY <2>2 DEF Members
  <2>4. c \in Connectors
    BY <1>1, <2>1 DEF CallInv, Own
  <2>5. Roles'
    <3>1. RoleOf(c, chan'[c], use'[c])
      BY <1>1, <2>2, <2>3, <2>4 DEF RoleInv, Roles, RoleOf
    <3> QED BY <2>2, <3>1 DEF RoleInv, Roles
  <2>6. Busy'
    <3>1. Moves(p, Idle) /\ BusyNext(Idle)
      BY <1>1, <2>1, <2>2 DEF Moves, BusyNext
    <3> QED BY <1>1, <2>1, <2>2, <3>1, BusyKeeps
  <2>7. Serving'
    <3>1. \A i \in DOMAIN inbox : inbox[i].port # p
      BY <1>1, <2>1, NothingUnderWay
    <3>2. \A l \in Listeners :
           /\ chan'[l].localAddr = chan[l].localAddr
           /\ chan'[l].acceptQueue = chan[l].acceptQueue \/ chan[l].acceptQueue = NoProc
      BY <2>2, <2>3, ChannelAssumption
    <3> QED BY <1>1, <2>1, <3>1, <3>2, SendServing
  <2> QED BY <2>5, <2>6, <2>7
<1>4. CASE ConnectRefused(c) \/ ConnectNoSegment(c)
  <2>1. /\ reply[p] # NoReply /\ UNCHANGED <<inbox, chan, use, told>>
        /\ call' = [call EXCEPT ![p] = Idle] \/ call' = [call EXCEPT ![p] = Dead]
    BY <1>4 DEF ConnectRefused, ConnectNoSegment, Return, Segfault, Answered
  <2>2. PICK new \in {Idle, Dead} : call' = [call EXCEPT ![p] = new]
    BY <2>1
  <2>3. Roles'
    BY <2>1 DEF RoleInv, Roles
  <2>4. Busy'
    <3>1. Moves(p, new) /\ BusyNext(new)
      BY <1>1, <2>1, <2>2 DEF Moves, BusyNext
    <3> QED BY <1>1, <2>1, <3>1, BusyKeeps
  <2>5. Serving'
    <3>1. \A i \in DOMAIN inbox : inbox[i].port # p
      BY <1>1, <2>1, NothingUnderWay
    <3> QED BY <1>1, <2>1, <2>2, <3>1, SendServing
  <2> QED BY <2>3, <2>4, <2>5
<1> QED BY <1>2, <1>3, <1>4

LEMMA AcceptRoles ==
  ASSUME OneRole, RoleInv, NEW c \in Channels, UNCHANGED msgrVars,
         (\E new \in Channels : AcceptDequeue(c, new)) \/ AcceptAttach(c)
  PROVE  (Roles /\ Busy /\ Serving)'
<1> DEFINE p == ProcOf[c]
<1>1. /\ CallInv /\ p \in Procs /\ Idle.op = "idle" /\ Dead.op = "dead"
      /\ UNCHANGED aqHash
  BY Elements DEF RoleInv, CallInv, Idle, Dead, msgrVars
<1>2. ASSUME NEW d \in Channels, AcceptDequeue(c, d)
      PROVE  (Roles /\ Busy /\ Serving)'
  <2> DEFINE new == [op |-> "accept", chan |-> c, new |-> d, nd |-> Head(queue[p])]
  <2>1. /\ call[p].op = "idle" /\ use[d] # "open"
        /\ call' = [call EXCEPT ![p] = new]
        /\ UNCHANGED <<inbox, reply, alive, chan, use, told>>
    BY <1>1, <1>2 DEF AcceptDequeue, Ready
  <2>2. new.op = "accept" /\ new.new = d
    OBVIOUS
  <2> HIDE DEF new
  <2>3. Roles'
    BY <2>1 DEF RoleInv, Roles
  <2>4. Busy'
    <3>1. Moves(p, new) /\ BusyNext(new)
      BY <1>1, <2>1, <2>2 DEF Moves, BusyNext
    <3> QED BY <1>1, <2>1, <3>1, BusyKeeps
  <2>5. Serving'
    <3>1. \A i \in DOMAIN inbox : inbox[i].port # p
      BY <1>1, <2>1, NothingUnderWay
    <3> QED BY <1>1, <2>1, <3>1, SendServing
  <2> QED BY <2>3, <2>4, <2>5
<1>3. CASE AcceptAttach(c)
  <2> DEFINE d  == call[p].new
             nd == call[p].nd
  <2>1. call[p].op = "accept" /\ call[p].chan = c /\ UNCHANGED <<inbox, reply, told>>
    BY <1>3 DEF AcceptAttach, Calling
  <2>2. /\ d \in Acceptees /\ d \in Channels /\ ProcOf[d] = p /\ c \in Listeners
        /\ d \notin Connectors /\ d \notin Listeners /\ c \notin Acceptees
    BY <1>1, <2>1, ChannelAssumption DEF CallInv, Own, OneRole
  <2>3. \A i \in DOMAIN inbox : inbox[i].port # p
    BY <1>1, <2>1, NothingUnderWay
  <2>4. CASE nd.shmId \in segs
    <3>1. /\ chan' = [chan EXCEPT ![d].shmId = nd.shmId,
                                  ![d].localAddr = chan[c].localAddr,
                                  ![d].peerAddr = nd.peerAddr,
                                  ![d].isServer = TRUE]
          /\ use' = [use EXCEPT ![d] = "open"]
          /\ call' = [call EXCEPT ![p] = Idle]
      BY <1>3, <2>4 DEF AcceptAttach, Return
    <3> HIDE DEF d, nd
    <3>2. /\ \A e \in Channels \ {d} : chan'[e] = chan[e]
          /\ \A e \in Channels : use'[e] = IF e = d THEN "open" ELSE use[e]
      BY <2>2, <3>1 DEF RoleInv, CallInv, TypeOK
    <3>3. /\ chan'[d].localAddr = chan[c].localAddr /\ chan'[d].isServer = TRUE
          /\ chan'[d].acceptQueue = chan[d].acceptQueue
      <4>1. chan'[d] = [chan[d] EXCEPT !.shmId = nd.shmId,
                                       !.localAddr = chan[c].localAddr,
                                       !.peerAddr = nd.peerAddr,
                                       !.isServer = TRUE]
        BY <2>2, <3>1 DEF RoleInv, CallInv, TypeOK
      <4>2. chan[d] \in Members
        BY <2>2 DEF RoleInv, CallInv, TypeOK
      <4> QED BY <4>1, <4>2 DEF Members
    <3>4. chan[c].localAddr = AddrOf[c]
      BY <2>2 DEF RoleInv, Roles, RoleOf
    <3>5. RoleOf(d, chan'[d], use'[d])
      <4>1. RoleOf(d, chan[d], use[d])
        BY <2>2 DEF RoleInv, Roles
      <4>2. \E l \in Listeners : /\ ProcOf[l] = ProcOf[d]
                                 /\ AddrOf[l] = chan'[d].localAddr
        BY <2>2, <3>3, <3>4
      <4>3. chan'[d].shmId # NoId
        <5>1. chan'[d].shmId = nd.shmId
          BY <1>1, <2>2, <3>1 DEF CallInv, TypeOK, Members
        <5> QED BY <1>1, <2>4, <5>1 DEF CallInv, TypeOK, NoId
      <4> QED BY <2>2, <3>3, <4>1, <4>2, <4>3 DEF RoleOf
    <3>6. Roles'
      BY <3>2, <3>5 DEF RoleInv, Roles
    <3>7. Busy'
      <4>1. Moves(p, Idle) /\ BusyNext(Idle)
        BY <1>1, <2>2, <3>1, <3>2 DEF Moves, BusyNext
      <4> QED BY <1>1, <2>1, <2>2, <3>2, <4>1, BusyKeeps
    <3>8. Serving'
      <4>1. \A l \in Listeners :
              /\ chan'[l].localAddr = chan[l].localAddr
              /\ chan'[l].acceptQueue = chan[l].acceptQueue \/ chan[l].acceptQueue = NoProc
        BY <2>2, <3>2, ChannelAssumption
      <4> QED BY <1>1, <2>1, <2>3, <3>1, <4>1, SendServing
    <3> QED BY <3>6, <3>7, <3>8
  <2>5. CASE nd.shmId \notin segs
    <3>1. call' = [call EXCEPT ![p] = Dead] /\ UNCHANGED <<chan, use>>
      BY <1>3, <2>5 DEF AcceptAttach, Segfault
    <3>2. Roles'
      BY <3>1 DEF RoleInv, Roles
    <3>3. Busy'
      <4>1. Moves(p, Dead) /\ BusyNext(Dead)
        BY <1>1, <3>1 DEF Moves, BusyNext
      <4> QED BY <1>1, <2>1, <3>1, <4>1, BusyKeeps
    <3>4. Serving'
      BY <1>1, <2>1, <3>1, SendServing
    <3> QED BY <3>2, <3>3, <3>4
  <2> QED BY <2>4, <2>5
<1> QED BY <1>2, <1>3

LEMMA CloseRoles ==
  ASSUME OneRole, RoleInv, NEW c \in Channels, UNCHANGED msgrVars,
         \/ CloseMark(c) \/ CloseKept(c) \/ CloseTell(c) \/ CloseReturn(c)
         \/ CloseCheckFirst(c) \/ CloseDrain(c) \/ CloseNull(c)
  PROVE  (Roles /\ Busy /\ Serving)'
<1> DEFINE p == ProcOf[c]
<1>1. /\ CallInv /\ p \in Procs /\ Idle.op = "idle" /\ Dead.op = "dead"
      /\ UNCHANGED aqHash /\ chan[c] \in Members /\ RoleOf(c, chan[c], use[c])
  BY Elements DEF RoleInv, CallInv, Idle, Dead, msgrVars, Roles
<1>2. CASE CloseMark(c) \/ (CloseCheckFirst(c) /\ PeerFlag(c) \in alive)
  <2>1. /\ call[p].op = "idle" /\ use[c] = "open" /\ UNCHANGED <<inbox, chan, use, told>>
        /\ \E op \in {"check", "drain"} :
             call' = [call EXCEPT ![p] = [op |-> op, chan |-> c]]
    BY <1>1, <1>2 DEF CloseMark, CloseCheckFirst, MayClose, Ready, Enter
  <2>2. PICK op \in {"check", "drain"} :
          call' = [call EXCEPT ![p] = [op |-> op, chan |-> c]]
    BY <2>1
  <2>3. Roles'
    BY <2>1 DEF RoleInv, Roles
  <2>4. Busy'
    <3>1. Moves(p, [op |-> op, chan |-> c]) /\ BusyNext([op |-> op, chan |-> c])
      BY <2>1, <2>2 DEF Moves, BusyNext
    <3> QED BY <1>1, <2>1, <3>1, BusyKeeps
  <2>5. Serving'
    <3>1. \A i \in DOMAIN inbox : inbox[i].port # p
      BY <1>1, <2>1, NothingUnderWay
    <3> QED BY <1>1, <2>1, <2>2, <3>1, SendServing
  <2> QED BY <2>3, <2>4, <2>5
<1>3. CASE CloseKept(c) \/ CloseDrain(c) \/ CloseReturn(c)
  <2>1. /\ call' = [call EXCEPT ![p] = Idle] /\ UNCHANGED <<inbox, chan, told>>
        /\ use' = [use EXCEPT ![c] = "closed"]
        /\ call[p].op \in {"check", "drain"} \/ reply[p] # NoReply
    BY <1>3 DEF CloseKept, CloseDrain, CloseReturn, Return, Calling, Answered
  <2>2. \A d \in Channels : use'[d] = IF d = c THEN "closed" ELSE use[d]
    BY <2>1 DEF RoleInv, CallInv, TypeOK
  <2>3. Roles'
    <3>1. use[c] = "open"
      <4>1. call[p].op \in {"check", "drain", "close"} /\ call[p].chan = c
        BY <1>3 DEF CloseKept, CloseDrain, CloseReturn, Calling
      <4> QED BY <1>1, <4>1 DEF RoleInv, Busy
    <3>2. RoleOf(c, chan[c], "closed")
      BY <1>1, <3>1 DEF RoleOf
    <3> QED BY <2>1, <2>2, <3>2 DEF RoleInv, Roles
  <2>4. Busy'
    <3>1. Moves(p, Idle) /\ BusyNext(Idle)
      BY <1>1, <2>1 DEF Moves, BusyNext
    <3> QED BY <1>1, <2>1, <2>2, <3>1, BusyKeeps
  <2>5. Serving'
    <3>1. \A i \in DOMAIN inbox : inbox[i].port # p
      BY <1>1, <2>1, NothingUnderWay
    <3> QED BY <1>1, <2>1, <3>1, SendServing
  <2> QED BY <2>3, <2>4, <2>5
<1>4. CASE CloseNull(c)
  <2>1. call' = [call EXCEPT ![p] = Dead] /\ UNCHANGED <<inbox, chan, use, told>>
    BY <1>4 DEF CloseNull, Segfault
  <2>2. Roles'
    BY <2>1 DEF RoleInv, Roles
  <2>3. Busy'
    <3>1. Moves(p, Dead) /\ BusyNext(Dead)
      BY <1>1, <2>1 DEF Moves, BusyNext
    <3> QED BY <1>1, <2>1, <3>1, BusyKeeps
  <2>4. Serving'
    BY <1>1, <2>1, SendServing
  <2> QED BY <2>2, <2>3, <2>4
<1>5. CASE CloseTell(c) \/ (CloseCheckFirst(c) /\ PeerFlag(c) \notin alive)
  <2> DEFINE new  == [op |-> "close", chan |-> c]
             conn == iMsg(p, "CONNECT_CLOSE", chan[c].localAddr, chan[c].shmId, 0)
  <2>1. TellManager(c) /\ call[p].op \in {"idle", "check"} /\ use[c] = "open"
    <3>1. CASE CloseTell(c)
      <4>1. call[p].op = "check" /\ call[p].chan = c /\ TellManager(c)
        BY <3>1 DEF CloseTell, Calling
      <4> QED BY <1>1, <4>1 DEF RoleInv, Busy
    <3>2. CASE CloseCheckFirst(c) /\ PeerFlag(c) \notin alive
      BY <1>1, <3>2 DEF CloseCheckFirst, MayClose, Ready
    <3> QED BY <1>5, <3>1, <3>2
  <2>2. c \in Connectors \cup Acceptees /\ c \notin Listeners
    BY <1>1, <2>1 DEF RoleOf, OneRole
  <2>3. chan[c].msgrAddr => chan[c].acceptQueue = NoProc /\ chan[c].localAddr \in Addrs
    BY <1>1, <2>2 DEF RoleOf, CallInv, Built
  <2>4. /\ call' = [call EXCEPT ![p] = new]
        /\ told' = told \cup {<<c, chan[c].shmId>>} /\ UNCHANGED <<chan, use>>
        /\ (chan[c].msgrAddr /\ SendUdp(conn)) \/ UNCHANGED inbox
    BY <2>1, <2>3 DEF TellManager, Enter
  <2>5. Roles'
    BY <2>4 DEF RoleInv, Roles
  <2>6. Busy'
    <3>1. Moves(p, new) /\ BusyNext(new)
      BY <2>1, <2>4 DEF Moves, BusyNext
    <3> QED BY <1>1, <2>4, <3>1, BusyKeeps
  <2>7. Serving'
    <3>1. \A i \in DOMAIN inbox : inbox[i].port # p
      BY <1>1, <2>1, NothingUnderWay
    <3>2. CASE UNCHANGED inbox
      BY <1>1, <2>4, <3>1, <3>2, SendServing
    <3>3. CASE chan[c].msgrAddr /\ SendUdp(conn)
      <4>1. /\ conn \in Datagrams /\ conn.port = p /\ conn.mode = "CONNECT_CLOSE"
        BY <1>1, <2>3, <3>3 DEF iMsg, Datagrams, Modes, Members
      <4> HIDE DEF conn, new
      <4> QED BY <1>1, <2>4, <3>1, <3>3, <4>1, SendServing
    <3> QED BY <2>4, <3>2, <3>3
  <2> QED BY <2>5, <2>6, <2>7
<1> QED BY <1>2, <1>3, <1>4, <1>5

LEMMA DieRoles ==
  ASSUME RoleInv, UNCHANGED msgrVars, NEW p \in Procs, Die(p)
  PROVE  (Roles /\ Busy /\ Serving)'
<1>1. /\ call' = [call EXCEPT ![p] = Dead] /\ UNCHANGED <<inbox, chan, use, told>>
      /\ Dead.op = "dead" /\ UNCHANGED aqHash
  BY DEF Die, Dead, msgrVars
<1>2. Roles'
  BY <1>1 DEF RoleInv, Roles
<1>3. Busy'
  <2>1. Moves(p, Dead) /\ BusyNext(Dead)
    BY <1>1 DEF Moves, BusyNext
  <2> QED BY <1>1, <2>1, BusyKeeps
<1>4. Serving'
  BY <1>1, SendServing
<1> QED BY <1>2, <1>3, <1>4

LEMMA StepRoles ==
  ASSUME OneRole, RoleInv, [Next]_vars
  PROVE  (Roles /\ Busy /\ Serving)'
<1>1. CASE Manager
  BY <1>1, ManagerRoles
<1>2. ASSUME NEW c \in Channels, Call(c) \/ Proceed(c)
      PROVE  (Roles /\ Busy /\ Serving)'
  <2>1. UNCHANGED msgrVars /\ (MakeCall(c) \/ InCall(c))
    BY <1>2 DEF Call, Proceed
  <2> QED BY <2>1, ListenRoles, ConnectRoles, AcceptRoles, CloseRoles
          DEF MakeCall, InCall
<1>3. ASSUME NEW p \in Procs, Kill(p) PROVE (Roles /\ Busy /\ Serving)'
  BY <1>3, DieRoles DEF Kill
<1>4. CASE UNCHANGED vars
  BY <1>4 DEF vars, sharedVars, msgrVars, channelVars, RoleInv, Roles, Busy, Serving,
              ListensAt
<1> QED BY <1>1, <1>2, <1>3, <1>4 DEF Next

(* OneRole is about constants only: what it says stays true.               *)
LEMMA OneRoleStays == OneRole => OneRole'
  BY DEF OneRole

(* What the manager takes for a server listens, and no address is closed   *)
(* (msgr.cpp:170-226).                                                     *)
THEOREM RoleInvariant == OneRole /\ Spec => []RoleInv
<1>1. OneRole /\ Init => RoleInv
  BY InitRoleInv
<1>2. OneRole /\ RoleInv /\ CallInv' /\ [Next]_vars => RoleInv'
  BY StepRoles DEF RoleInv
<1> QED BY <1>1, <1>2, OneRoleStays, CallInvariant, PTL DEF Spec

-----------------------------------------------------------------------------
(* Sequences: the elements of a tail and of an extension.                  *)
LEMMA TailElements ==
  ASSUME NEW S, NEW s \in Seq(S), s # <<>>
  PROVE  /\ Head(s) = s[1] /\ 1 \in DOMAIN s /\ Head(s) \in S
         /\ Tail(s) \in Seq(S) /\ Len(Tail(s)) = Len(s) - 1
         /\ \A i \in DOMAIN Tail(s) : /\ i \in Nat \ {0} /\ i + 1 \in DOMAIN s
                                      /\ Tail(s)[i] = s[i + 1]
         /\ \A i \in DOMAIN s : i # 1 => /\ i - 1 \in DOMAIN Tail(s) /\ i \in Nat
                                         /\ Tail(s)[i - 1] = s[i]
  OBVIOUS

LEMMA AppendElements ==
  ASSUME NEW S, NEW s \in Seq(S), NEW e \in S
  PROVE  /\ Append(s, e) \in Seq(S) /\ Len(Append(s, e)) = Len(s) + 1
         /\ \A i \in DOMAIN s : /\ i \in DOMAIN Append(s, e) /\ i # Len(s) + 1
                                /\ Append(s, e)[i] = s[i]
         /\ Len(s) + 1 \in DOMAIN Append(s, e) /\ Append(s, e)[Len(s) + 1] = e
         /\ \A i \in DOMAIN Append(s, e) : i \in DOMAIN s \/ i = Len(s) + 1
  OBVIOUS

(* What the free list yields is new, and is not in the list any more.      *)
LEMMA GetFreeFdFresh ==
  ASSUME CallInv, Fresh, Once, GetFreeFd
  PROVE  /\ Real(FreeFront) =>
              /\ FreeFront \in 1 .. FdLimit - 1 /\ FreeFront < nextFd'
              /\ ~InLine(FreeFront) /\ ~Accepted(FreeFront)
         /\ \A id \in Int : Used(id) => Used(id)'
         /\ \A i \in DOMAIN free_list_', id \in Int : free_list_'[i] = id /\ Real(id) =>
              Used(id)' /\ ~InLine(id) /\ ~Accepted(id) /\ id # FreeFront
         /\ \A i, j \in DOMAIN free_list_' :
              Real(free_list_'[i]) /\ free_list_'[i] = free_list_'[j] => i = j
<1>1. /\ nextFd \in Nat /\ free_list_ \in Seq(Int)
      /\ EXTENDSIZE \in Nat \ {0} /\ FdLimit \in Nat
  BY FreeListAssumption DEF CallInv, TypeOK
<1>2. CASE free_list_ # <<>>
  <2>1. /\ free_list_' = Tail(free_list_) /\ nextFd' = nextFd
        /\ FreeFront = Head(free_list_)
    BY <1>2 DEF GetFreeFd, FreeFront
  <2>2. /\ FreeFront = free_list_[1] /\ 1 \in DOMAIN free_list_ /\ FreeFront \in Int
        /\ \A i \in DOMAIN free_list_' : /\ i \in Nat \ {0} /\ i + 1 \in DOMAIN free_list_
                                         /\ free_list_'[i] = free_list_[i + 1]
    BY <1>1, <1>2, <2>1, TailElements
  <2>3. \A id \in Int : Used(id) => Used(id)'
    BY <2>1 DEF Used
  <2>4. Real(FreeFront) => /\ FreeFront \in 1 .. FdLimit - 1 /\ FreeFront < nextFd'
                           /\ ~InLine(FreeFront) /\ ~Accepted(FreeFront)
    BY <2>1, <2>2 DEF Fresh, Used
  <2>5. ASSUME NEW i \in DOMAIN free_list_', NEW id \in Int, free_list_'[i] = id, Real(id)
        PROVE  Used(id)' /\ ~InLine(id) /\ ~Accepted(id) /\ id # FreeFront
    <3>1. i + 1 \in DOMAIN free_list_ /\ free_list_[i + 1] = id /\ i \in Nat \ {0}
      BY <2>2, <2>5
    <3>2. Used(id) /\ ~InLine(id) /\ ~Accepted(id)
      BY <2>5, <3>1 DEF Fresh
    <3>3. id # FreeFront
      <4>1. SUFFICES ASSUME id = FreeFront PROVE FALSE
        OBVIOUS
      <4>2. i + 1 = 1
        BY <2>2, <2>5, <3>1, <4>1 DEF Fresh
      <4> QED BY <3>1, <4>2
    <3> QED BY <2>3, <3>2, <3>3
  <2>6. ASSUME NEW i \in DOMAIN free_list_', NEW j \in DOMAIN free_list_',
               Real(free_list_'[i]), free_list_'[i] = free_list_'[j]
        PROVE  i = j
    <3>1. i + 1 = j + 1
      BY <2>2, <2>6 DEF Fresh
    <3> QED BY <2>2, <3>1
  <2> QED BY <2>3, <2>4, <2>5, <2>6
<1>3. CASE free_list_ = <<>>
  <2> DEFINE list == [i \in 1 .. EXTENDSIZE |-> OpenedFd(i)]
  <2>1. /\ free_list_' = Tail(list) /\ FreeFront = OpenedFd(1)
        /\ nextFd' = IF nextFd + EXTENDSIZE <= FdLimit THEN nextFd + EXTENDSIZE ELSE FdLimit
    BY <1>3, Zenon DEF GetFreeFd, FreeFront
  <2>2. \A i \in 1 .. EXTENDSIZE :
          /\ OpenedFd(i) \in Int
          /\ Real(OpenedFd(i)) => /\ OpenedFd(i) = nextFd + i - 1
                                  /\ OpenedFd(i) \in 1 .. FdLimit - 1
                                  /\ OpenedFd(i) < nextFd'
    BY <1>1, <2>1 DEF OpenedFd, NoFd, Real, NoId
  <2>3. list \in Seq(Int) /\ list # <<>> /\ DOMAIN list = 1 .. EXTENDSIZE
    BY <1>1, <2>2
  <2>4. \A id \in Int : Used(id) => Used(id)'
    BY <1>1, <2>1 DEF Used
  <2>5. \A id \in Int : Real(id) /\ (InLine(id) \/ Accepted(id)) => id < nextFd
    BY DEF Once, Used
  <2>6. \A i \in DOMAIN free_list_' :
          i \in Nat \ {0} /\ i + 1 \in 1 .. EXTENDSIZE /\ free_list_'[i] = OpenedFd(i + 1)
    <3> HIDE DEF list
    <3>1. \A i \in DOMAIN Tail(list) : /\ i \in Nat \ {0} /\ i + 1 \in DOMAIN list
                                       /\ Tail(list)[i] = list[i + 1]
      <4>1. list \in Seq(Int) /\ list # <<>>
        BY <2>3
      <4> QED BY <4>1, TailElements
    <3> QED BY <2>1, <2>3, <3>1 DEF list
  <2>7. 1 \in 1 .. EXTENDSIZE
    BY <1>1
  <2>8. \A i \in 1 .. EXTENDSIZE : Real(OpenedFd(i)) =>
          ~InLine(OpenedFd(i)) /\ ~Accepted(OpenedFd(i))
    <3>1. \A i \in 1 .. EXTENDSIZE : Real(OpenedFd(i)) => ~(OpenedFd(i) < nextFd)
      BY <1>1, <2>2
    <3> QED BY <2>2, <2>5, <3>1
  <2>9. Real(FreeFront) => /\ FreeFront \in 1 .. FdLimit - 1 /\ FreeFront < nextFd'
                           /\ ~InLine(FreeFront) /\ ~Accepted(FreeFront)
    BY <2>1, <2>2, <2>7, <2>8
  <2>10. ASSUME NEW i \in DOMAIN free_list_', NEW id \in Int, free_list_'[i] = id, Real(id)
         PROVE  Used(id)' /\ ~InLine(id) /\ ~Accepted(id) /\ id # FreeFront
    <3>1. id = OpenedFd(i + 1) /\ i + 1 \in 1 .. EXTENDSIZE /\ i \in Nat \ {0}
      BY <2>6, <2>10
    <3>2. Used(id)' /\ id = nextFd + i
      BY <1>1, <2>2, <2>10, <3>1 DEF Used
    <3>3. id # FreeFront
      <4>1. SUFFICES ASSUME id = FreeFront PROVE FALSE
        OBVIOUS
      <4>2. id = nextFd + 1 - 1
        BY <2>1, <2>2, <2>7, <2>10, <4>1
      <4> QED BY <1>1, <3>1, <3>2, <4>2
    <3> QED BY <2>8, <2>10, <3>1, <3>2, <3>3
  <2>11. ASSUME NEW i \in DOMAIN free_list_', NEW j \in DOMAIN free_list_',
                Real(free_list_'[i]), free_list_'[i] = free_list_'[j]
         PROVE  i = j
    <3>1. nextFd + (i + 1) - 1 = nextFd + (j + 1) - 1
      BY <2>2, <2>6, <2>11
    <3>2. i \in Nat /\ j \in Nat
      BY <2>6
    <3> QED BY <1>1, <3>1, <3>2
  <2> QED BY <2>4, <2>9, <2>10, <2>11
<1> QED BY <1>2, <1>3

-----------------------------------------------------------------------------
\* no connector and no accepted channel comes to hold another id
Steady ==
  /\ \A c \in Connectors, id \in Int, to \in Everyone :
       Client(c, id, to)' => Client(c, id, to)
  /\ \A d \in Acceptees, id \in Int, from \in Everyone :
       Server(d, id, from)' => Server(d, id, from)

\* whoever listens at an address goes on doing so
Listening == \A p \in Procs, a \in Everyone : ListensAt(p, a) => ListensAt(p, a)'

(* A step that moves no node and grants no id keeps the places of ids.     *)
LEMMA StandingStill ==
  ASSUME CallInv, IdInv, UNCHANGED <<queue, taken>>, Steady, Listening,
         \A id \in Int : Used(id) => Used(id)',
         \A i \in DOMAIN free_list_', id \in Int : free_list_'[i] = id /\ Real(id) =>
           Used(id)' /\ ~InLine(id) /\ ~Accepted(id),
         \A i, j \in DOMAIN free_list_' :
           Real(free_list_'[i]) /\ free_list_'[i] = free_list_'[j] => i = j
  PROVE  IdInv'
<1>1. \A id \in Int : /\ InLine(id)' <=> InLine(id)
                      /\ Accepted(id)' <=> Accepted(id)
  BY DEF InLine, Accepted
<1>2. Fresh'
  BY <1>1 DEF Fresh
<1>3. Once'
  BY <1>1 DEF IdInv, Once
<1>4. ASSUME NEW id \in Int, NEW from \in Everyone, NEW to \in Everyone, Met(id, from, to)
      PROVE  Met(id, from, to)'
  <2>1. PICK p \in Procs :
          /\ ListensAt(p, to)
          /\ \/ \E i \in DOMAIN queue[p] : queue[p][i] = node(id, from)
             \/ \E i \in DOMAIN taken : taken[i] = <<p, node(id, from)>>
    BY <1>4 DEF Met
  <2>2. ListensAt(p, to)'
    BY <2>1 DEF Listening
  <2> QED BY <2>1, <2>2 DEF Met
<1>5. Holders'
  <2>1. AddrOf \in [Channels -> Addrs] /\ Connectors \subseteq Channels
    BY ChannelAssumption
  <2>2. \A c \in Connectors, id \in Int, to \in Everyone :
          Real(id) /\ Client(c, id, to)' => Met(id, AddrOf[c], to)'
    BY <1>4, <2>1 DEF IdInv, Holders, Steady, Everyone
  <2>3. \A c, d \in Connectors, id \in Int, a, b \in Everyone :
          Real(id) /\ Client(c, id, a)' /\ Client(d, id, b)' => c = d
    BY DEF IdInv, Holders, Steady
  <2>4. \A c, d \in Acceptees, id \in Int, a, b \in Everyone :
          Real(id) /\ Server(c, id, a)' /\ Server(d, id, b)' => c = d
    BY DEF IdInv, Holders, Steady
  <2>5. \A d \in Acceptees, id \in Int, from \in Everyone :
          Real(id) /\ Server(d, id, from)' =>
            \E i \in DOMAIN taken : taken[i] = <<ProcOf[d], node(id, from)>>
    BY DEF IdInv, Holders, Steady
  <2> QED BY <2>2, <2>3, <2>4, <2>5 DEF Holders
<1> QED BY <1>2, <1>3, <1>5 DEF IdInv

LEMMA ListeningKeeps ==
  ASSUME \A l \in Listeners :
           /\ chan'[l].localAddr = chan[l].localAddr
           /\ chan'[l].acceptQueue = chan[l].acceptQueue \/ chan[l].acceptQueue = NoProc
  PROVE  Listening
  BY ListensOn DEF Listening, ListensAt, WillListen

(* A step of a process by which a channel holds only what it or the        *)
(* process held.                                                           *)
LEMMA SteadyStep ==
  ASSUME CallInv, NEW p \in Procs, NEW new, call' = [call EXCEPT ![p] = new],
         new.op # "accept",
         new.op = "connect" => reply'[p].mode # "MNGR_CONN_RES",
         \A q \in Procs \ {p} : reply'[q] = reply[q],
         \A c \in Connectors : Client(c, chan'[c].shmId, chan'[c].peerAddr),
         \A d \in Acceptees : Server(d, chan'[d].shmId, chan'[d].peerAddr)
  PROVE  Steady
<1>1. \A q \in Procs : call'[q] = IF q = p THEN new ELSE call[q]
  BY DEF CallInv, TypeOK
<1>2. \A c \in Channels : ProcOf[c] \in Procs
  BY SharedAssumption
<1>3. ASSUME NEW c \in Connectors, NEW id \in Int, NEW to \in Everyone, Client(c, id, to)'
      PROVE  Client(c, id, to)
  <2>1. CASE chan'[c].shmId = id /\ chan'[c].peerAddr = to
    BY <2>1
  <2>2. CASE /\ Calling(c, "connect")' /\ call'[ProcOf[c]].to = to
             /\ reply'[ProcOf[c]] = [mode |-> "MNGR_CONN_RES", shmId |-> id]
    <3>1. ProcOf[c] \in Procs /\ call'[ProcOf[c]].op = "connect"
          /\ call'[ProcOf[c]].chan = c
      BY <1>2, <2>2, ChannelAssumption DEF Calling
    <3>2. ProcOf[c] # p
      BY <1>1, <2>2, <3>1
    <3> QED BY <1>1, <2>2, <3>1, <3>2 DEF Client, Calling
  <2> QED BY <1>3, <2>1, <2>2 DEF Client
<1>4. ASSUME NEW d \in Acceptees, NEW id \in Int, NEW from \in Everyone,
             Server(d, id, from)'
      PROVE  Server(d, id, from)
  <2>1. CASE chan'[d].shmId = id /\ chan'[d].peerAddr = from
    BY <2>1
  <2>2. CASE /\ call'[ProcOf[d]].op = "accept" /\ call'[ProcOf[d]].new = d
             /\ call'[ProcOf[d]].nd = node(id, from)
    <3>1. ProcOf[d] \in Procs
      BY <1>2, ChannelAssumption
    <3> QED BY <1>1, <2>2, <3>1 DEF Server
  <2> QED BY <1>4, <2>1, <2>2 DEF Server
<1> QED BY <1>3, <1>4 DEF Steady

\* the channels keep the ids they are attached to, and their addresses
Attached ==
  \A e \in Channels :
    /\ chan'[e].shmId = chan[e].shmId /\ chan'[e].peerAddr = chan[e].peerAddr
    /\ chan'[e].localAddr = chan[e].localAddr
    /\ chan'[e].acceptQueue = chan[e].acceptQueue \/ chan[e].acceptQueue = NoProc

LEMMA AttachedSteady ==
  ASSUME CallInv, NEW p \in Procs, NEW new, call' = [call EXCEPT ![p] = new],
         new.op # "accept",
         new.op = "connect" => UNCHANGED reply /\ reply[p] = NoReply,
         UNCHANGED reply \/ reply' = [reply EXCEPT ![p] = NoReply],
         Attached
  PROVE  Steady /\ Listening
<1>1. \A q \in Procs \ {p} : reply'[q] = reply[q]
  BY DEF CallInv, TypeOK
<1>2. \A c \in Connectors : Client(c, chan'[c].shmId, chan'[c].peerAddr)
  BY ChannelAssumption DEF Attached, Client
<1>3. \A d \in Acceptees : Server(d, chan'[d].shmId, chan'[d].peerAddr)
  BY ChannelAssumption DEF Attached, Server
<1>4. new.op = "connect" => reply'[p].mode # "MNGR_CONN_RES"
  BY DEF NoReply
<1>5. Steady
  BY <1>1, <1>2, <1>3, <1>4, SteadyStep
<1>6. Listening
  BY ListeningKeeps, ChannelAssumption DEF Attached
<1> QED BY <1>5, <1>6

(* Every step of a call but the dequeue of accept.                         *)
LEMMA CallSteady ==
  ASSUME OneRole, RoleInv, NEW c \in Channels, MakeCall(c) \/ InCall(c),
         ~\E d \in Channels : AcceptDequeue(c, d)
  PROVE  Steady /\ Listening /\ UNCHANGED <<queue, taken>>
<1> DEFINE p == ProcOf[c]
<1>1. /\ CallInv /\ p \in Procs /\ Idle.op = "idle" /\ Dead.op = "dead"
      /\ \A e \in Channels : chan[e] \in Members
  BY Elements DEF RoleInv, CallInv, Idle, Dead
<1>2. CASE ListenSend(c)
  <2> DEFINE new == [op |-> "listen", chan |-> c]
  <2>1. /\ call' = [call EXCEPT ![p] = new] /\ new.op = "listen"
        /\ chan[c].acceptQueue = NoProc /\ UNCHANGED <<reply, queue, taken>>
        /\ chan' = [chan EXCEPT ![c].isServer = TRUE, ![c].acceptQueue = p]
    BY <1>2 DEF ListenSend, Enter
  <2>2. Attached
    BY <1>1, <2>1 DEF CallInv, TypeOK, Attached, Members
  <2> HIDE DEF new
  <2> QED BY <1>1, <2>1, <2>2, AttachedSteady
<1>3. CASE \E a \in ServerAddrs : ConnectSend(c, a)
  <2>1. PICK a \in ServerAddrs : ConnectSend(c, a)
    BY <1>3
  <2> DEFINE new == [op |-> "connect", chan |-> c, to |-> a]
  <2>2. /\ call' = [call EXCEPT ![p] = new] /\ new.op = "connect"
        /\ call[p].op = "idle" /\ UNCHANGED <<reply, queue, taken>>
        /\ chan' = [chan EXCEPT ![c].isServer = FALSE]
    BY <1>1, <2>1 DEF ConnectSend, Ready
  <2>3. Attached
    BY <1>1, <2>2 DEF CallInv, TypeOK, Attached, Members
  <2>4. reply[p] = NoReply
    BY <1>1, <2>2, NothingUnderWay
  <2> HIDE DEF new
  <2> QED BY <1>1, <2>2, <2>3, <2>4, AttachedSteady
<1>4. CASE ConnectReturn(c)
  <2> DEFINE id == reply[p].shmId
  <2>1. /\ call' = [call EXCEPT ![p] = Idle] /\ reply' = [reply EXCEPT ![p] = NoReply]
        /\ UNCHANGED <<queue, taken>>
        /\ chan' = [chan EXCEPT ![c].shmId = id, ![c].peerAddr = call[p].to]
        /\ Calling(c, "connect") /\ reply[p].mode = "MNGR_CONN_RES"
    BY <1>4 DEF ConnectReturn, Return, TakeReply
  <2>2. c \in Connectors /\ c \notin Acceptees /\ c \notin Listeners
    BY <1>1, <2>1 DEF CallInv, Own, Calling, OneRole
  <2>3. /\ \A e \in Channels \ {c} : chan'[e] = chan[e]
        /\ chan'[c].shmId = id /\ chan'[c].peerAddr = call[p].to
    BY <1>1, <2>1 DEF CallInv, TypeOK, Members
  <2>4. \A e \in Connectors : Client(e, chan'[e].shmId, chan'[e].peerAddr)
    <3>1. reply[p] = [mode |-> "MNGR_CONN_RES", shmId |-> id]
      <4>1. reply[p] \in [mode : Answers, shmId : Int]
        BY <1>1, Elements DEF CallInv
      <4> QED BY <2>1, <4>1
    <3>2. Client(c, chan'[c].shmId, chan'[c].peerAddr)
      BY <2>1, <2>3, <3>1 DEF Client
    <3> QED BY <2>3, <3>2, ChannelAssumption DEF Client
  <2>5. \A d \in Acceptees : Server(d, chan'[d].shmId, chan'[d].peerAddr)
    BY <2>2, <2>3, ChannelAssumption DEF Server
  <2>6. Steady
    <3>1. \A q \in Procs \ {p} : reply'[q] = reply[q]
      BY <1>1, <2>1 DEF CallInv, TypeOK
    <3> QED BY <1>1, <2>1, <2>4, <2>5, <3>1, SteadyStep
  <2>7. Listening
    BY <2>2, <2>3, ListeningKeeps, ChannelAssumption
  <2> QED BY <2>1, <2>6, <2>7
<1>5. CASE AcceptAttach(c) /\ ~UNCHANGED chan
  <2> DEFINE d  == call[p].new
             nd == call[p].nd
  <2>1. /\ call' = [call EXCEPT ![p] = Idle] /\ UNCHANGED <<reply, queue, taken>>
        /\ chan' = [chan EXCEPT ![d].shmId = nd.shmId,
                                ![d].localAddr = chan[c].localAddr,
                                ![d].peerAddr = nd.peerAddr,
                                ![d].isServer = TRUE]
        /\ Calling(c, "accept")
    BY <1>5 DEF AcceptAttach, Return
  <2>2. /\ d \in Acceptees /\ d \notin Connectors /\ d \notin Listeners
        /\ d \in Channels /\ ProcOf[d] = p
    <3>1. call[p].op = "accept"
      BY <2>1 DEF Calling
    <3>2. d \in Acceptees /\ ProcOf[d] = p
      BY <1>1, <3>1 DEF CallInv, Own
    <3> QED BY <3>2, ChannelAssumption DEF OneRole
  <2>3. nd \in Nodes /\ call[p].op = "accept" /\ call[p].new = d /\ call[p].nd = nd
    BY <1>1, <2>1, Elements DEF CallInv, Calls, Calling, Idle, Dead
  <2> HIDE DEF d, nd
  <2>4. \A e \in Channels \ {d} : chan'[e] = chan[e]
    BY <1>1, <2>1, <2>2 DEF CallInv, TypeOK
  <2>5. chan'[d].shmId = nd.shmId /\ chan'[d].peerAddr = nd.peerAddr
    BY <1>1, <2>1, <2>2 DEF CallInv, TypeOK, Members
  <2>6. \A e \in Connectors : Client(e, chan'[e].shmId, chan'[e].peerAddr)
    BY <2>2, <2>4, ChannelAssumption DEF Client
  <2>7. \A e \in Acceptees : Server(e, chan'[e].shmId, chan'[e].peerAddr)
    <3>1. nd = node(nd.shmId, nd.peerAddr)
      BY <2>3 DEF Nodes, node
    <3>2. Server(d, chan'[d].shmId, chan'[d].peerAddr)
      BY <2>2, <2>3, <2>5, <3>1 DEF Server
    <3> QED BY <2>4, <3>2, ChannelAssumption DEF Server
  <2>8. Steady
    BY <1>1, <2>1, <2>6, <2>7, SteadyStep
  <2>9. Listening
    BY <2>2, <2>4, ListeningKeeps, ChannelAssumption
  <2> QED BY <2>1, <2>8, <2>9
<1>6. ASSUME NEW new, call' = [call EXCEPT ![p] = new],
             new.op \in {"idle", "dead", "check", "drain", "close"},
             UNCHANGED reply \/ reply' = [reply EXCEPT ![p] = NoReply],
             UNCHANGED <<chan, queue, taken>>
      PROVE  Steady /\ Listening /\ UNCHANGED <<queue, taken>>
  <2>1. Attached
    BY <1>6 DEF Attached
  <2> QED BY <1>1, <1>6, <2>1, AttachedSteady
<1>7. CASE ListenReturn(c) \/ ConnectRefused(c) \/ ConnectNoSegment(c)
           \/ (AcceptAttach(c) /\ UNCHANGED chan)
           \/ CloseKept(c) \/ CloseReturn(c) \/ CloseDrain(c) \/ CloseNull(c)
  <2>1. /\ call' = [call EXCEPT ![p] = Idle] \/ call' = [call EXCEPT ![p] = Dead]
        /\ UNCHANGED reply \/ reply' = [reply EXCEPT ![p] = NoReply]
        /\ UNCHANGED <<chan, queue, taken>>
    BY <1>7 DEF ListenReturn, ConnectRefused, ConnectNoSegment, AcceptAttach, CloseKept,
                CloseReturn, CloseDrain, CloseNull, Return, Segfault, TakeReply
  <2> QED BY <1>1, <1>6, <2>1
<1>8. CASE CloseMark(c) \/ CloseTell(c) \/ CloseCheckFirst(c)
  <2>1. /\ \E op \in {"check", "drain", "close"} :
             call' = [call EXCEPT ![p] = [op |-> op, chan |-> c]]
        /\ UNCHANGED <<reply, chan, queue, taken>>
    BY <1>8 DEF CloseMark, CloseTell, CloseCheckFirst, TellManager, Enter
  <2> QED BY <1>6, <2>1
<1>9. CASE ListenFails(c)
  <2>1. /\ chan' = [chan EXCEPT ![c].isServer = TRUE] /\ call[p] = Idle
        /\ UNCHANGED <<call, reply, queue, taken>>
    BY <1>9 DEF ListenFails, Ready
  <2>2. Attached /\ call' = [call EXCEPT ![p] = Idle]
    BY <1>1, <2>1 DEF CallInv, TypeOK, Attached, Members
  <2> QED BY <1>1, <2>1, <2>2, AttachedSteady
<1> QED BY <1>2, <1>3, <1>4, <1>5, <1>7, <1>8, <1>9 DEF MakeCall, InCall

LEMMA SteadyIds ==
  ASSUME CallInv, IdInv, UNCHANGED <<queue, taken, free_list_, nextFd>>, Steady, Listening
  PROVE  IdInv'
<1>1. \A id \in Int : Used(id)' <=> Used(id)
  BY DEF Used
<1>2. \A i \in DOMAIN free_list_', id \in Int : free_list_'[i] = id /\ Real(id) =>
        Used(id)' /\ ~InLine(id) /\ ~Accepted(id)
  BY <1>1 DEF IdInv, Fresh
<1>3. \A i, j \in DOMAIN free_list_' :
        Real(free_list_'[i]) /\ free_list_'[i] = free_list_'[j] => i = j
  BY DEF IdInv, Fresh
<1> QED BY <1>1, <1>2, <1>3, StandingStill

(* The manager's steps leave the channels and the calls alone.             *)
LEMMA ManagerSteady ==
  ASSUME CallInv, UNCHANGED <<call, chan>>,
         \A q \in Procs : reply'[q] = reply[q] \/ reply'[q].mode # "MNGR_CONN_RES"
  PROVE  Steady /\ Listening
<1>1. Listening
  BY DEF Listening, ListensAt
<1>2. \A c \in Channels : ProcOf[c] \in Procs
  BY SharedAssumption
<1>3. ASSUME NEW c \in Connectors, NEW id \in Int, NEW to \in Everyone, Client(c, id, to)'
      PROVE  Client(c, id, to)
  <2>1. ProcOf[c] \in Procs
    BY <1>2, ChannelAssumption
  <2> QED BY <1>3, <2>1 DEF Client, Calling
<1>4. \A d \in Acceptees, id \in Int, from \in Everyone :
        Server(d, id, from)' => Server(d, id, from)
  BY DEF Server
<1> QED BY <1>1, <1>3, <1>4 DEF Steady

(* A datagram that the manager does not answer with an id.                 *)
LEMMA ManagerIds ==
  ASSUME RoleInv, IdInv, Manager,
         ~(ConnMatched /\ FreeFront # NoFd)
  PROVE  IdInv'
<1>1. CallInv /\ inbox # <<>> /\ UNCHANGED <<call, chan, taken>>
  BY DEF RoleInv, Manager, MsgrNext, ConnNotRegistered, ConnQueueFull, ConnMatched,
         ListenReq, ListenReqNoFd, ConnectClose, ListenClose, ListenCloseUnknown,
         Receive, channelVars
<1>2. /\ pkg.mode # "LISTEN_CLOSE" /\ pkg.port \in Procs
      /\ pkg.mode = "CONNECT_CLOSE" => pkg.shmId = 0
      /\ nextFd \in Nat /\ free_list_ \in Seq(Int) /\ FdLimit \in Nat
      /\ reply \in [Procs -> [mode : Answers, shmId : Int]]
  BY <1>1, FirstDatagram, FreeListAssumption
     DEF RoleInv, Serving, Datagrams, WellFormed, CallInv, TypeOK
<1>3. ASSUME NEW mode \in Answers, mode # "MNGR_CONN_RES", Answer(mode, 0)
      PROVE  Steady /\ Listening
  BY <1>1, <1>2, <1>3, ManagerSteady DEF Answer
<1>4. CASE ConnNotRegistered \/ ConnQueueFull
  <2>1. /\ Answer("SERVER_NOT_REGISTED", 0) \/ Answer("SERVER_AQ_FULL", 0)
        /\ UNCHANGED <<queue, free_list_, nextFd>>
    BY <1>4 DEF ConnNotRegistered, ConnQueueFull, msgrVars, freeListVars
  <2>2. Steady /\ Listening
    BY <1>3, <2>1 DEF Answers
  <2> QED BY <1>1, <2>1, <2>2, SteadyIds
<1>5. CASE ConnMatched
  <2>1. GetFreeFd /\ Answer("CREATE_SHM_FAILED", 0) /\ UNCHANGED queue
    BY <1>5 DEF ConnMatched
  <2>2. Steady /\ Listening
    BY <1>3, <2>1 DEF Answers
  <2>3. /\ \A id \in Int : Used(id) => Used(id)'
        /\ \A i \in DOMAIN free_list_', id \in Int : free_list_'[i] = id /\ Real(id) =>
             Used(id)' /\ ~InLine(id) /\ ~Accepted(id)
        /\ \A i, j \in DOMAIN free_list_' :
             Real(free_list_'[i]) /\ free_list_'[i] = free_list_'[j] => i = j
    BY <1>1, <2>1, GetFreeFdFresh DEF IdInv
  <2> QED BY <1>1, <2>1, <2>2, <2>3, StandingStill
<1>6. CASE ListenReq
  <2>1. Answer("ACK", 0) /\ nextFd' = nextFd + 1 /\ UNCHANGED <<queue, free_list_>>
    BY <1>6 DEF ListenReq
  <2>2. Steady /\ Listening
    BY <1>3, <2>1 DEF Answers
  <2>3. \A id \in Int : Used(id) => Used(id)'
    BY <1>2, <2>1 DEF Used
  <2>4. \A i \in DOMAIN free_list_', id \in Int : free_list_'[i] = id /\ Real(id) =>
          Used(id)' /\ ~InLine(id) /\ ~Accepted(id)
    BY <2>1, <2>3 DEF IdInv, Fresh
  <2>5. \A i, j \in DOMAIN free_list_' :
          Real(free_list_'[i]) /\ free_list_'[i] = free_list_'[j] => i = j
    BY <2>1 DEF IdInv, Fresh
  <2> QED BY <1>1, <2>1, <2>2, <2>3, <2>4, <2>5, StandingStill
<1>7. CASE ListenReqNoFd
  <2>1. UNCHANGED <<reply, queue, free_list_, nextFd>>
    BY <1>7 DEF ListenReqNoFd, Crash, freeListVars
  <2>2. Steady /\ Listening
    BY <1>1, <2>1, ManagerSteady
  <2> QED BY <1>1, <2>1, <2>2, SteadyIds
<1>8. CASE ConnectClose
  <2>1. /\ Answer("CONNECTION_CLOSED", 0) /\ nextFd' = nextFd /\ UNCHANGED queue
        /\ free_list_' = Append(free_list_, 0)
    BY <1>2, <1>8 DEF ConnectClose, FreeFd, Receive
  <2>2. Steady /\ Listening
    BY <1>3, <2>1 DEF Answers
  <2>3. \A id \in Int : Used(id) => Used(id)'
    BY <2>1 DEF Used
  <2>4. /\ \A i \in DOMAIN free_list_ : free_list_'[i] = free_list_[i]
        /\ \A i \in DOMAIN free_list_' : i \in DOMAIN free_list_ \/ free_list_'[i] = 0
    BY <1>2, <2>1, AppendElements
  <2>5. \A i \in DOMAIN free_list_', id \in Int : free_list_'[i] = id /\ Real(id) =>
          Used(id)' /\ ~InLine(id) /\ ~Accepted(id)
    BY <2>3, <2>4 DEF IdInv, Fresh, Real
  <2>6. \A i, j \in DOMAIN free_list_' :
          Real(free_list_'[i]) /\ free_list_'[i] = free_list_'[j] => i = j
    BY <2>4 DEF IdInv, Fresh, Real
  <2> QED BY <1>1, <2>1, <2>2, <2>3, <2>5, <2>6, StandingStill
<1>9. CASE ListenClose \/ ListenCloseUnknown
  BY <1>2, <1>9 DEF ListenClose, ListenCloseUnknown, Receive
<1> QED BY <1>4, <1>5, <1>6, <1>7, <1>8, <1>9 DEF Manager, MsgrNext

(* A granted id comes from the list into one queue and one answer.         *)
LEMMA GrantIds ==
  ASSUME OneRole, RoleInv, IdInv, Manager, ConnMatched, FreeFront # NoFd
  PROVE  IdInv'
<1> DEFINE f == FreeFront
           a == pkg.localAddr
           s == aqHash[pkg.peerAddr]
           r == pkg.port
<1>1. /\ CallInv /\ inbox # <<>> /\ UNCHANGED <<call, chan, taken>> /\ GetFreeFd
      /\ s # NoProc /\ ~(Len(queue[s]) >= Backlog)
      /\ queue' = [queue EXCEPT ![s] = Append(@, node(f, a))]
      /\ reply' = [reply EXCEPT ![r] = [mode |-> "MNGR_CONN_RES", shmId |-> f]]
      /\ pkg.mode = "CLIENT_CONN_REQ"
  BY DEF RoleInv, Manager, MsgrNext, ConnMatched, Receive, channelVars, QueueIsFull,
         Answer
<1>2. /\ pkg \in Datagrams /\ WellFormed(pkg) /\ pkg = inbox[1] /\ 1 \in DOMAIN inbox
  BY <1>1, FirstDatagram
<1>3. /\ r \in Procs /\ a \in Addrs /\ pkg.peerAddr \in Addrs
  BY <1>1, <1>2, ChannelAssumption DEF Datagrams, WellFormed, ServerAddrs
<1>4. s \in Procs /\ ListensAt(s, pkg.peerAddr)
  BY <1>1, <1>3 DEF CallInv, TypeOK, RoleInv, Serving
<1>5. /\ f \in Int /\ f # NoId /\ queue[s] \in Seq(Nodes) /\ node(f, a) \in Nodes
      /\ \A id \in Int : Used(id) => Used(id)'
      /\ Real(f) => f \in 1 .. FdLimit - 1 /\ f < nextFd' /\ ~InLine(f) /\ ~Accepted(f)
      /\ \A i \in DOMAIN free_list_', id \in Int : free_list_'[i] = id /\ Real(id) =>
           Used(id)' /\ ~InLine(id) /\ ~Accepted(id) /\ id # f
      /\ \A i, j \in DOMAIN free_list_' :
           Real(free_list_'[i]) /\ free_list_'[i] = free_list_'[j] => i = j
  <2>1. f \in Int /\ f # NoId
    BY <1>1, GetFreeFdTypes DEF CallInv, NoFd, NoId
  <2>2. queue[s] \in Seq(Nodes) /\ node(f, a) \in Nodes
    BY <1>1, <1>3, <1>4, <2>1 DEF CallInv, TypeOK, Nodes, node
  <2>3. /\ \A id \in Int : Used(id) => Used(id)'
        /\ Real(f) => f \in 1 .. FdLimit - 1 /\ f < nextFd' /\ ~InLine(f) /\ ~Accepted(f)
        /\ \A i \in DOMAIN free_list_', id \in Int : free_list_'[i] = id /\ Real(id) =>
             Used(id)' /\ ~InLine(id) /\ ~Accepted(id) /\ id # f
        /\ \A i, j \in DOMAIN free_list_' :
             Real(free_list_'[i]) /\ free_list_'[i] = free_list_'[j] => i = j
    BY <1>1, GetFreeFdFresh DEF IdInv
  <2> QED BY <2>1, <2>2, <2>3
<1> HIDE DEF f, a, s, r
<1> DEFINE last == Len(queue[s]) + 1
<1>6. /\ \A q \in Procs \ {s} : queue'[q] = queue[q]
      /\ \A i \in DOMAIN queue[s] : /\ i \in DOMAIN queue'[s] /\ queue'[s][i] = queue[s][i]
                                    /\ i # last
      /\ \A i \in DOMAIN queue'[s] : i \in DOMAIN queue[s] \/ i = last
      /\ last \in DOMAIN queue'[s] /\ queue'[s][last] = node(f, a)
      /\ Len(queue'[s]) = last
  <2>1. queue'[s] = Append(queue[s], node(f, a)) /\ \A q \in Procs \ {s} : queue'[q] = queue[q]
    BY <1>1, <1>4 DEF CallInv, TypeOK
  <2> QED BY <1>5, <2>1, AppendElements
<1>7. last \in Nat /\ Len(queue'[s]) <= Backlog
  BY <1>1, <1>5, <1>6, SharedAssumption
<1> HIDE DEF last
<1>8. /\ \A id \in Int : InLine(id)' <=> InLine(id) \/ id = f
      /\ \A id \in Int : Accepted(id)' <=> Accepted(id)
  <2>1. \A id \in Int : InLine(id) => InLine(id)'
    BY <1>4, <1>6 DEF InLine
  <2>2. ASSUME NEW id \in Int, id = f PROVE InLine(id)'
    <3>1. queue'[s][last].shmId = id
      BY <1>6, <2>2 DEF node
    <3> QED BY <1>4, <1>6, <3>1 DEF InLine
  <2>3. ASSUME NEW id \in Int, InLine(id)'
        PROVE  InLine(id) \/ id = f
    <3> PICK p \in Procs : \E i \in DOMAIN queue'[p] : queue'[p][i].shmId = id
      BY <2>3 DEF InLine
    <3>1. PICK i \in DOMAIN queue'[p] : queue'[p][i].shmId = id
      OBVIOUS
    <3>2. CASE p = s /\ i = last
      BY <1>6, <3>1, <3>2 DEF node
    <3>3. CASE ~(p = s /\ i = last)
      BY <1>6, <3>1, <3>3 DEF InLine
    <3> QED BY <3>2, <3>3
  <2>4. \A id \in Int : Accepted(id)' <=> Accepted(id)
    BY <1>1 DEF Accepted
  <2>5. f \in Int
    BY <1>5
  <2> QED BY <2>1, <2>2, <2>3, <2>4, <2>5
<1>9. Fresh'
  BY <1>5, <1>8 DEF Fresh
<1>10. Once'
  <2>1. ASSUME NEW p \in Procs, NEW q \in Procs,
               NEW i \in DOMAIN queue'[p], NEW j \in DOMAIN queue'[q],
               Real(queue'[p][i].shmId), queue'[p][i].shmId = queue'[q][j].shmId
        PROVE  p = q /\ i = j
    <3>1. ASSUME NEW u \in Procs, NEW k \in DOMAIN queue'[u], ~(u = s /\ k = last)
          PROVE  k \in DOMAIN queue[u] /\ queue'[u][k] = queue[u][k]
      BY <1>6, <3>1
    <3>2. CASE ~(p = s /\ i = last) /\ ~(q = s /\ j = last)
      BY <2>1, <3>1, <3>2 DEF IdInv, Once
    <3>3. ASSUME NEW u \in Procs, NEW k \in DOMAIN queue'[u], ~(u = s /\ k = last), Real(f)
          PROVE  queue'[u][k].shmId # f
      BY <1>5, <3>1, <3>3 DEF InLine
    <3>4. CASE (p = s /\ i = last) \/ (q = s /\ j = last)
      <4>1. queue'[s][last].shmId = f
        BY <1>6 DEF node
      <4>2. Real(f)
        BY <2>1, <3>4, <4>1
      <4> QED BY <2>1, <3>3, <3>4, <4>1, <4>2
    <3> QED BY <3>2, <3>4
  <2>2. \A i, j \in DOMAIN taken' :
          Real(taken'[i][2].shmId) /\ taken'[i][2].shmId = taken'[j][2].shmId => i = j
    BY <1>1 DEF IdInv, Once
  <2>3. \A id \in Int : Real(id) => ~(InLine(id)' /\ Accepted(id)')
    BY <1>5, <1>8 DEF IdInv, Once
  <2>4. \A id \in Int : Real(id) /\ (InLine(id)' \/ Accepted(id)') => Used(id)'
    <3>1. \A id \in Int : Real(id) /\ id = f => Used(id)'
      BY <1>5 DEF Used
    <3> QED BY <1>5, <1>8, <3>1 DEF IdInv, Once
  <2>5. \A p \in Procs : Len(queue'[p]) <= Backlog
    BY <1>6, <1>7 DEF IdInv, Once
  <2> QED BY <2>1, <2>2, <2>3, <2>4, <2>5 DEF Once
<1>11. ASSUME NEW id \in Int, NEW from \in Everyone, NEW to \in Everyone, Met(id, from, to)
       PROVE  Met(id, from, to)'
  <2>1. PICK p \in Procs :
          /\ ListensAt(p, to)
          /\ \/ \E i \in DOMAIN queue[p] : queue[p][i] = node(id, from)
             \/ \E i \in DOMAIN taken : taken[i] = <<p, node(id, from)>>
    BY <1>11 DEF Met
  <2>2. ListensAt(p, to)'
    BY <1>1, <2>1 DEF ListensAt
  <2>3. \/ \E i \in DOMAIN queue'[p] : queue'[p][i] = node(id, from)
        \/ \E i \in DOMAIN taken' : taken'[i] = <<p, node(id, from)>>
    BY <1>1, <1>6, <2>1
  <2> QED BY <2>2, <2>3 DEF Met
<1>12. ASSUME NEW c \in Connectors, NEW id \in Int, NEW to \in Everyone, Client(c, id, to)'
       PROVE  \/ Client(c, id, to)
              \/ /\ id = f /\ to = pkg.peerAddr /\ a = AddrOf[c]
                 /\ call[r].op = "connect" /\ call[r].chan = c
  <2>1. ProcOf[c] \in Procs
    BY SharedAssumption, ChannelAssumption
  <2>2. \A q \in Procs \ {r} : reply'[q] = reply[q]
    BY <1>1
  <2>3. CASE ProcOf[c] # r \/ (chan'[c].shmId = id /\ chan'[c].peerAddr = to)
    BY <1>1, <1>12, <2>1, <2>2, <2>3 DEF Client, Calling
  <2>4. CASE ProcOf[c] = r /\ ~(chan'[c].shmId = id /\ chan'[c].peerAddr = to)
    <3>1. /\ call[r].op = "connect" /\ call[r].chan = c /\ call[r].to = to
          /\ reply'[r] = [mode |-> "MNGR_CONN_RES", shmId |-> id]
      BY <1>1, <1>12, <2>4 DEF Client, Calling
    <3>2. id = f
      BY <1>1, <1>3, <3>1 DEF CallInv, TypeOK
    <3>3. pkg.peerAddr = to /\ a = AddrOf[c]
      BY <1>1, <1>2, <3>1 DEF r, a, CallInv, Asked, RoleInv, Serving
    <3> QED BY <3>1, <3>2, <3>3
  <2> QED BY <2>3, <2>4
<1>13. ASSUME NEW id \in Int, NEW from \in Everyone, NEW to \in Everyone,
              id = f, from = a, to = pkg.peerAddr
       PROVE  Met(id, from, to)'
  <2>1. \E l \in Listeners : /\ ProcOf[l] = s /\ chan'[l].acceptQueue = s
                             /\ chan'[l].localAddr = to
    BY <1>1, <1>4, <1>13 DEF ListensAt
  <2> QED BY <1>4, <1>6, <1>13, <2>1 DEF Met, ListensAt
<1>14. \A c \in Connectors : AddrOf[c] \in Everyone
  BY ChannelAssumption DEF Everyone
<1>15. ASSUME NEW c \in Connectors, NEW to \in Everyone, Real(f), Client(c, f, to)
       PROVE  FALSE
  <2>1. Met(f, AddrOf[c], to)
    BY <1>5, <1>15 DEF IdInv, Holders
  <2> QED BY <1>5, <1>15, <2>1 DEF Met, InLine, Accepted, node
<1>16. Holders'
  <2>1. ASSUME NEW c \in Connectors, NEW d \in Connectors, NEW id \in Int,
               NEW x \in Everyone, NEW y \in Everyone,
               Real(id), Client(c, id, x)', Client(d, id, y)'
        PROVE  c = d
    <3>1. CASE id = f
      <4>1. ~Client(c, id, x) /\ ~Client(d, id, y)
        BY <1>15, <2>1, <3>1
      <4> QED BY <1>12, <2>1, <4>1
    <3>2. CASE id # f
      <4>1. Client(c, id, x) /\ Client(d, id, y)
        BY <1>12, <2>1, <3>2
      <4> QED BY <2>1, <4>1 DEF IdInv, Holders
    <3> QED BY <3>1, <3>2
  <2>2. ASSUME NEW d \in Acceptees, NEW id \in Int, NEW from \in Everyone
        PROVE  Server(d, id, from)' <=> Server(d, id, from)
    BY <1>1 DEF Server
  <2>3. \A c, d \in Acceptees, id \in Int, x, y \in Everyone :
          Real(id) /\ Server(c, id, x)' /\ Server(d, id, y)' => c = d
    BY <2>2 DEF IdInv, Holders
  <2>4. ASSUME NEW c \in Connectors, NEW id \in Int, NEW to \in Everyone,
               Real(id), Client(c, id, to)'
        PROVE  Met(id, AddrOf[c], to)'
    <3>1. CASE Client(c, id, to)
      <4>1. Met(id, AddrOf[c], to)
        BY <2>4, <3>1 DEF IdInv, Holders
      <4> QED BY <1>11, <1>14, <4>1
    <3>2. CASE id = f /\ to = pkg.peerAddr /\ a = AddrOf[c]
      BY <1>13, <1>14, <3>2
    <3> QED BY <1>12, <2>4, <3>1, <3>2
  <2>5. \A d \in Acceptees, id \in Int, from \in Everyone :
          Real(id) /\ Server(d, id, from)' =>
            \E i \in DOMAIN taken' : taken'[i] = <<ProcOf[d], node(id, from)>>
    BY <1>1, <2>2 DEF IdInv, Holders
  <2> QED BY <2>1, <2>3, <2>4, <2>5 DEF Holders
<1> QED BY <1>9, <1>10, <1>16 DEF IdInv

(* An accepted node goes from the head of a queue into the history and to  *)
(* one channel.                                                            *)
LEMMA DequeueIds ==
  ASSUME OneRole, RoleInv, IdInv, UNCHANGED msgrVars, NEW c \in Channels,
         NEW d \in Channels, AcceptDequeue(c, d)
  PROVE  IdInv'
<1> DEFINE p == ProcOf[c]
           n == Head(queue[p])
<1>1. /\ CallInv /\ d \in Acceptees /\ ProcOf[d] = p /\ queue[p] # <<>>
      /\ queue' = [queue EXCEPT ![p] = Tail(@)]
      /\ call' = [call EXCEPT ![p] = [op |-> "accept", chan |-> c, new |-> d, nd |-> n]]
      /\ taken' = Append(taken, <<p, n>>)
      /\ UNCHANGED <<reply, chan, free_list_, nextFd>>
  BY DEF RoleInv, AcceptDequeue, msgrVars, freeListVars
<1>2. /\ p \in Procs /\ queue[p] \in Seq(Nodes) /\ taken \in Seq(Procs \X Nodes)
  BY <1>1, Elements DEF CallInv, TypeOK
<1>3. /\ n = queue[p][1] /\ 1 \in DOMAIN queue[p] /\ n \in Nodes
      /\ Len(queue'[p]) = Len(queue[p]) - 1 /\ Len(queue[p]) \in Nat
      /\ \A i \in DOMAIN queue'[p] : /\ i \in Nat \ {0} /\ i + 1 \in DOMAIN queue[p]
                                     /\ queue'[p][i] = queue[p][i + 1]
      /\ \A i \in DOMAIN queue[p] : i # 1 => /\ i - 1 \in DOMAIN queue'[p]
                                             /\ queue'[p][i - 1] = queue[p][i]
      /\ \A q \in Procs \ {p} : queue'[q] = queue[q]
  <2>1. queue'[p] = Tail(queue[p]) /\ \A q \in Procs \ {p} : queue'[q] = queue[q]
    BY <1>1, <1>2 DEF CallInv, TypeOK
  <2> DEFINE q == queue[p]
  <2>2. q \in Seq(Nodes) /\ q # <<>> /\ Len(q) \in Nat
    BY <1>1, <1>2
  <2> HIDE DEF q
  <2>3. /\ Head(q) = q[1] /\ 1 \in DOMAIN q /\ Head(q) \in Nodes
        /\ Len(Tail(q)) = Len(q) - 1
        /\ \A i \in DOMAIN Tail(q) : /\ i \in Nat \ {0} /\ i + 1 \in DOMAIN q
                                     /\ Tail(q)[i] = q[i + 1]
        /\ \A i \in DOMAIN q : i # 1 => /\ i - 1 \in DOMAIN Tail(q)
                                        /\ Tail(q)[i - 1] = q[i]
    BY <2>2, TailElements
  <2> QED BY <2>1, <2>2, <2>3 DEF q
<1> HIDE DEF n, p
<1> DEFINE last == Len(taken) + 1
<1>4. /\ \A i \in DOMAIN taken : i \in DOMAIN taken' /\ taken'[i] = taken[i] /\ i # last
      /\ \A i \in DOMAIN taken' : i \in DOMAIN taken \/ i = last
      /\ last \in DOMAIN taken' /\ taken'[last] = <<p, n>>
  <2>1. <<p, n>> \in Procs \X Nodes
    BY <1>2, <1>3
  <2> QED BY <1>1, <1>2, <2>1, AppendElements
<1> HIDE DEF last
<1> DEFINE f == n.shmId
<1>5. /\ f \in Int /\ n.peerAddr \in Everyone /\ n = node(f, n.peerAddr) /\ InLine(f)
      /\ Real(f) => ~Accepted(f)
  <2>1. f \in Int /\ n.peerAddr \in Addrs /\ n = node(f, n.peerAddr)
    BY <1>3 DEF Nodes, node
  <2>2. InLine(f)
    BY <1>2, <1>3 DEF InLine
  <2> QED BY <2>1, <2>2 DEF IdInv, Once, Everyone
<1>6. \A id \in Int : InLine(id)' => InLine(id)
  <2> SUFFICES ASSUME NEW id \in Int, InLine(id)' PROVE InLine(id)
    OBVIOUS
  <2> PICK q \in Procs : \E i \in DOMAIN queue'[q] : queue'[q][i].shmId = id
    BY DEF InLine
  <2>1. PICK i \in DOMAIN queue'[q] : queue'[q][i].shmId = id
    OBVIOUS
  <2>2. CASE q = p
    BY <1>2, <1>3, <2>1, <2>2 DEF InLine
  <2>3. CASE q # p
    BY <1>3, <2>1, <2>3 DEF InLine
  <2> QED BY <2>2, <2>3
<1>7. ASSUME NEW id \in Int, id = f, Real(f) PROVE ~InLine(id)'
  <2> SUFFICES ASSUME NEW q \in Procs, NEW i \in DOMAIN queue'[q],
                      queue'[q][i].shmId = f
               PROVE  FALSE
    BY <1>7 DEF InLine
  <2>1. CASE q = p
    <3>1. i \in Nat \ {0} /\ i + 1 \in DOMAIN queue[p] /\ queue[p][i + 1].shmId = f
      BY <1>3, <2>1
    <3>2. i + 1 = 1
      BY <1>2, <1>3, <1>7, <3>1 DEF IdInv, Once
    <3> QED BY <3>1, <3>2
  <2>2. CASE q # p
    <3>1. i \in DOMAIN queue[q] /\ queue[q][i].shmId = f
      BY <1>3, <2>2
    <3>2. queue[p][1].shmId = f
      BY <1>3
    <3> QED BY <1>2, <1>3, <1>7, <2>2, <3>1, <3>2 DEF IdInv, Once
  <2> QED BY <2>1, <2>2
<1>8. \A id \in Int : Accepted(id)' <=> Accepted(id) \/ id = f
  <2>1. \A id \in Int : Accepted(id) => Accepted(id)'
    BY <1>4 DEF Accepted
  <2>2. ASSUME NEW id \in Int, id = f PROVE Accepted(id)'
    <3>1. taken'[last][2].shmId = id
      BY <1>4, <2>2
    <3> QED BY <1>4, <3>1 DEF Accepted
  <2>3. ASSUME NEW id \in Int, Accepted(id)'
        PROVE  Accepted(id) \/ id = f
    <3>1. PICK i \in DOMAIN taken' : taken'[i][2].shmId = id
      BY <2>3 DEF Accepted
    <3> QED BY <1>4, <3>1 DEF Accepted
  <2> QED BY <2>1, <2>2, <2>3
<1>9. Fresh'
  <2>1. \A id \in Int : Used(id)' <=> Used(id)
    BY <1>1 DEF Used
  <2>2. ASSUME NEW i \in DOMAIN free_list_, NEW id \in Int, free_list_[i] = id, Real(id)
        PROVE  Used(id)' /\ ~InLine(id)' /\ ~Accepted(id)'
    <3>1. Used(id) /\ ~InLine(id) /\ ~Accepted(id)
      BY <2>2 DEF IdInv, Fresh
    <3> QED BY <1>5, <1>6, <1>8, <2>1, <3>1
  <2> QED BY <1>1, <2>2 DEF IdInv, Fresh
<1>10. Once'
  <2>1. ASSUME NEW u \in Procs, NEW q \in Procs,
               NEW i \in DOMAIN queue'[u], NEW j \in DOMAIN queue'[q],
               Real(queue'[u][i].shmId), queue'[u][i].shmId = queue'[q][j].shmId
        PROVE  u = q /\ i = j
    <3> DEFINE Was(w, k) == IF w = p THEN k + 1 ELSE k
    <3>1. \A w \in Procs : \A k \in DOMAIN queue'[w] :
            Was(w, k) \in DOMAIN queue[w] /\ queue'[w][k] = queue[w][Was(w, k)]
      BY <1>3
    <3>2. u = q /\ Was(u, i) = Was(q, j)
      <4> HIDE DEF Was
      <4>1. /\ Was(u, i) \in DOMAIN queue[u] /\ queue'[u][i] = queue[u][Was(u, i)]
            /\ Was(q, j) \in DOMAIN queue[q] /\ queue'[q][j] = queue[q][Was(q, j)]
        BY <3>1
      <4> QED BY <2>1, <4>1 DEF IdInv, Once
    <3>3. u = p => i \in Nat /\ j \in Nat
      BY <1>3, <3>2
    <3> QED BY <3>2, <3>3
  <2>2. ASSUME NEW i \in DOMAIN taken', NEW j \in DOMAIN taken',
               Real(taken'[i][2].shmId), taken'[i][2].shmId = taken'[j][2].shmId
        PROVE  i = j
    <3>1. CASE i \in DOMAIN taken /\ j \in DOMAIN taken
      BY <1>4, <2>2, <3>1 DEF IdInv, Once
    <3>2. ASSUME NEW k \in DOMAIN taken, Real(f) PROVE taken'[k][2].shmId # f
      BY <1>4, <1>5, <3>2 DEF Accepted
    <3>3. taken'[last][2].shmId = f
      BY <1>4
    <3> QED BY <1>4, <2>2, <3>1, <3>2, <3>3
  <2>3. \A id \in Int : Real(id) => ~(InLine(id)' /\ Accepted(id)')
    BY <1>6, <1>7, <1>8 DEF IdInv, Once
  <2>4. \A id \in Int : Real(id) /\ (InLine(id)' \/ Accepted(id)') => Used(id)'
    <3>1. \A id \in Int : Used(id)' <=> Used(id)
      BY <1>1 DEF Used
    <3> QED BY <1>5, <1>6, <1>8, <3>1 DEF IdInv, Once
  <2>5. \A q \in Procs : Len(queue'[q]) <= Backlog
    BY <1>2, <1>3, SharedAssumption DEF IdInv, Once
  <2> QED BY <2>1, <2>2, <2>3, <2>4, <2>5 DEF Once
<1>11. ASSUME NEW id \in Int, NEW from \in Everyone, NEW to \in Everyone, Met(id, from, to)
       PROVE  Met(id, from, to)'
  <2>1. PICK q \in Procs :
          /\ ListensAt(q, to)
          /\ \/ \E i \in DOMAIN queue[q] : queue[q][i] = node(id, from)
             \/ \E i \in DOMAIN taken : taken[i] = <<q, node(id, from)>>
    BY <1>11 DEF Met
  <2>2. ListensAt(q, to)'
    BY <1>1, <2>1 DEF ListensAt
  <2>3. \/ \E i \in DOMAIN queue'[q] : queue'[q][i] = node(id, from)
        \/ \E i \in DOMAIN taken' : taken'[i] = <<q, node(id, from)>>
    <3>1. CASE \E i \in DOMAIN taken : taken[i] = <<q, node(id, from)>>
      BY <1>4, <3>1
    <3>2. ASSUME NEW i \in DOMAIN queue[q], queue[q][i] = node(id, from)
          PROVE  \/ \E j \in DOMAIN queue'[q] : queue'[q][j] = node(id, from)
                 \/ \E j \in DOMAIN taken' : taken'[j] = <<q, node(id, from)>>
      <4>1. CASE q # p
        BY <1>3, <3>2, <4>1
      <4>2. CASE q = p /\ i = 1
        BY <1>3, <1>4, <3>2, <4>2
      <4>3. CASE q = p /\ i # 1
        BY <1>3, <3>2, <4>3
      <4> QED BY <4>1, <4>2, <4>3
    <3> QED BY <2>1, <3>1, <3>2
  <2> QED BY <2>2, <2>3 DEF Met
<1>12. \A q \in Procs : call'[q] =
          IF q = p THEN [op |-> "accept", chan |-> c, new |-> d, nd |-> n] ELSE call[q]
  BY <1>1 DEF CallInv, TypeOK
<1>13. \A e \in Channels : ProcOf[e] \in Procs
  BY SharedAssumption
<1>14. ASSUME NEW e \in Connectors, NEW id \in Int, NEW to \in Everyone, Client(e, id, to)'
       PROVE  Client(e, id, to)
  <2>1. ProcOf[e] \in Procs
    BY <1>13, ChannelAssumption
  <2> QED BY <1>1, <1>12, <1>14, <2>1 DEF Client, Calling
<1>15. ASSUME NEW e \in Acceptees, NEW id \in Int, NEW from \in Everyone,
              Server(e, id, from)'
       PROVE  Server(e, id, from) \/ (e = d /\ id = f /\ from = n.peerAddr)
  <2>1. ProcOf[e] \in Procs
    BY <1>13, ChannelAssumption
  <2>2. CASE chan'[e].shmId = id /\ chan'[e].peerAddr = from
    BY <1>1, <2>2 DEF Server
  <2>3. CASE /\ call'[ProcOf[e]].op = "accept" /\ call'[ProcOf[e]].new = e
             /\ call'[ProcOf[e]].nd = node(id, from)
    <3>1. CASE ProcOf[e] = p
      <4>1. e = d /\ n = node(id, from)
        BY <1>12, <2>1, <2>3, <3>1
      <4> QED BY <4>1 DEF node
    <3>2. CASE ProcOf[e] # p
      BY <1>12, <2>1, <2>3, <3>2 DEF Server
    <3> QED BY <3>1, <3>2
  <2> QED BY <1>15, <2>2, <2>3 DEF Server
<1>16. ASSUME NEW e \in Acceptees, NEW from \in Everyone, Real(f), Server(e, f, from)
       PROVE  FALSE
  <2>1. \E i \in DOMAIN taken : taken[i] = <<ProcOf[e], node(f, from)>>
    BY <1>5, <1>16 DEF IdInv, Holders
  <2> QED BY <1>5, <1>16, <2>1 DEF Accepted, node
<1>17. Holders'
  <2>1. ASSUME NEW x \in Acceptees, NEW y \in Acceptees, NEW id \in Int,
               NEW a \in Everyone, NEW b \in Everyone,
               Real(id), Server(x, id, a)', Server(y, id, b)'
        PROVE  x = y
    <3>1. CASE id = f
      <4>1. ~Server(x, id, a) /\ ~Server(y, id, b)
        BY <1>16, <2>1, <3>1
      <4> QED BY <1>15, <2>1, <4>1
    <3>2. CASE id # f
      <4>1. Server(x, id, a) /\ Server(y, id, b)
        BY <1>15, <2>1, <3>2
      <4> QED BY <2>1, <4>1 DEF IdInv, Holders
    <3> QED BY <3>1, <3>2
  <2>2. \A x, y \in Connectors, id \in Int, a, b \in Everyone :
          Real(id) /\ Client(x, id, a)' /\ Client(y, id, b)' => x = y
    BY <1>14 DEF IdInv, Holders
  <2>3. \A e \in Connectors : AddrOf[e] \in Everyone
    BY ChannelAssumption DEF Everyone
  <2>4. \A e \in Connectors, id \in Int, to \in Everyone :
          Real(id) /\ Client(e, id, to)' => Met(id, AddrOf[e], to)'
    BY <1>11, <1>14, <2>3 DEF IdInv, Holders
  <2>5. ASSUME NEW e \in Acceptees, NEW id \in Int, NEW from \in Everyone,
               Real(id), Server(e, id, from)'
        PROVE  \E i \in DOMAIN taken' : taken'[i] = <<ProcOf[e], node(id, from)>>
    <3>1. CASE Server(e, id, from)
      BY <1>4, <2>5, <3>1 DEF IdInv, Holders
    <3>2. CASE e = d /\ id = f /\ from = n.peerAddr
      BY <1>1, <1>4, <1>5, <3>2
    <3> QED BY <1>15, <2>5, <3>1, <3>2
  <2> QED BY <2>1, <2>2, <2>4, <2>5 DEF Holders
<1> QED BY <1>9, <1>10, <1>17 DEF IdInv

-----------------------------------------------------------------------------
LEMMA InitIds ==
  ASSUME Init
  PROVE  IdInv /\ Flags
<1>1. /\ \A p \in Procs : queue[p] = <<>> /\ call[p].op = "idle"
      /\ taken = <<>> /\ \A c \in Channels : chan[c].shmId = NoId
      /\ free_list_ = [i \in 1 .. INITIALSIZE |-> FirstFd + i - 1]
      /\ nextFd = FirstFd + INITIALSIZE + 2
  BY DEF Init, MsgrInit, ChannelInit, FreeListInit, Idle
<1>2. \A c \in Channels : ProcOf[c] \in Procs
  BY SharedAssumption
<1>3. \A id \in Int : ~InLine(id) /\ ~Accepted(id)
  BY <1>1 DEF InLine, Accepted
<1>4. Fresh
  <2>1. ASSUME NEW i \in DOMAIN free_list_, NEW id \in Int, free_list_[i] = id, Real(id)
        PROVE  Used(id)
    BY <1>1, <2>1, FreeListAssumption DEF Used, Real
  <2>2. \A i, j \in DOMAIN free_list_ : free_list_[i] = free_list_[j] => i = j
    BY <1>1, FreeListAssumption
  <2> QED BY <1>3, <2>1, <2>2 DEF Fresh
<1>5. Once
  BY <1>1, <1>3, SharedAssumption DEF Once
<1>6. \A c \in Connectors, id \in Int, to \in Everyone : Real(id) => ~Client(c, id, to)
  BY <1>1, <1>2, ChannelAssumption DEF Client, Calling, Real
<1>7. \A d \in Acceptees, id \in Int, from \in Everyone : Real(id) => ~Server(d, id, from)
  BY <1>1, <1>2, ChannelAssumption DEF Server, Real
<1>8. Holders
  BY <1>6, <1>7 DEF Holders
<1>9. Flags
  BY <1>1 DEF Flags, FlagOf, Real
<1> QED BY <1>4, <1>5, <1>8, <1>9 DEF IdInv

LEMMA StepIds ==
  ASSUME OneRole, RoleInv, IdInv, [Next]_vars
  PROVE  IdInv'
<1>1. CASE Manager
  BY <1>1, GrantIds, ManagerIds
<1>2. ASSUME NEW c \in Channels, Call(c) \/ Proceed(c)
      PROVE  IdInv'
  <2>1. UNCHANGED <<msgrVars, free_list_, nextFd>> /\ (MakeCall(c) \/ InCall(c))
    BY <1>2 DEF Call, Proceed, msgrVars, freeListVars
  <2>2. CASE \E d \in Channels : AcceptDequeue(c, d)
    BY <2>1, <2>2, DequeueIds
  <2>3. CASE ~\E d \in Channels : AcceptDequeue(c, d)
    <3>1. Steady /\ Listening /\ UNCHANGED <<queue, taken>>
      BY <2>1, <2>3, CallSteady
    <3> QED BY <2>1, <3>1, SteadyIds DEF RoleInv
  <2> QED BY <2>2, <2>3
<1>3. ASSUME NEW p \in Procs, Kill(p) PROVE IdInv'
  <2>1. /\ call' = [call EXCEPT ![p] = Dead] /\ Dead.op = "dead"
        /\ UNCHANGED <<reply, chan, queue, taken, free_list_, nextFd>>
    BY <1>3 DEF Kill, Die, Dead, msgrVars, freeListVars
  <2>2. Attached
    BY <2>1 DEF Attached
  <2>3. Steady /\ Listening
    BY <2>1, <2>2, AttachedSteady DEF RoleInv
  <2> QED BY <2>1, <2>3, SteadyIds DEF RoleInv
<1>4. CASE UNCHANGED vars
  <2>1. UNCHANGED <<reply, call, chan, queue, taken, free_list_, nextFd>>
    BY <1>4 DEF vars, sharedVars, msgrVars, channelVars, freeListVars
  <2>2. Steady /\ Listening
    BY <2>1, ManagerSteady DEF RoleInv
  <2> QED BY <2>1, <2>2, SteadyIds DEF RoleInv
<1> QED BY <1>1, <1>2, <1>3, <1>4 DEF Next

-----------------------------------------------------------------------------
(* Two channels that hold the same id are on different sides.              *)
LEMMA FlagsDiffer ==
  ASSUME OneRole, RoleInv, IdInv
  PROVE  OwnFlagsDiffer
<1> SUFFICES ASSUME NEW c \in Channels, NEW d \in Channels,
                    Real(chan[c].shmId), OwnFlag(c) = OwnFlag(d)
             PROVE  c = d
  BY DEF OwnFlagsDiffer
<1>1. /\ chan[c] \in Members /\ chan[d] \in Members
      /\ RoleOf(c, chan[c], use[c]) /\ RoleOf(d, chan[d], use[d])
  BY Elements DEF RoleInv, CallInv, Roles
<1>2. chan[c].shmId = chan[d].shmId /\ chan[c].isServer = chan[d].isServer
      /\ chan[c].shmId \in Int /\ chan[c].shmId # NoId
      /\ chan[c].peerAddr \in Everyone /\ chan[d].peerAddr \in Everyone
  BY <1>1 DEF OwnFlag, Side, Members, Real, Everyone
<1>3. CASE chan[c].isServer
  <2>1. c \in Acceptees /\ d \in Acceptees
    BY <1>1, <1>2, <1>3 DEF RoleOf
  <2>2. /\ Server(c, chan[c].shmId, chan[c].peerAddr)
        /\ Server(d, chan[c].shmId, chan[d].peerAddr)
    BY <1>2 DEF Server
  <2> QED BY <1>2, <2>1, <2>2 DEF IdInv, Holders
<1>4. CASE ~chan[c].isServer
  <2>1. c \in Connectors /\ d \in Connectors
    BY <1>1, <1>2, <1>4 DEF RoleOf
  <2>2. /\ Client(c, chan[c].shmId, chan[c].peerAddr)
        /\ Client(d, chan[c].shmId, chan[d].peerAddr)
    BY <1>2 DEF Client
  <2> QED BY <1>2, <2>1, <2>2 DEF IdInv, Holders
<1> QED BY <1>3, <1>4

(* A step of the channel c, which changes no flag but its own.             *)
LEMMA FlagStep ==
  ASSUME RoleInv, Flags, OwnFlagsDiffer', NEW c \in Channels, NEW new,
         call' = [call EXCEPT ![ProcOf[c]] = new],
         call[ProcOf[c]] # Dead,
         call[ProcOf[c]].op \in {"check", "drain", "close"} => call[ProcOf[c]].chan = c,
         new.op \in {"check", "drain", "close"} => new.chan = c,
         \A e \in Channels \ {c} : chan'[e] = chan[e] /\ use'[e] = use[e],
         \A g : g # OwnFlag(c)' => (g \in alive' <=> g \in alive),
         FlagOf(c)'
  PROVE  Flags'
<1> DEFINE p == ProcOf[c]
<1>1. p \in Procs /\ \A e \in Channels : ProcOf[e] \in Procs
  BY SharedAssumption
<1>2. \A q \in Procs : call'[q] = IF q = p THEN new ELSE call[q]
  BY DEF RoleInv, CallInv, TypeOK
<1>3. ASSUME NEW e \in Channels \ {c} PROVE FlagOf(e)'
  <2> SUFFICES ASSUME Real(chan'[e].shmId)
               PROVE  /\ Open(e)' /\ ~Closing(e)' /\ call'[ProcOf[e]] # Dead =>
                           OwnFlag(e)' \in alive'
                      /\ use'[e] = "closed" \/ Calling(e, "check")' \/ Calling(e, "close")'
                           => OwnFlag(e)' \notin alive'
    BY DEF FlagOf, Real
  <2>1. FlagOf(e) /\ Real(chan[e].shmId) /\ chan'[e] = chan[e] /\ use'[e] = use[e]
    BY DEF Flags
  <2>2. OwnFlag(e)' = OwnFlag(e)
    BY <2>1 DEF OwnFlag
  <2>3. OwnFlag(e)' # OwnFlag(c)'
    BY DEF OwnFlagsDiffer, Real
  <2>4. OwnFlag(e)' \in alive' <=> OwnFlag(e) \in alive
    BY <2>2, <2>3
  <2>5. ~Closing(e)' /\ call'[ProcOf[e]] # Dead => ~Closing(e) /\ call[ProcOf[e]] # Dead
    <3>1. CASE ProcOf[e] = p
      BY <3>1 DEF Closing, Calling
    <3>2. CASE ProcOf[e] # p
      BY <1>1, <1>2, <3>2 DEF Closing, Calling
    <3> QED BY <3>1, <3>2
  <2>6. \A op \in {"check", "close"} : Calling(e, op)' => Calling(e, op)
    BY <1>1, <1>2 DEF Calling
  <2> QED BY <2>1, <2>4, <2>5, <2>6 DEF FlagOf, Open
<1> QED BY <1>3 DEF Flags

(* Every step of a call moves one channel's flag at most, and as it says.  *)
LEMMA CallFlags ==
  ASSUME OneRole, RoleInv, RoleInv', Flags, OwnFlagsDiffer', NEW c \in Channels,
         MakeCall(c) \/ InCall(c)
  PROVE  Flags'
<1> DEFINE p == ProcOf[c]
<1>1. /\ CallInv /\ p \in Procs /\ Idle.op = "idle" /\ Dead.op = "dead"
      /\ chan[c] \in Members /\ RoleOf(c, chan[c], use[c]) /\ FlagOf(c)
  BY Elements DEF RoleInv, CallInv, Idle, Dead, Roles, Flags
<1>2. CASE ListenSend(c)
  <2> DEFINE new == [op |-> "listen", chan |-> c]
  <2>1. /\ call' = [call EXCEPT ![p] = new] /\ call[p].op = "idle" /\ c \in Listeners
        /\ chan' = [chan EXCEPT ![c].isServer = TRUE, ![c].acceptQueue = p]
        /\ UNCHANGED <<alive, use>>
    BY <1>1, <1>2 DEF ListenSend, Enter, Ready
  <2>2. /\ \A e \in Channels \ {c} : chan'[e] = chan[e]
        /\ chan'[c].shmId = chan[c].shmId
    BY <1>1, <2>1 DEF CallInv, TypeOK, Members
  <2>3. chan[c].shmId = NoId
    BY <1>1, <2>1 DEF RoleOf, OneRole
  <2>4. FlagOf(c)'
    BY <2>2, <2>3 DEF FlagOf, Real
  <2> QED BY <1>1, <2>1, <2>2, <2>4, FlagStep
<1>3. CASE \E a \in ServerAddrs : ConnectSend(c, a)
  <2>1. PICK a \in ServerAddrs : ConnectSend(c, a)
    BY <1>3
  <2> DEFINE new == [op |-> "connect", chan |-> c, to |-> a]
  <2>2. /\ call' = [call EXCEPT ![p] = new] /\ call[p].op = "idle" /\ c \in Connectors
        /\ chan' = [chan EXCEPT ![c].isServer = FALSE]
        /\ use[c] # "open" /\ UNCHANGED <<alive, use>>
    BY <1>1, <2>1 DEF ConnectSend, Ready
  <2>3. /\ \A e \in Channels \ {c} : chan'[e] = chan[e]
        /\ chan'[c].shmId = chan[c].shmId /\ chan'[c].isServer = chan[c].isServer
    BY <1>1, <2>2 DEF CallInv, TypeOK, Members, RoleOf
  <2>4. FlagOf(c)'
    <3>1. OwnFlag(c)' = OwnFlag(c)
      BY <2>3 DEF OwnFlag
    <3>2. call'[p] = new /\ new.op = "connect"
      BY <1>1, <2>2 DEF CallInv, TypeOK
    <3> HIDE DEF new
    <3> QED BY <1>1, <2>2, <2>3, <3>1, <3>2 DEF FlagOf, Real, Calling, Open
  <2>5. new.op = "connect"
    OBVIOUS
  <2> HIDE DEF new
  <2> QED BY <1>1, <2>2, <2>3, <2>4, <2>5, FlagStep
<1>4. CASE ConnectReturn(c)
  <2> DEFINE id == reply[p].shmId
  <2>1. /\ call' = [call EXCEPT ![p] = Idle] /\ call[p].op = "connect" /\ call[p].chan = c
        /\ chan' = [chan EXCEPT ![c].shmId = id, ![c].peerAddr = call[p].to]
        /\ alive' = alive \cup {<<id, "client">>}
        /\ use' = [use EXCEPT ![c] = "open"]
    BY <1>4 DEF ConnectReturn, Return, Calling
  <2>2. c \in Connectors
    BY <1>1, <2>1 DEF CallInv, Own
  <2>3. /\ \A e \in Channels \ {c} : chan'[e] = chan[e] /\ use'[e] = use[e]
        /\ chan'[c].shmId = id /\ chan'[c].isServer = chan[c].isServer
        /\ use'[c] = "open" /\ call'[p] = Idle
    BY <1>1, <2>1 DEF CallInv, TypeOK, Members
  <2>4. OwnFlag(c)' = <<id, "client">>
    BY <1>1, <2>2, <2>3 DEF OwnFlag, Side, RoleOf
  <2>5. FlagOf(c)'
    BY <1>1, <2>1, <2>3, <2>4 DEF FlagOf, Calling
  <2> QED BY <1>1, <2>1, <2>3, <2>4, <2>5, FlagStep
<1>5. CASE AcceptAttach(c) /\ call[p].nd.shmId \in segs
  <2> PICK d : d = call[p].new
    OBVIOUS
  <2> PICK id : id = call[p].nd.shmId
    OBVIOUS
  <2>1. /\ call' = [call EXCEPT ![p] = Idle] /\ call[p].op = "accept"
        /\ chan' = [chan EXCEPT ![d].shmId = id,
                                ![d].localAddr = chan[c].localAddr,
                                ![d].peerAddr = call[p].nd.peerAddr,
                                ![d].isServer = TRUE]
        /\ alive' = alive \cup {<<id, "server">>}
        /\ use' = [use EXCEPT ![d] = "open"]
    BY <1>5 DEF AcceptAttach, Return, Calling
  <2>2. d \in Channels /\ ProcOf[d] = p
    BY <1>1, <2>1, ChannelAssumption DEF CallInv, Own
  <2>3. \A e \in Channels \ {d} : chan'[e] = chan[e] /\ use'[e] = use[e]
    BY <1>1, <2>1, <2>2 DEF CallInv, TypeOK
  <2>4. /\ chan'[d].shmId = id /\ chan'[d].isServer = TRUE
        /\ use'[d] = "open" /\ call'[p] = Idle
    BY <1>1, <2>1, <2>2 DEF CallInv, TypeOK, Members
  <2>5. OwnFlag(d)' = <<id, "server">>
    BY <2>4 DEF OwnFlag, Side
  <2>6. FlagOf(d)'
    BY <1>1, <2>1, <2>2, <2>4, <2>5 DEF FlagOf, Calling
  <2>7. call[p] # Dead /\ call[p].op \notin {"check", "drain", "close"}
    BY <1>1, <2>1
  <2> QED BY <1>1, <2>1, <2>2, <2>3, <2>5, <2>6, <2>7, FlagStep
<1>6. ASSUME NEW new \in Calls, call' = [call EXCEPT ![p] = new], UNCHANGED <<chan, use>>,
             call[p].op = "idle" \/ (call[p].chan = c /\ call[p].op # "dead"),
             new.op \in {"check", "drain", "close"} => new.chan = c,
             \A g : g # OwnFlag(c) => (g \in alive' <=> g \in alive),
             OwnFlag(c) \in alive' => OwnFlag(c) \in alive,
             new.op \in {"check", "close"} => OwnFlag(c) \notin alive' \/ ~Real(chan[c].shmId),
             OwnFlag(c) \in alive /\ OwnFlag(c) \notin alive' => new.op \in {"check", "close"},
             call[p].op \in {"check", "drain", "close"} => new.op \in {"dead", "close"}
      PROVE  Flags'
  <2>1. OwnFlag(c)' = OwnFlag(c) /\ call'[p] = new
    BY <1>1, <1>6 DEF OwnFlag, CallInv, TypeOK
  <2>2. call[p] # Dead /\ (call[p].op = "idle" => ~Closing(c))
    BY <1>1, <1>6 DEF Closing, Calling
  <2>3. FlagOf(c)'
    <3> SUFFICES ASSUME Real(chan[c].shmId)
                 PROVE  /\ Open(c) /\ ~Closing(c)' /\ call'[p] # Dead => OwnFlag(c) \in alive'
                        /\ use[c] = "closed" \/ Calling(c, "check")' \/ Calling(c, "close")'
                             => OwnFlag(c) \notin alive'
      BY <1>6, <2>1 DEF FlagOf, Open, Real
    <3>1. ASSUME Open(c), ~Closing(c)', call'[p] # Dead
          PROVE  OwnFlag(c) \in alive'
      <4>1. new.op \notin {"check", "drain", "close"} /\ new.op # "dead"
        <5>1. new.op \notin {"check", "drain", "close"}
          BY <1>6, <2>1, <3>1 DEF Closing, Calling
        <5>2. new.op = "dead" => new = Dead
          BY <1>6 DEF Calls, Idle, Dead
        <5> QED BY <2>1, <3>1, <5>1, <5>2
      <4>2. ~Closing(c)
        BY <1>6, <4>1 DEF Closing, Calling
      <4> QED BY <1>1, <1>6, <2>2, <3>1, <4>1, <4>2 DEF FlagOf
    <3>2. ASSUME use[c] = "closed" \/ Calling(c, "check")' \/ Calling(c, "close")'
          PROVE  OwnFlag(c) \notin alive'
      <4>1. CASE use[c] = "closed"
        BY <1>1, <1>6, <4>1 DEF FlagOf
      <4>2. CASE Calling(c, "check")' \/ Calling(c, "close")'
        BY <1>6, <2>1, <4>2 DEF Calling
      <4> QED BY <3>2, <4>1, <4>2
    <3> QED BY <3>1, <3>2
  <2>4. call[p].op \in {"check", "drain", "close"} => call[p].chan = c
    BY <1>6
  <2> QED BY <1>1, <1>6, <2>1, <2>2, <2>3, <2>4, FlagStep
<1>7. CASE \/ ListenReturn(c) \/ ConnectRefused(c) \/ ConnectNoSegment(c) \/ CloseNull(c)
           \/ AcceptAttach(c) /\ call[p].nd.shmId \notin segs
  <2>1. PICK new \in {Idle, Dead} : call' = [call EXCEPT ![p] = new]
    BY <1>7 DEF ListenReturn, ConnectRefused, ConnectNoSegment, CloseNull, AcceptAttach,
                Return, Segfault
  <2>2. UNCHANGED <<chan, use, alive>>
    BY <1>7 DEF ListenReturn, ConnectRefused, ConnectNoSegment, CloseNull, AcceptAttach
  <2>3. \/ call[p].op = "idle"
        \/ call[p].chan = c /\ call[p].op \in {"listen", "connect", "accept"}
    BY <1>1, <1>7 DEF ListenReturn, ConnectRefused, ConnectNoSegment, CloseNull,
                      AcceptAttach, Ready, Calling
  <2>4. new \in Calls /\ new.op \in {"idle", "dead"}
    BY <1>1, <2>1 DEF Calls
  <2> QED BY <1>6, <2>1, <2>2, <2>3, <2>4
<1>8. ASSUME NEW d \in Channels, AcceptDequeue(c, d) PROVE Flags'
  <2> DEFINE new == [op |-> "accept", chan |-> c, new |-> d, nd |-> Head(queue[p])]
  <2>1. /\ call' = [call EXCEPT ![p] = new] /\ call[p].op = "idle"
        /\ UNCHANGED <<chan, use, alive>> /\ queue[p] # <<>>
    BY <1>1, <1>8 DEF AcceptDequeue, Ready
  <2>2. new \in Calls /\ new.op = "accept"
    <3>1. Head(queue[p]) \in Nodes
      BY <1>1, <2>1, Elements DEF CallInv
    <3> QED BY <3>1 DEF Calls
  <2> HIDE DEF new
  <2> QED BY <1>6, <2>1, <2>2
<1>9. CASE CloseMark(c) \/ CloseCheckFirst(c) \/ CloseTell(c)
  <2>1. PICK op \in {"check", "drain", "close"} :
          /\ call' = [call EXCEPT ![p] = [op |-> op, chan |-> c]]
          /\ \/ /\ op \in {"check", "close"} /\ alive' = alive \ {OwnFlag(c)}
                /\ call[p].op = "idle"
             \/ op = "drain" /\ alive' = alive /\ call[p].op = "idle"
             \/ op = "close" /\ alive' = alive /\ Calling(c, "check")
    BY <1>1, <1>9 DEF CloseMark, CloseCheckFirst, CloseTell, TellManager, Enter, MayClose,
                      Ready
  <2>2. UNCHANGED <<chan, use>>
    BY <1>9 DEF CloseMark, CloseCheckFirst, CloseTell, TellManager
  <2> DEFINE new == [op |-> op, chan |-> c]
  <2>3. new \in Calls /\ new.op = op /\ new.chan = c
    BY DEF Calls
  <2>4. Calling(c, "check") => OwnFlag(c) \notin alive \/ ~Real(chan[c].shmId)
    BY <1>1 DEF FlagOf
  <2>5. Calling(c, "check") => call[p].op = "check" /\ call[p].chan = c
    BY DEF Calling
  <2> HIDE DEF new
  <2>6. call' = [call EXCEPT ![p] = new]
    BY <2>1 DEF new
  <2> QED BY <1>6, <2>1, <2>2, <2>3, <2>4, <2>5, <2>6
<1>10. CASE CloseKept(c) \/ CloseReturn(c) \/ CloseDrain(c)
  <2>1. /\ call' = [call EXCEPT ![p] = Idle] /\ use' = [use EXCEPT ![c] = "closed"]
        /\ UNCHANGED chan
        /\ call[p].op \in {"check", "close", "drain"} /\ call[p].chan = c
    BY <1>10 DEF CloseKept, CloseReturn, CloseDrain, Return, Calling
  <2>2. /\ \A g : g # OwnFlag(c) => (g \in alive' <=> g \in alive)
        /\ Real(chan[c].shmId) => OwnFlag(c) \notin alive'
    <3>1. CASE CloseDrain(c)
      BY <3>1 DEF CloseDrain
    <3>2. CASE CloseKept(c) \/ CloseReturn(c)
      <4>1. alive' = alive /\ (Calling(c, "check") \/ Calling(c, "close"))
        <5>1. CASE CloseKept(c)
          BY <5>1 DEF CloseKept
        <5>2. CASE CloseReturn(c)
          BY <5>2 DEF CloseReturn
        <5> QED BY <3>2, <5>1, <5>2
      <4> QED BY <1>1, <4>1 DEF FlagOf
    <3> QED BY <1>10, <3>1, <3>2
  <2>3. /\ \A e \in Channels \ {c} : use'[e] = use[e]
        /\ use'[c] = "closed" /\ OwnFlag(c)' = OwnFlag(c)
    BY <1>1, <2>1 DEF CallInv, TypeOK, OwnFlag
  <2>4. FlagOf(c)'
    BY <2>1, <2>2, <2>3 DEF FlagOf, Open, Real
  <2> QED BY <1>1, <2>1, <2>2, <2>3, <2>4, FlagStep
<1>11. CASE ListenFails(c)
  <2>1. /\ call[p] = Idle /\ c \in Listeners
        /\ chan' = [chan EXCEPT ![c].isServer = TRUE]
        /\ UNCHANGED <<alive, call, use>>
    BY <1>11 DEF ListenFails, Ready
  <2>2. /\ \A e \in Channels \ {c} : chan'[e] = chan[e]
        /\ chan'[c].shmId = chan[c].shmId /\ call' = [call EXCEPT ![p] = Idle]
    BY <1>1, <2>1 DEF CallInv, TypeOK, Members
  <2>3. chan[c].shmId = NoId
    BY <1>1, <2>1 DEF RoleOf, OneRole
  <2>4. FlagOf(c)'
    BY <2>2, <2>3 DEF FlagOf, Real
  <2> QED BY <1>1, <2>1, <2>2, <2>4, FlagStep
<1> QED BY <1>2, <1>3, <1>4, <1>5, <1>7, <1>8, <1>9, <1>10, <1>11 DEF MakeCall, InCall

LEMMA StepFlags ==
  ASSUME OneRole, RoleInv, RoleInv', Flags, OwnFlagsDiffer', [Next]_vars
  PROVE  Flags'
<1>1. CASE Manager \/ UNCHANGED vars
  <2>1. UNCHANGED <<alive, call, chan, use>>
    BY <1>1 DEF Manager, MsgrNext, channelVars, vars, sharedVars
  <2> QED BY <2>1 DEF Flags, FlagOf, Open, Closing, Calling, OwnFlag
<1>2. ASSUME NEW c \in Channels, Call(c) \/ Proceed(c)
      PROVE  Flags'
  BY <1>2, CallFlags DEF Call, Proceed
<1>3. ASSUME NEW p \in Procs, Kill(p)
      PROVE  Flags'
  <2>1. call' = [call EXCEPT ![p] = Dead] /\ UNCHANGED <<alive, chan, use>>
    BY <1>3 DEF Kill, Die
  <2>2. \A q \in Procs : call'[q] = IF q = p THEN Dead ELSE call[q]
    BY <2>1 DEF RoleInv, CallInv, TypeOK
  <2>3. ASSUME NEW c \in Channels PROVE FlagOf(c)'
    <3>1. ProcOf[c] \in Procs /\ FlagOf(c)
      BY SharedAssumption DEF Flags
    <3>2. CASE ProcOf[c] # p
      BY <2>1, <2>2, <3>1, <3>2 DEF FlagOf, Open, Closing, Calling, OwnFlag
    <3>3. CASE ProcOf[c] = p
      BY <2>1, <2>2, <3>1, <3>3 DEF FlagOf, Open, Calling, OwnFlag, Dead
    <3> QED BY <3>2, <3>3
  <2> QED BY <2>3 DEF Flags
<1> QED BY <1>1, <1>2, <1>3 DEF Next

(* An id that is granted is held by one client, one node and at most one   *)
(* server, and whoever is in use has its flag up (msgr.cpp:145-166,        *)
(* iChannel.cpp:105-152, :199-207).                                        *)
THEOREM ConnectionInvariant == OneRole /\ Spec => []ConnInv
<1>1. Init => IdInv /\ Flags
  BY InitIds
<1>2. OneRole /\ RoleInv /\ IdInv /\ [Next]_vars => IdInv'
  BY StepIds
<1>3. OneRole /\ RoleInv /\ IdInv => OwnFlagsDiffer
  BY FlagsDiffer
<1>4. OneRole /\ RoleInv /\ RoleInv' /\ Flags /\ OwnFlagsDiffer' /\ [Next]_vars => Flags'
  BY StepFlags
<1>5. ConnInv <=> RoleInv /\ IdInv /\ Flags
  BY DEF ConnInv
<1> QED BY <1>1, <1>2, <1>3, <1>4, <1>5, RoleInvariant, OneRoleStays, PTL DEF Spec

-----------------------------------------------------------------------------
(* A channel in use holds a descriptor or 0.                               *)
LEMMA OpenIsReal ==
  ASSUME RoleInv, NEW c \in Channels, use[c] # "unused", chan[c].shmId # 0
  PROVE  Real(chan[c].shmId) /\ chan[c] \in Members
  BY Elements DEF RoleInv, CallInv, Roles, RoleOf, Real

LEMMA PrivateSegments ==
  ASSUME OneRole, ConnInv
  PROVE  PrivateSegment
<1> SUFFICES ASSUME NEW c \in Channels, NEW d \in Channels, Paired(c, d),
                    chan[c].shmId # 0
             PROVE  chan[c].isServer # chan[d].isServer
  BY DEF PrivateSegment
<1>1. OwnFlagsDiffer /\ RoleInv
  BY FlagsDiffer DEF ConnInv
<1>2. /\ Real(chan[c].shmId) /\ chan[c].shmId = chan[d].shmId /\ c # d
  BY <1>1, OpenIsReal DEF Paired, Open
<1>3. OwnFlag(c) # OwnFlag(d)
  BY <1>1, <1>2 DEF OwnFlagsDiffer
<1> QED BY <1>2, <1>3 DEF OwnFlag

(* A segment carries one connection, whoever is refused, dies or closes    *)
(* when, as long as each channel has one role.                             *)
THEOREM PrivateSegmentHolds == OneRole /\ Spec => []PrivateSegment
<1>1. OneRole /\ ConnInv => PrivateSegment
  BY PrivateSegments
<1> QED BY <1>1, ConnectionInvariant, OneRoleStays, PTL

-----------------------------------------------------------------------------
(* A granted client is where Met says, and nowhere else.                   *)
LEMMA GrantedOnce ==
  ASSUME OneRole, ConnInv
  PROVE  GrantInOnePlace
<1> SUFFICES ASSUME NEW c \in Connectors, NEW id \in 1 .. nextFd, NEW to \in ServerAddrs,
                    Granted(c, id, to)
             PROVE  LET waiting  == {w \in Procs \X (1 .. Backlog) :
                                       /\ w[2] <= Len(queue[w[1]])
                                       /\ queue[w[1]][w[2]].shmId = id}
                        accepted == {i \in DOMAIN taken : taken[i][2].shmId = id}
                    IN  /\ Cardinality(waiting) + Cardinality(accepted) = 1
                        /\ \A w \in waiting :
                             /\ queue[w[1]][w[2]].peerAddr = chan[c].localAddr
                             /\ ListensAt(w[1], to)
                        /\ \A i \in accepted :
                             /\ taken[i][2].peerAddr = chan[c].localAddr
                             /\ ListensAt(taken[i][1], to)
  BY DEF GrantInOnePlace
<1> DEFINE waiting  == {w \in Procs \X (1 .. Backlog) :
                          /\ w[2] <= Len(queue[w[1]])
                          /\ queue[w[1]][w[2]].shmId = id}
           accepted == {i \in DOMAIN taken : taken[i][2].shmId = id}
<1>1. /\ id \in Int /\ Real(id) /\ to \in Everyone /\ c \in Channels
      /\ CallInv /\ Once /\ Holders /\ chan[c].localAddr = AddrOf[c]
      /\ \A p \in Procs : queue[p] \in Seq(Nodes)
      /\ taken \in Seq(Procs \X Nodes)
  <2>1. nextFd \in Nat /\ c \in Channels /\ to \in Addrs
    BY ChannelAssumption DEF ConnInv, RoleInv, CallInv, TypeOK, ServerAddrs
  <2>2. chan[c].localAddr = AddrOf[c]
    BY <2>1 DEF ConnInv, RoleInv, Roles, RoleOf, OneRole
  <2> QED BY <2>1, <2>2, Elements
          DEF ConnInv, RoleInv, IdInv, CallInv, TypeOK, Real, NoId, Everyone
<1>2. Client(c, id, to)
  BY DEF Granted, Client
<1>3. Met(id, AddrOf[c], to)
  BY <1>1, <1>2 DEF Holders
<1>4. PICK p \in Procs :
        /\ ListensAt(p, to)
        /\ \/ \E i \in DOMAIN queue[p] : queue[p][i] = node(id, AddrOf[c])
           \/ \E i \in DOMAIN taken : taken[i] = <<p, node(id, AddrOf[c])>>
  BY <1>3 DEF Met
<1>5. ASSUME NEW i \in DOMAIN queue[p], queue[p][i] = node(id, AddrOf[c])
      PROVE  waiting = {<<p, i>>} /\ accepted = {}
  <2>1. queue[p][i].shmId = id /\ InLine(id)
    BY <1>5 DEF node, InLine
  <2>2. accepted = {}
    BY <1>1, <2>1 DEF Once, Accepted
  <2>3. i \in 1 .. Backlog /\ i <= Len(queue[p])
    <3>1. Len(queue[p]) \in Nat /\ DOMAIN queue[p] = 1 .. Len(queue[p])
          /\ Len(queue[p]) <= Backlog /\ Backlog \in Nat
      BY <1>1, SharedAssumption DEF Once
    <3> QED BY <3>1
  <2>4. <<p, i>> \in waiting
    BY <2>1, <2>3
  <2>5. ASSUME NEW w \in waiting PROVE w = <<p, i>>
    <3>1. /\ w \in Procs \X (1 .. Backlog) /\ w[2] <= Len(queue[w[1]])
          /\ queue[w[1]][w[2]].shmId = id
      OBVIOUS
    <3>2. w[1] \in Procs /\ w[2] \in 1 .. Backlog /\ w = <<w[1], w[2]>>
      BY <3>1
    <3>3. w[2] \in DOMAIN queue[w[1]]
      BY <1>1, <3>1, <3>2
    <3>4. w[1] = p /\ w[2] = i
      BY <1>1, <2>1, <3>1, <3>2, <3>3 DEF Once
    <3> QED BY <3>2, <3>4
  <2> QED BY <2>2, <2>4, <2>5
<1>6. ASSUME NEW i \in DOMAIN taken, taken[i] = <<p, node(id, AddrOf[c])>>
      PROVE  waiting = {} /\ accepted = {i}
  <2>1. taken[i][2].shmId = id /\ Accepted(id)
    BY <1>6 DEF node, Accepted
  <2>2. ASSUME NEW w \in waiting PROVE FALSE
    <3>1. /\ w \in Procs \X (1 .. Backlog) /\ w[2] <= Len(queue[w[1]])
          /\ queue[w[1]][w[2]].shmId = id
      OBVIOUS
    <3>2. w[1] \in Procs /\ w[2] \in 1 .. Backlog
      BY <3>1
    <3>3. w[2] \in DOMAIN queue[w[1]]
      BY <1>1, <3>1, <3>2
    <3>4. InLine(id)
      BY <3>1, <3>2, <3>3 DEF InLine
    <3> QED BY <1>1, <2>1, <3>4 DEF Once
  <2>3. accepted = {i}
    BY <1>1, <2>1 DEF Once
  <2> QED BY <2>2, <2>3
<1>7. \A x : Cardinality({x}) = 1
  BY FS_Singleton
<1>8. Cardinality({}) = 0
  BY FS_EmptySet
<1>9. ASSUME NEW i \in DOMAIN queue[p], queue[p][i] = node(id, AddrOf[c])
      PROVE  /\ Cardinality(waiting) + Cardinality(accepted) = 1
             /\ \A w \in waiting : /\ queue[w[1]][w[2]].peerAddr = chan[c].localAddr
                                   /\ ListensAt(w[1], to)
             /\ \A j \in accepted : /\ taken[j][2].peerAddr = chan[c].localAddr
                                    /\ ListensAt(taken[j][1], to)
  <2>1. waiting = {<<p, i>>} /\ accepted = {}
    BY <1>5, <1>9
  <2> HIDE DEF waiting, accepted
  <2>2. Cardinality(waiting) = 1 /\ Cardinality(accepted) = 0
    BY <1>7, <1>8, <2>1
  <2>3. queue[p][i].peerAddr = chan[c].localAddr
    BY <1>1, <1>9 DEF node
  <2> QED BY <1>4, <2>1, <2>2, <2>3
<1>10. ASSUME NEW i \in DOMAIN taken, taken[i] = <<p, node(id, AddrOf[c])>>
       PROVE  /\ Cardinality(waiting) + Cardinality(accepted) = 1
              /\ \A w \in waiting : /\ queue[w[1]][w[2]].peerAddr = chan[c].localAddr
                                    /\ ListensAt(w[1], to)
              /\ \A j \in accepted : /\ taken[j][2].peerAddr = chan[c].localAddr
                                     /\ ListensAt(taken[j][1], to)
  <2>1. waiting = {} /\ accepted = {i}
    BY <1>6, <1>10
  <2> HIDE DEF waiting, accepted
  <2>2. Cardinality(waiting) = 0 /\ Cardinality(accepted) = 1
    BY <1>7, <1>8, <2>1
  <2>3. taken[i][2].peerAddr = chan[c].localAddr /\ taken[i][1] = p
    BY <1>1, <1>10 DEF node
  <2> QED BY <1>4, <2>1, <2>2, <2>3
<1> QED BY <1>4, <1>9, <1>10

(* A client that was granted a connection waits in one queue, once, or was *)
(* accepted once, by a process that listens where it asked.                *)
THEOREM GrantInOnePlaceHolds == OneRole /\ Spec => []GrantInOnePlace
<1>1. OneRole /\ ConnInv => GrantInOnePlace
  BY GrantedOnce
<1> QED BY <1>1, ConnectionInvariant, OneRoleStays, PTL

-----------------------------------------------------------------------------
(* What a step adds to told.                                               *)
LEMMA WhoTells ==
  ASSUME OneRole, RoleInv, [Next]_vars, NEW t \in told' \ told
  PROVE  \E c \in Channels : /\ t = <<c, chan[c].shmId>> /\ Open(c)
                             /\ PeerFlag(c) \notin alive
<1>1. CASE Manager \/ UNCHANGED vars
  BY <1>1 DEF Manager, channelVars, vars
<1>2. ASSUME NEW p \in Procs, Kill(p) PROVE FALSE
  BY <1>2 DEF Kill, Die
<1>3. ASSUME NEW c \in Channels, Call(c) \/ Proceed(c)
      PROVE  /\ t = <<c, chan[c].shmId>> /\ Open(c) /\ PeerFlag(c) \notin alive
  <2>1. CASE CloseTell(c) \/ (CloseCheckFirst(c) /\ ~UNCHANGED told)
    <3>1. TellManager(c) /\ PeerFlag(c) \notin alive
      BY <2>1 DEF CloseTell, CloseCheckFirst
    <3>2. t = <<c, chan[c].shmId>>
      BY <3>1 DEF TellManager
    <3>3. use[c] = "open"
      <4>1. CASE CloseTell(c)
        <5>1. call[ProcOf[c]].op = "check" /\ call[ProcOf[c]].chan = c
          BY <4>1 DEF CloseTell, Calling
        <5> QED BY <5>1, SharedAssumption DEF RoleInv, Busy
      <4>2. CASE CloseCheckFirst(c)
        BY <4>2 DEF CloseCheckFirst, MayClose
      <4> QED BY <2>1, <4>1, <4>2
    <3> QED BY <3>1, <3>2, <3>3 DEF Open
  <2>2. CASE UNCHANGED told
    BY <2>2
  <2> QED BY <1>3, <2>1, <2>2
          DEF Call, Proceed, MakeCall, InCall, ListenSend, ListenFails, ListenReturn,
              ConnectSend, ConnectReturn, ConnectRefused, ConnectNoSegment, AcceptDequeue, AcceptAttach,
              CloseNull, CloseMark, CloseKept, CloseReturn, CloseDrain
<1> QED BY <1>1, <1>2, <1>3 DEF Next

(* The manager is told to release a segment only when the other end is     *)
(* closed, in close or dead, even if a store lingers in a store buffer.    *)
THEOREM NoEarlyReleaseHolds == OneRole /\ Spec => NoEarlyRelease
<1> DEFINE Early ==
      \A t \in told' \ told : t[2] # 0 =>
        ~\E d \in Channels \ {t[1]} :
           Open(d) /\ chan[d].shmId = t[2] /\ ~Closing(d) /\ call[ProcOf[d]] # Dead
<1>1. OneRole /\ ConnInv /\ [Next]_vars => [Early]_vars
  <2> SUFFICES ASSUME OneRole, ConnInv, [Next]_vars,
                      NEW t \in told' \ told, t[2] # 0,
                      NEW d \in Channels \ {t[1]}, Open(d), chan[d].shmId = t[2],
                      ~Closing(d), call[ProcOf[d]] # Dead
               PROVE  FALSE
    OBVIOUS
  <2>1. RoleInv /\ Flags /\ PrivateSegment
    BY PrivateSegments DEF ConnInv
  <2>2. PICK c \in Channels : /\ t = <<c, chan[c].shmId>> /\ Open(c)
                              /\ PeerFlag(c) \notin alive
    BY <2>1, WhoTells
  <2>3. t[1] = c /\ t[2] = chan[c].shmId
    BY <2>2
  <2>4. chan[c].isServer # chan[d].isServer
    BY <2>1, <2>2, <2>3 DEF PrivateSegment, Paired
  <2>5. Real(chan[d].shmId) /\ chan[c] \in Members /\ chan[d] \in Members
    BY <2>1, <2>2, <2>3, OpenIsReal DEF Open
  <2>6. OwnFlag(d) = PeerFlag(c)
    BY <2>3, <2>4, <2>5 DEF OwnFlag, PeerFlag, Members
  <2>7. OwnFlag(d) \in alive
    BY <2>1, <2>5 DEF Flags, FlagOf
  <2> QED BY <2>2, <2>6, <2>7
<1> HIDE DEF Early
<1>2. OneRole /\ Spec => [][Early]_vars
  BY <1>1, ConnectionInvariant, OneRoleStays, PTL DEF Spec
<1> QED BY <1>2 DEF NoEarlyRelease, Early

-----------------------------------------------------------------------------
LEMMA Meet ==
  ASSUME OneRole, OneAddress, ConnInv
  PROVE  MetAtTheAddress
<1>1. ASSUME NEW k \in Channels, NEW s \in Channels, Open(k), Open(s),
             chan[k].shmId = chan[s].shmId, chan[k].shmId # 0,
             chan[s].isServer, ~chan[k].isServer
      PROVE  /\ chan[k].localAddr = chan[s].peerAddr
             /\ chan[s].localAddr = chan[k].peerAddr
  <2> DEFINE id == chan[k].shmId
             to == chan[k].peerAddr
  <2>1. /\ Real(id) /\ id \in Int /\ to \in Everyone /\ chan[s].peerAddr \in Everyone
        /\ RoleOf(k, chan[k], use[k]) /\ RoleOf(s, chan[s], use[s])
        /\ Once /\ Holders /\ taken \in Seq(Procs \X Nodes)
    BY <1>1, OpenIsReal
       DEF ConnInv, RoleInv, IdInv, Roles, Members, Everyone, Open, CallInv, TypeOK
  <2>2. /\ k \in Connectors /\ k \notin Acceptees /\ s \in Acceptees
        /\ chan[k].localAddr = AddrOf[k]
    BY <1>1, <2>1 DEF RoleOf, OneRole, Real
  <2>3. Client(k, id, to) /\ Server(s, id, chan[s].peerAddr)
    BY <1>1 DEF Client, Server
  <2> HIDE DEF id, to
  <2>4. Met(id, AddrOf[k], to)
    BY <2>1, <2>2, <2>3 DEF Holders
  <2>5. PICK i \in DOMAIN taken : taken[i] = <<ProcOf[s], node(id, chan[s].peerAddr)>>
    BY <2>1, <2>2, <2>3 DEF Holders
  <2>6. PICK p \in Procs :
          /\ ListensAt(p, to)
          /\ \/ \E j \in DOMAIN queue[p] : queue[p][j] = node(id, AddrOf[k])
             \/ \E j \in DOMAIN taken : taken[j] = <<p, node(id, AddrOf[k])>>
    BY <2>4 DEF Met
  <2>7. Accepted(id) /\ ~InLine(id)
    BY <2>1, <2>5 DEF Once, Accepted, node
  <2>8. PICK j \in DOMAIN taken : taken[j] = <<p, node(id, AddrOf[k])>>
    BY <2>6, <2>7 DEF InLine, node
  <2>9. i = j
    BY <2>1, <2>5, <2>8 DEF Once, node
  <2>10. AddrOf[k] = chan[s].peerAddr /\ p = ProcOf[s]
    BY <2>5, <2>8, <2>9 DEF node
  <2>11. PICK l \in Listeners : ProcOf[l] = p /\ chan[l].localAddr = to
    BY <2>6 DEF ListensAt
  <2>12. chan[l].localAddr = AddrOf[l]
    BY ChannelAssumption DEF OneRole, ConnInv, RoleInv, Roles, RoleOf
  <2>13. PICK m \in Listeners : ProcOf[m] = ProcOf[s] /\ AddrOf[m] = chan[s].localAddr
    BY <1>1, <2>1, <2>2 DEF RoleOf, id, Real
  <2>14. chan[s].localAddr = to
    BY <2>10, <2>11, <2>12, <2>13 DEF OneAddress
  <2> QED BY <2>2, <2>10, <2>14 DEF to
<1> SUFFICES ASSUME NEW c \in Channels, NEW d \in Channels, Paired(c, d),
                    chan[c].shmId # 0
             PROVE  chan[c].localAddr = chan[d].peerAddr
  BY DEF MetAtTheAddress
<1>2. chan[c].isServer # chan[d].isServer
  BY PrivateSegments DEF PrivateSegment
<1>3. chan[c].isServer \in BOOLEAN /\ chan[d].isServer \in BOOLEAN
  BY Elements DEF ConnInv, RoleInv, CallInv, Members
<1> QED BY <1>1, <1>2, <1>3 DEF Paired

(* Each end of a connection has the address of the other for its peer, if  *)
(* besides a process listens at one address only.                          *)
THEOREM MetAtTheAddressHolds == OneRole /\ OneAddress /\ Spec => []MetAtTheAddress
<1>1. OneRole /\ OneAddress /\ ConnInv => MetAtTheAddress
  BY Meet
<1>2. OneAddress => OneAddress'
  BY DEF OneAddress
<1> QED BY <1>1, <1>2, ConnectionInvariant, OneRoleStays, PTL

-----------------------------------------------------------------------------
(* Who closes last: a flag that is up is that of an open end.  So an end   *)
(* that finds the flag of its peer up leaves somebody behind.              *)
Raised ==
  \A f \in alive : Real(f[1]) => \E d \in Channels : Open(d) /\ OwnFlag(d) = f

(* It stays so in a step that concerns the channel c alone, if c itself,   *)
(* when its flag is up behind the step, is open.                           *)
LEMMA RaisedStep ==
  ASSUME Raised, NEW c \in Channels,
         \A e \in Channels \ {c} : chan'[e] = chan[e] /\ use'[e] = use[e],
         \A f \in alive' : f \in alive \/ f = OwnFlag(c)',
         Open(c) /\ Real(chan[c].shmId) => OwnFlag(c) \notin alive',
         OwnFlag(c)' \in alive' => Open(c)'
  PROVE  Raised'
<1> SUFFICES ASSUME NEW f \in alive', Real(f[1])
             PROVE  \E d \in Channels : Open(d)' /\ OwnFlag(d)' = f
  BY DEF Raised, Real
<1>1. CASE f = OwnFlag(c)'
  BY <1>1
<1>2. CASE f \in alive /\ f # OwnFlag(c)'
  <2>1. PICK d \in Channels : Open(d) /\ OwnFlag(d) = f
    BY <1>2 DEF Raised
  <2>2. f[1] = chan[d].shmId
    BY <2>1 DEF OwnFlag
  <2>3. d # c
    BY <2>1, <2>2
  <2>4. Open(d)' /\ OwnFlag(d)' = f
    BY <2>1, <2>3 DEF Open, OwnFlag
  <2> QED BY <2>4
<1> QED BY <1>1, <1>2

(* A call attaches the flag with the end, and close lowers it before the   *)
(* end is closed (iChannel.cpp:105-118, :137-152, :199-211).               *)
LEMMA CallRaised ==
  ASSUME OneRole, RoleInv, Flags, Raised, NEW c \in Channels, MakeCall(c) \/ InCall(c)
  PROVE  Raised'
<1> DEFINE p == ProcOf[c]
<1>1. /\ CallInv /\ p \in Procs /\ Busy /\ FlagOf(c)
      /\ \A e \in Channels : chan[e] \in Members /\ RoleOf(e, chan[e], use[e])
      /\ DOMAIN chan = Channels /\ DOMAIN use = Channels
  BY SharedAssumption, Elements DEF RoleInv, CallInv, TypeOK, Roles, Flags
<1>2. ASSUME UNCHANGED <<chan, use>>, alive' \subseteq alive
      PROVE  Raised'
  BY <1>2 DEF Raised, Open, OwnFlag
<1>3. ASSUME UNCHANGED <<alive, use>>, use[c] # "open" \/ ~Real(chan[c].shmId),
             \A e \in Channels \ {c} : chan'[e] = chan[e]
      PROVE  Raised'
  <2> SUFFICES ASSUME NEW f \in alive, Real(f[1])
               PROVE  \E d \in Channels : Open(d)' /\ OwnFlag(d)' = f
    BY <1>3 DEF Raised, Real
  <2>1. PICK d \in Channels : Open(d) /\ OwnFlag(d) = f
    BY DEF Raised
  <2>2. f[1] = chan[d].shmId
    BY <2>1 DEF OwnFlag
  <2>3. d # c
    BY <1>3, <2>1, <2>2 DEF Open
  <2> QED BY <1>3, <2>1, <2>3 DEF Open, OwnFlag
<1>4. CASE ListenSend(c) \/ ListenFails(c)
  <2>1. /\ c \in Listeners /\ UNCHANGED <<alive, use>>
        /\ \A e \in Channels \ {c} : chan'[e] = chan[e]
    BY <1>1, <1>4 DEF ListenSend, ListenFails
  <2>2. ~Real(chan[c].shmId)
    BY <1>1, <2>1 DEF RoleOf, OneRole, Real
  <2> QED BY <1>3, <2>1, <2>2
<1>5. ASSUME NEW a \in ServerAddrs, ConnectSend(c, a) PROVE Raised'
  BY <1>1, <1>3, <1>5 DEF ConnectSend
<1>6. CASE ConnectReturn(c)
  <2> DEFINE id == reply[p].shmId
  <2>1. /\ call[p].op = "connect" /\ call[p].chan = c
        /\ chan' = [chan EXCEPT ![c].shmId = id, ![c].peerAddr = call[p].to]
        /\ alive' = alive \cup {<<id, "client">>}
        /\ use' = [use EXCEPT ![c] = "open"]
    BY <1>6 DEF ConnectReturn, Calling
  <2>2. c \in Connectors /\ use[c] # "open"
    BY <1>1, <2>1 DEF CallInv, Own, Busy
  <2>3. ~chan[c].isServer
    BY <1>1, <2>2 DEF RoleOf
  <2>4. chan'[c].shmId = id /\ chan'[c].isServer = chan[c].isServer
    BY <1>1, <2>1 DEF Members
  <2>5. OwnFlag(c)' = <<id, "client">>
    BY <2>3, <2>4 DEF OwnFlag, Side
  <2>6. use'[c] = "open" /\ \A e \in Channels \ {c} : chan'[e] = chan[e] /\ use'[e] = use[e]
    BY <1>1, <2>1
  <2> QED BY <2>1, <2>2, <2>5, <2>6, RaisedStep DEF Open
<1>7. CASE AcceptAttach(c)
  <2>1. PICK d : d = call[p].new
    OBVIOUS
  <2>2. PICK id : id = call[p].nd.shmId
    OBVIOUS
  <2>3. CASE id \notin segs
    <3>1. UNCHANGED <<chan, alive, use>>
      BY <1>7, <2>2, <2>3 DEF AcceptAttach
    <3> QED BY <1>2, <3>1
  <2>4. CASE id \in segs
    <3>1. /\ call[p].op = "accept"
          /\ chan' = [chan EXCEPT ![d].shmId = id, ![d].localAddr = chan[c].localAddr,
                                  ![d].peerAddr = call[p].nd.peerAddr,
                                  ![d].isServer = TRUE]
          /\ alive' = alive \cup {<<id, "server">>}
          /\ use' = [use EXCEPT ![d] = "open"]
      BY <1>7, <2>1, <2>2, <2>4 DEF AcceptAttach, Calling
    <3>2. d \in Channels /\ use[d] # "open"
      BY <1>1, <2>1, <3>1, ChannelAssumption DEF CallInv, Own, Busy
    <3>3. chan'[d].shmId = id /\ chan'[d].isServer = TRUE
      BY <1>1, <3>1, <3>2 DEF Members
    <3>4. OwnFlag(d)' = <<id, "server">>
      BY <3>3 DEF OwnFlag, Side
    <3>5. use'[d] = "open" /\ \A e \in Channels \ {d} : chan'[e] = chan[e] /\ use'[e] = use[e]
      BY <1>1, <3>1, <3>2
    <3> QED BY <3>1, <3>2, <3>4, <3>5, RaisedStep DEF Open
  <2> QED BY <2>3, <2>4
<1>8. CASE CloseKept(c) \/ CloseReturn(c) \/ CloseDrain(c)
  <2>1. /\ chan' = chan /\ use' = [use EXCEPT ![c] = "closed"]
        /\ alive' \subseteq alive
        /\ CloseDrain(c) => alive' = alive \ {OwnFlag(c)}
        /\ CloseDrain(c) \/ Calling(c, "check") \/ Calling(c, "close")
    BY <1>8 DEF CloseKept, CloseReturn, CloseDrain
  <2>2. Real(chan[c].shmId) => OwnFlag(c) \notin alive'
    BY <1>1, <2>1 DEF FlagOf
  <2>3. ASSUME NEW f \in alive', Real(f[1])
        PROVE  \E d \in Channels : Open(d)' /\ OwnFlag(d)' = f
    <3>1. PICK d \in Channels : Open(d) /\ OwnFlag(d) = f
      BY <2>1, <2>3 DEF Raised
    <3>2. f[1] = chan[d].shmId
      BY <3>1 DEF OwnFlag
    <3>3. d # c
      BY <2>2, <2>3, <3>1, <3>2
    <3> QED BY <1>1, <2>1, <3>1, <3>3 DEF Open, OwnFlag
  <2> QED BY <2>3 DEF Raised, Real
<1>9. CASE \/ ListenReturn(c) \/ ConnectRefused(c) \/ ConnectNoSegment(c)
           \/ (\E d \in Channels : AcceptDequeue(c, d)) \/ CloseNull(c) \/ CloseMark(c)
           \/ CloseTell(c) \/ CloseCheckFirst(c)
  <2>1. UNCHANGED <<chan, use>> /\ alive' \subseteq alive
    BY <1>9 DEF ListenReturn, ConnectRefused, ConnectNoSegment, AcceptDequeue, CloseNull,
                CloseMark, CloseTell, CloseCheckFirst, TellManager
  <2> QED BY <1>2, <2>1
<1> QED BY <1>4, <1>5, <1>6, <1>7, <1>8, <1>9 DEF MakeCall, InCall

LEMMA StepRaised ==
  ASSUME OneRole, ConnInv, Raised, [Next]_vars
  PROVE  Raised'
<1>1. CASE Manager \/ UNCHANGED vars \/ \E p \in Procs : Kill(p)
  <2>1. UNCHANGED <<alive, chan, use>>
    BY <1>1 DEF Manager, MsgrNext, Kill, Die, channelVars, vars, sharedVars
  <2> QED BY <2>1 DEF Raised, Open, OwnFlag
<1>2. ASSUME NEW c \in Channels, Call(c) \/ Proceed(c)
      PROVE  Raised'
  BY <1>2, CallRaised DEF Call, Proceed, ConnInv
<1> QED BY <1>1, <1>2 DEF Next

(* A step of a call moves its process only, and to a delayed store of the  *)
(* flag only when the flag of the peer is up.                              *)
LEMMA NextCall ==
  ASSUME RoleInv, NEW c \in Channels, MakeCall(c) \/ InCall(c)
  PROVE  \E k : /\ call' = [call EXCEPT ![ProcOf[c]] = k]
                /\ k.op = "drain" =>
                     k.chan = c /\ Open(c) /\ PeerFlag(c) \in alive
<1> DEFINE p == ProcOf[c]
           Goal == \E k : /\ call' = [call EXCEPT ![p] = k]
                          /\ k.op = "drain" =>
                               k.chan = c /\ Open(c) /\ PeerFlag(c) \in alive
<1>1. /\ p \in Procs /\ Idle.op = "idle" /\ Dead.op = "dead"
      /\ call \in [Procs -> Calls]
  BY SharedAssumption DEF RoleInv, CallInv, TypeOK, Idle, Dead
<1>2. ASSUME NEW k, call' = [call EXCEPT ![p] = k], k.op # "drain"
      PROVE  Goal
  BY <1>2
<1>3. CASE \/ ListenReturn(c) \/ ConnectReturn(c) \/ ConnectRefused(c) \/ CloseReturn(c)
           \/ ConnectNoSegment(c) \/ AcceptAttach(c) \/ CloseKept(c) \/ CloseDrain(c)
           \/ CloseNull(c)
  <2>1. Return(c) \/ Segfault(c)
    BY <1>3 DEF ListenReturn, ConnectReturn, ConnectRefused, CloseReturn,
                ConnectNoSegment, AcceptAttach, CloseKept, CloseDrain, CloseNull
  <2> QED BY <1>1, <1>2, <2>1 DEF Return, Segfault
<1>4. ASSUME NEW op \in {"listen", "check", "close"}, Enter(c, op)
      PROVE  Goal
  <2> DEFINE k == [op |-> op, chan |-> c]
  <2>1. call' = [call EXCEPT ![p] = k] /\ k.op # "drain"
    BY <1>4 DEF Enter
  <2> HIDE DEF k, Goal
  <2> QED BY <1>2, <2>1
<1>5. CASE ListenSend(c) \/ CloseMark(c) \/ CloseTell(c)
           \/ (CloseCheckFirst(c) /\ PeerFlag(c) \notin alive)
  <2>1. \E op \in {"listen", "check", "close"} : Enter(c, op)
    BY <1>5 DEF ListenSend, CloseMark, CloseTell, CloseCheckFirst, TellManager
  <2> QED BY <1>4, <2>1
<1>6. CASE CloseCheckFirst(c) /\ PeerFlag(c) \in alive
  <2> DEFINE k == [op |-> "drain", chan |-> c]
  <2>1. call' = [call EXCEPT ![p] = k] /\ Open(c)
    BY <1>6 DEF CloseCheckFirst, Enter, MayClose, Open
  <2>2. k.chan = c
    OBVIOUS
  <2> HIDE DEF k
  <2> QED BY <1>6, <2>1, <2>2
<1>7. CASE ListenFails(c)
  <2>1. call' = [call EXCEPT ![p] = Idle]
    BY <1>1, <1>7 DEF ListenFails, Ready
  <2> QED BY <1>1, <1>2, <2>1
<1>8. ASSUME NEW a \in ServerAddrs, ConnectSend(c, a) PROVE Goal
  <2> DEFINE k == [op |-> "connect", chan |-> c, to |-> a]
  <2>1. call' = [call EXCEPT ![p] = k] /\ k.op # "drain"
    BY <1>8 DEF ConnectSend
  <2> HIDE DEF k, Goal
  <2> QED BY <1>2, <2>1
<1>9. ASSUME NEW d \in Channels, AcceptDequeue(c, d) PROVE Goal
  <2> DEFINE k == [op |-> "accept", chan |-> c, new |-> d, nd |-> Head(queue[p])]
  <2>1. call' = [call EXCEPT ![p] = k] /\ k.op # "drain"
    BY <1>9 DEF AcceptDequeue
  <2> HIDE DEF k, Goal
  <2> QED BY <1>2, <2>1
<1> QED BY <1>3, <1>5, <1>6, <1>7, <1>8, <1>9 DEF MakeCall, InCall

(* Who returns from close without telling the manager has found the flag   *)
(* of its peer up.                                                         *)
LEMMA WhoKeeps ==
  ASSUME OneRole, RoleInv, [Next]_vars, NEW c \in Channels, Keeps(c)
  PROVE  Open(c) /\ PeerFlag(c) \in alive
<1>1. /\ CallInv /\ Busy
      /\ \A e \in Channels : ProcOf[e] \in Procs
      /\ call \in [Procs -> Calls] /\ use \in [Channels -> {"unused", "open", "closed"}]
  BY SharedAssumption DEF RoleInv, CallInv, TypeOK
<1>2. CASE UNCHANGED <<call, use>>
  BY <1>1, <1>2 DEF Keeps, Calling, Busy
<1>3. ASSUME NEW p \in Procs, Kill(p) PROVE FALSE
  <2>1. call' = [call EXCEPT ![p] = Dead] /\ UNCHANGED use
    BY <1>3 DEF Kill, Die
  <2>2. ~Calling(c, "drain") => ~Calling(c, "drain")'
    BY <1>1, <2>1 DEF Calling, Dead
  <2> QED BY <1>1, <2>1, <2>2 DEF Keeps, Calling, Busy
<1>4. ASSUME NEW e \in Channels, MakeCall(e) \/ InCall(e)
      PROVE  Open(c) /\ PeerFlag(c) \in alive
  <2>1. CASE ~Calling(c, "drain") /\ Calling(c, "drain")'
    <3>1. PICK k : /\ call' = [call EXCEPT ![ProcOf[e]] = k]
                   /\ k.op = "drain" => k.chan = e /\ Open(e) /\ PeerFlag(e) \in alive
      BY <1>4, NextCall
    <3>2. ProcOf[c] = ProcOf[e]
      BY <1>1, <2>1, <3>1 DEF Calling
    <3>3. k.op = "drain" /\ k.chan = c
      BY <1>1, <2>1, <3>1, <3>2 DEF Calling
    <3> QED BY <3>1, <3>3
  <2>2. CASE Calling(c, "check") /\ use'[c] = "closed"
    <3>1. use[c] = "open"
      BY <1>1, <2>2 DEF Calling, Busy
    <3>2. CASE CloseKept(e)
      <4>1. e = c
        BY <1>1, <2>2, <3>1, <3>2 DEF CloseKept
      <4> QED BY <3>1, <3>2, <4>1 DEF CloseKept, Open
    <3>3. CASE CloseReturn(e) \/ CloseDrain(e)
      <4>1. use' = [use EXCEPT ![e] = "closed"] /\ (Calling(e, "close") \/ Calling(e, "drain"))
        BY <3>3 DEF CloseReturn, CloseDrain
      <4>2. e = c
        BY <1>1, <2>2, <3>1, <4>1
      <4> QED BY <2>2, <4>1, <4>2 DEF Calling
    <3>4. CASE ConnectReturn(e) \/ AcceptAttach(e)
      <4>1. UNCHANGED use \/ \E d : use' = [use EXCEPT ![d] = "open"]
        BY <3>4 DEF ConnectReturn, AcceptAttach
      <4> QED BY <1>1, <2>2, <3>1, <4>1
    <3>5. CASE UNCHANGED use
      BY <2>2, <3>1, <3>5
    <3> QED BY <1>4, <3>2, <3>3, <3>4, <3>5
            DEF MakeCall, InCall, ListenSend, ListenFails, ListenReturn, ConnectSend,
                ConnectRefused, ConnectNoSegment, AcceptDequeue, CloseNull, CloseMark,
                CloseTell, CloseCheckFirst, TellManager
  <2> QED BY <2>1, <2>2 DEF Keeps
<1> QED BY <1>2, <1>3, <1>4
        DEF Next, Call, Proceed, Manager, MsgrNext, vars, channelVars, sharedVars

(* A close that does not tell the manager leaves the connection to an end  *)
(* that is open or has not finished its own close: with store buffers or   *)
(* without, for every use of the channels, whoever is killed               *)
(* (iChannel.cpp:139-152).                                                 *)
THEOREM LastOneOutHolds == OneRole /\ Spec => LastOneOut
<1> DEFINE Left ==
      \A c \in Channels : Keeps(c) /\ chan[c].shmId # 0 =>
        \E d \in Channels \ {c} : Open(d) /\ chan[d].shmId = chan[c].shmId
<1>1. OneRole /\ ConnInv /\ Raised /\ [Next]_vars => [Left]_vars
  <2> SUFFICES ASSUME OneRole, ConnInv, Raised, [Next]_vars,
                      NEW c \in Channels, Keeps(c), chan[c].shmId # 0
               PROVE  \E d \in Channels \ {c} : Open(d) /\ chan[d].shmId = chan[c].shmId
    OBVIOUS
  <2>1. Open(c) /\ PeerFlag(c) \in alive
    BY WhoKeeps DEF ConnInv
  <2>2. Real(chan[c].shmId)
    BY <2>1, OpenIsReal DEF ConnInv, Open
  <2>3. PICK d \in Channels : Open(d) /\ OwnFlag(d) = PeerFlag(c)
    BY <2>1, <2>2 DEF Raised, PeerFlag
  <2>4. chan[d].shmId = chan[c].shmId /\ Side(chan[d].isServer) = Side(~chan[c].isServer)
    BY <2>3 DEF OwnFlag, PeerFlag
  <2>5. chan[c] \in Members
    BY Elements DEF ConnInv, RoleInv, CallInv
  <2>6. d # c
    BY <2>4, <2>5 DEF Side, Members
  <2> QED BY <2>3, <2>4, <2>6
<1>2. Init => Raised
  BY DEF Init, Raised
<1>3. OneRole /\ ConnInv /\ Raised /\ [Next]_vars => Raised'
  BY StepRaised
<1> HIDE DEF Left
<1>4. OneRole /\ Spec => [][Left]_vars
  BY <1>1, <1>2, <1>3, ConnectionInvariant, OneRoleStays, PTL DEF Spec
<1> QED BY <1>4 DEF LastOneOut, Left

-----------------------------------------------------------------------------
(* The refinement: what the manager and the calls do is a rendezvous,      *)
(* whoever is killed on the way.                                           *)

\* the one who sent the datagram m asked for a channel that is not open
Seeks(m) ==
  \E c \in Channels :
    ProcOf[c] = m.port /\ AddrOf[c] = m.localAddr /\ use[c] # "open"

\* so did those who have died since
Orphans ==
  \A i \in DOMAIN inbox :
    /\ inbox[i].mode = "CLIENT_CONN_REQ" /\ call[inbox[i].port].op = "dead"
    => Seeks(inbox[i])

LEMMA LivingSeek ==
  ASSUME RoleInv, NEW i \in DOMAIN inbox, inbox[i].mode = "CLIENT_CONN_REQ",
         call[inbox[i].port].op # "dead"
  PROVE  LET c == call[inbox[i].port].chan
         IN  /\ call[inbox[i].port].op = "connect" /\ c \in Channels
             /\ ProcOf[c] = inbox[i].port /\ AddrOf[c] = inbox[i].localAddr
             /\ use[c] # "open"
<1>1. inbox[i].port \in Procs
  BY Elements DEF RoleInv, CallInv, TypeOK, Datagrams
<1>2. call[inbox[i].port].op = "connect" /\ inbox[i].localAddr = AddrOf[call[inbox[i].port].chan]
  BY DEF RoleInv, CallInv, Asked, SentBy, Serving
<1> QED BY <1>1, <1>2, ChannelAssumption DEF RoleInv, CallInv, Own, Busy

\* a step after which those that are dead have sent nothing new and have
\* connected nothing
DeadAreStill ==
  \A i \in DOMAIN inbox' :
    call'[inbox'[i].port].op = "dead" =>
      /\ \E j \in DOMAIN inbox : inbox[j] = inbox'[i]
      /\ \A c \in Channels : ProcOf[c] = inbox'[i].port => use'[c] = use[c]

LEMMA DeadStay ==
  ASSUME CallInv, [Next]_vars
  PROVE  DeadAreStill
<1>0. inbox \in Seq(Datagrams)
  BY DEF CallInv, TypeOK
<1>1. CASE UNCHANGED <<inbox, use>>
  BY <1>1 DEF DeadAreStill
<1>2. CASE Manager
  <2>1. /\ inbox # <<>> /\ inbox' = Tail(inbox) /\ UNCHANGED use
    <3>1. UNCHANGED use /\ \E mode \in Modes : Receive(mode)
      BY <1>2 DEF Manager, MsgrNext, ConnNotRegistered, ConnQueueFull, ConnMatched,
             ListenReq, ListenReqNoFd, ConnectClose, ListenClose,
             ListenCloseUnknown, Modes, channelVars
    <3> QED BY <3>1 DEF Receive
  <2>2. \A i \in DOMAIN Tail(inbox) : /\ i + 1 \in DOMAIN inbox
                                      /\ Tail(inbox)[i] = inbox[i + 1]
    BY <1>0, <2>1, TailElements
  <2> QED BY <2>1, <2>2 DEF DeadAreStill
<1>3. ASSUME NEW p \in Procs, NEW new, call' = [call EXCEPT ![p] = new],
             new.op # "dead", UNCHANGED inbox \/ \E m : SendUdp(m) /\ m.port = p,
             \A d \in Channels : ProcOf[d] # p => use'[d] = use[d]
      PROVE  DeadAreStill
  <2>1. call'[p] = new
    BY <1>3 DEF CallInv, TypeOK
  <2>2. \A i \in DOMAIN inbox' : \/ i \in DOMAIN inbox /\ inbox'[i] = inbox[i]
                                 \/ inbox'[i].port = p
    <3>1. ASSUME NEW m, SendUdp(m), m.port = p
          PROVE  \A i \in DOMAIN inbox' : \/ i \in DOMAIN inbox /\ inbox'[i] = inbox[i]
                                          \/ inbox'[i].port = p
      <4>1. inbox \in Seq(Datagrams \cup {m})
        BY <1>0
      <4>2. CASE inbox' = Append(inbox, m)
        BY <3>1, <4>1, <4>2, AppendElements
      <4> QED BY <3>1, <4>2 DEF SendUdp
    <3> QED BY <1>3, <3>1
  <2> QED BY <1>3, <2>1, <2>2 DEF DeadAreStill
<1>4. ASSUME NEW c \in Channels, Call(c) \/ Proceed(c) PROVE DeadAreStill
  <2> DEFINE p == ProcOf[c]
  <2>1. p \in Procs /\ Idle.op = "idle"
    BY SharedAssumption DEF Idle
  <2>2. CASE ListenReturn(c) \/ ConnectRefused(c)
    <3>1. call' = [call EXCEPT ![p] = Idle] /\ UNCHANGED <<inbox, use>>
      BY <2>2 DEF ListenReturn, ConnectRefused, Return
    <3> QED BY <1>1, <3>1
  <2>3. CASE ConnectReturn(c) \/ CloseKept(c) \/ CloseReturn(c) \/ CloseDrain(c)
    <3>1. /\ call' = [call EXCEPT ![p] = Idle] /\ UNCHANGED inbox
          /\ \E u : use' = [use EXCEPT ![c] = u]
      BY <2>3 DEF ConnectReturn, CloseKept, CloseReturn, CloseDrain, Return
    <3>2. \A d \in Channels : ProcOf[d] # p => use'[d] = use[d]
      BY <3>1 DEF CallInv, TypeOK
    <3> QED BY <1>3, <2>1, <3>1, <3>2
  <2>4. CASE ConnectNoSegment(c) \/ CloseNull(c)
    BY <1>1, <2>4 DEF ConnectNoSegment, CloseNull
  <2>5. CASE AcceptAttach(c)
    <3>1. CASE call[p].nd.shmId \in segs
      <4>1. /\ call' = [call EXCEPT ![p] = Idle] /\ UNCHANGED inbox
            /\ use' = [use EXCEPT ![call[p].new] = "open"] /\ call[p].op = "accept"
        BY <2>5, <3>1 DEF AcceptAttach, Return, Calling
      <4>2. \A d \in Channels : ProcOf[d] # p => use'[d] = use[d]
        BY <2>1, <4>1 DEF CallInv, TypeOK, Own
      <4> QED BY <1>3, <2>1, <4>1, <4>2
    <3>2. CASE call[p].nd.shmId \notin segs
      BY <1>1, <2>5, <3>2 DEF AcceptAttach
    <3> QED BY <3>1, <3>2
  <2>6. ASSUME NEW op \in {"listen", "check", "drain", "close"}, Enter(c, op),
               UNCHANGED inbox \/ \E m : SendUdp(m) /\ m.port = p, UNCHANGED use
        PROVE  DeadAreStill
    <3> DEFINE new == [op |-> op, chan |-> c]
    <3>1. call' = [call EXCEPT ![p] = new] /\ new.op # "dead"
      BY <2>6 DEF Enter
    <3> HIDE DEF new
    <3> QED BY <1>3, <2>1, <2>6, <3>1
  <2>7. CASE ListenSend(c) \/ CloseMark(c)
    BY <2>6, <2>7 DEF ListenSend, CloseMark, iMsg
  <2>8. ASSUME TellManager(c) PROVE DeadAreStill
    <3>1. UNCHANGED inbox \/ \E m : SendUdp(m) /\ m.port = p
      BY <2>8 DEF TellManager, iMsg
    <3> QED BY <2>6, <2>8, <3>1 DEF TellManager
  <2>9. CASE CloseTell(c) \/ CloseCheckFirst(c)
    BY <2>6, <2>8, <2>9 DEF CloseTell, CloseCheckFirst
  <2>10. ASSUME NEW a \in ServerAddrs, ConnectSend(c, a) PROVE DeadAreStill
    <3> DEFINE new == [op |-> "connect", chan |-> c, to |-> a]
    <3>1. /\ call' = [call EXCEPT ![p] = new] /\ new.op # "dead" /\ UNCHANGED use
          /\ \E m : SendUdp(m) /\ m.port = p
      BY <2>10 DEF ConnectSend, iMsg
    <3> HIDE DEF new
    <3> QED BY <1>3, <2>1, <3>1
  <2>11. ASSUME NEW d \in Channels, AcceptDequeue(c, d) PROVE DeadAreStill
    BY <1>1, <2>11 DEF AcceptDequeue
  <2>12. CASE ListenFails(c)
    BY <1>1, <2>12 DEF ListenFails
  <2> QED BY <1>4, <2>2, <2>3, <2>4, <2>5, <2>7, <2>9, <2>10, <2>11, <2>12
          DEF Call, Proceed, MakeCall, InCall
<1>5. ASSUME NEW p \in Procs, Kill(p) PROVE DeadAreStill
  BY <1>1, <1>5 DEF Kill, Die
<1> QED BY <1>1, <1>2, <1>4, <1>5 DEF Next, vars, sharedVars, channelVars

LEMMA OrphansKeep ==
  ASSUME RoleInv, Orphans, [Next]_vars
  PROVE  Orphans'
<1> SUFFICES ASSUME NEW i \in DOMAIN inbox', inbox'[i].mode = "CLIENT_CONN_REQ",
                    call'[inbox'[i].port].op = "dead"
             PROVE  Seeks(inbox[i])'
  BY DEF Orphans
<1>1. PICK j \in DOMAIN inbox : inbox[j] = inbox'[i]
  BY DeadStay DEF RoleInv, DeadAreStill
<1>2. Seeks(inbox[j])
  BY <1>1, LivingSeek DEF Orphans, Seeks
<1> QED BY <1>1, <1>2, DeadStay DEF RoleInv, DeadAreStill, Seeks

-----------------------------------------------------------------------------
\* the end that a channel with use u and members m is, while its process is
\* in the call k and has the answer r
EndAs(c, u, m, k, r) ==
  IF u = "open" THEN [side |-> Side(m.isServer), id |-> m.shmId, with |-> m.peerAddr]
  ELSE IF k.op = "connect" /\ k.chan = c /\ r.mode = "MNGR_CONN_RES"
       THEN [side |-> "client", id |-> r.shmId, with |-> k.to]
  ELSE IF k.op = "accept" /\ k.new = c
       THEN [side |-> "server", id |-> k.nd.shmId, with |-> k.nd.peerAddr]
  ELSE [side |-> "none"]

End(c)     == EndAs(c, use[c], chan[c], call[ProcOf[c]], reply[ProcOf[c]])
NextEnd(c) == EndAs(c, use'[c], chan'[c], call'[ProcOf[c]], reply'[ProcOf[c]])

(* The cases of EndOf exclude each other.                                  *)
LEMMA Ends ==
  ASSUME Busy, Busy', NEW c \in Channels
  PROVE  EndOf(c) = End(c) /\ EndOf(c)' = NextEnd(c)
<1>0. ProcOf[c] \in Procs
  BY SharedAssumption
<1>1. /\ call[ProcOf[c]].op = "connect" => use[call[ProcOf[c]].chan] # "open"
      /\ call[ProcOf[c]].op = "accept" => use[call[ProcOf[c]].new] # "open"
      /\ call'[ProcOf[c]].op = "connect" => use'[call'[ProcOf[c]].chan] # "open"
      /\ call'[ProcOf[c]].op = "accept" => use'[call'[ProcOf[c]].new] # "open"
  BY <1>0 DEF Busy
<1>2. EndOf(c) = End(c)
  <2>1. CASE use[c] = "open"
    BY <1>1, <2>1 DEF EndOf, End, EndAs, Open, Calling
  <2>2. CASE use[c] # "open"
    BY <1>1, <2>2 DEF EndOf, End, EndAs, Open, Calling
  <2> QED BY <2>1, <2>2
<1>3. EndOf(c)' = NextEnd(c)
  <2>1. CASE use'[c] = "open"
    BY <1>1, <2>1 DEF EndOf, NextEnd, EndAs, Open, Calling
  <2>2. CASE use'[c] # "open"
    BY <1>1, <2>2 DEF EndOf, NextEnd, EndAs, Open, Calling
  <2> QED BY <2>1, <2>2
<1> QED BY <1>2, <1>3

EndsStay == \A c \in Channels : NextEnd(c) = End(c)

\* the channel c becomes the end e, the others stay what they are
Becomes(c, e) ==
  \A d \in Channels : NextEnd(d) = IF d = c THEN e ELSE End(d)

Parted == [side |-> "none"]

LEMMA Stutters ==
  ASSUME Busy, Busy', EndsStay, UNCHANGED <<aqHash, queue>>, TheDead' = TheDead
  PROVE  UNCHANGED Meeting!vars
BY Ends DEF EndsStay, Meeting!vars

LEMMA Parts ==
  ASSUME Busy, Busy', NEW c \in Channels, End(c).side # "none", Becomes(c, Parted),
         UNCHANGED <<aqHash, queue>>, ProcOf[c] \notin TheDead,
         TheDead' \in {TheDead, TheDead \cup {ProcOf[c]}}
  PROVE  Meeting!Next
<1>1. Meeting!Part(c)
  BY Ends DEF Becomes, Parted, Meeting!Part, Meeting!IsApart, Meeting!Apart
<1>2. CASE TheDead' = TheDead
  <2>1. Meeting!Close(c)
    BY <1>1, <1>2 DEF Meeting!Close, Meeting!Alive
  <2> QED BY <2>1 DEF Meeting!Next
<1>3. CASE TheDead' = TheDead \cup {ProcOf[c]}
  <2>1. Meeting!Die(ProcOf[c]) /\ ProcOf[c] \in Procs
    BY <1>1, <1>3, SharedAssumption DEF Meeting!Die
  <2> QED BY <2>1 DEF Meeting!Next
<1> QED BY <1>2, <1>3

(* Who has died after a step of one process.                               *)
LEMMA WhoIsDead ==
  ASSUME CallInv, NEW p \in Procs, NEW k, call' = [call EXCEPT ![p] = k],
         call[p].op # "dead"
  PROVE  /\ p \notin TheDead
         /\ k.op # "dead" => TheDead' = TheDead
         /\ k = Dead => TheDead' = TheDead \cup {p}
<1>1. \A q \in Procs : call'[q] = IF q = p THEN k ELSE call[q]
  BY DEF CallInv, TypeOK
<1>2. Dead.op = "dead"
  BY DEF Dead
<1>3. \A q : q \in TheDead <=> q \in Procs /\ call[q] = Dead
  BY DEF TheDead
<1>4. \A q : q \in TheDead' <=> q \in Procs /\ call'[q] = Dead
  BY DEF TheDead
<1> QED BY <1>1, <1>2, <1>3, <1>4

(* The id of an end is in use, for those who look for it in the queues.    *)
LEMMA EndIsKnown ==
  ASSUME ConnInv, NEW c \in Channels, End(c).side # "none", Real(End(c).id)
  PROVE  InLine(End(c).id) \/ Accepted(End(c).id)
<1> DEFINE p == ProcOf[c]
<1>0. PICK id : id = End(c).id
  OBVIOUS
<1>1. /\ RoleInv /\ CallInv /\ Holders /\ p \in Procs /\ chan[c] \in Members
      /\ reply[p] \in [mode : Answers, shmId : Int] /\ call[p] \in Calls
  BY Elements DEF ConnInv, RoleInv, CallInv, IdInv
<1>2. ASSUME NEW from, NEW to, Met(id, from, to) PROVE InLine(id) \/ Accepted(id)
  BY <1>2 DEF Met, InLine, Accepted, node
<1>3. ASSUME c \in Connectors, NEW to \in Everyone, id \in Int, Client(c, id, to)
      PROVE  InLine(id) \/ Accepted(id)
  BY <1>0, <1>1, <1>2, <1>3 DEF Holders
<1>4. ASSUME c \in Acceptees, NEW from \in Everyone, id \in Int, Server(c, id, from)
      PROVE  Accepted(id)
  BY <1>0, <1>1, <1>4 DEF Holders, Accepted, node
<1>5. CASE use[c] = "open"
  <2>1. id = chan[c].shmId /\ id \in Int /\ id # NoId /\ chan[c].peerAddr \in Everyone
    BY <1>0, <1>1, <1>5 DEF End, EndAs, Members, Real, Everyone
  <2>2. c \in Connectors \cup Acceptees
    BY <1>1, <2>1 DEF RoleInv, Roles, RoleOf
  <2> QED BY <1>0, <1>3, <1>4, <2>1, <2>2 DEF Client, Server
<1>6. CASE /\ use[c] # "open" /\ call[p].op = "connect" /\ call[p].chan = c
           /\ reply[p].mode = "MNGR_CONN_RES"
  <2>1. /\ id = reply[p].shmId /\ id \in Int
        /\ reply[p] = [mode |-> "MNGR_CONN_RES", shmId |-> id]
    BY <1>0, <1>1, <1>6 DEF End, EndAs
  <2>2. c \in Connectors /\ call[p].to \in Everyone
    BY <1>1, <1>6, ChannelAssumption DEF CallInv, Own, ServerAddrs, Everyone
  <2> QED BY <1>0, <1>3, <1>6, <2>1, <2>2 DEF Client, Calling
<1>7. CASE use[c] # "open" /\ call[p].op = "accept" /\ call[p].new = c
  <2>1. id = call[p].nd.shmId /\ call[p].nd \in Nodes
    BY <1>0, <1>1, <1>7 DEF End, EndAs, Calls, Idle, Dead
  <2>2. /\ id \in Int /\ call[p].nd.peerAddr \in Everyone
        /\ call[p].nd = node(id, call[p].nd.peerAddr)
    BY <2>1 DEF Nodes, node, Everyone
  <2>3. c \in Acceptees
    BY <1>1, <1>7 DEF CallInv, Own
  <2> QED BY <1>0, <1>4, <1>7, <2>2, <2>3 DEF Server
<1> QED BY <1>5, <1>6, <1>7 DEF End, EndAs

-----------------------------------------------------------------------------
(* What the manager does: a listen, a connect, or nothing anybody sees.    *)
LEMMA GrantMeets ==
  ASSUME OneRole, ConnInv, Busy', Orphans, Manager, ConnMatched, FreeFront # NoFd
  PROVE  Meeting!Next
<1> DEFINE f == FreeFront
           a == pkg.peerAddr
           r == pkg.port
           s == aqHash[a]
           granted == [mode |-> "MNGR_CONN_RES", shmId |-> f]
<1>1. /\ RoleInv /\ CallInv /\ Busy /\ inbox # <<>> /\ GetFreeFd
      /\ UNCHANGED <<call, chan, use>>
      /\ s # NoProc /\ ~(Len(queue[s]) >= Backlog)
      /\ queue' = [queue EXCEPT ![s] = Append(@, node(f, pkg.localAddr))]
      /\ reply' = [reply EXCEPT ![r] = granted]
      /\ pkg.mode = "CLIENT_CONN_REQ" /\ UNCHANGED aqHash
  BY DEF ConnInv, RoleInv, Manager, MsgrNext, ConnMatched, Receive, channelVars,
         QueueIsFull, Answer
<1>2. /\ pkg \in Datagrams /\ WellFormed(pkg) /\ pkg = inbox[1] /\ 1 \in DOMAIN inbox
      /\ r \in Procs /\ reply[r] = NoReply /\ call[r] \in Calls
      /\ a \in Addrs
  <2>1. /\ pkg \in Datagrams /\ WellFormed(pkg) /\ pkg = inbox[1] /\ 1 \in DOMAIN inbox
    BY <1>1, FirstDatagram
  <2> QED BY <1>1, <2>1, ChannelAssumption, Elements
          DEF CallInv, OneEach, Datagrams, WellFormed, ServerAddrs
<1>3. /\ f \in Int /\ f # NoId /\ f \in 0 .. FdLimit
      /\ Real(f) => ~InLine(f) /\ ~Accepted(f)
  <2>1. f \in Int /\ f # NoId
    BY <1>1, GetFreeFdTypes DEF CallInv, NoFd, NoId
  <2>2. Real(f) => f \in 1 .. FdLimit - 1 /\ ~InLine(f) /\ ~Accepted(f)
    BY <1>1, GetFreeFdFresh DEF ConnInv, IdInv
  <2> QED BY <2>1, <2>2, FreeListAssumption DEF Real
<1>4. f # 0 => ~Meeting!InUse(f)
  <2>1. ASSUME f # 0, NEW d \in Channels, EndOf(d).side # "none", EndOf(d).id = f
        PROVE  FALSE
    <3>1. EndOf(d) = End(d)
      BY <1>1, Ends
    <3> QED BY <1>3, <2>1, <3>1, EndIsKnown DEF Real
  <2>2. ASSUME f # 0, NEW p \in Procs, NEW i \in 1 .. Backlog, i <= Len(queue[p]),
               queue[p][i].shmId = f
        PROVE  FALSE
    <3>1. i \in DOMAIN queue[p]
      BY <1>1, <2>2, SharedAssumption, Elements DEF CallInv
    <3> QED BY <1>3, <2>2, <3>1 DEF Real, InLine
  <2> QED BY <2>1, <2>2 DEF Meeting!InUse, Meeting!IsApart
<1>5. Len(queue[s]) < Backlog
  <2>1. s \in Procs
    BY <1>1, <1>2 DEF CallInv, TypeOK
  <2>2. Len(queue[s]) \in Nat
    BY <1>1, <2>1, Elements DEF CallInv
  <2> QED BY <1>1, <2>2, SharedAssumption
<1>6. /\ \A q \in Procs : reply'[q] = IF q = r THEN granted ELSE reply[q]
      /\ \A d \in Channels : ProcOf[d] \in Procs
  BY <1>1, <1>2, SharedAssumption DEF CallInv, TypeOK
<1>7. TheDead' = TheDead
  BY <1>1 DEF TheDead
<1> HIDE DEF f, a, r, s
<1>8. ASSUME NEW d \in Channels, ProcOf[d] # r PROVE NextEnd(d) = End(d)
  BY <1>1, <1>6, <1>8 DEF End, NextEnd
\* the place in line is c's
<1>9. ASSUME NEW c \in Channels, AddrOf[c] = pkg.localAddr, End(c) = Parted
      PROVE  Meeting!JoinLine(c, a, f)
  <2>1. EndOf(c).side = "none"
    BY <1>1, <1>9, Ends DEF Parted
  <2>2. queue' = [queue EXCEPT ![aqHash[a]] =
                    Append(@, [shmId |-> f, peerAddr |-> AddrOf[c]])]
    BY <1>1, <1>9 DEF node, s
  <2> QED BY <1>1, <1>4, <1>5, <1>7, <2>1, <2>2
          DEF Meeting!JoinLine, Meeting!IsApart, s
<1>10. CASE call[r].op # "dead"
  <2> DEFINE c == call[r].chan
             e == [side |-> "client", id |-> f, with |-> a]
  <2>1. /\ call[r].op = "connect" /\ c \in Channels /\ ProcOf[c] = r
        /\ AddrOf[c] = pkg.localAddr /\ use[c] # "open"
    BY <1>1, <1>2, <1>10, LivingSeek DEF r
  <2>2. call[r].to = a
    BY <1>1, <1>2, <1>10, <2>1 DEF CallInv, Asked, r, a
  <2> HIDE DEF c
  <2>3. ASSUME NEW d \in Channels, ProcOf[d] = r, d # c PROVE NextEnd(d) = End(d)
    BY <1>1, <2>1, <2>3 DEF End, NextEnd, EndAs, c
  <2>4. End(c) = Parted
    BY <1>2, <2>1 DEF End, EndAs, NoReply, Parted
  <2>5. NextEnd(c) = e
    BY <1>1, <1>6, <2>1, <2>2 DEF NextEnd, EndAs, c
  <2>6. [d \in Channels |-> EndOf(d)]'
          = [[d \in Channels |-> EndOf(d)] EXCEPT ![c] = e]
    BY <1>1, <1>8, <2>1, <2>3, <2>5, Ends
  <2>7. Meeting!Alive(c)
    BY <1>10, <2>1 DEF Meeting!Alive, TheDead, Dead
  <2>8. Meeting!Connect(c, a, f)
    BY <1>9, <2>1, <2>4, <2>6, <2>7 DEF Meeting!Connect, Meeting!Joined
  <2> QED BY <1>2, <1>3, <2>1, <2>8 DEF Meeting!Next
<1>11. CASE call[r].op = "dead"
  <2>1. call[r] = Dead
    BY <1>2, <1>11 DEF Calls, Idle
  <2>2. PICK c \in Channels : /\ ProcOf[c] = r /\ AddrOf[c] = pkg.localAddr
                              /\ use[c] # "open"
    BY <1>1, <1>2, <1>11 DEF Orphans, Seeks, r
  <2>3. \A d \in Channels : NextEnd(d) = End(d)
    BY <1>1, <1>8, <1>11 DEF End, NextEnd, EndAs
  <2>4. End(c) = Parted
    BY <1>11, <2>2 DEF End, EndAs, Parted
  <2>5. [d \in Channels |-> EndOf(d)]' = [d \in Channels |-> EndOf(d)]
    BY <1>1, <2>3, Ends
  <2>6. ~Meeting!Alive(c)
    BY <1>2, <2>1, <2>2 DEF Meeting!Alive, TheDead
  <2>7. Meeting!ConnectLost(c, a, f)
    BY <1>9, <2>2, <2>4, <2>5, <2>6 DEF Meeting!ConnectLost
  <2> QED BY <1>2, <1>3, <2>7 DEF Meeting!Next
<1> QED BY <1>10, <1>11

LEMMA ManagerMeets ==
  ASSUME OneRole, ConnInv, Busy', Orphans, Manager
  PROVE  [Meeting!Next]_(Meeting!vars)
<1> DEFINE r == pkg.port
<1>1. /\ RoleInv /\ CallInv /\ Busy /\ inbox # <<>>
      /\ UNCHANGED <<call, chan, use>>
  BY DEF ConnInv, RoleInv, Manager, MsgrNext, ConnNotRegistered, ConnQueueFull,
         ConnMatched, Receive, ListenReq, ListenReqNoFd, ConnectClose, ListenClose,
         ListenCloseUnknown, channelVars
<1>0. TheDead' = TheDead
  BY <1>1 DEF TheDead
<1>2. /\ pkg \in Datagrams /\ WellFormed(pkg) /\ pkg = inbox[1] /\ 1 \in DOMAIN inbox
      /\ r \in Procs /\ reply[r] = NoReply
  <2>1. /\ pkg \in Datagrams /\ WellFormed(pkg) /\ pkg = inbox[1] /\ 1 \in DOMAIN inbox
    BY <1>1, FirstDatagram
  <2> QED BY <1>1, <2>1 DEF CallInv, OneEach, Datagrams
<1>3. pkg.mode # "LISTEN_CLOSE"
  BY <1>1, <1>2 DEF RoleInv, Serving
<1>4. ASSUME NEW mode \in Answers \ {"MNGR_CONN_RES"},
             Answer(mode, 0) \/ UNCHANGED reply
      PROVE  EndsStay
  <2>1. \A q \in Procs : \/ reply'[q] = reply[q]
                         \/ /\ reply'[q].mode # "MNGR_CONN_RES"
                            /\ reply[q].mode # "MNGR_CONN_RES"
    BY <1>1, <1>2, <1>4 DEF Answer, NoReply, CallInv, TypeOK
  <2> QED BY <1>1, <2>1, SharedAssumption DEF EndsStay, End, NextEnd, EndAs
<1>5. CASE ListenReq
  <2>1. /\ aqHash' = [aqHash EXCEPT ![pkg.localAddr] = r] /\ UNCHANGED queue
        /\ Answer("ACK", 0)
    BY <1>2, <1>5 DEF ListenReq, Receive, WellFormed
  <2>2. EndsStay
    BY <1>4, <2>1 DEF Answers
  <2>3. Meeting!Listen(r, pkg.localAddr)
    BY <1>0, <1>1, <2>1, <2>2, Ends DEF Meeting!Listen, EndsStay
  <2> QED BY <1>2, <2>3 DEF Meeting!Next, Datagrams
<1>6. CASE ConnMatched /\ FreeFront # NoFd
  BY <1>6, GrantMeets
<1>7. ASSUME \/ ConnNotRegistered \/ ConnQueueFull \/ ConnectClose \/ ListenReqNoFd
             \/ ConnMatched /\ FreeFront = NoFd
      PROVE  UNCHANGED Meeting!vars
  <2>1. /\ UNCHANGED <<aqHash, queue>>
        /\ \/ UNCHANGED reply
           \/ \E mode \in Answers \ {"MNGR_CONN_RES"} : Answer(mode, 0)
    BY <1>7 DEF ConnNotRegistered, ConnQueueFull, ConnectClose, ListenReqNoFd, Crash,
                ConnMatched, msgrVars, Answers
  <2>2. EndsStay
    BY <1>4, <2>1 DEF Answers
  <2> QED BY <1>0, <1>1, <2>1, <2>2, Stutters
<1> QED BY <1>3, <1>5, <1>6, <1>7
        DEF Manager, MsgrNext, ListenClose, ListenCloseUnknown, Receive

-----------------------------------------------------------------------------
\* process p goes over to the call k, and has taken its answer or left it
GoesOn(p, k) ==
  /\ call' = [call EXCEPT ![p] = k]
  /\ reply' = reply \/ reply' = [reply EXCEPT ![p] = NoReply]
  /\ \A d \in Channels : ProcOf[d] # p => use'[d] = use[d] /\ chan'[d] = chan[d]

LEMMA OthersStay ==
  ASSUME CallInv, NEW p \in Procs, NEW k, GoesOn(p, k), NEW d \in Channels
  PROVE  /\ ProcOf[d] # p => NextEnd(d) = End(d)
         /\ ProcOf[d] = p => NextEnd(d) = EndAs(d, use'[d], chan'[d], k, reply'[p])
<1>1. /\ ProcOf[d] \in Procs /\ \A q \in Procs : call'[q] = IF q = p THEN k ELSE call[q]
      /\ \A q \in Procs \ {p} : reply'[q] = reply[q]
  BY SharedAssumption DEF GoesOn, CallInv, TypeOK
<1> QED BY <1>1 DEF GoesOn, End, NextEnd

\* a call, with the answer r, that makes no channel an end
Quiet(k, r) ==
  k.op # "accept" /\ (k.op = "connect" => r.mode # "MNGR_CONN_RES")

(* Steps from such a call to such a call show nothing.                     *)
LEMMA QuietEnds ==
  ASSUME CallInv, NEW p \in Procs, NEW k, GoesOn(p, k), Quiet(call[p], reply[p]),
         Quiet(k, reply'[p]), UNCHANGED use,
         \A d \in Channels : use[d] = "open" =>
           /\ chan'[d].isServer = chan[d].isServer /\ chan'[d].shmId = chan[d].shmId
           /\ chan'[d].peerAddr = chan[d].peerAddr
  PROVE  EndsStay
<1>1. ASSUME NEW d \in Channels, ProcOf[d] = p
      PROVE  NextEnd(d) = End(d)
  <2>1. NextEnd(d) = EndAs(d, use[d], chan'[d], k, reply'[p])
    BY <1>1, OthersStay
  <2> QED BY <1>1, <2>1 DEF Quiet, End, EndAs
<1> QED BY <1>1, OthersStay DEF EndsStay

(* And from there a channel that becomes closed leaves its connection.     *)
LEMMA QuietParts ==
  ASSUME CallInv, NEW c \in Channels, NEW k, GoesOn(ProcOf[c], k),
         Quiet(call[ProcOf[c]], reply[ProcOf[c]]), Quiet(k, reply'[ProcOf[c]]),
         use[c] = "open", use' = [use EXCEPT ![c] = "closed"], UNCHANGED chan
  PROVE  End(c).side # "none" /\ Becomes(c, Parted)
<1> DEFINE p == ProcOf[c]
<1>1. /\ p \in Procs
      /\ \A d \in Channels : use'[d] = IF d = c THEN "closed" ELSE use[d]
  BY SharedAssumption DEF CallInv, TypeOK
<1>2. End(c).side # "none"
  BY DEF End, EndAs, Side
<1>3. ASSUME NEW d \in Channels, ProcOf[d] = p
      PROVE  NextEnd(d) = IF d = c THEN Parted ELSE End(d)
  <2>1. NextEnd(d) = EndAs(d, use'[d], chan[d], k, reply'[p])
    BY <1>1, <1>3, OthersStay
  <2> QED BY <1>1, <1>3, <2>1 DEF Quiet, End, EndAs, Parted
<1>4. ASSUME NEW d \in Channels, ProcOf[d] # p
      PROVE  NextEnd(d) = End(d) /\ d # c
  BY <1>1, <1>4, OthersStay
<1> QED BY <1>2, <1>3, <1>4 DEF Becomes

LEMMA QuietCalls ==
  /\ \A r : Quiet(Idle, r) /\ Quiet(Dead, r)
  /\ \A op, c, r : op \in {"listen", "check", "drain", "close"} =>
       Quiet([op |-> op, chan |-> c], r)
  /\ \A c, a : Quiet([op |-> "connect", chan |-> c, to |-> a], NoReply)
  /\ \A k, r : k.op \in {"idle", "listen", "check", "drain", "close"} => Quiet(k, r)
BY DEF Quiet, Idle, Dead, NoReply

(* A process that dies leaves what a call was making, and nothing else.    *)
LEMMA DeathMeets ==
  ASSUME RoleInv, Busy', NEW p \in Procs, GoesOn(p, Dead), call[p].op # "dead",
         UNCHANGED <<use, chan, queue, aqHash>>
  PROVE  Meeting!Next
<1>1. CallInv /\ Busy
  BY DEF RoleInv
<1>2. p \notin TheDead /\ TheDead' = TheDead \cup {p}
  BY <1>1, WhoIsDead DEF GoesOn
<1>3. CASE Quiet(call[p], reply[p])
  <2>1. EndsStay
    BY <1>1, <1>3, QuietCalls, QuietEnds
  <2>2. Meeting!Die(p)
    BY <1>1, <1>2, <2>1, Ends DEF Meeting!Die, EndsStay
  <2> QED BY <2>2 DEF Meeting!Next
<1>4. ASSUME NEW c \in Channels, ProcOf[c] = p, use[c] # "open", ~Quiet(call[p], reply[p]),
             c = IF call[p].op = "accept" THEN call[p].new ELSE call[p].chan
      PROVE  Meeting!Next
  <2>1. End(c).side # "none"
    BY <1>4 DEF Quiet, End, EndAs
  <2>2. ASSUME NEW d \in Channels, ProcOf[d] = p
        PROVE  NextEnd(d) = IF d = c THEN Parted ELSE End(d)
    <3>1. NextEnd(d) = EndAs(d, use[d], chan[d], Dead, reply'[p])
      BY <1>1, <2>2, OthersStay
    <3> QED BY <1>4, <2>2, <3>1 DEF End, EndAs, Dead, Parted
  <2>3. ASSUME NEW d \in Channels, ProcOf[d] # p
        PROVE  NextEnd(d) = End(d) /\ d # c
    BY <1>1, <1>4, <2>3, OthersStay
  <2>4. Becomes(c, Parted)
    BY <2>2, <2>3 DEF Becomes
  <2> QED BY <1>1, <1>2, <1>4, <2>1, <2>4, Parts
<1>5. CASE ~Quiet(call[p], reply[p]) /\ call[p].op = "accept"
  <2>1. call[p].new \in Channels /\ ProcOf[call[p].new] = p /\ use[call[p].new] # "open"
    BY <1>1, <1>5, ChannelAssumption DEF CallInv, Own, Busy
  <2> QED BY <1>4, <1>5, <2>1
<1>6. CASE ~Quiet(call[p], reply[p]) /\ call[p].op # "accept"
  <2>1. call[p].op = "connect"
    BY <1>6 DEF Quiet
  <2>2. call[p].chan \in Channels /\ ProcOf[call[p].chan] = p /\ use[call[p].chan] # "open"
    BY <1>1, <2>1, ChannelAssumption DEF CallInv, Own, Busy
  <2> QED BY <1>4, <1>6, <2>2
<1> QED BY <1>3, <1>5, <1>6

LEMMA KillMeets ==
  ASSUME ConnInv, Busy', NEW p \in Procs, Kill(p)
  PROVE  Meeting!Next
<1>1. /\ GoesOn(p, Dead) /\ call[p] # Dead /\ UNCHANGED <<use, chan, queue, aqHash>>
  BY DEF Kill, Die, GoesOn, msgrVars
<1>2. RoleInv /\ call[p] \in Calls
  BY Elements DEF ConnInv, RoleInv, CallInv
<1>3. call[p].op # "dead"
  BY <1>1, <1>2 DEF Calls, Idle
<1> QED BY <1>1, <1>2, <1>3, DeathMeets

(* A step of a process that lives on hides nothing.                        *)
LEMMA LivesOn ==
  ASSUME CallInv, Busy, Busy', NEW p \in Procs, NEW k, GoesOn(p, k), k.op # "dead",
         call[p].op # "dead", EndsStay, UNCHANGED <<aqHash, queue>>
  PROVE  UNCHANGED Meeting!vars
BY WhoIsDead, Stutters DEF GoesOn

(* listen is nothing anybody sees, before the manager handles it.          *)
LEMMA ListenMeets ==
  ASSUME OneRole, ConnInv, Busy', NEW c \in Channels, UNCHANGED msgrVars,
         ListenSend(c) \/ ListenFails(c) \/ ListenReturn(c)
  PROVE  UNCHANGED Meeting!vars
<1> DEFINE p == ProcOf[c]
<1>1. /\ RoleInv /\ CallInv /\ Busy /\ p \in Procs /\ Idle.op = "idle"
      /\ UNCHANGED <<aqHash, queue, use>>
  BY Elements DEF ConnInv, RoleInv, CallInv, Idle, msgrVars, ListenSend, ListenFails,
                  ListenReturn
<1>2. CASE ListenSend(c)
  <2> DEFINE k == [op |-> "listen", chan |-> c]
  <2>1. /\ GoesOn(p, k) /\ k.op = "listen" /\ c \in Listeners /\ call[p] = Idle
        /\ chan' = [chan EXCEPT ![c].isServer = TRUE, ![c].acceptQueue = p]
    <3>1. /\ call' = [call EXCEPT ![p] = k] /\ k.op = "listen" /\ UNCHANGED <<reply, use>>
          /\ chan' = [chan EXCEPT ![c].isServer = TRUE, ![c].acceptQueue = p]
          /\ c \in Listeners /\ call[p] = Idle
      BY <1>2 DEF ListenSend, Enter, Ready
    <3> HIDE DEF k
    <3> QED BY <1>1, <3>1 DEF GoesOn, CallInv, TypeOK
  <2>2. use[c] # "open"
    BY <1>1, <2>1 DEF OneRole, RoleInv, Roles, RoleOf
  <2>3. \A d \in Channels : use[d] = "open" => chan'[d] = chan[d]
    BY <1>1, <2>1, <2>2 DEF CallInv, TypeOK
  <2>4. Quiet(call[p], reply[p]) /\ Quiet(k, reply'[p])
    BY <2>1, QuietCalls
  <2> HIDE DEF k
  <2>5. EndsStay
    BY <1>1, <2>1, <2>3, <2>4, QuietEnds
  <2> QED BY <1>1, <2>1, <2>5, LivesOn
<1>3. CASE ListenReturn(c)
  <2>1. /\ GoesOn(p, Idle) /\ call[p].op = "listen" /\ UNCHANGED chan
    BY <1>3 DEF ListenReturn, GoesOn, Return, TakeReply, Calling
  <2>2. Quiet(call[p], reply[p]) /\ Quiet(Idle, reply'[p])
    BY <2>1, QuietCalls
  <2>3. EndsStay
    BY <1>1, <2>1, <2>2, QuietEnds
  <2> QED BY <1>1, <2>1, <2>3, LivesOn
<1>4. CASE ListenFails(c)
  <2>1. /\ GoesOn(p, Idle) /\ c \in Listeners /\ call[p] = Idle
        /\ chan' = [chan EXCEPT ![c].isServer = TRUE]
    <3>1. /\ UNCHANGED <<call, reply, use>> /\ c \in Listeners /\ call[p] = Idle
          /\ chan' = [chan EXCEPT ![c].isServer = TRUE]
      BY <1>4 DEF ListenFails, Ready
    <3> QED BY <1>1, <3>1 DEF GoesOn, CallInv, TypeOK
  <2>2. use[c] # "open"
    BY <1>1, <2>1 DEF OneRole, RoleInv, Roles, RoleOf
  <2>3. \A d \in Channels : use[d] = "open" => chan'[d] = chan[d]
    BY <1>1, <2>1, <2>2 DEF CallInv, TypeOK
  <2>4. Quiet(call[p], reply[p]) /\ Quiet(Idle, reply'[p])
    BY <2>1, QuietCalls
  <2>5. EndsStay
    BY <1>1, <2>1, <2>3, <2>4, QuietEnds
  <2> QED BY <1>1, <2>1, <2>5, LivesOn
<1> QED BY <1>2, <1>3, <1>4

(* Nor is connect, unless its segment is missing, which ends the process.  *)
LEMMA ConnectMeets ==
  ASSUME OneRole, ConnInv, Busy', NEW c \in Channels, UNCHANGED msgrVars,
         \/ \E a \in ServerAddrs : ConnectSend(c, a)
         \/ ConnectReturn(c) \/ ConnectRefused(c) \/ ConnectNoSegment(c)
  PROVE  [Meeting!Next]_(Meeting!vars)
<1> DEFINE p == ProcOf[c]
<1>1. /\ RoleInv /\ CallInv /\ Busy /\ p \in Procs /\ Idle.op = "idle"
      /\ UNCHANGED <<aqHash, queue>>
  BY Elements
     DEF ConnInv, RoleInv, CallInv, Idle, msgrVars, ConnectSend, ConnectReturn,
         ConnectRefused, ConnectNoSegment
<1>2. ASSUME NEW a \in ServerAddrs, ConnectSend(c, a) PROVE UNCHANGED Meeting!vars
  <2> DEFINE k == [op |-> "connect", chan |-> c, to |-> a]
  <2>1. /\ GoesOn(p, k) /\ k.op = "connect" /\ call[p] = Idle /\ use[c] # "open" /\ UNCHANGED <<use, reply>>
        /\ chan' = [chan EXCEPT ![c].isServer = FALSE]
    BY <1>2 DEF ConnectSend, GoesOn, Ready
  <2>2. reply[p] = NoReply
    BY <1>1, <2>1, NothingUnderWay
  <2>3. \A d \in Channels : use[d] = "open" => chan'[d] = chan[d]
    BY <1>1, <2>1 DEF CallInv, TypeOK
  <2>4. Quiet(call[p], reply[p]) /\ Quiet(k, reply'[p])
    BY <2>1, <2>2, QuietCalls
  <2> HIDE DEF k
  <2>5. EndsStay
    BY <1>1, <2>1, <2>3, <2>4, QuietEnds
  <2> QED BY <1>1, <2>1, <2>5, LivesOn
<1>3. ASSUME ConnectRefused(c) PROVE UNCHANGED Meeting!vars
  <2>1. /\ GoesOn(p, Idle) /\ call[p].op = "connect" /\ UNCHANGED <<use, chan>>
        /\ reply[p].mode # "MNGR_CONN_RES"
    BY <1>3 DEF ConnectRefused, GoesOn, Return, TakeReply, Calling
  <2>2. Quiet(call[p], reply[p]) /\ Quiet(Idle, reply'[p])
    BY <2>1, QuietCalls DEF Quiet
  <2>3. EndsStay
    BY <1>1, <2>1, <2>2, QuietEnds
  <2> QED BY <1>1, <2>1, <2>3, LivesOn
<1>4. ASSUME ConnectReturn(c) PROVE UNCHANGED Meeting!vars
  <2>1. /\ GoesOn(p, Idle) /\ call[p].op = "connect" /\ call[p].chan = c
        /\ reply[p].mode = "MNGR_CONN_RES"
        /\ chan' = [chan EXCEPT ![c].shmId = reply[p].shmId,
                                ![c].peerAddr = call[p].to]
        /\ use' = [use EXCEPT ![c] = "open"]
    <3>1. /\ call' = [call EXCEPT ![p] = Idle]
          /\ reply' = [reply EXCEPT ![p] = NoReply]
          /\ chan' = [chan EXCEPT ![c].shmId = reply[p].shmId,
                                  ![c].peerAddr = call[p].to]
          /\ use' = [use EXCEPT ![c] = "open"]
          /\ call[p].op = "connect" /\ call[p].chan = c
          /\ reply[p].mode = "MNGR_CONN_RES"
      BY <1>4 DEF ConnectReturn, Return, TakeReply, Calling
    <3> QED BY <1>1, <3>1 DEF GoesOn, CallInv, TypeOK
  <2>2. /\ c \in Connectors /\ chan[c].isServer = FALSE /\ use[c] # "open"
    <3>1. c \in Connectors /\ use[c] # "open" /\ chan[c] \in Members
      BY <1>1, <2>1, Elements DEF CallInv, Own, Busy
    <3>2. ~chan[c].isServer
      BY <1>1, <3>1 DEF RoleInv, Roles, RoleOf
    <3> QED BY <3>1, <3>2 DEF Members
  <2>3. /\ \A d \in Channels \ {c} : chan'[d] = chan[d] /\ use'[d] = use[d]
        /\ chan'[c].shmId = reply[p].shmId /\ chan'[c].peerAddr = call[p].to
        /\ chan'[c].isServer = chan[c].isServer /\ use'[c] = "open"
    <3>1. /\ chan'[c] = [chan[c] EXCEPT !.shmId = reply[p].shmId, !.peerAddr = call[p].to]
          /\ chan[c] \in Members /\ use'[c] = "open"
          /\ \A d \in Channels \ {c} : chan'[d] = chan[d] /\ use'[d] = use[d]
      BY <1>1, <2>1 DEF CallInv, TypeOK
    <3> QED BY <3>1 DEF Members
  <2>4. ASSUME NEW d \in Channels, ProcOf[d] = p PROVE NextEnd(d) = End(d)
    <3>1. NextEnd(d) = EndAs(d, use'[d], chan'[d], Idle, reply'[p])
      BY <1>1, <2>1, <2>4, OthersStay
    <3>2. CASE d = c
      <4>1. End(c) = [side |-> "client", id |-> reply[p].shmId, with |-> call[p].to]
        BY <2>1, <2>2 DEF End, EndAs
      <4>2. NextEnd(c) = [side |-> "client", id |-> reply[p].shmId, with |-> call[p].to]
        BY <2>2, <2>3, <3>1, <3>2 DEF EndAs, Side
      <4> QED BY <3>2, <4>1, <4>2
    <3>3. CASE d # c
      BY <1>1, <2>1, <2>3, <2>4, <3>1, <3>3 DEF End, EndAs
    <3> QED BY <3>2, <3>3
  <2>5. EndsStay
    BY <1>1, <2>1, <2>4, OthersStay DEF EndsStay
  <2> QED BY <1>1, <2>1, <2>5, LivesOn
<1>5. CASE ConnectNoSegment(c)
  <2>1. /\ GoesOn(p, Dead) /\ call[p].op = "connect" /\ UNCHANGED <<use, chan>>
    BY <1>5 DEF ConnectNoSegment, GoesOn, Segfault, TakeReply, Calling
  <2> QED BY <1>1, <2>1, DeathMeets
<1> QED BY <1>2, <1>3, <1>4, <1>5

(* accept takes the first in line, and makes it an end at the dequeue.     *)
LEMMA AcceptMeets ==
  ASSUME OneRole, ConnInv, Busy', NEW c \in Channels, UNCHANGED msgrVars,
         (\E new \in Channels : AcceptDequeue(c, new)) \/ AcceptAttach(c)
  PROVE  [Meeting!Next]_(Meeting!vars)
<1> DEFINE p == ProcOf[c]
<1>1. /\ RoleInv /\ CallInv /\ Busy /\ p \in Procs /\ Idle.op = "idle"
      /\ UNCHANGED aqHash
  BY Elements DEF ConnInv, RoleInv, CallInv, Idle, msgrVars
<1>2. ASSUME NEW new \in Channels, AcceptDequeue(c, new)
      PROVE  Meeting!Accept(new)
  <2> DEFINE nd == Head(queue[p])
             k  == [op |-> "accept", chan |-> c, new |-> new, nd |-> nd]
             e  == [side |-> "server", id |-> nd.shmId, with |-> nd.peerAddr]
  <2>1. /\ GoesOn(p, k) /\ call[p] = Idle /\ UNCHANGED <<use, chan>>
        /\ ProcOf[new] = p /\ use[new] # "open" /\ queue[p] # <<>>
        /\ queue' = [queue EXCEPT ![p] = Tail(@)]
    BY <1>2 DEF AcceptDequeue, GoesOn, Ready
  <2>2. k.op = "accept" /\ k.new = new /\ k.nd = nd
    OBVIOUS
  <2> HIDE DEF k
  <2>8. p \notin TheDead /\ TheDead' = TheDead
    BY <1>1, <2>1, <2>2, WhoIsDead DEF GoesOn
  <2>3. ASSUME NEW d \in Channels, ProcOf[d] = p
        PROVE  NextEnd(d) = IF d = new THEN e ELSE End(d)
    <3>1. NextEnd(d) = EndAs(d, use[d], chan[d], k, reply'[p])
      BY <1>1, <2>1, <2>3, OthersStay
    <3> QED BY <1>1, <2>1, <2>2, <2>3, <3>1 DEF End, EndAs
  <2>4. ASSUME NEW d \in Channels, ProcOf[d] # p
        PROVE  NextEnd(d) = End(d) /\ d # new
    BY <1>1, <2>1, <2>4, OthersStay
  <2>5. Becomes(new, e)
    BY <2>3, <2>4 DEF Becomes
  <2>6. End(new).side = "none"
    BY <1>1, <2>1 DEF End, EndAs
  <2>7. [d \in Channels |-> EndOf(d)]'
          = [[d \in Channels |-> EndOf(d)] EXCEPT ![new] = e]
    BY <1>1, <2>5, Ends DEF Becomes
  <2> HIDE DEF e
  <2> QED BY <1>1, <2>1, <2>6, <2>7, <2>8, Ends
          DEF Meeting!Accept, Meeting!Alive, Meeting!IsApart, Meeting!Joined, e
<1>3. CASE AcceptAttach(c) /\ call[p].nd.shmId \in segs
  <2> DEFINE new == call[p].new
             nd  == call[p].nd
  <2>1. /\ call' = [call EXCEPT ![p] = Idle] /\ UNCHANGED <<reply, queue>>
        /\ use' = [use EXCEPT ![new] = "open"]
        /\ chan' = [chan EXCEPT ![new].shmId = nd.shmId,
                                ![new].localAddr = chan[c].localAddr,
                                ![new].peerAddr = nd.peerAddr,
                                ![new].isServer = TRUE]
        /\ call[p].op = "accept"
    BY <1>3 DEF AcceptAttach, Return, Calling
  <2>2. new \in Channels /\ ProcOf[new] = p /\ use[new] # "open"
    BY <1>1, <2>1, ChannelAssumption DEF CallInv, Own, Busy
  <2> HIDE DEF new, nd
  <2>3. /\ \A d \in Channels \ {new} : chan'[d] = chan[d] /\ use'[d] = use[d]
        /\ chan'[new].shmId = nd.shmId /\ chan'[new].peerAddr = nd.peerAddr
        /\ chan'[new].isServer = TRUE /\ use'[new] = "open"
    <3>1. /\ chan'[new] = [chan[new] EXCEPT !.shmId = nd.shmId,
                             !.localAddr = chan[c].localAddr,
                             !.peerAddr = nd.peerAddr, !.isServer = TRUE]
          /\ chan[new] \in Members /\ use'[new] = "open"
          /\ \A d \in Channels \ {new} : chan'[d] = chan[d] /\ use'[d] = use[d]
      BY <1>1, <2>1, <2>2 DEF CallInv, TypeOK
    <3> QED BY <3>1 DEF Members
  <2>4. GoesOn(p, Idle)
    BY <2>1, <2>2, <2>3 DEF GoesOn
  <2>5. ASSUME NEW d \in Channels, ProcOf[d] = p PROVE NextEnd(d) = End(d)
    <3>1. NextEnd(d) = EndAs(d, use'[d], chan'[d], Idle, reply'[p])
      BY <1>1, <2>4, <2>5, OthersStay
    <3>2. CASE d = new
      <4>1. End(new) = [side |-> "server", id |-> nd.shmId, with |-> nd.peerAddr]
        BY <2>1, <2>2 DEF End, EndAs, new, nd
      <4>2. NextEnd(new) = [side |-> "server", id |-> nd.shmId, with |-> nd.peerAddr]
        BY <2>3, <3>1, <3>2 DEF EndAs, Side
      <4> QED BY <3>2, <4>1, <4>2
    <3>3. CASE d # new
      BY <1>1, <2>1, <2>3, <2>5, <3>1, <3>3 DEF End, EndAs, new
    <3> QED BY <3>2, <3>3
  <2>6. EndsStay
    BY <1>1, <2>4, <2>5, OthersStay DEF EndsStay
  <2> QED BY <1>1, <2>1, <2>4, <2>6, LivesOn
<1>4. CASE AcceptAttach(c) /\ call[p].nd.shmId \notin segs
  <2>1. /\ GoesOn(p, Dead) /\ call[p].op = "accept"
        /\ UNCHANGED <<use, chan, queue>>
    BY <1>4 DEF AcceptAttach, GoesOn, Segfault, Calling
  <2> QED BY <1>1, <2>1, DeathMeets
<1> QED BY <1>2, <1>3, <1>4 DEF Meeting!Next

(* close parts the channel when it returns.                                *)
LEMMA CloseMeets ==
  ASSUME OneRole, ConnInv, Busy', NEW c \in Channels, UNCHANGED msgrVars,
         \/ CloseMark(c) \/ CloseCheckFirst(c) \/ CloseNull(c) \/ CloseKept(c)
         \/ CloseTell(c) \/ CloseReturn(c) \/ CloseDrain(c)
  PROVE  [Meeting!Next]_(Meeting!vars)
<1> DEFINE p == ProcOf[c]
<1>1. /\ RoleInv /\ CallInv /\ Busy /\ p \in Procs /\ Idle.op = "idle"
      /\ UNCHANGED aqHash
  BY Elements DEF ConnInv, RoleInv, CallInv, Idle, msgrVars
<1>2. ASSUME CloseKept(c) \/ CloseReturn(c) \/ CloseDrain(c)
      PROVE  Meeting!Next
  <2>1. /\ GoesOn(p, Idle) /\ use' = [use EXCEPT ![c] = "closed"]
        /\ UNCHANGED <<chan, queue>>
        /\ call[p].op \in {"check", "drain", "close"} /\ call[p].chan = c
    <3>1. /\ call' = [call EXCEPT ![p] = Idle] /\ use' = [use EXCEPT ![c] = "closed"]
          /\ reply' = reply \/ reply' = [reply EXCEPT ![p] = NoReply]
          /\ UNCHANGED <<chan, queue>>
          /\ call[p].op \in {"check", "drain", "close"} /\ call[p].chan = c
      BY <1>2 DEF CloseKept, CloseReturn, CloseDrain, Return, TakeReply, Calling
    <3> QED BY <1>1, <3>1 DEF GoesOn, CallInv, TypeOK
  <2>2. use[c] = "open" /\ Quiet(call[p], reply[p]) /\ Quiet(Idle, reply'[p])
    <3>1. use[c] = "open"
      BY <1>1, <2>1 DEF Busy
    <3>2. Quiet(call[p], reply[p])
      BY <2>1, QuietCalls
    <3>3. Quiet(Idle, reply'[p])
      BY QuietCalls
    <3> QED BY <3>1, <3>2, <3>3
  <2>3. End(c).side # "none" /\ Becomes(c, Parted)
    BY <1>1, <2>1, <2>2, QuietParts
  <2>4. p \notin TheDead /\ TheDead' = TheDead
    BY <1>1, <2>1, WhoIsDead DEF GoesOn
  <2> QED BY <1>1, <2>1, <2>3, <2>4, Parts
<1>3. ASSUME CloseNull(c) PROVE Meeting!Next
  <2>1. /\ GoesOn(p, Dead) /\ call[p] = Idle /\ UNCHANGED <<use, chan, queue>>
    BY <1>3 DEF CloseNull, GoesOn, Segfault, Ready
  <2> QED BY <1>1, <2>1, DeathMeets
<1>4. ASSUME NEW op \in {"check", "drain", "close"}, Enter(c, op),
             call[p].op \in {"idle", "check"}, UNCHANGED <<use, chan, queue, reply>>
      PROVE  UNCHANGED Meeting!vars
  <2> DEFINE k == [op |-> op, chan |-> c]
  <2>1. /\ GoesOn(p, k) /\ k.op # "dead"
        /\ Quiet(call[p], reply[p]) /\ Quiet(k, reply'[p])
    BY <1>4, QuietCalls DEF Enter, GoesOn
  <2> HIDE DEF k
  <2>2. EndsStay
    BY <1>1, <1>4, <2>1, QuietEnds
  <2> QED BY <1>1, <1>4, <2>1, <2>2, LivesOn
<1>5. ASSUME CloseMark(c) \/ CloseCheckFirst(c) \/ CloseTell(c)
      PROVE  /\ \E op \in {"check", "drain", "close"} : Enter(c, op)
             /\ call[p].op \in {"idle", "check"} /\ UNCHANGED <<use, chan, queue, reply>>
  BY <1>1, <1>5 DEF CloseMark, CloseCheckFirst, CloseTell, TellManager, MayClose, Ready,
                    Calling
<1> QED BY <1>2, <1>3, <1>4, <1>5

-----------------------------------------------------------------------------
LEMMA StepMeets ==
  ASSUME OneRole, ConnInv, ConnInv', Orphans, [Next]_vars
  PROVE  [Meeting!Next]_(Meeting!vars)
<1>1. Busy /\ Busy'
  BY DEF ConnInv, RoleInv
<1>2. CASE Manager
  BY <1>1, <1>2, ManagerMeets
<1>3. ASSUME NEW c \in Channels, Call(c) \/ Proceed(c)
      PROVE  [Meeting!Next]_(Meeting!vars)
  BY <1>1, <1>3, ListenMeets, ConnectMeets, AcceptMeets, CloseMeets
     DEF Call, Proceed, MakeCall, InCall
<1>4. ASSUME NEW p \in Procs, Kill(p) PROVE Meeting!Next
  BY <1>1, <1>4, KillMeets
<1>5. CASE UNCHANGED vars
  <2>1. EndsStay /\ TheDead' = TheDead
    BY <1>5 DEF vars, sharedVars, channelVars, EndsStay, End, NextEnd, TheDead
  <2> QED BY <1>1, <1>5, <2>1, Stutters DEF vars, sharedVars, msgrVars
<1> QED BY <1>2, <1>3, <1>4, <1>5 DEF Next

LEMMA InitMeets == Init => Meeting!Init /\ Orphans
<1> SUFFICES ASSUME Init PROVE Meeting!Init /\ Orphans
  OBVIOUS
<1>1. \A c \in Channels : EndOf(c) = [side |-> "none"]
  <2>1. \A c \in Channels : /\ use[c] = "unused" /\ call[ProcOf[c]] = Idle
                            /\ ProcOf[c] \in Procs
    BY SharedAssumption DEF Init, ChannelInit
  <2> QED BY <2>1 DEF EndOf, Open, Calling, Idle
<1>2. TheDead = {}
  <2>1. \A p \in Procs : call[p] = Idle
    BY DEF Init, ChannelInit
  <2>2. Idle # Dead
    <3>1. Idle.op # Dead.op
      BY DEF Idle, Dead
    <3> QED BY <3>1
  <2> QED BY <2>1, <2>2 DEF TheDead
<1>3. Meeting!Init
  BY <1>1, <1>2 DEF Init, MsgrInit, Meeting!Init, Meeting!Apart
<1>4. Orphans
  BY DEF Init, Orphans
<1> QED BY <1>3, <1>4

(* The manager, its datagrams and the steps of the calls implement the     *)
(* rendezvous, for any number of processes and channels and whoever is     *)
(* killed: a connect takes effect when it is granted, an accept when it    *)
(* dequeues, a close when it returns, and each connection has an id that   *)
(* nobody else uses (msgr.cpp:145-166, iChannel.cpp:105-117, :199-207).    *)
THEOREM C4IsARendezvous == OneRole /\ Spec => IsARendezvous
<1>1. RoleInv /\ Orphans /\ [Next]_vars => Orphans'
  BY OrphansKeep
<1>2. OneRole /\ ConnInv /\ ConnInv' /\ Orphans /\ [Next]_vars
        => [Meeting!Next]_(Meeting!vars)
  BY StepMeets
<1> QED BY <1>1, <1>2, InitMeets, RoleInvariant, ConnectionInvariant,
           OneRoleStays, PTL DEF Spec, IsARendezvous, Meeting!Spec
=============================================================================
