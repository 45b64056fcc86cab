--------------------------------- MODULE C4 ---------------------------------
(***************************************************************************)
(* The running system: the manager and the processes that listen, connect, *)
(* accept and close through it.                                            *)
(***************************************************************************)
EXTENDS Msgr, IChannel, FiniteSets

CONSTANT MaxPops   \* bound of the model: ids asked for, not counting one
                   \* for the first connection of each channel

vars == <<sharedVars, msgrVars, channelVars>>

Init ==
  /\ inbox = <<>>
  /\ reply = [p \in Procs |-> NoReply]
  /\ queue = [p \in Procs |-> <<>>]
  /\ alive = {}
  /\ MsgrInit
  /\ ChannelInit

Manager == MsgrNext /\ UNCHANGED channelVars

Call(c) ==
  /\ MakeCall(c)
  /\ call'[ProcOf[c]].op = "connect" =>
       pops < MaxPops + (IF use[c] = "unused" THEN Cardinality(Connectors) ELSE 0)
  /\ UNCHANGED msgrVars

Proceed(c) == InCall(c) /\ UNCHANGED msgrVars

Kill(p) == Die(p) /\ UNCHANGED msgrVars

Next ==
  \/ Manager
  \/ \E c \in Channels : Call(c) \/ Proceed(c)
  \/ \E p \in Procs : Kill(p)

Spec == Init /\ [][Next]_vars

(* The manager's loop and the processes in a call keep running; nothing    *)
(* makes a program start a call.                                           *)
Fairness == WF_vars(Manager) /\ \A c \in Channels : WF_vars(Proceed(c))

FairSpec == Spec /\ Fairness

(* The loops of the test programs: a server listens and accepts until it   *)
(* has a connection for every channel it accepts into, a client connects   *)
(* until it succeeds (test_iChannel.cpp:21, test_iChannel_client.cpp:16).  *)
Loops ==
  /\ \A l \in Listeners :
       /\ WF_vars(Call(l) /\ Calling(l, "listen")')
       /\ WF_vars(Call(l) /\ Calling(l, "accept")')
  /\ \A k \in Connectors : WF_vars(Call(k) /\ Calling(k, "connect")')

-----------------------------------------------------------------------------
Nodes   == [shmId : Int, peerAddr : Addrs]
Datagrams ==
  [port : Procs, mode : Modes, localAddr : Addrs,
   peerAddr : Addrs \cup {NoAddr} \cup Int, shmId : {0} \cup Procs]
Answers == {"none", "SERVER_NOT_REGISTED", "SERVER_AQ_FULL", "CREATE_SHM_FAILED",
            "MNGR_CONN_RES", "ACK", "CONNECTION_CLOSED", "LISTEN_CLOSED"}
Calls ==
  {Idle, Dead}
    \cup [op : {"listen", "check", "drain", "close"}, chan : Channels]
    \cup [op : {"connect"}, chan : Channels, to : Addrs]
    \cup [op : {"accept"}, chan : Channels, new : Channels, nd : Nodes]
Members ==
  [acceptQueue : {NoProc, Stray} \cup Procs, shmId : Int, isServer : BOOLEAN,
   localAddr : Addrs \cup {NoAddr}, peerAddr : Addrs \cup {NoAddr},
   msgrAddr : BOOLEAN]

(* The types of the variables.                                             *)
TypeOK ==
  /\ inbox \in Seq(Datagrams)
  /\ reply \in [Procs -> [mode : Answers, shmId : Int]]
  /\ queue \in [Procs -> Seq(Nodes)]
  /\ alive \subseteq Int \X {"server", "client"}
  /\ call \in [Procs -> Calls]
  /\ chan \in [Channels -> Members]
  /\ aqHash \in [Addrs -> Procs \cup {NoProc}]
  /\ mgrUp \in BOOLEAN /\ pops \in Nat
  /\ count_ \in Nat /\ nextFd \in Nat /\ segs \subseteq Nat
  /\ free_list_ \in Seq(Int)
  /\ use \in [Channels -> {"unused", "open", "closed"}]
  /\ told \subseteq Channels \X Int
  /\ taken \in Seq(Procs \X Nodes)

-----------------------------------------------------------------------------
(* A process never has two datagrams under way, request and answer taken   *)
(* together, whichever calls are refused and whoever is killed: so a       *)
(* process never takes the answer to one call for the answer to another,   *)
(* and a socket buffer with room for one datagram of each process drops    *)
(* none (iChannel.cpp:74-78, :99-102, :159-162).                           *)
OneInFlight ==
  \A p \in Procs :
    LET requests == {i \in DOMAIN inbox : inbox[i].port = p}
    IN  Cardinality(requests) + (IF reply[p] = NoReply THEN 0 ELSE 1) <= 1

-----------------------------------------------------------------------------
(* How the programs of the repository use channels: one that listens does  *)
(* nothing else (so LISTEN_CLOSE is never sent), one that connects is not  *)
(* given to accept; and a process listens at one address only, since it    *)
(* has one accept queue (test_iChannel.cpp, test_iChannel_client.cpp).     *)
OneRole ==
  /\ Listeners \cap (Connectors \cup Acceptees) = {}
  /\ Connectors \cap Acceptees = {}

OneAddress ==
  \A l, m \in Listeners : ProcOf[l] = ProcOf[m] => AddrOf[l] = AddrOf[m]

-----------------------------------------------------------------------------
(* The properties of connections leave out id 0: every CONNECT_CLOSE gives *)
(* it back to the free list, whatever id it closes (msgr.cpp:202).         *)
Open(c) == use[c] = "open"
Paired(c, d) ==
  c # d /\ Open(c) /\ Open(d) /\ chan[c].shmId = chan[d].shmId

(* A segment carries one connection: of two channels attached to it, one   *)
(* is the server's and one the client's (msgr.cpp:145).                    *)
PrivateSegment ==
  \A c, d \in Channels :
    Paired(c, d) /\ chan[c].shmId # 0 => chan[c].isServer # chan[d].isServer

(* The same for every id.                                                  *)
EveryMatchItsOwnSegment ==
  \A c, d \in Channels : Paired(c, d) => chan[c].isServer # chan[d].isServer

(* The two ends of a connection belong together: each one's peerAddr is    *)
(* the address of the other (iChannel.cpp:117, :206-207; msgr.cpp:161).    *)
MetAtTheAddress ==
  \A c, d \in Channels :
    Paired(c, d) /\ chan[c].shmId # 0 =>
      chan[c].localAddr = chan[d].peerAddr

(* A client that has been answered MNGR_CONN_RES is in the accept queue of *)
(* a process that listens at the address it asked for, or was accepted by  *)
(* one: exactly once, in one place (msgr.cpp:163-166, iChannel.cpp:199).   *)
Granted(c, id, to) ==
  \/ Open(c) /\ ~chan[c].isServer /\ chan[c].shmId = id /\ chan[c].peerAddr = to
  \/ LET p == ProcOf[c] IN
       /\ Calling(c, "connect") /\ call[p].to = to
       /\ reply[p] = [mode |-> "MNGR_CONN_RES", shmId |-> id]

ListensAt(p, a) ==
  \E l \in Listeners : /\ ProcOf[l] = p /\ chan[l].acceptQueue = p
                       /\ chan[l].localAddr = a

GrantInOnePlace ==
  \A c \in Connectors, id \in 1 .. nextFd, to \in ServerAddrs :
    Granted(c, id, to) =>
      LET waiting  == {w \in Procs \X (1 .. Backlog) :
                         /\ w[2] <= Len(queue[w[1]])
                         /\ queue[w[1]][w[2]].shmId = id}
          accepted == {i \in DOMAIN taken : taken[i][2].shmId = id}
      IN  /\ Cardinality(waiting) + Cardinality(accepted) = 1
          /\ \A w \in waiting :
               /\ queue[w[1]][w[2]].peerAddr = chan[c].localAddr
               /\ ListensAt(w[1], to)
          /\ \A i \in accepted :
               /\ taken[i][2].peerAddr = chan[c].localAddr
               /\ ListensAt(taken[i][1], to)

-----------------------------------------------------------------------------
(* Nobody tells the manager to release a segment whose other end is in     *)
(* use: open in a living process that is not itself in close               *)
(* (iChannel.cpp:140, :148).                                               *)
Closing(d) == \E op \in {"check", "drain", "close"} : Calling(d, op)

NoEarlyRelease ==
  [][\A t \in told' \ told : t[2] # 0 =>
       ~\E d \in Channels \ {t[1]} :
          Open(d) /\ chan[d].shmId = t[2] /\ ~Closing(d)
            /\ call[ProcOf[d]] # Dead]_vars

(* A close that takes the other end for alive, and so does not tell the    *)
(* manager, leaves the connection to another end that is open, or that has *)
(* not finished its own close: even when the stores of the flags linger in *)
(* store buffers, whatever id the other end holds by then, and whoever     *)
(* dies (iChannel.cpp:139-152).  So an end that closes after its peer has  *)
(* closed tells the manager; two calls of close at once may both not.      *)
Keeps(c) ==
  \/ Calling(c, "check") /\ use'[c] = "closed"
  \/ ~Calling(c, "drain") /\ Calling(c, "drain")'

LastOneOut ==
  [][\A c \in Channels : Keeps(c) /\ chan[c].shmId # 0 =>
       \E d \in Channels \ {c} : Open(d) /\ chan[d].shmId = chan[c].shmId]_vars


-----------------------------------------------------------------------------
(* The datagrams, the queue and the steps of the calls implement the       *)
(* rendezvous: a connect that is granted takes effect when the manager     *)
(* handles it, an accept when it dequeues, whatever comes in between and   *)
(* whoever dies; as long as no address is closed.                          *)
EndOf(c) ==
  LET p == ProcOf[c] IN
  CASE Open(c) ->
         [side |-> Side(chan[c].isServer), id |-> chan[c].shmId,
          with |-> chan[c].peerAddr]
    [] Calling(c, "connect") /\ reply[p].mode = "MNGR_CONN_RES" ->
         [side |-> "client", id |-> reply[p].shmId, with |-> call[p].to]
    [] call[p].op = "accept" /\ call[p].new = c ->
         [side |-> "server", id |-> call[p].nd.shmId,
          with |-> call[p].nd.peerAddr]
    [] OTHER -> [side |-> "none"]

TheDead == {p \in Procs : call[p] = Dead}

Meeting == INSTANCE Rendezvous
             WITH serves <- aqHash, line <- queue, Ids <- 0 .. FdLimit,
                  end <- [c \in Channels |-> EndOf(c)],
                  dead <- TheDead

IsARendezvous == Meeting!Spec

-----------------------------------------------------------------------------
(* Every call returns, or its process dies.                                *)
CallsReturn ==
  \A p \in Procs : call[p] # Idle ~> call[p] \in {Idle, Dead}

(* A client that retries is connected in the end, although the server may  *)
(* not be there yet and its queue may be full in between: with the loops   *)
(* of the test programs, and a server that accepts as many connections.    *)
RetriesSucceed == Loops => \A c \in Connectors : <>Open(c)
=============================================================================
