------------------------------ MODULE IChannel ------------------------------
(***************************************************************************)
(* The operations of iChannel (util/iChannel.cpp), as their processes run  *)
(* them: a call that asks the manager is a step up to sendto and a step    *)
(* after recvfrom; close reads and writes the alive flags of the segment   *)
(* in steps of their own, since the other end may do the same.             *)
(*                                                                         *)
(* The constants below say how the programs use their channels.            *)
(***************************************************************************)
EXTENDS C4Shared

CONSTANTS
  Listeners, Connectors, Acceptees,  \* channels on which they call listen or
                                     \* connect, or which they give to accept
  Closable,     \* channels on which they call close
  DefaultBuilt, \* channels made by iChannel(), the others by iChannel(addr)
  AddrOf,       \* the address given to iChannel(addr)
  Mortal,       \* processes that may die at any point
  StoreBuffer,  \* the flag a process stores may become visible after its
                \* next load (x86), or never does (FALSE)
  Stray         \* an indeterminate acceptQueue that is not null

ASSUME ChannelAssumption ==
  /\ Listeners \cup Connectors \cup Acceptees \subseteq Channels
  /\ Closable \subseteq Channels /\ DefaultBuilt \subseteq Acceptees
  /\ DefaultBuilt \cap (Listeners \cup Connectors) = {}
  /\ AddrOf \in [Channels -> Addrs]
  /\ Mortal \subseteq Procs /\ StoreBuffer \in BOOLEAN
  /\ Stray \notin Procs \cup {NoProc}

VARIABLES
  use,   \* history: "unused", "open" or "closed", the connection of a channel
  told,  \* history: <<c, i>>: c's close asked the manager to release id i
  taken  \* history: the nodes dequeued by accept, as <<process, node>>

channelVars == <<use, told, taken>>

\* the call of a channel's process, and what it is about
Calling(c, op) ==
  call[ProcOf[c]].op = op /\ call[ProcOf[c]].chan = c

Enter(c, op) == call' = [call EXCEPT ![ProcOf[c]] = [op |-> op, chan |-> c]]
Return(c)    == call' = [call EXCEPT ![ProcOf[c]] = Idle]
Segfault(c)  == call' = [call EXCEPT ![ProcOf[c]] = Dead]
Ready(c)     == call[ProcOf[c]] = Idle

\* recvfrom on the socket of the call
Answered(c) == reply[ProcOf[c]] # NoReply
TakeReply(c) == reply' = [reply EXCEPT ![ProcOf[c]] = NoReply]

\* the addresses programs connect to
ServerAddrs == {AddrOf[l] : l \in Listeners}

Side(isServer) == IF isServer THEN "server" ELSE "client"
OwnFlag(c)  == <<chan[c].shmId, Side(chan[c].isServer)>>
PeerFlag(c) == <<chan[c].shmId, Side(~chan[c].isServer)>>

-----------------------------------------------------------------------------
\* iChannel(addr), or iChannel(), which sets neither acceptQueue nor msgrAddr
ChannelInit ==
  /\ \E acceptQueueOf \in [DefaultBuilt -> {NoProc, Stray}] :
       chan = [c \in Channels |->
         [acceptQueue |-> IF c \in DefaultBuilt THEN acceptQueueOf[c] ELSE NoProc,
          shmId |-> NoId, isServer |-> FALSE,
          localAddr |-> IF c \in DefaultBuilt THEN NoAddr ELSE AddrOf[c],
          peerAddr |-> NoAddr, msgrAddr |-> c \notin DefaultBuilt]]
  /\ call = [p \in Procs |-> Idle]
  /\ use = [c \in Channels |-> "unused"]
  /\ told = {}
  /\ taken = <<>>

-----------------------------------------------------------------------------
ListenSend(c) ==
  /\ Ready(c) /\ c \in Listeners
  /\ chan[c].acceptQueue = NoProc
  /\ chan' = [chan EXCEPT ![c].isServer = TRUE, ![c].acceptQueue = ProcOf[c]]
  /\ SendUdp(iMsg(ProcOf[c], "SERVER_LISTEN_REQ", chan[c].localAddr, NoAddr,
                  ProcOf[c]))
  /\ Enter(c, "listen")
  /\ UNCHANGED <<reply, queue, alive, use, told, taken>>

\* shm_open or ftruncate fails: -1, and the channel takes itself for a server
ListenFails(c) ==
  /\ Ready(c) /\ c \in Listeners
  /\ chan[c].acceptQueue = NoProc
  /\ chan' = [chan EXCEPT ![c].isServer = TRUE]
  /\ UNCHANGED <<inbox, reply, queue, alive, call, use, told, taken>>

\* mutant: listen does not wait for the answer
ListenReturnAtOnce(c) ==
  /\ Calling(c, "listen")
  /\ Return(c)
  /\ UNCHANGED <<inbox, reply, queue, alive, chan, use, told, taken>>

ListenReturn(c) ==
  /\ Calling(c, "listen") /\ Answered(c)
  /\ TakeReply(c)
  /\ Return(c)
  /\ UNCHANGED <<inbox, queue, alive, chan, use, told, taken>>

-----------------------------------------------------------------------------
ConnectSend(c, serverAddr) ==
  /\ Ready(c) /\ c \in Connectors /\ use[c] # "open"
  /\ chan' = [chan EXCEPT ![c].isServer = FALSE]
  /\ SendUdp(iMsg(ProcOf[c], "CLIENT_CONN_REQ", chan[c].localAddr, serverAddr, 0))
  /\ call' = [call EXCEPT ![ProcOf[c]] =
                [op |-> "connect", chan |-> c, to |-> serverAddr]]
  /\ UNCHANGED <<reply, queue, alive, use, told, taken>>

\* open the segment of the id and set the own flag, unless there is none:
\* shm_open, ftruncate and mmap fail, and iShm writes to MAP_FAILED
ConnectReturn(c) ==
  /\ Calling(c, "connect") /\ Answered(c)
  /\ reply[ProcOf[c]].mode = "MNGR_CONN_RES"
  /\ reply[ProcOf[c]].shmId \in segs
  /\ LET id == reply[ProcOf[c]].shmId IN
       /\ chan' = [chan EXCEPT ![c].shmId = id,
                               ![c].peerAddr = call[ProcOf[c]].to]
       /\ alive' = alive \cup {<<id, "client">>}
  /\ use' = [use EXCEPT ![c] = "open"]
  /\ TakeReply(c)
  /\ Return(c)
  /\ UNCHANGED <<inbox, queue, told, taken>>

ConnectRefused(c) ==
  /\ Calling(c, "connect") /\ Answered(c)
  /\ reply[ProcOf[c]].mode # "MNGR_CONN_RES"
  /\ TakeReply(c)
  /\ Return(c)
  /\ UNCHANGED <<inbox, queue, alive, chan, use, told, taken>>

ConnectNoSegment(c) ==
  /\ Calling(c, "connect") /\ Answered(c)
  /\ reply[ProcOf[c]].mode = "MNGR_CONN_RES"
  /\ reply[ProcOf[c]].shmId \notin segs
  /\ TakeReply(c)
  /\ Segfault(c)
  /\ UNCHANGED <<inbox, queue, alive, chan, use, told, taken>>

-----------------------------------------------------------------------------
(* accept(new): a dequeue, which the manager sees, then the attachment of  *)
(* the segment, which the other end sees.  On an empty queue it changes    *)
(* nothing.                                                                *)
\* mutant: the node stays in the queue
AcceptPeek(c, new) ==
  /\ Ready(c) /\ c \in Listeners /\ chan[c].acceptQueue = ProcOf[c]
  /\ new \in Acceptees /\ ProcOf[new] = ProcOf[c] /\ use[new] # "open"
  /\ queue[ProcOf[c]] # <<>>
  /\ call' = [call EXCEPT ![ProcOf[c]] =
                [op |-> "accept", chan |-> c, new |-> new,
                 nd |-> Head(queue[ProcOf[c]])]]
  /\ taken' = Append(taken, <<ProcOf[c], Head(queue[ProcOf[c]])>>)
  /\ UNCHANGED <<inbox, reply, queue, alive, chan, use, told>>

AcceptDequeue(c, new) ==
  /\ Ready(c) /\ c \in Listeners /\ chan[c].acceptQueue = ProcOf[c]
  /\ new \in Acceptees /\ ProcOf[new] = ProcOf[c] /\ use[new] # "open"
  /\ queue[ProcOf[c]] # <<>>
  /\ queue' = [queue EXCEPT ![ProcOf[c]] = Tail(@)]
  /\ call' = [call EXCEPT ![ProcOf[c]] =
                [op |-> "accept", chan |-> c, new |-> new,
                 nd |-> Head(queue[ProcOf[c]])]]
  /\ taken' = Append(taken, <<ProcOf[c], Head(queue[ProcOf[c]])>>)
  /\ UNCHANGED <<inbox, reply, alive, chan, use, told>>

AcceptAttach(c) ==
  /\ Calling(c, "accept")
  /\ LET new == call[ProcOf[c]].new
         nd  == call[ProcOf[c]].nd
     IN  IF nd.shmId \in segs
         THEN /\ chan' = [chan EXCEPT ![new].shmId = nd.shmId,
                                      ![new].localAddr = chan[c].localAddr,
                                      ![new].peerAddr = nd.peerAddr,
                                      ![new].isServer = TRUE]
              /\ alive' = alive \cup {<<nd.shmId, "server">>}
              /\ use' = [use EXCEPT ![new] = "open"]
              /\ Return(c)
         ELSE Segfault(c) /\ UNCHANGED <<chan, alive, use>>
  /\ UNCHANGED <<inbox, reply, queue, told, taken>>

-----------------------------------------------------------------------------
(* close: store the own flag, load the peer's, and only if that is down    *)
(* ask the manager.                                                        *)
MayClose(c) == Ready(c) /\ c \in Closable /\ use[c] = "open"

\* a channel without a segment, which is any listening channel: null pointer
CloseNull(c) ==
  /\ Ready(c) /\ c \in Closable
  /\ chan[c].acceptQueue = ProcOf[c] /\ chan[c].shmId = NoId
  /\ Segfault(c)
  /\ UNCHANGED <<inbox, reply, queue, alive, chan, use, told, taken>>

\* mutant: the own flag stays up
CloseMarkNot(c) ==
  /\ MayClose(c)
  /\ Enter(c, "check")
  /\ UNCHANGED <<inbox, reply, queue, alive, chan, use, told, taken>>

CloseMark(c) ==
  /\ MayClose(c)
  /\ alive' = alive \ {OwnFlag(c)}
  /\ Enter(c, "check")
  /\ UNCHANGED <<inbox, reply, queue, chan, use, told, taken>>

\* the peer lives: return 0
CloseKept(c) ==
  /\ Calling(c, "check")
  /\ PeerFlag(c) \in alive
  /\ Return(c)
  /\ use' = [use EXCEPT ![c] = "closed"]
  /\ UNCHANGED <<inbox, reply, queue, alive, chan, told, taken>>

\* msgrAddr is indeterminate in a channel of iChannel(): nothing arrives
TellManager(c) ==
  /\ IF chan[c].msgrAddr
     THEN SendUdp(IF chan[c].acceptQueue = NoProc
                  THEN iMsg(ProcOf[c], "CONNECT_CLOSE", chan[c].localAddr,
                            chan[c].shmId, 0)
                  ELSE iMsg(ProcOf[c], "LISTEN_CLOSE", chan[c].localAddr,
                            NoAddr, 0))
     ELSE UNCHANGED inbox
  /\ Enter(c, "close")
  /\ told' = told \cup {<<c, chan[c].shmId>>}
  /\ UNCHANGED <<reply, queue, chan, use, taken>>

\* mutant: the peer's flag is not looked at
CloseTellAlways(c) ==
  /\ Calling(c, "check")
  /\ TellManager(c)
  /\ UNCHANGED alive

CloseTell(c) ==
  /\ Calling(c, "check")
  /\ PeerFlag(c) \notin alive
  /\ TellManager(c)
  /\ UNCHANGED alive

CloseReturn(c) ==
  /\ Calling(c, "close") /\ Answered(c)
  /\ TakeReply(c)
  /\ Return(c)
  /\ use' = [use EXCEPT ![c] = "closed"]
  /\ UNCHANGED <<inbox, queue, alive, chan, told, taken>>

\* the load of the peer's flag overtakes the store of the own flag
CloseCheckFirst(c) ==
  /\ StoreBuffer /\ MayClose(c)
  /\ \/ /\ PeerFlag(c) \in alive
        /\ Enter(c, "drain")
        /\ UNCHANGED <<inbox, reply, queue, alive, chan, use, told, taken>>
     \/ /\ PeerFlag(c) \notin alive
        /\ alive' = alive \ {OwnFlag(c)}
        /\ TellManager(c)

CloseDrain(c) ==
  /\ Calling(c, "drain")
  /\ alive' = alive \ {OwnFlag(c)}
  /\ Return(c)
  /\ use' = [use EXCEPT ![c] = "closed"]
  /\ UNCHANGED <<inbox, reply, queue, chan, told, taken>>

-----------------------------------------------------------------------------
\* the process is killed; its flags and queue stay as they are
Die(p) ==
  /\ p \in Mortal /\ call[p] # Dead
  /\ call' = [call EXCEPT ![p] = Dead]
  /\ UNCHANGED <<inbox, reply, queue, alive, chan, use, told, taken>>

\* the steps by which a call goes on once its process has entered it
InCall(c) ==
  \/ ListenReturn(c)
  \/ ConnectReturn(c) \/ ConnectRefused(c) \/ ConnectNoSegment(c)
  \/ AcceptAttach(c)
  \/ CloseKept(c) \/ CloseTell(c) \/ CloseReturn(c) \/ CloseDrain(c)

\* the steps by which a program makes a call
MakeCall(c) ==
  \/ ListenSend(c) \/ ListenFails(c)
  \/ \E a \in ServerAddrs : ConnectSend(c, a)
  \/ \E new \in Channels : AcceptDequeue(c, new)
  \/ CloseMark(c) \/ CloseCheckFirst(c) \/ CloseNull(c)
=============================================================================
