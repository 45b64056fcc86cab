-------------------------------- MODULE Msgr --------------------------------
(***************************************************************************)
(* The manager (util/msgr.cpp): one thread that takes a datagram from its  *)
(* socket, handles it to the end and answers.  One action per outcome of   *)
(* each case of parsePkg.                                                  *)
(***************************************************************************)
EXTENDS C4Shared, FreeList

VARIABLES
  aqHash,   \* the process whose accept queue an address leads to, or NoProc
  mgrUp,    \* the manager process has not crashed
  pops      \* history: ids taken from the free list so far

msgrVars == <<aqHash, mgrUp, pops, freeListVars>>

\* the constructor makes the free list, then a socket and an epoll descriptor
MsgrInit ==
  /\ aqHash = [a \in Addrs |-> NoProc]
  /\ mgrUp = TRUE
  /\ pops = 0
  /\ FreeListInit(2)

-----------------------------------------------------------------------------
pkg == Head(inbox)

Receive(mode) ==
  /\ mgrUp
  /\ inbox # <<>> /\ pkg.mode = mode
  /\ inbox' = Tail(inbox)

Answer(mode, shmId) ==
  reply' = [reply EXCEPT ![pkg.port] = [mode |-> mode, shmId |-> shmId]]

\* a handler that dereferences a bad pointer
Crash ==
  /\ mgrUp' = FALSE
  /\ UNCHANGED <<reply, queue, aqHash, pops, freeListVars>>

-----------------------------------------------------------------------------
(* CLIENT_CONN_REQ                                                         *)
ConnNotRegistered ==
  /\ Receive("CLIENT_CONN_REQ")
  /\ aqHash[pkg.peerAddr] = NoProc
  /\ Answer("SERVER_NOT_REGISTED", 0)
  /\ UNCHANGED <<queue, msgrVars>>

\* mutant: a refusal without an answer
ConnQueueFullSilent ==
  /\ Receive("CLIENT_CONN_REQ")
  /\ aqHash[pkg.peerAddr] # NoProc
  /\ QueueIsFull(aqHash[pkg.peerAddr])
  /\ UNCHANGED <<reply, queue, msgrVars>>

ConnQueueFull ==
  /\ Receive("CLIENT_CONN_REQ")
  /\ aqHash[pkg.peerAddr] # NoProc
  /\ QueueIsFull(aqHash[pkg.peerAddr])
  /\ Answer("SERVER_AQ_FULL", 0)
  /\ UNCHANGED <<queue, msgrVars>>

\* mutant: the address asked for is queued, not the one that asks
ConnMatchedWrongAddr ==
  /\ Receive("CLIENT_CONN_REQ")
  /\ aqHash[pkg.peerAddr] # NoProc
  /\ ~QueueIsFull(aqHash[pkg.peerAddr])
  /\ GetFreeFd
  /\ pops' = pops + 1
  /\ FreeFront # NoFd
  /\ queue' = [queue EXCEPT ![aqHash[pkg.peerAddr]] =
                 Append(@, node(FreeFront, pkg.peerAddr))]
  /\ Answer("MNGR_CONN_RES", FreeFront)
  /\ UNCHANGED <<aqHash, mgrUp>>

ConnMatched ==
  /\ Receive("CLIENT_CONN_REQ")
  /\ aqHash[pkg.peerAddr] # NoProc
  /\ ~QueueIsFull(aqHash[pkg.peerAddr])
  /\ GetFreeFd
  /\ pops' = pops + 1
  /\ \/ /\ FreeFront = NoFd
        /\ Answer("CREATE_SHM_FAILED", 0)
        /\ UNCHANGED queue
     \/ /\ FreeFront # NoFd
        /\ queue' = [queue EXCEPT ![aqHash[pkg.peerAddr]] =
                       Append(@, node(FreeFront, pkg.localAddr))]
        /\ Answer("MNGR_CONN_RES", FreeFront)
  /\ UNCHANGED <<aqHash, mgrUp>>

-----------------------------------------------------------------------------
(* SERVER_LISTEN_REQ: the manager opens the process's segment - with no    *)
(* look at whether the address is registered already - and never closes    *)
(* the descriptor.  mmap's MAP_FAILED is not the nullptr it tests for: the *)
(* constructor of aQueue then writes to an address that is not mapped.     *)
\* mutant: the wrong field of the datagram
ListenReqWrongField ==
  /\ Receive("SERVER_LISTEN_REQ")
  /\ nextFd < FdLimit
  /\ nextFd' = nextFd + 1
  /\ aqHash' = [aqHash EXCEPT ![pkg.localAddr] = pkg.peerAddr]
  /\ Answer("ACK", 0)
  /\ UNCHANGED <<queue, mgrUp, pops, count_, free_list_, segs>>

ListenReq ==
  /\ Receive("SERVER_LISTEN_REQ")
  /\ nextFd < FdLimit
  /\ nextFd' = nextFd + 1
  /\ aqHash' = [aqHash EXCEPT ![pkg.localAddr] = pkg.shmId]
  /\ Answer("ACK", 0)
  /\ UNCHANGED <<queue, mgrUp, pops, count_, free_list_, segs>>

ListenReqNoFd ==
  /\ Receive("SERVER_LISTEN_REQ")
  /\ nextFd >= FdLimit
  /\ Crash

-----------------------------------------------------------------------------
(* CONNECT_CLOSE gives the shmId field of the datagram back.               *)
ConnectClose ==
  /\ Receive("CONNECT_CLOSE")
  /\ FreeFd(pkg.shmId)
  /\ Answer("CONNECTION_CLOSED", 0)
  /\ UNCHANGED <<queue, aqHash, mgrUp, pops>>


ListenClose ==
  /\ Receive("LISTEN_CLOSE")
  /\ aqHash[pkg.localAddr] # NoProc
  /\ LET q == queue[aqHash[pkg.localAddr]]
     IN  free_list_' = free_list_ \o [i \in DOMAIN q |-> q[i].shmId]
  /\ queue' = [queue EXCEPT ![aqHash[pkg.localAddr]] = <<>>]
  /\ aqHash' = [aqHash EXCEPT ![pkg.localAddr] = NoProc]
  /\ Answer("LISTEN_CLOSED", 0)
  /\ UNCHANGED <<mgrUp, pops, count_, nextFd, segs>>

ListenCloseUnknown ==
  /\ Receive("LISTEN_CLOSE")
  /\ aqHash[pkg.localAddr] = NoProc
  /\ Crash

MsgrNext ==
  /\ \/ ConnNotRegistered \/ ConnQueueFull \/ ConnMatched
     \/ ListenReq \/ ListenReqNoFd
     \/ ConnectClose \/ ListenClose \/ ListenCloseUnknown
  /\ UNCHANGED <<alive, call, chan>>
=============================================================================
