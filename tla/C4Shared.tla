------------------------------ MODULE C4Shared ------------------------------
(***************************************************************************)
(* What the processes of C4 share: the UDP socket of the manager, the      *)
(* answer each blocked process waits for, and the shared memory - accept   *)
(* queues and alive flags.  A process has one thread; it calls one         *)
(* operation of a channel at a time and blocks in recvfrom, without a      *)
(* timeout, until the manager answers.  Each call binds a fresh port, so   *)
(* the port of a request stands for the process that sent it.              *)
(***************************************************************************)
EXTENDS ShmNames, Integers, Sequences

CONSTANTS Procs,     \* processes that use channels
          Addrs,     \* virtual addresses
          Channels,  \* the iChannel objects of all the processes
          ProcOf,    \* the process a channel lives in
          Backlog,   \* the backlog every listen asks for
          InboxCap,  \* datagrams the manager's socket buffer holds
          NoProc,    \* a null acceptQueue, an address nobody has registered
          NoAddr     \* the address 0

ASSUME SharedAssumption ==
  /\ ProcOf \in [Channels -> Procs]
  /\ NoProc \notin Procs /\ NoAddr \notin Addrs
  /\ Backlog \in Nat /\ InboxCap \in Nat \ {0}

VARIABLES
  inbox,   \* datagrams in the manager's socket, oldest first
  reply,   \* the answer waiting in the socket of each process, or NoReply
  queue,   \* the accept queue server_<tid> of each process: the FIFO of
           \* AcceptFifo, which its ring implements (module AQueue)
  alive,   \* the flags that are set, as pairs <<id, "server" | "client">>
  call,    \* what each process is doing
  chan     \* the members of each iChannel

sharedVars == <<inbox, reply, queue, alive, call, chan>>

-----------------------------------------------------------------------------
NoId    == -1                       \* ptShm is null: no segment attached
NoReply == [mode |-> "none", shmId |-> NoId]
Idle    == [op |-> "idle"]
Dead    == [op |-> "dead"]

Modes == {"CLIENT_CONN_REQ", "SERVER_LISTEN_REQ", "CONNECT_CLOSE", "LISTEN_CLOSE"}

\* iMsg: port, mode, localAddr, peerAddr, shmId.  CONNECT_CLOSE puts an id
\* where the others have an address.
iMsg(port, mode, localAddr, peerAddr, shmId) ==
  [port |-> port, mode |-> mode, localAddr |-> localAddr,
   peerAddr |-> peerAddr, shmId |-> shmId]

\* sendto the manager: a datagram that does not fit the buffer is dropped
SendUdp(m) ==
  inbox' = IF Len(inbox) < InboxCap THEN Append(inbox, m) ELSE inbox

\* node: what the manager puts into an accept queue
node(shmId, peerAddr) == [shmId |-> shmId, peerAddr |-> peerAddr]

QueueIsFull(p) == Len(queue[p]) >= Backlog
=============================================================================
