------------------------------- MODULE AfUnix -------------------------------
(***************************************************************************)
(* The classes of the socket benchmarks in 1148/, AF_UNIX_server and       *)
(* AF_UNIX_client, all of whose objects use the path socket.address.  Each *)
(* operation is what its system call does; the sockets of the kernel are   *)
(* modelled as far as the programs use them: a server has one listening    *)
(* socket, a client one connection, and data go from server to client.     *)
(***************************************************************************)
EXTENDS Naturals, Sequences

CONSTANTS Servers, Clients,  \* the objects of the two classes
          QLEN,              \* the backlog given to listen
          NoSock,            \* nothing has the path socket.address
          OldSock            \* the socket of an earlier program, now closed

ASSUME AfUnixAssumption ==
  /\ QLEN \in Nat
  /\ {NoSock, OldSock} \cap Servers = {} /\ NoSock # OldSock

VARIABLES
  path,  \* the server whose socket has the path, NoSock or OldSock
  sock,  \* the state of each server's listening socket
  pend,  \* connections to it that wait for accept, oldest first
  conn,  \* the state of each client's connection, as the client sees it
  buf    \* what the server has written into it and the client not yet read

kernel == <<path, sock, pend, conn, buf>>

KernelInit ==
  /\ path \in {NoSock, OldSock}
  /\ sock = [s \in Servers |-> "none"]
  /\ pend = [s \in Servers |-> <<>>]
  /\ conn = [c \in Clients |-> "none"]
  /\ buf = [c \in Clients |-> 0]

-----------------------------------------------------------------------------
\* mutant: a constructor that leaves the path alone
ConstructNoUnlink(s) == UNCHANGED kernel

\* AF_UNIX_server(addr) unlinks whatever has the path
Construct(s) == path' = NoSock /\ UNCHANGED <<sock, pend, conn, buf>>

\* bind: EADDRINUSE
BindFails == path # NoSock

Bind(s) ==
  /\ ~BindFails
  /\ path' = s
  /\ sock' = [sock EXCEPT ![s] = "bound"]
  /\ UNCHANGED <<pend, conn, buf>>

Listen(s) ==
  /\ sock' = [sock EXCEPT ![s] = "listening"]
  /\ UNCHANGED <<path, pend, conn, buf>>

\* connect: ENOENT or ECONNREFUSED
ConnectFails == ~(path \in Servers /\ sock[path] = "listening")

\* connect blocks while more than QLEN connections wait
Connect(c) ==
  /\ ~ConnectFails
  /\ Len(pend[path]) <= QLEN
  /\ pend' = [pend EXCEPT ![path] = Append(@, c)]
  /\ conn' = [conn EXCEPT ![c] = "pending"]
  /\ UNCHANGED <<path, sock, buf>>

\* accept blocks while none waits, and gives the oldest, not one's own
Oldest(s) == Head(pend[s])

Accept(s) ==
  /\ pend[s] # <<>>
  /\ pend' = [pend EXCEPT ![s] = Tail(@)]
  /\ conn' = [conn EXCEPT ![Oldest(s)] = IF @ = "pending" THEN "open" ELSE @]
  /\ UNCHANGED <<path, sock, buf>>

\* write: n units into the connection
Write(c, n) ==
  /\ buf' = [buf EXCEPT ![c] = @ + n]
  /\ UNCHANGED <<path, sock, pend, conn>>

\* read: up to n units; it blocks while there are none, unless the server's
\* end is closed
Readable(c, n) == IF buf[c] < n THEN buf[c] ELSE n

Read(c, n) ==
  /\ buf[c] > 0
  /\ buf' = [buf EXCEPT ![c] = @ - Readable(c, n)]
  /\ UNCHANGED <<path, sock, pend, conn>>

ReadEnd(c)   == buf[c] = 0 /\ conn[c] = "eof"    \* read returns 0
ReadReset(c) == conn[c] = "reset"                \* read returns -1

\* close of the listening socket resets the connections that wait
CloseListening(s) ==
  /\ sock' = [sock EXCEPT ![s] = "closed"]
  /\ pend' = [pend EXCEPT ![s] = <<>>]
  /\ conn' = [c \in Clients |->
       IF \E i \in DOMAIN pend[s] : pend[s][i] = c /\ conn[c] = "pending"
       THEN "reset" ELSE conn[c]]
  /\ UNCHANGED <<path, buf>>

\* close of an accepted connection, and of the client's end
CloseAccepted(c) ==
  /\ conn' = [conn EXCEPT ![c] = IF @ = "open" THEN "eof" ELSE @]
  /\ UNCHANGED <<path, sock, pend, buf>>

CloseClient(c) ==
  /\ conn' = [conn EXCEPT ![c] = "closed"]
  /\ buf' = [buf EXCEPT ![c] = 0]
  /\ UNCHANGED <<path, sock, pend>>
=============================================================================
