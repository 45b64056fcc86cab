----------------------------- MODULE Rendezvous -----------------------------
(***************************************************************************)
(* What listen, connect, accept and close promise the programs, without    *)
(* the manager and its datagrams: connect puts the client in the line of   *)
(* the process that serves the address, and makes it one end of a          *)
(* connection with an id of its own; accept makes a channel the other end  *)
(* for the first in line.  Each happens at once, for everybody.  A process *)
(* that dies does nothing more: the channels it leaves stay the ends they  *)
(* are, except one that a call was still making an end, and what it had    *)
(* asked for may yet be granted to nobody.                                 *)
(***************************************************************************)
EXTENDS Integers, Sequences

CONSTANTS Channels, Procs, Addrs,
          ProcOf, AddrOf,   \* the process and the address of a channel
          Backlog,          \* clients that may stand in a line
          Ids,              \* what a connection can be named
          NoProc

VARIABLES
  serves,  \* the process at each address, or NoProc
  line,    \* the clients waiting for each process, first come first served
  end,     \* the connection each channel is an end of, or Apart
  dead     \* the processes that have died

vars == <<serves, line, end, dead>>

Apart == [side |-> "none"]
Joined(side, id, with) == [side |-> side, id |-> id, with |-> with]
IsApart(c) == end[c].side = "none"
Alive(c)   == ProcOf[c] \notin dead

\* id 0 is nobody's: every close gives it back (msgr.cpp:202)
InUse(id) ==
  \/ \E c \in Channels : ~IsApart(c) /\ end[c].id = id
  \/ \E p \in Procs, i \in 1 .. Backlog :
       i <= Len(line[p]) /\ line[p][i].shmId = id

Init ==
  /\ serves = [a \in Addrs |-> NoProc]
  /\ line = [p \in Procs |-> <<>>]
  /\ end = [c \in Channels |-> Apart]
  /\ dead = {}

Listen(p, a) ==
  /\ serves' = [serves EXCEPT ![a] = p]
  /\ UNCHANGED <<line, end, dead>>

\* c gets a place in the line of the process that serves a
JoinLine(c, a, id) ==
  /\ IsApart(c) /\ serves[a] # NoProc
  /\ Len(line[serves[a]]) < Backlog
  /\ id = 0 \/ ~InUse(id)
  /\ line' = [line EXCEPT ![serves[a]] =
                Append(@, [shmId |-> id, peerAddr |-> AddrOf[c]])]
  /\ UNCHANGED <<serves, dead>>

Connect(c, a, id) ==
  /\ Alive(c) /\ JoinLine(c, a, id)
  /\ end' = [end EXCEPT ![c] = Joined("client", id, a)]

\* the client has died meanwhile: its place is one that nobody holds
ConnectLost(c, a, id) ==
  /\ ~Alive(c) /\ JoinLine(c, a, id)
  /\ UNCHANGED end

Accept(c) ==
  /\ Alive(c) /\ IsApart(c) /\ line[ProcOf[c]] # <<>>
  /\ LET first == Head(line[ProcOf[c]])
     IN  end' = [end EXCEPT ![c] = Joined("server", first.shmId, first.peerAddr)]
  /\ line' = [line EXCEPT ![ProcOf[c]] = Tail(@)]
  /\ UNCHANGED <<serves, dead>>

Part(c) == ~IsApart(c) /\ end' = [end EXCEPT ![c] = Apart]

Close(c) ==
  /\ Alive(c) /\ Part(c)
  /\ UNCHANGED <<serves, line, dead>>

Die(p) ==
  /\ p \notin dead /\ dead' = dead \cup {p}
  /\ UNCHANGED end \/ \E c \in Channels : ProcOf[c] = p /\ Part(c)
  /\ UNCHANGED <<serves, line>>

Next ==
  \/ \E p \in Procs : Die(p) \/ \E a \in Addrs : Listen(p, a)
  \/ \E c \in Channels :
       \/ Accept(c) \/ Close(c)
       \/ \E a \in Addrs, id \in Ids : Connect(c, a, id) \/ ConnectLost(c, a, id)

Spec == Init /\ [][Next]_vars
=============================================================================
