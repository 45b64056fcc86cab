----------------------------- MODULE AcceptFifo -----------------------------
(***************************************************************************)
(* What the accept queue of a listening address promises, without the ring *)
(* that implements it: a FIFO of at most Backlog connections.  The manager *)
(* puts a connection in, the listening process takes the oldest one out.   *)
(***************************************************************************)
EXTENDS Naturals, Sequences

CONSTANTS Nodes,    \* the connections that can be queued
          Backlog   \* the t_backlog the address was listened with

VARIABLES fifo,     \* queued connections, oldest first
          accepted  \* connections handed to the listening process, in order

vars == <<fifo, accepted>>

Init == fifo = <<>> /\ accepted = <<>>

Put(n) ==
  /\ Len(fifo) < Backlog
  /\ fifo' = Append(fifo, n)
  /\ UNCHANGED accepted

Take ==
  /\ fifo # <<>>
  /\ fifo' = Tail(fifo)
  /\ accepted' = Append(accepted, Head(fifo))

Next == (\E n \in Nodes : Put(n)) \/ Take

Spec == Init /\ [][Next]_vars
=============================================================================
