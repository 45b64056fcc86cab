------------------------------- MODULE AQueue -------------------------------
(***************************************************************************)
(* aQueue<node> (util/aQueue.h): the accept queue of a listening address,  *)
(* a ring in a POSIX shared memory segment.  Two processes map it: the     *)
(* manager enqueues (msgr::parsePkg, CLIENT_CONN_REQ) and the listening    *)
(* process dequeues (iChannel::accept).  There is no lock: read_ is        *)
(* written by the consumer only, write_ by the producer only, size_ by     *)
(* both, each time one of them constructs its aQueue over the segment.     *)
(*                                                                         *)
(* Every access to a word the other process writes is a step of its own.   *)
(* The build has no -O and runs on x86-64, which keeps the stores of a     *)
(* process in program order and keeps a load before a later store, so the  *)
(* order of the steps is the order of the statements.                      *)
(***************************************************************************)
EXTENDS Integers, Sequences

CONSTANTS Nodes,      \* the {shmId, peerAddr} pairs the manager queues
          Blank,      \* the content of a cell of a fresh (zeroed) segment
          Backlogs,   \* the t_backlog arguments the process calls listen with
          MaxGrants   \* bound of the model: connections queued, and dequeued

ASSUME BacklogsAssumption == Backlogs # {} /\ Backlogs \subseteq Nat
ASSUME BlankAssumption == Blank \notin Nodes
ASSUME MaxGrantsAssumption == MaxGrants \in Nat

VARIABLES
  read_, write_, size_,  \* the three words of the header
  payload,               \* the cells behind it, by index into payload_
  ppc, pval,             \* the manager: where it is, and the node it queues
  cpc, cval,             \* the listening process: where it is, what it read
  asked,                 \* the backlog of the SERVER_LISTEN_REQ in flight
  mapped,                \* the backlog the manager's mapping is for, or NoQueue
  sent, got              \* history: nodes enqueued, nodes dequeued

ring == <<read_, write_, size_, payload>>
vars == <<ring, ppc, pval, cpc, cval, asked, mapped, sent, got>>

-----------------------------------------------------------------------------
(* The segment: 12 bytes of header, then cells of 8 bytes.  enqueue and    *)
(* dequeue index payload_, a node*, with cursor * sizeof(node).            *)
NodeSize   == 8
HeaderSize == 12
PageSize   == 4096

CellOf(cursor) == cursor * NodeSize

\* aQueue_require in iChannel::listen, shmLen in msgr::parsePkg
Require(backlog) == NodeSize * (backlog + 1) + HeaderSize

\* the bytes a process can touch of a mapping: whole pages
Mapped(backlog) == PageSize * ((Require(backlog) + PageSize - 1) \div PageSize)

NoQueue == -1   \* aqHash has no aQueue over the segment

Slots == UNION {0 .. b : b \in Backlogs}
Cells == {CellOf(i) : i \in Slots}

\* mutant: is_full without the wrap-around
IsFullNoWrap == write_ + 1 = read_

IsEmpty == read_ = write_
IsFull  == (write_ + 1) % size_ = read_

-----------------------------------------------------------------------------
(* iChannel::listen and SERVER_LISTEN_REQ: each side opens the segment and *)
(* constructs an aQueue over it.  The constructor writes size_ and leaves  *)
(* read_ and write_ as they are in the segment.  listen blocks until the   *)
(* manager has answered.                                                   *)
Listen(backlog) ==
  /\ cpc \in {"new", "idle"}
  /\ size_' = backlog + 1
  /\ asked' = backlog
  /\ cpc' = "listen"
  /\ UNCHANGED <<read_, write_, payload, ppc, pval, cval, mapped, sent, got>>

ListenReq ==
  /\ cpc = "listen"
  /\ ppc = "idle"
  /\ size_' = asked + 1
  /\ mapped' = asked
  /\ cpc' = "idle"
  /\ UNCHANGED <<read_, write_, payload, ppc, pval, cval, asked, sent, got>>

-----------------------------------------------------------------------------
(* The manager in CLIENT_CONN_REQ: its own is_full(), then enqueue, whose  *)
(* result it ignores.                                                      *)
\* mutant: a manager that leaves the check to enqueue
ConnReqUnchecked(n) ==
  /\ ppc = "idle" /\ mapped # NoQueue
  /\ Len(sent) < MaxGrants
  /\ ppc' = "enqueue" /\ pval' = n
  /\ UNCHANGED <<ring, cpc, cval, asked, mapped, sent, got>>

ConnReq(n) ==
  /\ ppc = "idle" /\ mapped # NoQueue
  /\ Len(sent) < MaxGrants
  /\ ~IsFull
  /\ ppc' = "enqueue" /\ pval' = n
  /\ UNCHANGED <<ring, cpc, cval, asked, mapped, sent, got>>

EnqueueCheck ==
  /\ ppc = "enqueue"
  /\ ppc' = IF IsFull THEN "idle" ELSE "store"
  /\ UNCHANGED <<ring, pval, cpc, cval, asked, mapped, sent, got>>

EnqueueStore ==
  /\ ppc = "store"
  /\ payload' = [payload EXCEPT ![CellOf(write_)] = pval]
  /\ ppc' = "advance"
  /\ UNCHANGED <<read_, write_, size_, pval, cpc, cval, asked, mapped, sent, got>>

\* mutant: a write cursor that is not taken modulo the size
EnqueueAdvanceNoWrap ==
  /\ ppc = "advance"
  /\ write_' = write_ + 1
  /\ sent' = Append(sent, pval)
  /\ ppc' = "idle"
  /\ UNCHANGED <<read_, size_, payload, pval, cpc, cval, asked, mapped, got>>

EnqueueAdvance ==
  /\ ppc = "advance"
  /\ write_' = (write_ + 1) % size_
  /\ sent' = Append(sent, pval)
  /\ ppc' = "idle"
  /\ UNCHANGED <<read_, size_, payload, pval, cpc, cval, asked, mapped, got>>

-----------------------------------------------------------------------------
(* The listening process in accept: dequeue on a queue that is not empty.  *)
\* mutant: a dequeue that does not look whether there is anything
DequeueUnchecked ==
  /\ cpc = "idle"
  /\ Len(got) < MaxGrants
  /\ cpc' = "load"
  /\ UNCHANGED <<ring, ppc, pval, cval, asked, mapped, sent, got>>

DequeueCheck ==
  /\ cpc = "idle"
  /\ Len(got) < MaxGrants
  /\ ~IsEmpty
  /\ cpc' = "load"
  /\ UNCHANGED <<ring, ppc, pval, cval, asked, mapped, sent, got>>

DequeueLoad ==
  /\ cpc = "load"
  /\ cval' = payload[CellOf(read_)]
  /\ cpc' = "advance"
  /\ UNCHANGED <<ring, ppc, pval, asked, mapped, sent, got>>

DequeueAdvance ==
  /\ cpc = "advance"
  /\ read_' = (read_ + 1) % size_
  /\ got' = Append(got, cval)
  /\ cpc' = "idle"
  /\ UNCHANGED <<write_, size_, payload, ppc, pval, cval, asked, mapped, sent>>

-----------------------------------------------------------------------------
\* shm_open with O_CREAT and ftruncate: a segment of zeros
Init ==
  /\ read_ = 0 /\ write_ = 0 /\ size_ = 0
  /\ payload = [c \in Cells |-> Blank]
  /\ ppc = "idle" /\ pval = Blank
  /\ cpc = "new" /\ cval = Blank
  /\ asked \in Backlogs
  /\ mapped = NoQueue
  /\ sent = <<>> /\ got = <<>>

Manager == (\E n \in Nodes : ConnReq(n)) \/ EnqueueCheck \/ EnqueueStore
             \/ EnqueueAdvance \/ ListenReq
Server  == (\E b \in Backlogs : Listen(b)) \/ DequeueCheck \/ DequeueLoad
             \/ DequeueAdvance
Next    == Manager \/ Server

Spec == Init /\ [][Next]_vars

-----------------------------------------------------------------------------
(* The types of the variables: the cursors stay inside the ring.           *)
TypeOK ==
  /\ read_ \in Slots /\ write_ \in Slots
  /\ size_ \in {0} \cup {b + 1 : b \in Backlogs}
  /\ payload \in [Cells -> Nodes \cup {Blank}]
  /\ ppc \in {"idle", "enqueue", "store", "advance"}
  /\ pval \in Nodes \cup {Blank}
  /\ cpc \in {"new", "listen", "idle", "load", "advance"}
  /\ cval \in Nodes \cup {Blank}
  /\ asked \in Backlogs
  /\ mapped \in Backlogs \cup {NoQueue}
  /\ sent \in Seq(Nodes) /\ got \in Seq(Nodes \cup {Blank})

(* The manager never stores into the cell the listening process is reading *)
(* (aQueue.h:80 against aQueue.h:89): with no lock, the two checks alone   *)
(* keep them apart.                                                        *)
NoSlotRace ==
  ~ (ppc = "store" /\ cpc = "load" /\ CellOf(write_) = CellOf(read_))

(* A store of enqueue stays inside the mapping of the manager and inside   *)
(* the segment as listen last cut it: both are sized for backlog + 1 nodes *)
(* (iChannel.cpp:58, msgr.cpp:180), while a cell lies cursor * sizeof(node) *)
(* nodes behind the header (aQueue.h:80).                                  *)
StoreInsideMapping ==
  ppc = "store" =>
    HeaderSize + NodeSize * CellOf(write_) + NodeSize
      <= (IF mapped < asked THEN Mapped(mapped) ELSE Mapped(asked))

(* is_full() answers exactly that backlog connections wait, at every       *)
(* position of the cursors (aQueue.h:72; msgr.cpp:139 turns it into        *)
(* SERVER_AQ_FULL).  For a process that always listens with one backlog.   *)
Backlog == CHOOSE b \in Backlogs : TRUE
OneBacklog == Backlogs = {Backlog}

FullMeansBacklog ==
  mapped # NoQueue => (IsFull <=> Len(sent) - Len(got) = Backlog)

(* Once the manager has seen room in the queue, enqueue finds room too:    *)
(* the result it ignores (msgr.cpp:163) is never false, whatever the       *)
(* listening process does between the two checks.                          *)
EnqueueNeverRefused == [][ppc = "enqueue" => ppc' \in {"enqueue", "store"}]_vars

(* The ring implements the FIFO of AcceptFifo: connections come out once,  *)
(* in the order in which they were queued, and never more than Backlog     *)
(* wait.                                                                   *)
Fifo == INSTANCE AcceptFifo
          WITH fifo <- SubSeq(sent, Len(got) + 1, Len(sent)), accepted <- got

FifoSpec == Fifo!Spec
=============================================================================
