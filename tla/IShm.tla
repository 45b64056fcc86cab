-------------------------------- MODULE IShm --------------------------------
(***************************************************************************)
(* The data path of a connection: shm_read and shm_write of iShm           *)
(* (util/iShm.cpp), called by iChannel::read and iChannel::write at the    *)
(* two ends of one segment.  Behind a header of four cursors and two alive *)
(* flags lie the lanes: the bytes the server writes, then those the client *)
(* writes.  memcpy is a step for each byte, in any order.  There is no     *)
(* lock: both ends copy at once.                                           *)
(***************************************************************************)
EXTENDS Integers, Sequences

CONSTANTS ShmSize,    \* DEFAULT_CHANNEL_SIZE, the bytes that are mapped
          Sizes,      \* the sizes the programs ask for
          MaxWrites   \* bound of the model: writes by each end

offSet == 24

ASSUME ShmSizeAssumption == ShmSize \in Nat /\ ShmSize >= offSet + 2
ASSUME SizesAssumption == Sizes \subseteq Nat
ASSUME MaxWritesAssumption == MaxWrites \in Nat

VARIABLES
  writeCursor, readCursor,  \* the cursors of each end, as offsets
  mem,      \* the bytes behind the header, each as the write it came from
  alive,    \* the alive flag of each end
  stage,    \* what each end has done with its channel
  op,       \* the call each end is in
  wrote,    \* history: the size of each write an end has begun
  done,     \* history: how many of them it has finished
  seen      \* history: those of the peer that were finished when the
            \* last finished read began

shared  == <<writeCursor, readCursor, mem, alive>>
history == <<wrote, done, seen>>
vars    == <<shared, stage, op, history>>

-----------------------------------------------------------------------------
Ends == {"server", "client"}
Peer(e) == IF e = "server" THEN "client" ELSE "server"

server_lens == (ShmSize - offSet) \div 2
client_lens == ShmSize - offSet - server_lens

\* lens and pstart of the bytes that e writes
Lens(e)   == IF e = "server" THEN server_lens ELSE client_lens
PStart(e) == IF e = "server" THEN offSet ELSE offSet + server_lens

Bytes == offSet .. ShmSize - 1

\* a byte no write of this connection put there: of the fresh segment, or
\* left by a connection that was granted the id before
NoWrite == [by |-> "nobody", n |-> 0]
Idle    == [kind |-> "idle"]
Dead    == [kind |-> "dead"]

-----------------------------------------------------------------------------
(* What shm_read and shm_write compute before they copy.                   *)
\* mutant: a read that copies from the own lane
LaneOwn(e, kind) == e

\* the lane a call copies from or to
Lane(e, kind) == IF kind = "write" THEN e ELSE Peer(e)

Start(e, kind) == IF kind = "write" THEN writeCursor[e] ELSE readCursor[e]
End(e, kind)   == IF kind = "write" THEN readCursor[Peer(e)]
                                    ELSE writeCursor[Peer(e)]

Remain(lane, start, end) ==
  IF start < end THEN end - start
  ELSE Lens(lane) - (start - PStart(lane)) + (end - PStart(lane))

\* the offset of the j-th byte that is copied: round the end of the lane
\* only if the call wraps
Wraps(lane, start, count) == start - PStart(lane) + count > Lens(lane)

Offset(lane, start, count, j) ==
  IF Wraps(lane, start, count) /\ j >= Lens(lane) - (start - PStart(lane))
  THEN j - (Lens(lane) - (start - PStart(lane))) + PStart(lane)
  ELSE start + j

\* where the byte goes in the buffer of a read: both parts of a call that
\* wraps are copied to its beginning
BufIndex(lane, start, count, j) ==
  IF Wraps(lane, start, count) /\ j >= Lens(lane) - (start - PStart(lane))
  THEN j - (Lens(lane) - (start - PStart(lane)))
  ELSE j

\* memcpy is given count bytes in two parts if the call wraps, else size
Copied(lane, start, count, size) ==
  IF Wraps(lane, start, count) THEN count ELSE size

-----------------------------------------------------------------------------
(* iShm(p, size), at whichever end attaches, and set_..._alive(true)       *)
Attach(e) ==
  /\ stage[e] = "new"
  /\ stage' = [stage EXCEPT ![e] = "open"]
  /\ writeCursor' = [x \in Ends |-> PStart(x)]
  /\ readCursor'  = [x \in Ends |-> PStart(Peer(x))]
  /\ alive' = [alive EXCEPT ![e] = TRUE]
  /\ UNCHANGED <<mem, op, history>>

Begin(e, kind, size) ==
  /\ stage[e] = "open" /\ op[e] = Idle
  /\ LET lane   == Lane(e, kind)
         start  == Start(e, kind)
         remain == Remain(lane, start, End(e, kind))
         count  == IF remain < size THEN remain ELSE size
     IN  op' = [op EXCEPT ![e] =
           [kind |-> kind, start |-> start, size |-> size, count |-> count,
            todo |-> 0 .. Copied(lane, start, count, size) - 1,
            buf  |-> [j \in {} |-> NoWrite],
            from |-> done[Peer(e)], peerDown |-> stage[Peer(e)] = "closed"]]
  /\ UNCHANGED <<shared, stage, done, seen>>

BeginWrite(e, size) ==
  /\ Len(wrote[e]) < MaxWrites
  /\ Begin(e, "write", size)
  /\ wrote' = [wrote EXCEPT ![e] = Append(@, size)]

BeginRead(e, size) == Begin(e, "read", size) /\ UNCHANGED wrote

InCall(e) == op[e].kind \in {"read", "write"}

OffsetIn(e, j) == Offset(Lane(e, op[e].kind), op[e].start, op[e].count, j)
IndexIn(e, j)  == BufIndex(Lane(e, op[e].kind), op[e].start, op[e].count, j)

WriteByte(e) ==
  /\ op[e].kind = "write"
  /\ \E j \in op[e].todo :
       /\ OffsetIn(e, j) < ShmSize
       /\ mem' = [mem EXCEPT ![OffsetIn(e, j)] =
                    [by |-> e, n |-> Len(wrote[e])]]
       /\ op' = [op EXCEPT ![e].todo = @ \ {j}]
  /\ UNCHANGED <<writeCursor, readCursor, alive, stage, history>>

ReadByte(e) ==
  /\ op[e].kind = "read"
  /\ \E j \in op[e].todo :
       /\ OffsetIn(e, j) < ShmSize
       /\ op' = [op EXCEPT ![e].todo = @ \ {j},
                           ![e].buf = [i \in DOMAIN @ \cup {IndexIn(e, j)} |->
                              IF i = IndexIn(e, j) THEN mem[OffsetIn(e, j)]
                                                   ELSE @[i]]]
  /\ UNCHANGED <<shared, stage, history>>

\* a byte behind the mapping
Fault(e) ==
  /\ InCall(e)
  /\ \E j \in op[e].todo : OffsetIn(e, j) >= ShmSize
  /\ op' = [op EXCEPT ![e] = Dead]
  /\ UNCHANGED <<shared, stage, history>>

\* mutant: the cursor moves on by what was copied
StoreCursorMoved(e) ==
  IF op[e].kind = "write"
  THEN /\ writeCursor' = [writeCursor EXCEPT ![e] = op[e].start + op[e].count]
       /\ UNCHANGED readCursor
  ELSE /\ readCursor' = [readCursor EXCEPT ![e] = op[e].start + op[e].count]
       /\ UNCHANGED writeCursor

\* the cursor that is written back is the one that was read
StoreCursor(e) ==
  IF op[e].kind = "write"
  THEN /\ writeCursor' = [writeCursor EXCEPT ![e] = op[e].start]
       /\ UNCHANGED readCursor
  ELSE /\ readCursor' = [readCursor EXCEPT ![e] = op[e].start]
       /\ UNCHANGED writeCursor

\* what iChannel::read and write return: they ask for the peer only if
\* nothing was transferred
Returns(e) == IF op[e].count = 0 /\ ~alive[Peer(e)] THEN -1 ELSE op[e].count

Finish(e) ==
  /\ InCall(e) /\ op[e].todo = {}
  /\ StoreCursor(e)
  /\ op' = [op EXCEPT ![e] = Idle]
  /\ IF op[e].kind = "write"
     THEN done' = [done EXCEPT ![e] = @ + 1] /\ UNCHANGED seen
     ELSE seen' = [seen EXCEPT ![e] = op[e].from] /\ UNCHANGED done
  /\ UNCHANGED <<mem, alive, stage, wrote>>

\* the first step of iChannel::close; what follows does not touch the lanes
Close(e) ==
  /\ stage[e] = "open" /\ op[e] = Idle
  /\ stage' = [stage EXCEPT ![e] = "closed"]
  /\ alive' = [alive EXCEPT ![e] = FALSE]
  /\ UNCHANGED <<writeCursor, readCursor, mem, op, history>>

-----------------------------------------------------------------------------
(* The manager unlinks no segment: the first time its id is granted it is  *)
(* all zeros, later it is as the connection before left it, with its       *)
(* bytes, its cursors and the flag of an end that was killed.              *)
FreshSegment ==
  /\ writeCursor = [e \in Ends |-> 0]
  /\ readCursor = [e \in Ends |-> 0]
  /\ alive = [e \in Ends |-> FALSE]

UsedSegment ==
  /\ writeCursor = [e \in Ends |-> PStart(e)]
  /\ readCursor = [e \in Ends |-> PStart(Peer(e))]
  /\ alive \in [Ends -> BOOLEAN]

Init ==
  /\ FreshSegment \/ UsedSegment
  /\ mem = [b \in Bytes |-> NoWrite]
  /\ stage = [e \in Ends |-> "new"]
  /\ op = [e \in Ends |-> Idle]
  /\ wrote = [e \in Ends |-> <<>>]
  /\ done = [e \in Ends |-> 0]
  /\ seen = [e \in Ends |-> 0]

Next ==
  \E e \in Ends :
    \/ Attach(e) \/ Close(e)
    \/ \E size \in Sizes : BeginWrite(e, size) \/ BeginRead(e, size)
    \/ WriteByte(e) \/ ReadByte(e) \/ Fault(e) \/ Finish(e)

Spec == Init /\ [][Next]_vars

-----------------------------------------------------------------------------
Writes == [by : Ends, n : 1 .. MaxWrites] \cup {NoWrite}

(* The types of the variables: a cursor is where its lane begins.          *)
TypeOK ==
  /\ \A e \in Ends : /\ writeCursor[e] \in {0, PStart(e)}
                     /\ readCursor[e] \in {0, PStart(Peer(e))}
  /\ mem \in [Bytes -> Writes]
  /\ alive \in [Ends -> BOOLEAN]
  /\ stage \in [Ends -> {"new", "open", "closed"}]
  /\ wrote \in [Ends -> Seq(Sizes)]
  /\ done \in [Ends -> 0 .. MaxWrites] /\ seen \in [Ends -> 0 .. MaxWrites]
  /\ \A e \in Ends : InCall(e) =>
       /\ op[e].start \in Bytes
       /\ op[e].todo \cup DOMAIN op[e].buf \subseteq 0 .. op[e].size - 1
       /\ \A j \in DOMAIN op[e].buf : op[e].buf[j] \in Writes

(* A lane is a regular register, byte by byte: what a read gets at a       *)
(* position is from the last write to it that was finished when the read   *)
(* began, or from a later one - never from the other lane, from an earlier *)
(* write, or from nowhere - so a read no write overlaps gets one message.  *)
(* It needs that no server write is longer than its lane: memcpy copies    *)
(* size bytes, not count, and spills into the client's (iShm.cpp:221).     *)
Spilled == \E k \in DOMAIN wrote["server"] : wrote["server"][k] > server_lens

ReadsAreRegular ==
  \A e \in Ends : op[e].kind = "read" /\ (e = "server" => ~Spilled) =>
    \A j \in DOMAIN op[e].buf : j < Lens(Peer(e)) =>
      LET sizes  == wrote[Peer(e)]
          after  == {k \in DOMAIN sizes : sizes[k] > j}
          before == {k \in after : k <= op[e].from}
          byte   == op[e].buf[j]
      IN  \/ byte = NoWrite /\ before = {}
          \/ /\ byte.by = Peer(e) /\ byte.n \in after
             /\ \A k \in before : k <= byte.n

(* A reader that has read all there was learns that its peer has closed:   *)
(* read returns -1 (iChannel.cpp:237), which ends the loops of the test    *)
(* programs.                                                               *)
EndOfStream ==
  [][\A e \in Ends :
       /\ Finish(e) /\ op[e].kind = "read"
       /\ op[e].peerDown /\ op[e].from = seen[e]
       => Returns(e) = -1]_vars
=============================================================================
