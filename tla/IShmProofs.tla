----------------------------- MODULE IShmProofs -----------------------------
(***************************************************************************)
(* Proofs about IShm, for every size of the segment, every set of sizes    *)
(* that are asked for, and every bound on the number of writes.            *)
(*                                                                         *)
(* The argument: a cursor is written back as it was read, so once one end  *)
(* has attached every call begins at the beginning of its lane, with the   *)
(* whole lane before it (Placed, InProgress).  No copy wraps, so the j-th  *)
(* byte of a request is always byte j of the lane.  Only the owner of a    *)
(* lane writes to it (unless the server spills), one write at a time, so a *)
(* byte is as recent as the owner's finished writes (Lanes), and what a    *)
(* read has copied is as recent as those finished when it began (Got).     *)
(***************************************************************************)
EXTENDS IShm, TLAPS

Calls ==
  [kind : {"read", "write"}, start : Nat, size : Nat, count : Nat,
   todo : SUBSET Nat, buf : UNION {[D -> Writes] : D \in SUBSET Nat},
   from : 0 .. MaxWrites, peerDown : BOOLEAN]

Typed ==
  /\ writeCursor \in [Ends -> Nat] /\ readCursor \in [Ends -> Nat]
  /\ \A e \in Ends : /\ writeCursor[e] \in {0, PStart(e)}
                     /\ readCursor[e] \in {0, PStart(Peer(e))}
  /\ mem \in [Bytes -> Writes]
  /\ alive \in [Ends -> BOOLEAN]
  /\ stage \in [Ends -> {"new", "open", "closed"}]
  /\ wrote \in [Ends -> Seq(Sizes)]
  /\ done \in [Ends -> 0 .. MaxWrites] /\ seen \in [Ends -> 0 .. MaxWrites]
  /\ op \in [Ends -> Calls \cup {Idle, Dead}]

\* after the first attachment the cursors are where the lanes begin
Placed ==
  \A e \in Ends : stage[e] # "new" =>
    \A x \in Ends : /\ writeCursor[x] = PStart(x)
                    /\ readCursor[x] = PStart(Peer(x))

\* a call began at the beginning of its lane and copies into its own buffer
InPlace(e) ==
  LET lane == Lane(e, op[e].kind)
  IN  /\ stage[e] = "open"
      /\ op[e].start = PStart(lane)
      /\ op[e].count = IF op[e].size <= Lens(lane) THEN op[e].size
                                                   ELSE Lens(lane)
      /\ op[e].todo \cup DOMAIN op[e].buf \subseteq 0 .. op[e].size - 1
      /\ op[e].from <= done[Peer(e)]

InProgress == \A e \in Ends : InCall(e) => InPlace(e)

\* an end has at most one write that is not finished, its last
Counted ==
  \A e \in Ends :
    /\ done[e] <= Len(wrote[e]) /\ Len(wrote[e]) <= MaxWrites
    /\ op[e].kind \in {"idle", "read"} => Len(wrote[e]) = done[e]
    /\ op[e].kind = "write" => /\ Len(wrote[e]) = done[e] + 1
                               /\ op[e].size = wrote[e][done[e] + 1]

\* byte is from a write of e to position j, none of the first n is later
Fresh(e, j, byte, n) ==
  \/ byte = NoWrite /\ \A k \in 1 .. n : wrote[e][k] <= j
  \/ /\ byte.by = e /\ byte.n \in 1 .. Len(wrote[e]) /\ wrote[e][byte.n] > j
     /\ \A k \in 1 .. n : wrote[e][k] > j => k <= byte.n

\* nobody but e has written to e's lane
Clean(e) == e = "client" => ~Spilled

Lanes ==
  \A e \in Ends : Clean(e) =>
    \A j \in Nat : j < Lens(e) => Fresh(e, j, mem[PStart(e) + j], done[e])

\* what a write has copied so far
Filled ==
  \A e \in Ends : op[e].kind = "write" /\ Clean(e) =>
    \A j \in Nat : j < Lens(e) /\ j < op[e].size /\ j \notin op[e].todo =>
      mem[PStart(e) + j] = [by |-> e, n |-> done[e] + 1]

\* what a read has copied so far
Got ==
  \A e \in Ends : op[e].kind = "read" /\ Clean(Peer(e)) =>
    \A j \in DOMAIN op[e].buf : j < Lens(Peer(e)) =>
      Fresh(Peer(e), j, op[e].buf[j], op[e].from)

IInv == Typed /\ Placed /\ InProgress /\ Counted /\ Lanes /\ Filled /\ Got

-----------------------------------------------------------------------------
(* The lanes: each has at least one byte, and together they fill what lies *)
(* behind the header.                                                      *)
LEMMA Geometry ==
  /\ \A e \in Ends : /\ Lens(e) \in Nat \ {0} /\ PStart(e) \in Nat \ {0}
                     /\ Peer(e) \in Ends /\ Peer(e) # e /\ Peer(Peer(e)) = e
                     /\ \A j \in Nat : j < Lens(e) => PStart(e) + j \in Bytes
  /\ PStart("client") = PStart("server") + Lens("server")
  /\ ShmSize = PStart("client") + Lens("client")
  /\ Lens("server") = server_lens
  /\ Ends = {"server", "client"} /\ ShmSize \in Nat
<1>1. /\ server_lens \in Nat \ {0} /\ client_lens \in Nat \ {0}
      /\ server_lens + client_lens + 24 = ShmSize /\ ShmSize \in Nat
  BY ShmSizeAssumption DEF offSet, server_lens, client_lens
<1> QED BY <1>1 DEF Ends, Peer, Lens, PStart, Bytes, offSet

(* What a call computes when both cursors are where the lane begins: the   *)
(* whole lane remains, nothing wraps, the j-th byte is byte j of the lane. *)
LEMMA FromTheBeginning ==
  ASSUME NEW lane \in Ends, NEW size \in Nat, NEW count \in Nat,
         count = IF size <= Lens(lane) THEN size ELSE Lens(lane)
  PROVE  /\ Remain(lane, PStart(lane), PStart(lane)) = Lens(lane)
         /\ Copied(lane, PStart(lane), count, size) = size
         /\ \A j \in Nat :
              /\ Offset(lane, PStart(lane), count, j) = PStart(lane) + j
              /\ BufIndex(lane, PStart(lane), count, j) = j
<1>1. Lens(lane) \in Nat /\ PStart(lane) \in Nat
  BY Geometry
<1>2. Remain(lane, PStart(lane), PStart(lane)) = Lens(lane)
  BY <1>1 DEF Remain
<1>3. ~Wraps(lane, PStart(lane), count)
  BY <1>1 DEF Wraps
<1> QED BY <1>1, <1>2, <1>3 DEF Copied, Offset, BufIndex

(* The two kinds of call are different from the two other states of an end.*)
LEMMA Kinds ==
  ASSUME Typed, NEW e \in Ends
  PROVE  /\ op[e] \in Calls \cup {Idle, Dead}
         /\ op[e].kind = "idle" => op[e] = Idle
         /\ InCall(e) <=> op[e] \in Calls
         /\ Idle.kind = "idle" /\ Dead.kind = "dead"
         /\ op[e] \in Calls => op[e].kind \in {"read", "write"}
BY DEF Typed, Calls, Idle, Dead, InCall

(* The j-th byte of a call under way.                                      *)
LEMMA BytesInPlace ==
  ASSUME Typed, InProgress, NEW e \in Ends, InCall(e)
  PROVE  /\ Lane(e, op[e].kind) \in Ends
         /\ op[e].todo \subseteq Nat /\ DOMAIN op[e].buf \subseteq Nat
         /\ \A j \in Nat : /\ OffsetIn(e, j) = PStart(Lane(e, op[e].kind)) + j
                           /\ IndexIn(e, j) = j
<1>1. op[e] \in Calls
  BY Kinds
<1>2. /\ Lane(e, op[e].kind) \in Ends /\ op[e].size \in Nat
      /\ op[e].count \in Nat /\ op[e].todo \subseteq Nat
  BY <1>1, Geometry DEF Calls, Lane
<1>3. /\ op[e].start = PStart(Lane(e, op[e].kind))
      /\ op[e].count = IF op[e].size <= Lens(Lane(e, op[e].kind))
                       THEN op[e].size ELSE Lens(Lane(e, op[e].kind))
      /\ DOMAIN op[e].buf \subseteq 0 .. op[e].size - 1
  BY DEF InProgress, InPlace
<1>4. DOMAIN op[e].buf \subseteq Nat
  BY <1>2, <1>3
<1>5. \A j \in Nat : /\ OffsetIn(e, j) = PStart(Lane(e, op[e].kind)) + j
                     /\ IndexIn(e, j) = j
  BY <1>2, <1>3, FromTheBeginning DEF OffsetIn, IndexIn
<1> QED BY <1>2, <1>4, <1>5

-----------------------------------------------------------------------------
(* A segment that is granted, for the first time or again.                 *)
LEMMA InitIInv ==
  ASSUME Init
  PROVE  IInv
<1>1. \A e \in Ends : op[e] = Idle /\ op[e].kind = "idle"
  BY DEF Init, Idle
<1>2. Typed
  <2>1. 0 \in 0 .. MaxWrites
    BY MaxWritesAssumption
  <2>2. wrote \in [Ends -> Seq(Sizes)]
    BY DEF Init
  <2>3. /\ writeCursor \in [Ends -> Nat] /\ readCursor \in [Ends -> Nat]
        /\ \A e \in Ends : /\ writeCursor[e] \in {0, PStart(e)}
                           /\ readCursor[e] \in {0, PStart(Peer(e))}
        /\ alive \in [Ends -> BOOLEAN]
    <3>1. CASE FreshSegment
      BY <3>1 DEF FreshSegment
    <3>2. CASE UsedSegment
      BY <3>2, Geometry DEF UsedSegment
    <3> QED BY <3>1, <3>2 DEF Init
  <2> QED BY <2>1, <2>2, <2>3 DEF Init, Typed, Writes
<1>3. Placed /\ InProgress /\ Filled /\ Got
  BY <1>1 DEF Init, Placed, InProgress, InPlace, Filled, Got, InCall
<1>4. Counted
  BY <1>1, MaxWritesAssumption DEF Init, Counted
<1>5. Lanes
  BY Geometry DEF Init, Lanes, Fresh
<1> QED BY <1>2, <1>3, <1>4, <1>5 DEF IInv

-----------------------------------------------------------------------------
(* Appending to the writes of an end takes nothing back: what was fresh    *)
(* stays fresh.                                                            *)
LEMMA FreshStays ==
  ASSUME Typed, NEW e \in Ends, NEW size \in Sizes,
         wrote' = [wrote EXCEPT ![e] = Append(@, size)],
         NEW x \in Ends, NEW j \in Nat, NEW byte \in Writes,
         NEW n \in 0 .. MaxWrites, n <= Len(wrote[x]), Fresh(x, j, byte, n)
  PROVE  Fresh(x, j, byte, n)'
<1>1. wrote[x] \in Seq(Sizes) /\ wrote[e] \in Seq(Sizes)
  BY DEF Typed
<1>2. /\ Len(wrote[x]) \in Nat /\ Len(wrote'[x]) \in Nat
      /\ Len(wrote[x]) <= Len(wrote'[x])
      /\ \A k \in 1 .. Len(wrote[x]) : wrote'[x][k] = wrote[x][k]
  BY <1>1 DEF Typed
<1>3. \A k \in 1 .. n : wrote'[x][k] = wrote[x][k]
  BY <1>2, MaxWritesAssumption
<1> QED BY <1>2, <1>3 DEF Fresh

(* A lane that nobody has spilled into yet was clean before the write too. *)
LEMMA CleanBefore ==
  ASSUME Typed, NEW e \in Ends, NEW size \in Sizes,
         wrote' = [wrote EXCEPT ![e] = Append(@, size)],
         NEW x \in Ends, Clean(x)'
  PROVE  Clean(x)
<1>1. "server" \in Ends /\ wrote["server"] \in Seq(Sizes) /\ wrote[e] \in Seq(Sizes)
  BY DEF Typed, Ends
<1>2. /\ DOMAIN wrote["server"] \subseteq DOMAIN wrote'["server"]
      /\ \A k \in DOMAIN wrote["server"] :
            wrote'["server"][k] = wrote["server"][k]
  BY <1>1 DEF Typed
<1> QED BY <1>2 DEF Clean, Spilled

(* The first end to attach sets the cursors, the second sets them again.   *)
LEMMA AttachKeeps ==
  ASSUME IInv, NEW e \in Ends, Attach(e)
  PROVE  IInv'
<1>1. /\ UNCHANGED <<mem, op, wrote, done, seen>>
      /\ writeCursor' = [x \in Ends |-> PStart(x)]
      /\ readCursor' = [x \in Ends |-> PStart(Peer(x))]
      /\ alive' = [alive EXCEPT ![e] = TRUE]
      /\ stage' = [stage EXCEPT ![e] = "open"] /\ stage[e] = "new"
  BY DEF Attach, history
<1>2. Typed'
  BY <1>1, Geometry DEF IInv, Typed
<1>3. Placed'
  BY <1>1 DEF Placed
<1>4. InProgress'
  BY <1>1 DEF IInv, Typed, InProgress, InPlace, InCall
<1>5. Counted' /\ Lanes' /\ Filled' /\ Got'
  BY <1>1 DEF IInv, Counted, Lanes, Filled, Got, Fresh, Clean, Spilled
<1> QED BY <1>2, <1>3, <1>4, <1>5 DEF IInv

(* Closing lowers a flag and ends nothing that is under way.              *)
LEMMA CloseKeeps ==
  ASSUME IInv, NEW e \in Ends, Close(e)
  PROVE  IInv'
<1>1. /\ UNCHANGED <<writeCursor, readCursor, mem, op, wrote, done, seen>>
      /\ alive' = [alive EXCEPT ![e] = FALSE]
      /\ stage' = [stage EXCEPT ![e] = "closed"]
      /\ stage[e] = "open" /\ op[e].kind = "idle"
  BY DEF Close, history, Idle
<1>2. Typed'
  BY <1>1 DEF IInv, Typed
<1>3. Placed'
  BY <1>1 DEF IInv, Typed, Placed
<1>4. InProgress'
  BY <1>1 DEF IInv, Typed, InProgress, InPlace, InCall
<1>5. Counted' /\ Lanes' /\ Filled' /\ Got'
  BY <1>1 DEF IInv, Counted, Lanes, Filled, Got, Fresh, Clean, Spilled
<1> QED BY <1>2, <1>3, <1>4, <1>5 DEF IInv

\* the record of a call that has just begun
NewCall(e, kind, size) ==
  [kind |-> kind, start |-> PStart(Lane(e, kind)), size |-> size,
   count |-> IF size <= Lens(Lane(e, kind)) THEN size ELSE Lens(Lane(e, kind)),
   todo |-> 0 .. size - 1, buf |-> [j \in {} |-> NoWrite],
   from |-> done[Peer(e)], peerDown |-> stage[Peer(e)] = "closed"]

(* A call of either kind begins at the beginning of its lane.              *)
LEMMA BeginAtTheBeginning ==
  ASSUME IInv, NEW e \in Ends, NEW kind \in {"read", "write"},
         NEW size \in Sizes, Begin(e, kind, size)
  PROVE  /\ op' = [op EXCEPT ![e] = NewCall(e, kind, size)]
         /\ \A x \in Ends : op'[x] = IF x = e THEN NewCall(e, kind, size)
                                             ELSE op[x]
         /\ NewCall(e, kind, size) \in Calls
         /\ InProgress'
<1> DEFINE lane == Lane(e, kind)
           count == IF size <= Lens(lane) THEN size ELSE Lens(lane)
<1>1. /\ lane \in Ends /\ size \in Nat /\ Lens(lane) \in Nat /\ count \in Nat
      /\ PStart(lane) \in Nat /\ Peer(e) \in Ends /\ Peer(Peer(e)) = e
  BY Geometry, SizesAssumption DEF Lane
<1>2. stage[e] = "open"
  BY DEF Begin
<1>3. Start(e, kind) = PStart(lane) /\ End(e, kind) = PStart(lane)
  BY <1>1, <1>2 DEF IInv, Placed, Start, End, Lane
<1>4. /\ Remain(lane, PStart(lane), PStart(lane)) = Lens(lane)
      /\ Copied(lane, PStart(lane), count, size) = size
  BY <1>1, FromTheBeginning
<1>5. (IF Lens(lane) < size THEN Lens(lane) ELSE size) = count
  BY <1>1
<1>6. op' = [op EXCEPT ![e] = NewCall(e, kind, size)]
  <2> HIDE DEF count
  <2>1. op' = [op EXCEPT ![e] =
           [kind |-> kind, start |-> PStart(lane), size |-> size, count |-> count,
            todo |-> 0 .. size - 1, buf |-> [j \in {} |-> NoWrite],
            from |-> done[Peer(e)], peerDown |-> stage[Peer(e)] = "closed"]]
    BY <1>3, <1>4, <1>5 DEF Begin
  <2> QED BY <2>1 DEF count, NewCall
<1>7. \A x \in Ends : op'[x] = IF x = e THEN NewCall(e, kind, size) ELSE op[x]
  BY <1>6 DEF IInv, Typed
<1>8. NewCall(e, kind, size) \in Calls
  <2>1. [j \in {} |-> NoWrite] \in UNION {[D -> Writes] : D \in SUBSET Nat}
    <3>1. [j \in {} |-> NoWrite] \in [{} -> Writes] /\ {} \in SUBSET Nat
      OBVIOUS
    <3> QED BY <3>1
  <2>2. 0 .. size - 1 \in SUBSET Nat
    BY <1>1
  <2>3. done[Peer(e)] \in 0 .. MaxWrites
    BY <1>1 DEF IInv, Typed
  <2>4. NewCall(e, kind, size).count = count
    BY DEF NewCall
  <2> QED BY <1>1, <2>1, <2>2, <2>3, <2>4 DEF Calls, NewCall
<1>9. InProgress'
  <2> SUFFICES ASSUME NEW x \in Ends, InCall(x)' PROVE InPlace(x)'
    BY DEF InProgress
  <2>1. stage' = stage /\ done' = done
    BY DEF Begin
  <2>2. CASE x = e
    <3>1. op'[x] = NewCall(e, kind, size)
      BY <1>7, <2>2
    <3>2. done[Peer(e)] <= done[Peer(e)]
      BY <1>1 DEF IInv, Typed
    <3>3. op'[x].kind = kind /\ DOMAIN op'[x].buf = {}
      BY <3>1 DEF NewCall
    <3>4. /\ op'[x].start = PStart(lane) /\ op'[x].size = size
          /\ op'[x].count = count /\ op'[x].todo = 0 .. size - 1
          /\ op'[x].from = done[Peer(e)]
      BY <3>1 DEF NewCall
    <3> QED BY <1>2, <2>1, <2>2, <3>2, <3>3, <3>4 DEF InPlace
  <2>3. CASE x # e
    <3>1. op'[x] = op[x]
      BY <1>7, <2>3
    <3> QED BY <2>1, <2>3, <3>1 DEF IInv, InProgress, InPlace, InCall
  <2> QED BY <2>2, <2>3
<1> QED BY <1>6, <1>7, <1>8, <1>9

(* A read that begins has copied nothing.                                  *)
LEMMA BeginReadKeeps ==
  ASSUME IInv, NEW e \in Ends, NEW size \in Sizes, BeginRead(e, size)
  PROVE  IInv'
<1>1. /\ UNCHANGED <<writeCursor, readCursor, mem, alive, stage, wrote, done, seen>>
      /\ stage[e] = "open" /\ op[e].kind = "idle"
  BY DEF BeginRead, Begin, shared, Idle
<1>2. /\ op' = [op EXCEPT ![e] = NewCall(e, "read", size)]
      /\ \A x \in Ends : op'[x] = IF x = e THEN NewCall(e, "read", size) ELSE op[x]
      /\ NewCall(e, "read", size) \in Calls
      /\ InProgress'
  BY BeginAtTheBeginning DEF BeginRead
<1>3. Typed'
  BY <1>1, <1>2 DEF IInv, Typed
<1>4. Placed'
  BY <1>1 DEF IInv, Placed
<1>5. Counted'
  BY <1>1, <1>2 DEF IInv, Counted, NewCall
<1>6. Lanes'
  BY <1>1 DEF IInv, Lanes, Fresh, Clean, Spilled
<1>7. Filled'
  BY <1>1, <1>2 DEF IInv, Filled, Clean, Spilled, NewCall
<1>8. Got'
  BY <1>1, <1>2 DEF IInv, Got, Fresh, Clean, Spilled, NewCall
<1> QED BY <1>2, <1>3, <1>4, <1>5, <1>6, <1>7, <1>8 DEF IInv

(* Nothing of a new write is in the lane yet, and it is its owner's only   *)
(* unfinished one.                                                         *)
LEMMA BeginWriteKeeps ==
  ASSUME IInv, NEW e \in Ends, NEW size \in Sizes, BeginWrite(e, size)
  PROVE  IInv'
<1>1. /\ UNCHANGED <<writeCursor, readCursor, mem, alive, stage, done, seen>>
      /\ stage[e] = "open" /\ op[e].kind = "idle"
      /\ Len(wrote[e]) < MaxWrites
      /\ wrote' = [wrote EXCEPT ![e] = Append(@, size)]
  BY DEF BeginWrite, Begin, shared, Idle
<1>2. /\ op' = [op EXCEPT ![e] = NewCall(e, "write", size)]
      /\ \A x \in Ends : op'[x] = IF x = e THEN NewCall(e, "write", size) ELSE op[x]
      /\ NewCall(e, "write", size) \in Calls
      /\ InProgress'
  BY BeginAtTheBeginning DEF BeginWrite
<1>3. size \in Nat
  BY SizesAssumption
<1>4. Typed'
  <2>1. wrote' \in [Ends -> Seq(Sizes)]
    BY <1>1 DEF IInv, Typed
  <2> QED BY <1>1, <1>2, <2>1 DEF IInv, Typed
<1>5. Placed'
  BY <1>1 DEF IInv, Placed
<1>6. Counted'
  <2>1. \A x \in Ends : x # e => op'[x] = op[x] /\ wrote'[x] = wrote[x]
    BY <1>1, <1>2 DEF IInv, Typed
  <2>2. /\ Len(wrote'[e]) = Len(wrote[e]) + 1
        /\ wrote'[e][Len(wrote[e]) + 1] = size
    BY <1>1 DEF IInv, Typed
  <2>3. Len(wrote[e]) = done[e] /\ done[e] \in Nat /\ MaxWrites \in Nat
    BY <1>1, MaxWritesAssumption DEF IInv, Typed, Counted
  <2>4. op'[e].kind = "write" /\ op'[e].size = size
    BY <1>2 DEF NewCall
  <2> QED BY <1>1, <2>1, <2>2, <2>3, <2>4 DEF IInv, Counted
<1>7. Lanes'
  <2> SUFFICES ASSUME NEW x \in Ends, Clean(x)', NEW j \in Nat, j < Lens(x)
               PROVE  Fresh(x, j, mem[PStart(x) + j], done[x])'
    BY DEF Lanes
  <2>1. Clean(x)
    BY <1>1, CleanBefore DEF IInv
  <2>2. mem[PStart(x) + j] \in Writes
    BY Geometry DEF IInv, Typed
  <2>3. done[x] \in 0 .. MaxWrites /\ done[x] <= Len(wrote[x])
    BY DEF IInv, Typed, Counted
  <2>4. Fresh(x, j, mem[PStart(x) + j], done[x])
    BY <2>1 DEF IInv, Lanes
  <2>5. \A byte \in Writes, n \in 0 .. MaxWrites :
          n <= Len(wrote[x]) /\ Fresh(x, j, byte, n) => Fresh(x, j, byte, n)'
    BY <1>1, FreshStays DEF IInv
  <2> QED BY <1>1, <2>2, <2>3, <2>4, <2>5 DEF Fresh
<1>8. Filled'
  <2> SUFFICES ASSUME NEW x \in Ends, op'[x].kind = "write", Clean(x)',
                      NEW j \in Nat, j < Lens(x), j < op'[x].size,
                      j \notin op'[x].todo
               PROVE  mem'[PStart(x) + j] = [by |-> x, n |-> done'[x] + 1]
    BY DEF Filled
  <2>1. CASE x = e
    <3>1. op'[x].size \in Nat /\ op'[x].todo = 0 .. op'[x].size - 1
      BY <1>2, <1>3, <2>1 DEF NewCall
    <3> QED BY <3>1
  <2>2. CASE x # e
    <3>1. Clean(x)
      BY <1>1, CleanBefore DEF IInv
    <3> QED BY <1>1, <1>2, <2>2, <3>1 DEF IInv, Filled
  <2> QED BY <2>1, <2>2
<1>9. Got'
  <2> SUFFICES ASSUME NEW x \in Ends, op'[x].kind = "read", Clean(Peer(x))',
                      NEW j \in DOMAIN op'[x].buf, j < Lens(Peer(x))
               PROVE  Fresh(Peer(x), j, op[x].buf[j], op[x].from)'
    BY DEF Got
  <2>1. x # e /\ op'[x] = op[x]
    BY <1>2 DEF NewCall
  <2>2. Clean(Peer(x)) /\ Peer(x) \in Ends
    BY <1>1, CleanBefore, Geometry DEF IInv
  <2>3. InCall(x) /\ op[x] \in Calls
    BY <2>1, Kinds DEF IInv, InCall
  <2>4. j \in Nat /\ op[x].from <= done[Peer(x)]
    BY <2>1, <2>3, BytesInPlace DEF IInv, InProgress, InPlace
  <2>5. op[x].buf[j] \in Writes /\ op[x].from \in 0 .. MaxWrites
    <3>1. PICK D \in SUBSET Nat : op[x].buf \in [D -> Writes]
      BY <2>3 DEF Calls
    <3> QED BY <2>1, <2>3, <3>1 DEF Calls
  <2>6. op[x].from <= Len(wrote[Peer(x)])
    <3>1. /\ op[x].from \in Nat /\ done[Peer(x)] \in Nat
          /\ Len(wrote[Peer(x)]) \in Nat
      BY <2>2, <2>5, MaxWritesAssumption DEF IInv, Typed
    <3> QED BY <2>2, <2>4, <3>1 DEF IInv, Counted
  <2>7. Fresh(Peer(x), j, op[x].buf[j], op[x].from)
    BY <2>1, <2>2 DEF IInv, Got
  <2>8. \A byte \in Writes, n \in 0 .. MaxWrites :
          n <= Len(wrote[Peer(x)]) /\ Fresh(Peer(x), j, byte, n)
            => Fresh(Peer(x), j, byte, n)'
    BY <1>1, <2>2, <2>4, FreshStays DEF IInv
  <2> QED BY <2>1, <2>5, <2>6, <2>7, <2>8 DEF Fresh
<1> QED BY <1>2, <1>4, <1>5, <1>6, <1>7, <1>8, <1>9 DEF IInv

(* A byte of a write is newer than every finished write of its owner, and  *)
(* it lies in the owner's lane unless the server has spilled.              *)
LEMMA WriteByteKeeps ==
  ASSUME IInv, NEW e \in Ends, WriteByte(e)
  PROVE  IInv'
<1>1. /\ UNCHANGED <<writeCursor, readCursor, alive, stage, wrote, done, seen>>
      /\ op[e].kind = "write" /\ InCall(e)
  BY DEF WriteByte, history, InCall
<1>2. PICK j \in op[e].todo :
        /\ OffsetIn(e, j) < ShmSize
        /\ mem' = [mem EXCEPT ![OffsetIn(e, j)] = [by |-> e, n |-> Len(wrote[e])]]
        /\ op' = [op EXCEPT ![e].todo = @ \ {j}]
  BY DEF WriteByte
<1>3. op[e] \in Calls
  BY <1>1, Kinds DEF IInv
<1>4. /\ j \in Nat /\ Lane(e, op[e].kind) = e
      /\ OffsetIn(e, j) = PStart(e) + j
  BY <1>1, BytesInPlace DEF IInv, Lane
<1>5. /\ done[e] \in Nat /\ Len(wrote[e]) = done[e] + 1
      /\ done[e] + 1 \in 1 .. MaxWrites
      /\ op[e].size = wrote[e][done[e] + 1]
  BY <1>1, MaxWritesAssumption DEF IInv, Typed, Counted
<1>6. j < op[e].size
  BY <1>1, <1>3 DEF IInv, InProgress, InPlace, Calls
<1>7. /\ op'[e] = [op[e] EXCEPT !.todo = op[e].todo \ {j}]
      /\ \A x \in Ends : x # e => op'[x] = op[x]
      /\ op' \in [Ends -> Calls \cup {Idle, Dead}]
  <2>1. [op[e] EXCEPT !.todo = op[e].todo \ {j}] \in Calls
    BY <1>3 DEF Calls
  <2> QED BY <1>2, <2>1 DEF IInv, Typed
<1>8. /\ op'[e].kind = "write" /\ op'[e].start = op[e].start
      /\ op'[e].size = op[e].size /\ op'[e].count = op[e].count
      /\ op'[e].todo = op[e].todo \ {j} /\ op'[e].buf = op[e].buf
      /\ op'[e].from = op[e].from
  BY <1>1, <1>3, <1>7 DEF Calls
<1>9. Typed'
  <2>1. [by |-> e, n |-> Len(wrote[e])] \in Writes
    BY <1>5 DEF Writes
  <2>2. mem' \in [Bytes -> Writes]
    BY <1>2, <2>1 DEF IInv, Typed
  <2> QED BY <1>1, <1>7, <2>2 DEF IInv, Typed
<1>10. Placed'
  BY <1>1 DEF IInv, Placed
<1>11. InProgress'
  <2> SUFFICES ASSUME NEW x \in Ends, InCall(x)' PROVE InPlace(x)'
    BY DEF InProgress
  <2>1. CASE x = e
    BY <1>1, <1>8, <2>1 DEF IInv, InProgress, InPlace
  <2>2. CASE x # e
    BY <1>1, <1>7, <2>2 DEF IInv, InProgress, InPlace, InCall
  <2> QED BY <2>1, <2>2
<1>12. Counted'
  BY <1>1, <1>7, <1>8 DEF IInv, Counted
<1>13. \A x \in Ends : Clean(x)' = Clean(x)
  BY <1>1 DEF Clean, Spilled
\* no other clean lane has this byte
<1>14. ASSUME NEW x \in Ends, Clean(x), NEW k \in Nat, k < Lens(x)
       PROVE  mem'[PStart(x) + k] =
                IF x = e /\ k = j THEN [by |-> e, n |-> done[e] + 1]
                                  ELSE mem[PStart(x) + k]
  <2>1. /\ PStart(x) + k \in Bytes
        /\ mem' = [mem EXCEPT ![PStart(e) + j] = [by |-> e, n |-> done[e] + 1]]
        /\ mem \in [Bytes -> Writes] /\ PStart(x) \in Nat /\ PStart(e) \in Nat
        /\ Lens(e) \in Nat /\ Lens(x) \in Nat
    BY <1>2, <1>4, <1>5, <1>14, Geometry DEF IInv, Typed
  <2>2. CASE x = e
    <3>1. PStart(x) + k = PStart(e) + j <=> k = j
      BY <1>4, <2>1, <2>2
    <3> QED BY <2>1, <2>2, <3>1
  <2>3. CASE x # e /\ e = "client"
    <3>1. PStart(x) + k # PStart(e) + j
      BY <1>4, <1>14, <2>1, <2>3, Geometry DEF Ends
    <3> QED BY <2>1, <2>3, <3>1
  <2>4. CASE x # e /\ e = "server"
    <3>1. x = "client" /\ ~Spilled
      BY <1>14, <2>4, Geometry DEF Clean
    <3>2. done[e] + 1 \in DOMAIN wrote[e] /\ op[e].size \in Nat
      <4>1. wrote[e] \in Seq(Sizes)
        BY DEF IInv, Typed
      <4> QED BY <1>3, <1>5, <4>1 DEF Calls
    <3>3. ~(op[e].size > Lens("server"))
      BY <1>5, <2>4, <3>1, <3>2, Geometry DEF Spilled
    <3>4. PStart(x) + k # PStart(e) + j
      BY <1>4, <1>6, <2>1, <2>4, <3>1, <3>2, <3>3, Geometry
    <3> QED BY <2>1, <2>4, <3>4
  <2> QED BY <2>2, <2>3, <2>4 DEF Ends
<1>15. Lanes'
  <2> SUFFICES ASSUME NEW x \in Ends, Clean(x), NEW k \in Nat, k < Lens(x)
               PROVE  Fresh(x, k, mem[PStart(x) + k], done[x])'
    BY <1>13 DEF Lanes, Lens, PStart
  <2>1. CASE x = e /\ k = j
    <3>1. mem'[PStart(x) + k] = [by |-> e, n |-> done[e] + 1]
      BY <1>14, <2>1
    <3>2. \A i \in 1 .. done[e] : i <= done[e] + 1
      BY <1>5
    <3> QED BY <1>1, <1>5, <1>6, <2>1, <3>1, <3>2 DEF Fresh
  <2>2. CASE ~(x = e /\ k = j)
    <3>1. mem'[PStart(x) + k] = mem[PStart(x) + k]
      BY <1>14, <2>2
    <3>2. Fresh(x, k, mem[PStart(x) + k], done[x])
      BY DEF IInv, Lanes
    <3> QED BY <1>1, <3>1, <3>2 DEF Fresh
  <2> QED BY <2>1, <2>2
<1>16. Filled'
  <2> SUFFICES ASSUME NEW x \in Ends, op'[x].kind = "write", Clean(x),
                      NEW k \in Nat, k < Lens(x), k < op'[x].size,
                      k \notin op'[x].todo
               PROVE  mem'[PStart(x) + k] = [by |-> x, n |-> done[x] + 1]
    BY <1>1, <1>13 DEF Filled, Lens, PStart
  <2>1. CASE x = e
    BY <1>1, <1>8, <1>14, <2>1 DEF IInv, Filled
  <2>2. CASE x # e
    BY <1>7, <1>14, <2>2 DEF IInv, Filled
  <2> QED BY <2>1, <2>2
<1>17. Got'
  <2> SUFFICES ASSUME NEW x \in Ends, op'[x].kind = "read", Clean(Peer(x)),
                      NEW k \in DOMAIN op'[x].buf, k < Lens(Peer(x))
               PROVE  Fresh(Peer(x), k, op'[x].buf[k], op'[x].from)
    BY <1>1 DEF Got, Fresh, Clean, Spilled, Lens, Peer
  <2>1. x # e /\ op'[x] = op[x]
    BY <1>7, <1>8
  <2> QED BY <2>1 DEF IInv, Got
<1> QED BY <1>9, <1>10, <1>11, <1>12, <1>15, <1>16, <1>17 DEF IInv

(* A byte that is read is as recent as the lane is now, which is at least  *)
(* as recent as what was finished when the read began.                     *)
LEMMA ReadByteKeeps ==
  ASSUME IInv, NEW e \in Ends, ReadByte(e)
  PROVE  IInv'
<1> DEFINE p == Peer(e)
<1>1. /\ UNCHANGED <<writeCursor, readCursor, mem, alive, stage, wrote, done, seen>>
      /\ op[e].kind = "read" /\ InCall(e)
  BY DEF ReadByte, history, shared, InCall
<1>2. PICK j \in op[e].todo :
        /\ OffsetIn(e, j) < ShmSize
        /\ op' = [op EXCEPT ![e].todo = @ \ {j},
                            ![e].buf = [i \in DOMAIN @ \cup {IndexIn(e, j)} |->
                              IF i = IndexIn(e, j) THEN mem[OffsetIn(e, j)]
                                                   ELSE @[i]]]
  BY DEF ReadByte
<1>3. op[e] \in Calls
  BY <1>1, Kinds DEF IInv
<1>4. /\ j \in Nat /\ Lane(e, op[e].kind) = p /\ p \in Ends
      /\ OffsetIn(e, j) = PStart(p) + j /\ IndexIn(e, j) = j
  BY <1>1, BytesInPlace, Geometry DEF IInv, Lane
<1> DEFINE newBuf == [i \in DOMAIN op[e].buf \cup {j} |->
                        IF i = j THEN mem[PStart(p) + j] ELSE op[e].buf[i]]
<1>5. PStart(p) + j \in Bytes
  BY <1>2, <1>4, Geometry DEF Bytes, offSet, PStart
<1>6. PICK D \in SUBSET Nat : op[e].buf \in [D -> Writes]
  BY <1>3 DEF Calls
<1>7. newBuf \in [D \cup {j} -> Writes] /\ D \cup {j} \in SUBSET Nat
  BY <1>4, <1>5, <1>6 DEF IInv, Typed
<1>8. /\ op'[e] = [op[e] EXCEPT !.todo = op[e].todo \ {j}, !.buf = newBuf]
      /\ \A x \in Ends : x # e => op'[x] = op[x]
      /\ op' \in [Ends -> Calls \cup {Idle, Dead}]
  <2>1. [op[e] EXCEPT !.todo = op[e].todo \ {j}, !.buf = newBuf] \in Calls
    <3> HIDE DEF newBuf
    <3>1. newBuf \in UNION {[S -> Writes] : S \in SUBSET Nat}
      BY <1>7
    <3> QED BY <1>3, <3>1 DEF Calls
  <2>2. op' = [op EXCEPT ![e] =
                 [op[e] EXCEPT !.todo = op[e].todo \ {j}, !.buf = newBuf]]
    BY <1>2, <1>3, <1>4 DEF Calls, IInv, Typed
  <2> HIDE DEF newBuf
  <2> QED BY <2>1, <2>2 DEF IInv, Typed
<1>9. /\ op'[e].kind = "read" /\ op'[e].start = op[e].start
      /\ op'[e].size = op[e].size /\ op'[e].count = op[e].count
      /\ op'[e].todo = op[e].todo \ {j} /\ op'[e].buf = newBuf
      /\ op'[e].from = op[e].from
  <2> HIDE DEF newBuf
  <2> QED BY <1>1, <1>3, <1>8 DEF Calls
<1>10. Typed'
  BY <1>1, <1>8 DEF IInv, Typed
<1>11. Placed'
  BY <1>1 DEF IInv, Placed
<1>12. InProgress'
  <2> SUFFICES ASSUME NEW x \in Ends, InCall(x)' PROVE InPlace(x)'
    BY DEF InProgress
  <2>1. CASE x = e
    <3>1. DOMAIN newBuf = DOMAIN op[e].buf \cup {j}
      OBVIOUS
    <3> HIDE DEF newBuf
    <3> QED BY <1>1, <1>9, <2>1, <3>1 DEF IInv, InProgress, InPlace
  <2>2. CASE x # e
    BY <1>1, <1>8, <2>2 DEF IInv, InProgress, InPlace, InCall
  <2> QED BY <2>1, <2>2
<1>13. Counted'
  <2>1. op'[e].kind = "read" /\ op[e].kind = "read"
    BY <1>1, <1>9
  <2> QED BY <1>1, <1>8, <2>1 DEF IInv, Counted
<1>14. Lanes' /\ Filled'
  <2>1. \A x \in Ends : op'[x].kind = "write" => x # e /\ op'[x] = op[x]
    BY <1>8, <1>9
  <2> QED BY <1>1, <2>1 DEF IInv, Lanes, Filled, Fresh, Clean, Spilled
<1>15. Got'
  <2> SUFFICES ASSUME NEW x \in Ends, op'[x].kind = "read", Clean(Peer(x)),
                      NEW k \in DOMAIN op'[x].buf, k < Lens(Peer(x))
               PROVE  Fresh(Peer(x), k, op'[x].buf[k], op'[x].from)
    BY <1>1 DEF Got, Fresh, Clean, Spilled, Lens, Peer
  <2>1. CASE x # e
    BY <1>8, <2>1 DEF IInv, Got
  <2>2. CASE x = e /\ k # j
    <3>1. k \in DOMAIN op[e].buf /\ op'[x].buf[k] = op[e].buf[k]
      BY <1>9, <2>2
    <3> QED BY <1>1, <1>9, <2>2, <3>1 DEF IInv, Got
  <2>3. CASE x = e /\ k = j
    <3>1. op'[x].buf[k] = mem[PStart(p) + j] /\ op'[x].from = op[e].from
      BY <1>9, <2>3
    <3>2. Fresh(p, j, mem[PStart(p) + j], done[p])
      BY <1>4, <2>3 DEF IInv, Lanes
    <3>3. op[e].from <= done[p] /\ op[e].from \in Nat /\ done[p] \in Nat
      BY <1>1, <1>3, <1>4, MaxWritesAssumption DEF IInv, InProgress, InPlace, Calls, Typed
    <3>4. \A i \in 1 .. op[e].from : i \in 1 .. done[p]
      BY <3>3
    <3> QED BY <2>3, <3>1, <3>2, <3>4 DEF Fresh
  <2> QED BY <2>1, <2>2, <2>3
<1> QED BY <1>10, <1>11, <1>12, <1>13, <1>14, <1>15 DEF IInv

(* An end that has run off the mapping does nothing more.                  *)
LEMMA FaultKeeps ==
  ASSUME IInv, NEW e \in Ends, Fault(e)
  PROVE  IInv'
<1>1. /\ UNCHANGED <<writeCursor, readCursor, mem, alive, stage, wrote, done, seen>>
      /\ op' = [op EXCEPT ![e] = Dead]
  BY DEF Fault, history, shared
<1>2. /\ op'[e].kind = "dead"
      /\ \A x \in Ends : x # e => op'[x] = op[x]
  BY <1>1 DEF Dead, IInv, Typed
<1>3. Typed'
  BY <1>1 DEF IInv, Typed
<1>4. Placed' /\ Lanes'
  BY <1>1 DEF IInv, Placed, Lanes, Fresh, Clean, Spilled
<1>5. InProgress' /\ Counted'
  BY <1>1, <1>2 DEF IInv, InProgress, InPlace, InCall, Counted
<1>6. Filled' /\ Got'
  BY <1>1, <1>2 DEF IInv, Filled, Got, Fresh, Clean, Spilled
<1> QED BY <1>3, <1>4, <1>5, <1>6 DEF IInv

(* The end of a call: the cursor goes back to where it was.  A write whose *)
(* bytes are all in place counts from now on.                              *)
LEMMA FinishKeeps ==
  ASSUME IInv, NEW e \in Ends, Finish(e)
  PROVE  IInv'
<1>1. /\ UNCHANGED <<mem, alive, stage, wrote>>
      /\ op' = [op EXCEPT ![e] = Idle] /\ op[e].todo = {} /\ InCall(e)
  BY DEF Finish
<1>2. op[e] \in Calls
  BY <1>1, Kinds DEF IInv
<1>3. /\ op'[e].kind = "idle"
      /\ \A x \in Ends : x # e => op'[x] = op[x]
  BY <1>1 DEF Idle, IInv, Typed
<1>4. UNCHANGED <<writeCursor, readCursor>>
  <2>1. stage[e] = "open" /\ op[e].start = PStart(Lane(e, op[e].kind))
    BY <1>1 DEF IInv, InProgress, InPlace
  <2>2. writeCursor[e] = PStart(e) /\ readCursor[e] = PStart(Peer(e))
    BY <2>1 DEF IInv, Placed
  <2>3. StoreCursor(e)
    BY DEF Finish
  <2>4. CASE op[e].kind = "write"
    BY <2>1, <2>2, <2>3, <2>4 DEF StoreCursor, Lane, IInv, Typed
  <2>5. CASE op[e].kind # "write"
    BY <2>1, <2>2, <2>3, <2>5 DEF StoreCursor, Lane, IInv, Typed
  <2> QED BY <2>4, <2>5
<1>5. /\ \A x \in Ends : done'[x] = IF x = e /\ op[e].kind = "write"
                                     THEN done[x] + 1 ELSE done[x]
      /\ done' \in [Ends -> 0 .. MaxWrites] /\ seen' \in [Ends -> 0 .. MaxWrites]
  <2>1. CASE op[e].kind = "write"
    <3>1. done' = [done EXCEPT ![e] = @ + 1] /\ seen' = seen
      BY <2>1 DEF Finish
    <3>2. done[e] + 1 \in 0 .. MaxWrites
      BY <2>1, MaxWritesAssumption DEF IInv, Typed, Counted
    <3> QED BY <2>1, <3>1, <3>2 DEF IInv, Typed
  <2>2. CASE op[e].kind # "write"
    <3>1. done' = done /\ seen' = [seen EXCEPT ![e] = op[e].from]
      BY <2>2 DEF Finish
    <3> QED BY <1>2, <2>2, <3>1 DEF IInv, Typed, Calls
  <2> QED BY <2>1, <2>2
<1>6. Typed'
  BY <1>1, <1>4, <1>5 DEF IInv, Typed
<1>7. Placed'
  BY <1>1, <1>4 DEF IInv, Placed
<1>8. InProgress'
  <2> SUFFICES ASSUME NEW x \in Ends, InCall(x)' PROVE InPlace(x)'
    BY DEF InProgress
  <2>1. x # e /\ op'[x] = op[x] /\ op[x] \in Calls
    BY <1>3, Kinds DEF IInv, InCall
  <2>2. op[x].from <= done'[Peer(x)]
    <3>1. /\ op[x].from <= done[Peer(x)] /\ Peer(x) \in Ends
          /\ op[x].from \in Nat /\ done[Peer(x)] \in Nat
      <4>1. op[x].from <= done[Peer(x)] /\ Peer(x) \in Ends
        BY <2>1, Geometry DEF IInv, InProgress, InPlace, InCall
      <4>2. op[x].from \in 0 .. MaxWrites /\ done[Peer(x)] \in 0 .. MaxWrites
        BY <2>1, <4>1 DEF IInv, Typed, Calls
      <4> QED BY <4>1, <4>2, MaxWritesAssumption
    <3> QED BY <1>5, <3>1
  <2> QED BY <1>1, <2>1, <2>2 DEF IInv, InProgress, InPlace, InCall
<1>9. Counted'
  <2> SUFFICES ASSUME NEW x \in Ends
               PROVE  /\ done'[x] <= Len(wrote[x]) /\ Len(wrote[x]) <= MaxWrites
                      /\ op'[x].kind \in {"idle", "read"} => Len(wrote[x]) = done'[x]
                      /\ op'[x].kind = "write" =>
                           /\ Len(wrote[x]) = done'[x] + 1
                           /\ op'[x].size = wrote[x][done'[x] + 1]
    BY <1>1 DEF Counted
  <2>1. CASE x # e
    BY <1>3, <1>5, <2>1 DEF IInv, Counted
  <2>2. CASE x = e /\ op[e].kind = "write"
    BY <1>3, <1>5, <2>2 DEF IInv, Counted, Typed
  <2>3. CASE x = e /\ op[e].kind # "write"
    <3>1. op[e].kind = "read"
      BY <1>2, <2>3 DEF Calls
    <3> QED BY <1>3, <1>5, <2>3, <3>1 DEF IInv, Counted
  <2> QED BY <2>1, <2>2, <2>3
<1>10. \A x \in Ends : Clean(x)' = Clean(x)
  BY <1>1 DEF Clean, Spilled
<1>11. Lanes'
  <2> SUFFICES ASSUME NEW x \in Ends, Clean(x), NEW k \in Nat, k < Lens(x)
               PROVE  Fresh(x, k, mem[PStart(x) + k], done'[x])
    BY <1>1, <1>10 DEF Lanes, Lens, PStart, Fresh
  <2>1. Fresh(x, k, mem[PStart(x) + k], done[x])
    BY DEF IInv, Lanes
  <2>2. CASE ~(x = e /\ op[e].kind = "write")
    BY <1>5, <2>1, <2>2
  <2>3. CASE x = e /\ op[e].kind = "write"
    <3>1. /\ done'[x] = done[x] + 1 /\ done[x] \in Nat
          /\ Len(wrote[x]) = done[x] + 1
          /\ op[x].size = wrote[x][done[x] + 1] /\ op[x].size \in Nat
      BY <1>2, <1>5, <2>3, MaxWritesAssumption DEF IInv, Typed, Counted, Calls
    <3>2. CASE k < op[x].size
      <4>1. mem[PStart(x) + k] = [by |-> x, n |-> done[x] + 1]
        BY <1>1, <2>3, <3>2 DEF IInv, Filled
      <4>2. \A i \in 1 .. done[x] + 1 : i <= done[x] + 1
        BY <3>1
      <4> QED BY <3>1, <3>2, <4>1, <4>2 DEF Fresh
    <3>3. CASE ~(k < op[x].size)
      <4>1. wrote[x][done[x] + 1] <= k
        BY <3>1, <3>3
      <4>2. \A i \in 1 .. done[x] + 1 : i \in 1 .. done[x] \/ i = done[x] + 1
        BY <3>1
      <4>3. ~(wrote[x][done[x] + 1] > k)
        BY <3>1, <3>3
      <4> QED BY <2>1, <3>1, <4>1, <4>2, <4>3 DEF Fresh
    <3> QED BY <3>2, <3>3
  <2> QED BY <2>2, <2>3
<1>12. Filled'
  <2>1. \A x \in Ends : op'[x].kind = "write" =>
           x # e /\ op'[x] = op[x] /\ done'[x] = done[x]
    BY <1>3, <1>5
  <2> QED BY <1>1, <1>10, <2>1 DEF IInv, Filled, Lens, PStart
<1>13. Got'
  <2> SUFFICES ASSUME NEW x \in Ends, op'[x].kind = "read", Clean(Peer(x)),
                      NEW k \in DOMAIN op'[x].buf, k < Lens(Peer(x))
               PROVE  Fresh(Peer(x), k, op'[x].buf[k], op'[x].from)
    BY <1>1 DEF Got, Fresh, Clean, Spilled, Lens, Peer
  <2>1. x # e /\ op'[x] = op[x]
    BY <1>3
  <2> QED BY <2>1 DEF IInv, Got
<1> QED BY <1>6, <1>7, <1>8, <1>9, <1>11, <1>12, <1>13 DEF IInv

(* Every step of either end keeps the invariant.                           *)
LEMMA StepIInv ==
  ASSUME IInv, [Next]_vars
  PROVE  IInv'
<1>1. CASE UNCHANGED vars
  <2>1. UNCHANGED <<writeCursor, readCursor, mem, alive, stage, op, wrote, done, seen>>
    BY <1>1 DEF vars, shared, history
  <2>2. Typed' /\ Placed' /\ InProgress' /\ Counted'
    BY <2>1 DEF IInv, Typed, Placed, InProgress, InPlace, InCall, Counted
  <2>3. Lanes' /\ Filled' /\ Got'
    BY <2>1 DEF IInv, Lanes, Filled, Got, Fresh, Clean, Spilled
  <2> QED BY <2>2, <2>3 DEF IInv
<1>2. ASSUME NEW e \in Ends, Attach(e) PROVE IInv'
  BY <1>2, AttachKeeps
<1>3. ASSUME NEW e \in Ends, Close(e) PROVE IInv'
  BY <1>3, CloseKeeps
<1>4. ASSUME NEW e \in Ends, NEW size \in Sizes, BeginWrite(e, size) PROVE IInv'
  BY <1>4, BeginWriteKeeps
<1>5. ASSUME NEW e \in Ends, NEW size \in Sizes, BeginRead(e, size) PROVE IInv'
  BY <1>5, BeginReadKeeps
<1>6. ASSUME NEW e \in Ends, WriteByte(e) PROVE IInv'
  BY <1>6, WriteByteKeeps
<1>7. ASSUME NEW e \in Ends, ReadByte(e) PROVE IInv'
  BY <1>7, ReadByteKeeps
<1>8. ASSUME NEW e \in Ends, Fault(e) PROVE IInv'
  BY <1>8, FaultKeeps
<1>9. ASSUME NEW e \in Ends, Finish(e) PROVE IInv'
  BY <1>9, FinishKeeps
<1> QED BY <1>1, <1>2, <1>3, <1>4, <1>5, <1>6, <1>7, <1>8, <1>9 DEF Next

(* The invariant holds in every reachable state, for every segment size,   *)
(* every set of request sizes and every interleaving of shm_read,          *)
(* shm_write, attachment and close.                                        *)
THEOREM LaneInvariant == Spec => []IInv
<1>1. Init => IInv
  BY InitIInv
<1>2. IInv /\ [Next]_vars => IInv'
  BY StepIInv
<1> QED BY <1>1, <1>2, PTL DEF Spec

-----------------------------------------------------------------------------
(* The variables keep their types, and no step, of whichever end, moves a  *)
(* cursor away from the beginning of its lane (iShm.cpp:175-179, :238-242).*)
THEOREM IShmTypes == Spec => []TypeOK
<1>1. IInv => TypeOK
  <2> SUFFICES ASSUME IInv PROVE TypeOK
    OBVIOUS
  <2>1. ASSUME NEW e \in Ends, InCall(e)
        PROVE  /\ op[e].start \in Bytes
               /\ op[e].todo \cup DOMAIN op[e].buf \subseteq 0 .. op[e].size - 1
               /\ \A j \in DOMAIN op[e].buf : op[e].buf[j] \in Writes
    <3>1. op[e] \in Calls /\ Lane(e, op[e].kind) \in Ends
      BY <2>1, Kinds, BytesInPlace DEF IInv
    <3>2. \A lane \in Ends : PStart(lane) \in Bytes
      <4>1. ASSUME NEW lane \in Ends PROVE PStart(lane) \in Bytes
        <5>1. PStart(lane) + 0 \in Bytes /\ PStart(lane) \in Nat
          BY Geometry
        <5> QED BY <5>1
      <4> QED BY <4>1
    <3>3. PICK D \in SUBSET Nat : op[e].buf \in [D -> Writes]
      BY <3>1 DEF Calls
    <3> QED BY <2>1, <3>1, <3>2, <3>3 DEF IInv, InProgress, InPlace
  <2> QED BY <2>1 DEF IInv, Typed, TypeOK
<1> QED BY <1>1, LaneInvariant, PTL

(* A lane is a regular register, byte by byte, without a lock, for every   *)
(* segment and all requests, as long as the server does not spill          *)
(* (iShm.cpp:155-163, :215-222).                                           *)
THEOREM ReadsAreRegularHolds == Spec => []ReadsAreRegular
<1>1. IInv => ReadsAreRegular
  <2> SUFFICES ASSUME IInv, NEW e \in Ends, op[e].kind = "read",
                      e = "server" => ~Spilled,
                      NEW j \in DOMAIN op[e].buf, j < Lens(Peer(e))
               PROVE  LET sizes  == wrote[Peer(e)]
                          after  == {k \in DOMAIN sizes : sizes[k] > j}
                          before == {k \in after : k <= op[e].from}
                          byte   == op[e].buf[j]
                      IN  \/ byte = NoWrite /\ before = {}
                          \/ /\ byte.by = Peer(e) /\ byte.n \in after
                             /\ \A k \in before : k <= byte.n
    BY DEF ReadsAreRegular
  <2>1. /\ Peer(e) \in Ends /\ Clean(Peer(e)) /\ InCall(e)
    BY Geometry DEF Clean, Peer, InCall
  <2>2. Fresh(Peer(e), j, op[e].buf[j], op[e].from)
    BY <2>1 DEF IInv, Got
  <2>3. wrote[Peer(e)] \in Seq(Sizes) /\ op[e].from \in Nat /\ j \in Nat
    <3>1. op[e] \in Calls
      BY <2>1, Kinds DEF IInv
    <3>2. op[e].from \in 0 .. MaxWrites /\ wrote[Peer(e)] \in Seq(Sizes)
      BY <2>1, <3>1 DEF IInv, Typed, Calls
    <3>3. DOMAIN op[e].buf \subseteq Nat
      BY <2>1, BytesInPlace DEF IInv
    <3> QED BY <3>2, <3>3, MaxWritesAssumption
  <2>4. \A k \in DOMAIN wrote[Peer(e)] :
          /\ k \in 1 .. Len(wrote[Peer(e)]) /\ wrote[Peer(e)][k] \in Nat
          /\ k <= op[e].from => k \in 1 .. op[e].from
    <3>1. \A k \in 1 .. Len(wrote[Peer(e)]) : wrote[Peer(e)][k] \in Sizes
      BY <2>3
    <3>2. /\ DOMAIN wrote[Peer(e)] = 1 .. Len(wrote[Peer(e)])
          /\ Len(wrote[Peer(e)]) \in Nat
      BY <2>3
    <3>3. \A k \in DOMAIN wrote[Peer(e)] : wrote[Peer(e)][k] \in Nat
      BY <3>1, <3>2, SizesAssumption
    <3>4. \A k \in 1 .. Len(wrote[Peer(e)]) : k <= op[e].from => k \in 1 .. op[e].from
      BY <2>3, <3>2
    <3> QED BY <3>2, <3>3, <3>4
  <2>5. DOMAIN wrote[Peer(e)] = 1 .. Len(wrote[Peer(e)])
    BY <2>3
  <2>6. CASE /\ op[e].buf[j] = NoWrite
             /\ \A k \in 1 .. op[e].from : wrote[Peer(e)][k] <= j
    BY <2>3, <2>4, <2>6
  <2>7. CASE ~(/\ op[e].buf[j] = NoWrite
               /\ \A k \in 1 .. op[e].from : wrote[Peer(e)][k] <= j)
    BY <2>2, <2>4, <2>5, <2>7 DEF Fresh
  <2> QED BY <2>6, <2>7
<1> QED BY <1>1, LaneInvariant, PTL
=============================================================================
