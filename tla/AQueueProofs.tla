---------------------------- MODULE AQueueProofs ----------------------------
(***************************************************************************)
(* Proofs about AQueue for a process that always listens with the same     *)
(* backlog (OneBacklog), for every backlog, every set of connections and   *)
(* every bound on the number of grants.                                    *)
(*                                                                         *)
(* The argument: with Waiting == Len(sent) - Len(got), the write cursor    *)
(* lies Waiting slots after the read cursor around the ring, the slots     *)
(* between them hold the waiting connections in order, and Waiting never   *)
(* exceeds the backlog.  What the two processes remember from their checks *)
(* stays true until they use it: between the manager's check and its store *)
(* only the consumer moves, which makes room; between the consumer's check *)
(* and its load only the producer moves, which adds connections.           *)
(***************************************************************************)
EXTENDS AQueue, SequenceTheorems, TLAPS

Size    == Backlog + 1
Waiting == Len(sent) - Len(got)

\* the slot of the i-th waiting connection, counted from 0
Pos(i) == IF read_ + i <= Backlog THEN read_ + i ELSE read_ + i - Size

Typed ==
  /\ read_ \in 0 .. Backlog /\ write_ \in 0 .. Backlog
  /\ size_ \in {0, Size}
  /\ payload \in [Cells -> Nodes \cup {Blank}]
  /\ ppc \in {"idle", "enqueue", "store", "advance"}
  /\ pval \in Nodes \cup {Blank}
  /\ cpc \in {"new", "listen", "idle", "load", "advance"}
  /\ cval \in Nodes \cup {Blank}
  /\ asked = Backlog
  /\ mapped \in {Backlog, NoQueue}
  /\ sent \in Seq(Nodes) /\ got \in Seq(Nodes)

\* size_ is in place before either process takes a cursor modulo it
Sized ==
  /\ cpc # "new" => size_ = Size
  /\ mapped # NoQueue => cpc # "new"
  /\ ppc # "idle" => mapped # NoQueue /\ pval \in Nodes

\* the cursors and the cells between them are the waiting connections
Ring ==
  /\ 0 <= Waiting /\ Waiting <= Backlog
  /\ write_ = Pos(Waiting)
  /\ \A i \in 1 .. Waiting : payload[CellOf(Pos(i - 1))] = sent[Len(got) + i]

\* what each process found by its check still holds when it acts
Remembered ==
  /\ ppc # "idle" => Waiting < Backlog
  /\ ppc = "advance" => payload[CellOf(write_)] = pval
  /\ cpc \in {"load", "advance"} => 0 < Waiting
  /\ cpc = "advance" => cval = sent[Len(got) + 1]

IInv == Typed /\ Sized /\ Ring /\ Remembered

-----------------------------------------------------------------------------
(* OneBacklog is about constants only: what it says stays true.            *)
LEMMA OneBacklogStays == OneBacklog => OneBacklog'
  BY DEF OneBacklog, Backlog

(* The remainder of the constructor's and the operations' arithmetic:      *)
(* advancing a cursor of the ring wraps exactly at its end.                *)
LEMMA ModSucc ==
  ASSUME NEW n \in Nat, NEW x \in 0 .. n
  PROVE  (x + 1) % (n + 1) = IF x = n THEN 0 ELSE x + 1
<1>1. CASE x = n
  <2>1. (n + 1) % (n + 1) = 0
    BY SMT
  <2> QED BY <1>1, <2>1
<1>2. CASE x # n
  <2>1. x + 1 \in 0 .. n
    BY <1>2
  <2>2. \A y \in 0 .. n : y % (n + 1) = y
    BY SMT
  <2> QED BY <1>2, <2>1, <2>2
<1> QED BY <1>1, <1>2

(* With one backlog, the slots are those of one ring.                      *)
LEMMA OneRing ==
  ASSUME OneBacklog
  PROVE  /\ Backlog \in Nat
         /\ Backlogs = {Backlog}
         /\ Slots = 0 .. Backlog
         /\ Size \in Nat \ {0}
<1>1. Backlogs = {Backlog} /\ Backlog \in Nat
  BY BacklogsAssumption DEF OneBacklog
<1>2. Slots = 0 .. Backlog
  BY <1>1 DEF Slots
<1> QED BY <1>1, <1>2 DEF Size

(* Different slots have different cells, and every slot has one.           *)
LEMMA CellsApart ==
  ASSUME OneBacklog
  PROVE  /\ \A i \in 0 .. Backlog : CellOf(i) \in Cells
         /\ \A i, j \in Int : CellOf(i) = CellOf(j) => i = j
BY OneRing DEF CellOf, Cells, NodeSize

(* is_full() is a count: the ring is full when Backlog connections wait.   *)
LEMMA FullIsCount ==
  ASSUME OneBacklog, IInv, size_ = Size
  PROVE  /\ IsFull <=> Waiting = Backlog
         /\ IsEmpty <=> Waiting = 0
<1>1. /\ Backlog \in Nat /\ Waiting \in 0 .. Backlog
      /\ read_ \in 0 .. Backlog /\ write_ \in 0 .. Backlog
  BY OneRing, LenProperties DEF Waiting, IInv, Typed, Ring
<1>2. write_ = IF read_ + Waiting <= Backlog THEN read_ + Waiting
                                             ELSE read_ + Waiting - (Backlog + 1)
  BY DEF Pos, Size, IInv, Ring
<1>3. IsFull <=> (IF write_ = Backlog THEN 0 ELSE write_ + 1) = read_
  BY <1>1, ModSucc DEF Size, IsFull
<1>4. IsFull <=> Waiting = Backlog
  BY <1>1, <1>2, <1>3
<1>5. IsEmpty <=> Waiting = 0
  BY <1>1, <1>2 DEF IsEmpty
<1> QED BY <1>4, <1>5

-----------------------------------------------------------------------------
(* A fresh segment is an empty ring.                                       *)
LEMMA InitIInv ==
  ASSUME OneBacklog, Init
  PROVE  IInv
<1>1. Backlog \in Nat /\ Backlogs = {Backlog}
  BY OneRing
<1>2. Typed
  BY <1>1 DEF Init, Typed, Size
<1>3. Sized
  BY DEF Init, Sized
<1>4. Waiting = 0
  BY DEF Init, Waiting
<1>5. Ring
  BY <1>1, <1>4 DEF Init, Ring, Pos
<1>6. Remembered
  BY DEF Init, Remembered
<1> QED BY <1>2, <1>3, <1>5, <1>6 DEF IInv

(* Every step of either process keeps the ring.                            *)
LEMMA StepIInv ==
  ASSUME OneBacklog, IInv, [Next]_vars
  PROVE  IInv'
<1>1. Backlog \in Nat /\ Backlogs = {Backlog} /\ Size = Backlog + 1
  BY OneRing DEF Size
<1>2. Waiting \in Int /\ Len(sent) \in Nat /\ Len(got) \in Nat
  BY LenProperties DEF IInv, Typed, Waiting
<1>3. CASE \E b \in Backlogs : Listen(b)
  <2>1. Waiting' = Waiting /\ \A i : Pos(i)' = Pos(i)
    BY <1>3 DEF Listen, Waiting, Pos
  <2>2. size_' = Size /\ asked' = Backlog /\ cpc' = "listen"
    BY <1>1, <1>3 DEF Listen
  <2>3. Typed'
    BY <1>1, <1>3, <2>2 DEF IInv, Typed, Listen
  <2>4. Sized'
    BY <1>3, <2>2 DEF IInv, Sized, Listen
  <2>5. Ring'
    BY <1>3, <2>1 DEF IInv, Ring, Listen
  <2>6. Remembered'
    BY <1>3, <2>1, <2>2 DEF IInv, Remembered, Listen
  <2> QED BY <2>3, <2>4, <2>5, <2>6 DEF IInv
<1>4. CASE ListenReq
  <2>1. Waiting' = Waiting /\ \A i : Pos(i)' = Pos(i)
    BY <1>4 DEF ListenReq, Waiting, Pos
  <2>2. size_' = Size /\ mapped' = Backlog /\ cpc' = "idle"
    BY <1>1, <1>4 DEF ListenReq, IInv, Typed
  <2>3. Typed'
    BY <1>1, <1>4, <2>2 DEF IInv, Typed, ListenReq
  <2>4. Sized'
    BY <1>4, <2>2 DEF IInv, Sized, ListenReq
  <2>5. Ring'
    BY <1>4, <2>1 DEF IInv, Ring, ListenReq
  <2>6. Remembered'
    BY <1>4, <2>1, <2>2 DEF IInv, Remembered, ListenReq
  <2> QED BY <2>3, <2>4, <2>5, <2>6 DEF IInv
<1>5. CASE \E n \in Nodes : ConnReq(n)
  <2>1. Waiting' = Waiting /\ \A i : Pos(i)' = Pos(i)
    BY <1>5 DEF ConnReq, ring, Waiting, Pos
  <2>2. size_ = Size /\ ~IsFull
    BY <1>5 DEF ConnReq, IInv, Sized
  <2>3. Waiting < Backlog
    BY <1>1, <1>2, <2>2, FullIsCount DEF IInv, Ring
  <2>4. Typed'
    BY <1>5 DEF IInv, Typed, ConnReq, ring
  <2>5. Sized'
    BY <1>5 DEF IInv, Sized, ConnReq, ring
  <2>6. Ring'
    BY <1>5, <2>1 DEF IInv, Ring, ConnReq, ring
  <2>7. Remembered'
    BY <1>5, <2>1, <2>3 DEF IInv, Remembered, ConnReq, ring
  <2> QED BY <2>4, <2>5, <2>6, <2>7 DEF IInv
<1>6. CASE EnqueueCheck
  <2>1. Waiting' = Waiting /\ \A i : Pos(i)' = Pos(i)
    BY <1>6 DEF EnqueueCheck, ring, Waiting, Pos
  <2>2. Typed'
    BY <1>6 DEF IInv, Typed, EnqueueCheck, ring
  <2>3. Sized'
    BY <1>6 DEF IInv, Sized, EnqueueCheck, ring
  <2>4. Ring'
    BY <1>6, <2>1 DEF IInv, Ring, EnqueueCheck, ring
  <2>5. Remembered'
    BY <1>6, <2>1 DEF IInv, Remembered, EnqueueCheck, ring
  <2> QED BY <2>2, <2>3, <2>4, <2>5 DEF IInv
<1>7. CASE EnqueueStore
  <2>1. Waiting' = Waiting /\ \A i : Pos(i)' = Pos(i)
    BY <1>7 DEF EnqueueStore, Waiting, Pos
  <2>2. Waiting < Backlog /\ write_ = Pos(Waiting) /\ write_ \in 0 .. Backlog
    BY <1>7 DEF EnqueueStore, IInv, Remembered, Ring, Typed
  <2>3. CellOf(write_) \in Cells /\ pval \in Nodes
    BY <1>7, <2>2, CellsApart DEF EnqueueStore, IInv, Sized
  <2>4. \A i \in 1 .. Waiting : CellOf(Pos(i - 1)) # CellOf(write_)
    <3> SUFFICES ASSUME NEW i \in 1 .. Waiting
                 PROVE  Pos(i - 1) \in Int /\ Pos(i - 1) # write_
      BY <2>2, CellsApart
    <3>1. read_ \in 0 .. Backlog /\ i \in Int /\ 1 <= i /\ i <= Waiting
      BY <1>2 DEF IInv, Typed
    <3> QED BY <1>1, <1>2, <2>2, <3>1 DEF Pos
  <2>5. payload' = [payload EXCEPT ![CellOf(write_)] = pval]
    BY <1>7 DEF EnqueueStore
  <2>6. payload \in [Cells -> Nodes \cup {Blank}]
    BY DEF IInv, Typed
  <2>7. payload'[CellOf(write_)] = pval
    BY <2>3, <2>5, <2>6
  <2>8. \A i \in 1 .. Waiting :
          payload'[CellOf(Pos(i - 1))] = payload[CellOf(Pos(i - 1))]
    BY <2>4, <2>5, <2>6
  <2>9. Typed'
    BY <1>7, <2>3, <2>5, <2>6 DEF IInv, Typed, EnqueueStore
  <2>10. Sized'
    BY <1>7 DEF IInv, Sized, EnqueueStore
  <2>11. Ring'
    BY <1>7, <2>1, <2>8 DEF IInv, Ring, EnqueueStore
  <2>12. Remembered'
    BY <1>7, <2>1, <2>2, <2>7 DEF IInv, Remembered, EnqueueStore
  <2> QED BY <2>9, <2>10, <2>11, <2>12 DEF IInv
<1>8. CASE EnqueueAdvance
  <2>1. /\ Waiting < Backlog /\ write_ = Pos(Waiting) /\ pval \in Nodes
        /\ payload[CellOf(write_)] = pval /\ size_ = Size
    BY <1>8 DEF EnqueueAdvance, IInv, Remembered, Ring, Sized
  <2>2. /\ sent' = Append(sent, pval) /\ sent' \in Seq(Nodes)
        /\ Len(sent') = Len(sent) + 1 /\ sent'[Len(sent) + 1] = pval
        /\ \A k \in 1 .. Len(sent) : sent'[k] = sent[k]
    BY <1>8, <2>1, AppendProperties DEF EnqueueAdvance, IInv, Typed
  <2>3. Waiting' = Waiting + 1 /\ \A i : Pos(i)' = Pos(i)
    BY <1>2, <1>8, <2>2 DEF EnqueueAdvance, Waiting, Pos
  <2>4. write_' = IF write_ = Backlog THEN 0 ELSE write_ + 1
    BY <1>1, <1>8, <2>1, ModSucc DEF EnqueueAdvance, IInv, Typed
  <2>5. write_' = Pos(Waiting + 1) /\ write_' \in 0 .. Backlog
    BY <1>1, <1>2, <2>1, <2>4 DEF Pos, IInv, Typed, Ring
  <2>6. \A i \in 1 .. Waiting + 1 :
          payload[CellOf(Pos(i - 1))] = sent'[Len(got) + i]
    <3> SUFFICES ASSUME NEW i \in 1 .. Waiting + 1
                 PROVE  payload[CellOf(Pos(i - 1))] = sent'[Len(got) + i]
      OBVIOUS
    <3>1. CASE i = Waiting + 1
      <4>1. Len(got) + i = Len(sent) + 1 /\ i - 1 = Waiting
        BY <1>2, <3>1 DEF Waiting
      <4> QED BY <2>1, <2>2, <4>1
    <3>2. CASE i # Waiting + 1
      <4>1. i \in 1 .. Waiting /\ Len(got) + i \in 1 .. Len(sent)
        BY <1>2, <3>2 DEF Waiting
      <4> QED BY <2>2, <4>1 DEF IInv, Ring
    <3> QED BY <3>1, <3>2
  <2>7. Typed'
    BY <1>8, <2>2, <2>5 DEF IInv, Typed, EnqueueAdvance
  <2>8. Sized'
    BY <1>8 DEF IInv, Sized, EnqueueAdvance
  <2>9. Ring'
    <3>1. 0 <= Waiting + 1 /\ Waiting + 1 <= Backlog
      BY <1>1, <1>2, <2>1 DEF IInv, Ring
    <3> QED BY <1>8, <2>3, <2>5, <2>6, <3>1 DEF Ring, EnqueueAdvance
  <2>10. Remembered'
    <3>1. 0 < Waiting => /\ 0 < Waiting + 1
                         /\ sent'[Len(got) + 1] = sent[Len(got) + 1]
      BY <1>2, <2>2 DEF Waiting
    <3> QED BY <1>8, <2>3, <3>1 DEF IInv, Remembered, EnqueueAdvance
  <2> QED BY <2>7, <2>8, <2>9, <2>10 DEF IInv
<1>9. CASE DequeueCheck
  <2>1. Waiting' = Waiting /\ \A i : Pos(i)' = Pos(i)
    BY <1>9 DEF DequeueCheck, ring, Waiting, Pos
  <2>2. size_ = Size /\ ~IsEmpty
    BY <1>9 DEF DequeueCheck, IInv, Sized
  <2>3. 0 < Waiting
    BY <1>2, <2>2, FullIsCount DEF IInv, Ring
  <2>4. Typed'
    BY <1>9 DEF IInv, Typed, DequeueCheck, ring
  <2>5. Sized'
    BY <1>9 DEF IInv, Sized, DequeueCheck, ring
  <2>6. Ring'
    BY <1>9, <2>1 DEF IInv, Ring, DequeueCheck, ring
  <2>7. Remembered'
    BY <1>9, <2>1, <2>3 DEF IInv, Remembered, DequeueCheck, ring
  <2> QED BY <2>4, <2>5, <2>6, <2>7 DEF IInv
<1>10. CASE DequeueLoad
  <2>1. Waiting' = Waiting /\ \A i : Pos(i)' = Pos(i)
    BY <1>10 DEF DequeueLoad, ring, Waiting, Pos
  <2>2. 0 < Waiting /\ read_ \in 0 .. Backlog
    BY <1>10 DEF DequeueLoad, IInv, Remembered, Typed
  <2>3. payload[CellOf(Pos(0))] = sent[Len(got) + 1]
    <3>1. 1 \in 1 .. Waiting /\ 1 - 1 = 0
      BY <1>2, <2>2
    <3> QED BY <3>1 DEF IInv, Ring
  <2>4. Pos(0) = read_
    BY <1>1, <2>2 DEF Pos
  <2>5. cval' = sent[Len(got) + 1] /\ cval' \in Nodes
    <3>1. cval' = sent[Len(got) + 1]
      BY <1>10, <2>3, <2>4 DEF DequeueLoad
    <3>2. Len(got) + 1 \in 1 .. Len(sent)
      BY <1>2, <2>2 DEF Waiting
    <3> QED BY <3>1, <3>2, ElementOfSeq DEF IInv, Typed
  <2>6. Typed'
    BY <1>10, <2>5 DEF IInv, Typed, DequeueLoad, ring
  <2>7. Sized'
    BY <1>10 DEF IInv, Sized, DequeueLoad, ring
  <2>8. Ring'
    BY <1>10, <2>1 DEF IInv, Ring, DequeueLoad, ring
  <2>9. Remembered'
    BY <1>10, <2>1, <2>2, <2>5 DEF IInv, Remembered, DequeueLoad, ring
  <2> QED BY <2>6, <2>7, <2>8, <2>9 DEF IInv
<1>11. CASE DequeueAdvance
  <2>1. 0 < Waiting /\ cval = sent[Len(got) + 1] /\ size_ = Size
    BY <1>11 DEF DequeueAdvance, IInv, Remembered, Sized
  <2>2. cval \in Nodes
    <3>1. Len(got) + 1 \in 1 .. Len(sent)
      BY <1>2, <2>1 DEF Waiting
    <3> QED BY <2>1, <3>1, ElementOfSeq DEF IInv, Typed
  <2>3. got' = Append(got, cval) /\ got' \in Seq(Nodes) /\ Len(got') = Len(got) + 1
    BY <1>11, <2>2, AppendProperties DEF DequeueAdvance, IInv, Typed
  <2>4. Waiting' = Waiting - 1
    BY <1>2, <1>11, <2>3 DEF DequeueAdvance, Waiting
  <2>5. read_' = IF read_ = Backlog THEN 0 ELSE read_ + 1
    BY <1>1, <1>11, <2>1, ModSucc DEF DequeueAdvance, IInv, Typed
  <2>6. read_ \in 0 .. Backlog /\ read_' \in 0 .. Backlog
    BY <1>1, <2>5 DEF IInv, Typed
  <2>7. \A i \in 0 .. Backlog - 1 : Pos(i)' = Pos(i + 1)
    BY <1>1, <2>5, <2>6 DEF Pos
  <2>8. Waiting - 1 \in 0 .. Backlog - 1
    BY <1>1, <1>2, <2>1 DEF IInv, Ring
  <2>9. Typed'
    BY <1>11, <2>3, <2>6 DEF IInv, Typed, DequeueAdvance
  <2>10. Sized'
    BY <1>11 DEF IInv, Sized, DequeueAdvance
  <2>11. Ring'
    <3>1. write_' = Pos(Waiting)'
      <4>1. write_ = IF read_ + Waiting <= Backlog THEN read_ + Waiting
                                                   ELSE read_ + Waiting - Size
        BY DEF IInv, Ring, Pos
      <4>2. write_ = IF read_' + Waiting' <= Backlog
                       THEN read_' + Waiting' ELSE read_' + Waiting' - Size
        BY <1>1, <1>2, <2>4, <2>5, <2>6, <2>8, <4>1
      <4> QED BY <1>11, <4>2 DEF Pos, DequeueAdvance, Size
    <3>2. \A i \in 1 .. Waiting - 1 :
            payload[CellOf(Pos(i - 1)')] = sent[Len(got) + 1 + i]
      <4> SUFFICES ASSUME NEW i \in 1 .. Waiting - 1
                   PROVE  payload[CellOf(Pos(i - 1)')] = sent[Len(got) + 1 + i]
        OBVIOUS
      <4>1. /\ i + 1 \in 1 .. Waiting /\ i - 1 \in 0 .. Backlog - 1
            /\ i - 1 + 1 = i + 1 - 1 /\ Len(got) + 1 + i = Len(got) + (i + 1)
        BY <1>1, <1>2, <2>8
      <4>2. payload[CellOf(Pos(i + 1 - 1))] = sent[Len(got) + (i + 1)]
        BY <4>1 DEF IInv, Ring
      <4> QED BY <2>7, <4>1, <4>2
    <3>3. /\ payload' = payload /\ sent' = sent
          /\ 0 <= Waiting' /\ Waiting' <= Backlog
      BY <1>1, <1>2, <1>11, <2>4, <2>8 DEF DequeueAdvance
    <3>4. \A i \in 1 .. Waiting' :
            payload'[CellOf(Pos(i - 1)')] = sent'[Len(got') + i]
      BY <2>3, <2>4, <3>2, <3>3
    <3> QED BY <3>1, <3>3, <3>4 DEF Ring, CellOf
  <2>12. Remembered'
    <3>1. Waiting < Backlog => Waiting - 1 < Backlog
      BY <1>1, <1>2
    <3> QED BY <1>11, <2>4, <3>1 DEF IInv, Remembered, DequeueAdvance, CellOf
  <2> QED BY <2>9, <2>10, <2>11, <2>12 DEF IInv
<1>12. CASE UNCHANGED vars
  <2>1. Waiting' = Waiting /\ \A i : Pos(i)' = Pos(i)
    BY <1>12 DEF vars, ring, Waiting, Pos
  <2> QED BY <1>12, <2>1 DEF IInv, Typed, Sized, Ring, Remembered, vars, ring
<1> QED
  BY <1>3, <1>4, <1>5, <1>6, <1>7, <1>8, <1>9, <1>10, <1>11, <1>12
  DEF Next, Manager, Server

(* So the invariant holds in every state a process that listens with one   *)
(* backlog can reach.                                                      *)
LEMMA RingInvariant == OneBacklog /\ Spec => []IInv
<1>1. OneBacklog /\ Init => IInv
  BY InitIInv
<1>2. OneBacklog /\ IInv /\ [Next]_vars => IInv'
  BY StepIInv
<1> QED BY <1>1, <1>2, OneBacklogStays, PTL DEF Spec

-----------------------------------------------------------------------------
(* The cursors stay inside the ring and the words have their types.        *)
THEOREM AQueueTypes == OneBacklog /\ Spec => []TypeOK
<1>1. OneBacklog /\ IInv => TypeOK
  <2> SUFFICES ASSUME OneBacklog, IInv PROVE TypeOK
    OBVIOUS
  <2>1. got \in Seq(Nodes \cup {Blank})
    BY SeqMonotonic, Nodes \subseteq Nodes \cup {Blank} DEF IInv, Typed
  <2> QED BY <2>1, OneRing DEF IInv, Typed, TypeOK, Size
<1> QED BY <1>1, OneBacklogStays, RingInvariant, PTL DEF Spec

(* aQueue needs no lock: whatever the interleaving, the manager never      *)
(* stores into the cell that the listening process is loading.             *)
THEOREM NoSlotRaceHolds == OneBacklog /\ Spec => []NoSlotRace
<1>1. OneBacklog /\ IInv => NoSlotRace
  <2> SUFFICES ASSUME OneBacklog, IInv, ppc = "store", cpc = "load"
               PROVE  CellOf(write_) # CellOf(read_)
    BY DEF NoSlotRace
  <2>1. 0 < Waiting /\ Waiting < Backlog
    BY DEF IInv, Remembered
  <2>2. read_ \in 0 .. Backlog /\ write_ = Pos(Waiting) /\ Waiting \in Int
    BY LenProperties DEF IInv, Typed, Ring, Waiting
  <2>3. write_ # read_ /\ write_ \in Int
    BY <2>1, <2>2, OneRing DEF Pos, Size
  <2> QED BY <2>2, <2>3, CellsApart
<1> QED BY <1>1, OneBacklogStays, RingInvariant, PTL DEF Spec

(* The manager refuses a connection as SERVER_AQ_FULL exactly when backlog *)
(* connections wait to be accepted.                                        *)
THEOREM FullMeansBacklogHolds == OneBacklog /\ Spec => []FullMeansBacklog
<1>1. OneBacklog /\ IInv => FullMeansBacklog
  BY FullIsCount DEF IInv, Sized, FullMeansBacklog, Waiting
<1> QED BY <1>1, OneBacklogStays, RingInvariant, PTL DEF Spec

(* Ignoring the result of enqueue is justified: it is never false.         *)
THEOREM EnqueueNeverRefusedHolds == OneBacklog /\ Spec => EnqueueNeverRefused
<1>1. OneBacklog /\ IInv /\ [Next]_vars
        => [ppc = "enqueue" => ppc' \in {"enqueue", "store"}]_vars
  <2> SUFFICES ASSUME OneBacklog, IInv, Next, ppc = "enqueue"
               PROVE  ppc' \in {"enqueue", "store"}
    BY DEF vars
  <2>1. ~IsFull
    <3>1. size_ = Size /\ Waiting < Backlog /\ Waiting \in Int /\ Backlog \in Nat
      BY OneRing, LenProperties DEF IInv, Sized, Remembered, Waiting, Typed
    <3> QED BY <3>1, FullIsCount
  <2> QED BY <2>1 DEF Next, Manager, Server, Listen, ListenReq, ConnReq,
             EnqueueCheck, EnqueueStore, EnqueueAdvance, DequeueCheck,
             DequeueLoad, DequeueAdvance
<1> QED BY <1>1, OneBacklogStays, RingInvariant, PTL DEF Spec, EnqueueNeverRefused

(* The cells fit the mapped page for every backlog up to 63, although they *)
(* lie eight times as far apart as their size.                             *)
THEOREM StoreInsideMappingHolds ==
  OneBacklog /\ Backlog <= 63 /\ Spec => []StoreInsideMapping
<1>1. OneBacklog /\ Backlog <= 63 /\ IInv => StoreInsideMapping
  <2> SUFFICES ASSUME OneBacklog, Backlog <= 63, IInv, ppc = "store"
               PROVE  StoreInsideMapping
    BY DEF StoreInsideMapping
  <2>1. write_ \in 0 .. Backlog /\ mapped = Backlog /\ asked = Backlog
    BY DEF IInv, Typed, Sized
  <2>2. Backlog \in Nat
    BY OneRing
  <2>3. (Require(Backlog) + PageSize - 1) \div PageSize >= 1
    BY <2>2 DEF Require, PageSize, NodeSize, HeaderSize
  <2>4. Mapped(Backlog) >= PageSize
    <3> DEFINE pages == (Require(Backlog) + PageSize - 1) \div PageSize
    <3>1. pages \in Int
      BY <2>2 DEF Require, PageSize, NodeSize, HeaderSize
    <3> HIDE DEF pages
    <3>2. PageSize * pages >= PageSize
      BY <2>3, <3>1 DEF PageSize, pages
    <3> QED BY <3>2 DEF Mapped, pages
  <2>5. HeaderSize + NodeSize * CellOf(write_) + NodeSize <= PageSize
    BY <2>1, <2>2 DEF HeaderSize, NodeSize, CellOf, PageSize
  <2>6. HeaderSize + NodeSize * CellOf(write_) + NodeSize <= Mapped(Backlog)
    BY <2>1, <2>2, <2>4, <2>5
       DEF HeaderSize, NodeSize, CellOf, PageSize, Mapped, Require
  <2> QED BY <2>1, <2>6 DEF StoreInsideMapping
<1>2. OneBacklog /\ Backlog <= 63 => (OneBacklog /\ Backlog <= 63)'
  BY DEF OneBacklog, Backlog
<1> QED BY <1>1, <1>2, RingInvariant, PTL DEF Spec

(* The ring implements the bounded FIFO: a step of enqueue's last store is *)
(* a Put, a step of dequeue's last store is a Take, and no other step of   *)
(* either process is visible.                                              *)
THEOREM RingIsFifo == OneBacklog /\ Spec => FifoSpec
<1> DEFINE waitingNodes == SubSeq(sent, Len(got) + 1, Len(sent))
<1>1. OneBacklog /\ Init => Fifo!Init
  <2> SUFFICES ASSUME Init PROVE waitingNodes = <<>> /\ got = <<>>
    BY DEF Fifo!Init
  <2> QED BY SubSeqEmpty DEF Init
<1>2. OneBacklog /\ IInv /\ [Next]_vars => [Fifo!Next]_(Fifo!vars)
  <2> SUFFICES ASSUME OneBacklog, IInv, [Next]_vars
               PROVE  [Fifo!Next]_(Fifo!vars)
    OBVIOUS
  <2>0. /\ sent \in Seq(Nodes) /\ got \in Seq(Nodes) /\ Waiting \in 0 .. Backlog
        /\ Len(sent) \in Nat /\ Len(got) \in Nat /\ Backlog \in Nat
    BY OneRing, LenProperties DEF IInv, Typed, Ring, Waiting
  <2>1. CASE EnqueueAdvance
    <3>1. pval \in Nodes /\ Waiting < Backlog
      BY <2>1 DEF IInv, Sized, Remembered, EnqueueAdvance
    <3>2. sent' = Append(sent, pval) /\ got' = got
      BY <2>1 DEF EnqueueAdvance
    <3>3. /\ sent' \in Seq(Nodes) /\ Len(sent') = Len(sent) + 1
          /\ \A k \in 1 .. Len(sent) : sent'[k] = sent[k]
          /\ sent'[Len(sent) + 1] = pval
      BY <2>0, <3>1, <3>2, AppendProperties
    <3>4. /\ waitingNodes \in Seq(Nodes) /\ Len(waitingNodes) = Waiting
          /\ \A i \in 1 .. Waiting : waitingNodes[i] = sent[Len(got) + i]
      <4>1. \A i \in Len(got) + 1 .. Len(sent) : sent[i] \in Nodes
        BY <2>0, ElementOfSeq
      <4> QED BY <2>0, <4>1, SubSeqProperties DEF Waiting
    <3>5. /\ waitingNodes' \in Seq(Nodes) /\ Len(waitingNodes') = Waiting + 1
          /\ \A i \in 1 .. Waiting + 1 : waitingNodes'[i] = sent'[Len(got) + i]
      <4>1. waitingNodes' = SubSeq(sent', Len(got) + 1, Len(sent) + 1)
        BY <3>2, <3>3
      <4>2. \A i \in Len(got) + 1 .. Len(sent) + 1 : sent'[i] \in Nodes
        BY <2>0, <3>3, ElementOfSeq
      <4> DEFINE from == Len(got) + 1  to == Len(sent) + 1
      <4>3. from \in Int /\ to \in Int /\ from <= to /\ to - from + 1 = Waiting + 1
        BY <2>0 DEF Waiting
      <4>4. \A i \in 1 .. Waiting + 1 : from + i - 1 = Len(got) + i
        BY <2>0
      <4> HIDE DEF from, to
      <4>5. /\ SubSeq(sent', from, to) \in Seq(Nodes)
            /\ Len(SubSeq(sent', from, to)) = Waiting + 1
            /\ \A i \in 1 .. Waiting + 1 :
                  SubSeq(sent', from, to)[i] = sent'[from + i - 1]
        <5>1. \A i \in from .. to : sent'[i] \in Nodes
          BY <4>2 DEF from, to
        <5> QED BY <4>3, <5>1, SubSeqProperties
      <4> QED BY <4>1, <4>4, <4>5 DEF from, to
    <3> HIDE DEF waitingNodes
    <3>6. /\ Append(waitingNodes, pval) \in Seq(Nodes)
          /\ Len(Append(waitingNodes, pval)) = Waiting + 1
          /\ \A i \in 1 .. Waiting :
                Append(waitingNodes, pval)[i] = waitingNodes[i]
          /\ Append(waitingNodes, pval)[Waiting + 1] = pval
      BY <3>1, <3>4, AppendProperties
    <3>7. \A i \in 1 .. Waiting + 1 :
            waitingNodes'[i] = Append(waitingNodes, pval)[i]
      <4> SUFFICES ASSUME NEW i \in 1 .. Waiting + 1
                   PROVE  waitingNodes'[i] = Append(waitingNodes, pval)[i]
        OBVIOUS
      <4>1. CASE i = Waiting + 1
        <5>1. Len(got) + i = Len(sent) + 1
          BY <2>0, <4>1 DEF Waiting
        <5> QED BY <3>3, <3>5, <3>6, <4>1, <5>1
      <4>2. CASE i # Waiting + 1
        <5>1. i \in 1 .. Waiting /\ Len(got) + i \in 1 .. Len(sent)
          BY <2>0, <4>2 DEF Waiting
        <5> QED BY <3>3, <3>4, <3>5, <3>6, <5>1
      <4> QED BY <4>1, <4>2
    <3>8. waitingNodes' = Append(waitingNodes, pval)
      <4>1. Len(waitingNodes') = Len(Append(waitingNodes, pval))
        BY <3>5, <3>6
      <4> QED BY <2>0, <3>5, <3>6, <3>7, <4>1, SeqEqual
    <3>9. Fifo!Put(pval)
      BY <3>1, <3>2, <3>4, <3>8 DEF Fifo!Put, waitingNodes
    <3> QED BY <3>1, <3>9 DEF Fifo!Next
  <2>2. CASE DequeueAdvance
    <3>1. 0 < Waiting /\ cval = sent[Len(got) + 1] /\ cval \in Nodes
      <4>1. 0 < Waiting /\ cval = sent[Len(got) + 1]
        BY <2>2 DEF IInv, Remembered, DequeueAdvance
      <4>2. Len(got) + 1 \in 1 .. Len(sent)
        BY <2>0, <4>1 DEF Waiting
      <4> QED BY <2>0, <4>1, <4>2, ElementOfSeq
    <3>2. got' = Append(got, cval) /\ sent' = sent /\ Len(got') = Len(got) + 1
      BY <2>0, <2>2, <3>1, AppendProperties DEF DequeueAdvance
    <3>3. Len(got) + 1 \in 1 .. Len(sent) /\ Len(sent) \in Len(got) + 1 .. Len(sent)
      BY <2>0, <3>1 DEF Waiting
    <3>4. /\ Head(waitingNodes) = cval
          /\ Tail(waitingNodes) = SubSeq(sent, Len(got) + 1 + 1, Len(sent))
      BY <2>0, <3>1, <3>3, HeadTailOfSubSeq
    <3>5. waitingNodes # <<>>
      <4>1. \A i \in Len(got) + 1 .. Len(sent) : sent[i] \in Nodes
        BY <2>0, ElementOfSeq
      <4>2. Len(waitingNodes) = Waiting
        BY <2>0, <3>1, <4>1, SubSeqProperties DEF Waiting
      <4>3. Len(<<>>) = 0
        BY EmptySeq
      <4> HIDE DEF waitingNodes
      <4> QED BY <2>0, <3>1, <4>2, <4>3
    <3>6. Fifo!Take
      BY <3>2, <3>4, <3>5 DEF Fifo!Take
    <3> QED BY <3>6 DEF Fifo!Next
  <2>3. CASE ~EnqueueAdvance /\ ~DequeueAdvance
    <3>1. sent' = sent /\ got' = got
      BY <2>3 DEF Next, Manager, Server, Listen, ListenReq, ConnReq,
         EnqueueCheck, EnqueueStore, DequeueCheck, DequeueLoad,
         vars
    <3> QED BY <3>1 DEF Fifo!vars
  <2> QED BY <2>1, <2>2, <2>3
<1> QED BY <1>1, <1>2, OneBacklogStays, RingInvariant, PTL DEF Spec, FifoSpec, Fifo!Spec
=============================================================================
