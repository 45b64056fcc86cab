------------------------ MODULE AfUnixThreadsProofs ------------------------
(***************************************************************************)
(* Proofs about the threaded benchmark, for any number of threads.         *)
(*                                                                         *)
(* The argument: main has no thread left to create when it spins; the      *)
(* queue is as long as threads are in accept, so nobody waits in accept,   *)
(* and when nobody is there nobody waits in connect; and as many messages  *)
(* are in the connections as threads are in read, so not all that read     *)
(* wait.  A thread that has ended has seen is_end, and whoever set that    *)
(* writes used_time next.                                                  *)
(***************************************************************************)
EXTENDS AfUnixThreads, FiniteSetTheorems, SequenceTheorems, TLAPS

Typed ==
  /\ path \in {NoSock, ser}
  /\ sock \in [Servers -> {"none", "bound", "listening"}]
  /\ pend \in [Servers -> Seq(Threads)]
  /\ conn \in [Threads -> {"none", "pending", "open"}]
  /\ buf \in [Threads -> Nat]
  /\ main \in {"init", "listen", "create", "time", "spin", "ended"}
  /\ pc \in [Threads -> Labels]
  /\ mine \in [Threads -> Threads \cup {Nobody}]
  /\ to \in [Threads -> Threads \cup {Nobody}]
  /\ loaded \in [Threads -> Nat] /\ count \in Nat
  /\ clifd \in Threads \cup {Nobody}
  /\ time_start \in BOOLEAN /\ is_end \in BOOLEAN /\ used_time \in {0, 1}

\* main goes on when it has created all threads
Created == main \in {"time", "spin"} => \A t \in Threads : pc[t] # "none"

\* a thread ends because another one has seen enough and writes the time
Ended ==
  /\ \A t \in Threads : pc[t] = "done" => is_end
  /\ is_end => used_time = 1 \/ \E t \in Threads : pc[t] = "clock"

\* each connection waits at most once, for as many accepts as are called
Queued ==
  /\ Len(pend[ser]) = Cardinality(In({"accept"}))
  /\ \A i, j \in DOMAIN pend[ser] : pend[ser][i] = pend[ser][j] => i = j
  /\ \A i \in DOMAIN pend[ser] : conn[pend[ser][i]] = "pending"
  /\ \A t \in Threads : pc[t] \in {"none", "connect"} => conn[t] = "none"

\* what was accepted waits no more, and belongs to one thread
Taken ==
  /\ \A t \in Accepted : mine[t] \in Threads /\ conn[mine[t]] = "open"
  /\ \A t, u \in Accepted : mine[t] = mine[u] => t = u

Owed == IsFiniteSet(Messages) /\ MessagesAreOwed

Looping == Labels \ {"none", "connect", "accept", "store"}

\* who writes has a client to write to
Directed ==
  /\ \A t \in Threads : pc[t] \in Looping => clifd \in Threads
  /\ \A t \in Threads : pc[t] = "write" => to[t] \in Threads

IInv == Typed /\ Created /\ Ended /\ Queued /\ Taken /\ Owed /\ Directed

-----------------------------------------------------------------------------
(* A thread that goes to another place: who is where.                      *)
LEMMA Moves ==
  ASSUME pc \in [Threads -> Labels], NEW t \in Threads, NEW label, Go(t, label)
  PROVE  /\ pc'[t] = label
         /\ \A u \in Threads : u # t => pc'[u] = pc[u]
BY DEF Go

(* The number of threads at a place, when one enters, leaves, or passes.   *)
LEMMA InIsFinite ==
  ASSUME NEW labels
  PROVE  IsFiniteSet(In(labels)) /\ Cardinality(In(labels)) \in Nat
<1>1. In(labels) \in SUBSET Threads
  BY DEF In
<1> QED BY <1>1, ThreadsAssumption, FS_Subset, FS_CardinalityType

LEMMA Enters ==
  ASSUME pc \in [Threads -> Labels], NEW t \in Threads, NEW label,
         pc[t] # label, Go(t, label)
  PROVE  Cardinality(In({label})') = Cardinality(In({label})) + 1
<1>1. In({label})' = In({label}) \cup {t} /\ t \notin In({label})
  BY Moves DEF In
<1>2. IsFiniteSet(In({label}))
  BY InIsFinite
<1> QED BY <1>1, <1>2, FS_AddElement

LEMMA Leaves ==
  ASSUME pc \in [Threads -> Labels], NEW t \in Threads, NEW label,
         NEW other, pc[t] = label, other # label, Go(t, other)
  PROVE  Cardinality(In({label})') = Cardinality(In({label})) - 1
<1>1. In({label})' = In({label}) \ {t} /\ t \in In({label})
  BY Moves DEF In
<1>2. IsFiniteSet(In({label}))
  BY InIsFinite
<1> QED BY <1>1, <1>2, FS_RemoveElement

LEMMA Passes ==
  ASSUME pc \in [Threads -> Labels], NEW t \in Threads, NEW label,
         NEW other, pc[t] # label, other # label, Go(t, other)
  PROVE  In({label})' = In({label})
BY Moves DEF In

(* The messages in the connections, after a write and after a read.        *)
LEMMA Written ==
  ASSUME buf \in [Threads -> Nat], NEW c \in Threads, Write(c, 1),
         IsFiniteSet(Messages)
  PROVE  /\ IsFiniteSet(Messages')
         /\ Cardinality(Messages') = Cardinality(Messages) + 1
<1>1. buf' = [buf EXCEPT ![c] = buf[c] + 1] /\ buf[c] \in Nat
  BY DEF Write
<1>2. Messages' = Messages \cup {<<c, buf[c] + 1>>}
  <2>1. ASSUME NEW d \in Threads
        PROVE  {d} \X (1 .. buf'[d]) = IF d = c
               THEN ({d} \X (1 .. buf[d])) \cup {<<c, buf[c] + 1>>}
               ELSE {d} \X (1 .. buf[d])
    BY <1>1
  <2> QED BY <2>1 DEF Messages
<1>3. <<c, buf[c] + 1>> \notin Messages
  BY <1>1 DEF Messages
<1> QED BY <1>2, <1>3, FS_AddElement

LEMMA ReadOut ==
  ASSUME buf \in [Threads -> Nat], NEW c \in Threads, Read(c, 1),
         IsFiniteSet(Messages)
  PROVE  /\ buf' \in [Threads -> Nat]
         /\ IsFiniteSet(Messages')
         /\ Cardinality(Messages') = Cardinality(Messages) - 1
<1>1. buf[c] \in Nat /\ buf[c] > 0 /\ Readable(c, 1) = 1
  BY DEF Read, Readable
<1>2. buf' = [buf EXCEPT ![c] = buf[c] - 1]
  BY <1>1 DEF Read
<1>3. Messages' = Messages \ {<<c, buf[c]>>}
  <2>1. ASSUME NEW d \in Threads
        PROVE  {d} \X (1 .. buf'[d]) = ({d} \X (1 .. buf[d])) \ {<<c, buf[c]>>}
    BY <1>1, <1>2
  <2> QED BY <2>1 DEF Messages
<1>4. <<c, buf[c]>> \in Messages
  BY <1>1 DEF Messages
<1> QED BY <1>1, <1>2, <1>3, <1>4, FS_RemoveElement

-----------------------------------------------------------------------------
(* Types, without the bound on the messages, for which Owed is needed.     *)
LEMMA ServersAre ==
  /\ Servers = {ser} /\ Clients = Threads
  /\ NoSock # ser /\ NoSock # OldSock /\ QLEN \in Nat
BY ThreadsAssumption, AfUnixAssumption

LEMMA MainTyped ==
  ASSUME IInv, Main
  PROVE  Typed'
<1>1. CASE MainInit
  BY <1>1, ServersAre DEF MainInit, IInv, Typed, Bind, globals
<1>2. CASE MainListen
  BY <1>2, ServersAre DEF MainListen, IInv, Typed, Listen, globals
<1>3. CASE MainCreate
  BY <1>3 DEF MainCreate, IInv, Typed, Go, Labels, kernel, globals
<1>4. CASE MainTime
  BY <1>4 DEF MainTime, IInv, Typed, kernel
<1>5. CASE MainSpin
  BY <1>5 DEF MainSpin, IInv, Typed, kernel, globals
<1> QED BY <1>1, <1>2, <1>3, <1>4, <1>5 DEF Main

LEMMA ThreadTyped ==
  ASSUME IInv, NEW t \in Threads, Thread(t)
  PROVE  Typed'
<1> USE DEF IInv, Typed, Go, Labels
<1>1. CASE ThreadConnect(t)
  <2>1. path = ser /\ pend[ser] \in Seq(Threads)
    BY <1>1, ServersAre DEF ThreadConnect, Connect, ConnectFails
  <2>2. pend' = [pend EXCEPT ![ser] = Append(pend[ser], t)]
    BY <1>1, <2>1 DEF ThreadConnect, Connect
  <2>3. Append(pend[ser], t) \in Seq(Threads)
    BY <2>1
  <2>4. pend' \in [Servers -> Seq(Threads)]
    BY <2>2, <2>3
  <2> QED BY <1>1, <2>4 DEF ThreadConnect, Connect, globals
<1>2. CASE ThreadAccept(t)
  <2>1. pend[ser] \in Seq(Threads) /\ pend[ser] # <<>>
    BY <1>2, ServersAre DEF ThreadAccept, Accept
  <2>2. Head(pend[ser]) \in Threads /\ Tail(pend[ser]) \in Seq(Threads)
    BY <2>1, HeadTailProperties
  <2>3. pend' = [pend EXCEPT ![ser] = Tail(pend[ser])]
    BY <1>2 DEF ThreadAccept, Accept
  <2>4. pend' \in [Servers -> Seq(Threads)]
    BY <2>2, <2>3
  <2>5. conn' \in [Threads -> {"none", "pending", "open"}]
    BY <1>2, <2>2 DEF ThreadAccept, Accept, Oldest
  <2>6. mine' \in [Threads -> Threads \cup {Nobody}]
    BY <1>2, <2>2 DEF ThreadAccept, Oldest
  <2>7. UNCHANGED <<path, sock, buf, main, to, loaded, globals>>
    BY <1>2 DEF ThreadAccept, Accept
  <2>8. pc' \in [Threads -> Labels]
    BY <1>2 DEF ThreadAccept
  <2> QED BY <2>4, <2>5, <2>6, <2>7, <2>8 DEF globals
<1>3. CASE ThreadStore(t)
  BY <1>3 DEF ThreadStore, kernel
<1>4. CASE Loop(t)
  BY <1>4 DEF Loop, kernel, globals
<1>5. CASE ThreadWrite(t)
  <2>1. to[t] \in Threads
    BY <1>5 DEF ThreadWrite, At, Directed
  <2>2. buf' \in [Threads -> Nat]
    BY <1>5, <2>1 DEF ThreadWrite, Write
  <2> QED BY <1>5, <2>2 DEF ThreadWrite, Write, globals
<1>6. CASE ThreadRead(t)
  <2>1. buf' \in [Threads -> Nat]
    BY <1>6, ReadOut DEF ThreadRead, Owed
  <2> QED BY <1>6, <2>1 DEF ThreadRead, Read, globals
<1>7. CASE CountLoad(t)
  BY <1>7 DEF CountLoad, kernel, globals
<1>8. CASE CountStore(t)
  BY <1>8 DEF CountStore, kernel
<1>9. CASE Check(t)
  BY <1>9 DEF Check, kernel, globals
<1>10. CASE Clock(t)
  BY <1>10 DEF Clock, kernel
<1>11. CASE Aim(t)
  BY <1>11 DEF Aim, kernel, globals
<1>12. CASE End(t)
  BY <1>12 DEF End, kernel
<1> QED
  BY <1>1, <1>2, <1>3, <1>4, <1>5, <1>6, <1>7, <1>8, <1>9, <1>10, <1>11, <1>12
     DEF Thread

-----------------------------------------------------------------------------
(* What main does: it moves a thread that has not begun.                   *)
LEMMA MainKeeps ==
  ASSUME IInv, Main
  PROVE  IInv'
<1> DEFINE Begins == \E t \in Threads :
                       /\ pc[t] = "none" /\ Go(t, "connect")
                       /\ main = "create"
                       /\ UNCHANGED <<kernel, main, mine, to, loaded, globals>>
           Stays == /\ main' \in {"time", "spin"}
                         => \A t \in Threads : pc[t] # "none"
                    /\ UNCHANGED <<pend, conn, buf, pc, mine, to,
                                  clifd, is_end, used_time>>
<1>0. Typed' /\ pc \in [Threads -> Labels]
  BY MainTyped DEF IInv, Typed
<1>1. CASE Begins
  <2>1. PICK t \in Threads : /\ pc[t] = "none" /\ Go(t, "connect")
                             /\ main = "create"
                             /\ UNCHANGED <<kernel, main, mine, to, loaded, globals>>
    BY <1>1
  <2>2. /\ pc'[t] = "connect"
        /\ \A u \in Threads : u # t => pc'[u] = pc[u]
    BY <1>0, <2>1, Moves
  <2>3. /\ UNCHANGED <<pend, conn, buf, mine, to, clifd, is_end, used_time>>
        /\ main' = "create"
    BY <2>1 DEF kernel, globals
  <2>4. In({"accept"})' = In({"accept"}) /\ In({"read"})' = In({"read"})
    BY <1>0, <2>1, Passes
  <2>5. Created' /\ Ended'
    BY <2>1, <2>2, <2>3 DEF IInv, Created, Ended
  <2>6. Queued'
    BY <2>1, <2>2, <2>3, <2>4 DEF IInv, Queued
  <2>7. Taken'
    <3>1. Accepted' = Accepted
      BY <2>1, <2>2 DEF Accepted, In
    <3> QED BY <2>3, <3>1 DEF IInv, Taken
  <2>8. Owed'
    BY <2>3, <2>4 DEF IInv, Owed, MessagesAreOwed, Messages
  <2>9. Directed'
    BY <2>1, <2>2, <2>3 DEF IInv, Directed, Looping
  <2> QED BY <1>0, <2>5, <2>6, <2>7, <2>8, <2>9 DEF IInv
<1>2. CASE Stays
  <2>1. Created' /\ Ended'
    BY <1>2 DEF IInv, Created, Ended
  <2>2. Queued' /\ Taken' /\ Owed' /\ Directed'
    BY <1>2 DEF IInv, Queued, Taken, Accepted, In, Owed, Messages,
                MessagesAreOwed, Directed
  <2> QED BY <1>0, <2>1, <2>2 DEF IInv
<1>3. MainInit \/ MainListen => Stays
  BY DEF MainInit, Bind, MainListen, Listen, globals
<1>4. MainTime \/ MainSpin => Stays
  BY DEF MainTime, MainSpin, kernel, globals, IInv, Created
<1>5. MainCreate => Begins \/ Stays
  BY DEF MainCreate, kernel, globals
<1> QED BY <1>1, <1>2, <1>3, <1>4, <1>5 DEF Main

(* A thread that connects is the last in the queue, and will accept.       *)
LEMMA ConnectKeeps ==
  ASSUME IInv, NEW t \in Threads, ThreadConnect(t), Typed'
  PROVE  IInv'
<1>1. /\ pc \in [Threads -> Labels] /\ pend[ser] \in Seq(Threads)
      /\ pc[t] = "connect" /\ Go(t, "accept")
      /\ conn \in [Threads -> {"none", "pending", "open"}]
  BY ServersAre DEF IInv, Typed, ThreadConnect, At
<1>2. path = ser
  BY ServersAre DEF ThreadConnect, Connect, ConnectFails, IInv, Typed
<1>3. /\ pend'[ser] = Append(pend[ser], t)
      /\ conn' = [conn EXCEPT ![t] = "pending"]
      /\ UNCHANGED <<buf, main, mine, to, clifd, is_end, used_time>>
  BY <1>2, ServersAre DEF ThreadConnect, Connect, globals, IInv, Typed
<1>4. pc'[t] = "accept" /\ \A u \in Threads : u # t => pc'[u] = pc[u]
  BY <1>1, Moves
<1>5. /\ Cardinality(In({"accept"})') = Cardinality(In({"accept"})) + 1
      /\ In({"read"})' = In({"read"})
  BY <1>1, Enters, Passes
<1>6. Created' /\ Ended'
  BY <1>1, <1>3, <1>4 DEF IInv, Created, Ended
<1>7. Queued'
  <2>1. /\ Len(pend'[ser]) = Len(pend[ser]) + 1
        /\ \A i \in DOMAIN pend[ser] : pend'[ser][i] = pend[ser][i]
        /\ pend'[ser][Len(pend[ser]) + 1] = t
        /\ DOMAIN pend'[ser] = DOMAIN pend[ser] \cup {Len(pend[ser]) + 1}
        /\ \A i \in DOMAIN pend[ser] : pend[ser][i] \in Threads
    <3>1. DOMAIN pend[ser] = 1 .. Len(pend[ser]) /\ Len(pend[ser]) \in Nat
      BY <1>1
    <3> QED BY <1>1, <1>3, <3>1, AppendProperties
  <2>2. conn[t] = "none"
    BY <1>1 DEF IInv, Queued
  <2>3. \A i \in DOMAIN pend[ser] : pend[ser][i] # t
    BY <2>2 DEF IInv, Queued
  <2>4. Len(pend[ser]) = Cardinality(In({"accept"}))
    BY DEF IInv, Queued
  <2>5. Len(pend'[ser]) = Cardinality(In({"accept"})')
    BY <2>1, <2>4, <1>5
  <2>6. \A i, j \in DOMAIN pend'[ser] : pend'[ser][i] = pend'[ser][j] => i = j
    BY <2>1, <2>3 DEF IInv, Queued
  <2>7. \A i \in DOMAIN pend'[ser] : conn'[pend'[ser][i]] = "pending"
    BY <2>1, <1>1, <1>3 DEF IInv, Queued
  <2>8. \A u \in Threads : pc'[u] \in {"none", "connect"} => conn'[u] = "none"
    BY <1>1, <1>3, <1>4 DEF IInv, Queued
  <2> QED BY <2>5, <2>6, <2>7, <2>8 DEF Queued
<1>8. Taken'
  <2>1. Accepted' = Accepted
    BY <1>1, <1>4 DEF Accepted, In
  <2>2. conn[t] = "none"
    BY <1>1 DEF IInv, Queued
  <2> QED BY <1>1, <1>3, <2>1, <2>2 DEF IInv, Taken
<1>9. Owed'
  BY <1>3, <1>5 DEF IInv, Owed, MessagesAreOwed, Messages
<1>10. Directed'
  BY <1>1, <1>3, <1>4 DEF IInv, Directed, Looping
<1> QED BY <1>6, <1>7, <1>8, <1>9, <1>10 DEF IInv

(* A thread that accepts takes the oldest, whosever it is.                 *)
LEMMA AcceptKeeps ==
  ASSUME IInv, NEW t \in Threads, ThreadAccept(t), Typed'
  PROVE  IInv'
<1>1. /\ pc \in [Threads -> Labels] /\ pend[ser] \in Seq(Threads)
      /\ pc[t] = "accept" /\ Go(t, "store") /\ pend[ser] # <<>>
      /\ conn \in [Threads -> {"none", "pending", "open"}]
      /\ mine \in [Threads -> Threads \cup {Nobody}]
  BY ServersAre DEF IInv, Typed, ThreadAccept, At, Accept
<1>2. PICK c : c = Oldest(ser)
  OBVIOUS
<1>3. /\ c = pend[ser][1] /\ c \in Threads /\ 1 \in DOMAIN pend[ser]
      /\ Len(pend[ser]) \in Nat /\ DOMAIN pend[ser] = 1 .. Len(pend[ser])
  BY <1>1, <1>2 DEF Oldest
<1>4. conn[c] = "pending"
  BY <1>3 DEF IInv, Queued
<1>5. /\ pend'[ser] = Tail(pend[ser])
      /\ conn' = [conn EXCEPT ![c] = "open"]
      /\ mine' = [mine EXCEPT ![t] = c]
      /\ UNCHANGED <<buf, main, to, clifd, is_end, used_time>>
  BY <1>2, <1>4, ServersAre DEF ThreadAccept, Accept, globals, IInv, Typed
<1>6. pc'[t] = "store" /\ \A u \in Threads : u # t => pc'[u] = pc[u]
  BY <1>1, Moves
<1>7. /\ Cardinality(In({"accept"})') = Cardinality(In({"accept"})) - 1
      /\ In({"read"})' = In({"read"})
  BY <1>1, Leaves, Passes
<1>8. Created' /\ Ended'
  BY <1>1, <1>5, <1>6 DEF IInv, Created, Ended
<1>9. Queued'
  <2>1. /\ Len(pend'[ser]) = Len(pend[ser]) - 1
        /\ \A i \in DOMAIN pend'[ser] :
             /\ i + 1 \in DOMAIN pend[ser] /\ i + 1 # 1
             /\ pend'[ser][i] = pend[ser][i + 1]
        /\ DOMAIN pend'[ser] \subseteq Nat
        /\ \A i \in DOMAIN pend[ser] : pend[ser][i] \in Threads
    <3>1. /\ Tail(pend[ser]) \in Seq(Threads)
          /\ Len(Tail(pend[ser])) = Len(pend[ser]) - 1
          /\ \A i \in 1 .. Len(Tail(pend[ser])) :
               Tail(pend[ser])[i] = pend[ser][i + 1]
      BY <1>1, HeadTailProperties
    <3> QED BY <1>1, <1>3, <1>5, <3>1
  <2>2. Len(pend[ser]) = Cardinality(In({"accept"}))
    BY DEF IInv, Queued
  <2>3. Len(pend'[ser]) = Cardinality(In({"accept"})')
    BY <2>1, <2>2, <1>7
  <2>4. \A i, j \in DOMAIN pend'[ser] : pend'[ser][i] = pend'[ser][j] => i = j
    <3>1. ASSUME NEW i \in DOMAIN pend'[ser], NEW j \in DOMAIN pend'[ser],
                 pend'[ser][i] = pend'[ser][j]
          PROVE  i = j
      <4>1. i + 1 = j + 1
        BY <3>1, <2>1 DEF IInv, Queued
      <4> QED BY <4>1, <2>1
    <3> QED BY <3>1
  <2>5. \A i \in DOMAIN pend'[ser] : conn'[pend'[ser][i]] = "pending"
    <3>1. ASSUME NEW i \in DOMAIN pend'[ser]
          PROVE  conn'[pend'[ser][i]] = "pending"
      <4>1. /\ pend[ser][i + 1] # c /\ conn[pend[ser][i + 1]] = "pending"
            /\ pend[ser][i + 1] \in Threads
        BY <2>1, <1>3 DEF IInv, Queued
      <4> QED BY <4>1, <2>1, <1>1, <1>5
    <3> QED BY <3>1
  <2>6. \A u \in Threads : pc'[u] \in {"none", "connect"} => conn'[u] = "none"
    BY <1>1, <1>3, <1>4, <1>5, <1>6 DEF IInv, Queued
  <2> QED BY <2>3, <2>4, <2>5, <2>6 DEF Queued
<1>10. Taken'
  <2>1. Accepted' = Accepted \cup {t} /\ t \notin Accepted
    BY <1>1, <1>6 DEF Accepted, In
  <2>2. \A u \in Accepted : /\ mine[u] \in Threads /\ conn[mine[u]] = "open"
                            /\ mine[u] # c /\ u \in Threads
    BY <1>4 DEF IInv, Taken, Accepted
  <2>3. /\ mine'[t] = c /\ \A u \in Accepted : mine'[u] = mine[u]
        /\ conn'[c] = "open"
        /\ \A d \in Threads : d # c => conn'[d] = conn[d]
    BY <1>1, <1>3, <1>5, <2>1, <2>2
  <2> QED BY <1>3, <2>1, <2>2, <2>3 DEF IInv, Taken
<1>11. Owed'
  BY <1>5, <1>7 DEF IInv, Owed, MessagesAreOwed, Messages
<1>12. Directed'
  BY <1>1, <1>5, <1>6 DEF IInv, Directed, Looping
<1> QED BY <1>8, <1>9, <1>10, <1>11, <1>12 DEF IInv

(* A step that moves no connection, and nobody into accept or out of it.   *)
LEMMA QueueStays ==
  ASSUME IInv, NEW t \in Threads, NEW label, Go(t, label),
         pc[t] \notin {"none", "connect", "accept"},
         label \notin {"none", "connect", "accept"},
         UNCHANGED <<pend, conn, main, mine>>
  PROVE  Created' /\ Queued' /\ Taken'
<1>1. pc \in [Threads -> Labels]
  BY DEF IInv, Typed
<1>2. pc'[t] = label /\ \A u \in Threads : u # t => pc'[u] = pc[u]
  BY <1>1, Moves
<1>3. In({"accept"})' = In({"accept"})
  BY <1>1, Passes
<1>4. Accepted' = Accepted
  BY <1>2 DEF Accepted, In
<1>5. Created'
  BY <1>2 DEF IInv, Created
<1>6. Queued'
  BY <1>2, <1>3 DEF IInv, Queued
<1>7. Taken'
  BY <1>4 DEF IInv, Taken
<1> QED BY <1>5, <1>6, <1>7

(* And no message: nobody enters read or leaves it.                        *)
LEMMA MessagesStay ==
  ASSUME IInv, NEW t \in Threads, NEW label, Go(t, label),
         pc[t] # "read", label # "read", UNCHANGED buf
  PROVE  Owed'
<1>1. pc \in [Threads -> Labels]
  BY DEF IInv, Typed
<1>2. In({"read"})' = In({"read"})
  BY <1>1, Passes
<1> QED BY <1>2 DEF IInv, Owed, MessagesAreOwed, Messages

(* The end is near as long as it was, if the thread that steps is not the  *)
(* one that writes the time, and none ends that has not seen is_end.       *)
LEMMA EndStays ==
  ASSUME IInv, NEW t \in Threads, NEW label, Go(t, label),
         pc[t] # "clock", label = "done" => is_end,
         UNCHANGED <<is_end, used_time>>
  PROVE  Ended'
<1>1. pc \in [Threads -> Labels]
  BY DEF IInv, Typed
<1>2. pc'[t] = label /\ \A u \in Threads : u # t => pc'[u] = pc[u]
  BY <1>1, Moves
<1> QED BY <1>2 DEF IInv, Ended

(* Where to write stays known.                                             *)
LEMMA DirectionStays ==
  ASSUME IInv, NEW t \in Threads, NEW label, Go(t, label),
         pc[t] \in Looping, label # "write", UNCHANGED <<to, clifd>>
  PROVE  Directed'
<1>1. pc \in [Threads -> Labels]
  BY DEF IInv, Typed
<1>2. pc'[t] = label /\ \A u \in Threads : u # t => pc'[u] = pc[u]
  BY <1>1, Moves
<1> QED BY <1>2 DEF IInv, Directed, Looping

-----------------------------------------------------------------------------
(* A thread that stores its connection gives everybody that one.           *)
LEMMA StoreKeeps ==
  ASSUME IInv, NEW t \in Threads, ThreadStore(t), Typed'
  PROVE  IInv'
<1>1. /\ pc \in [Threads -> Labels] /\ pc[t] = "store" /\ Go(t, "loop")
      /\ clifd' = mine[t]
      /\ UNCHANGED <<pend, conn, buf, main, mine, to, is_end, used_time>>
  BY DEF ThreadStore, At, kernel, IInv, Typed
<1>2. pc'[t] = "loop" /\ \A u \in Threads : u # t => pc'[u] = pc[u]
  BY <1>1, Moves
<1>3. mine[t] \in Threads
  BY <1>1 DEF IInv, Taken, Accepted, In
<1>4. Directed'
  BY <1>1, <1>2, <1>3 DEF IInv, Directed
<1> QED BY <1>1, <1>4, QueueStays, MessagesStay, EndStays DEF IInv

(* A thread goes on unless it sees the end,                                *)
LEMMA LoopKeeps ==
  ASSUME IInv, NEW t \in Threads, Loop(t), Typed'
  PROVE  IInv'
<1>1. PICK label \in {"done", "aim"} : Go(t, label) /\ (label = "done" => is_end)
  BY DEF Loop
<1>2. /\ pc[t] = "loop" /\ pc[t] \in Looping
      /\ UNCHANGED <<pend, conn, buf, main, mine, to, clifd, is_end, used_time>>
  BY DEF Loop, At, kernel, globals, Looping, Labels
<1> QED BY <1>1, <1>2, QueueStays, MessagesStay, EndStays, DirectionStays
        DEF IInv

(* and loads the client it will write to.                                  *)
LEMMA AimKeeps ==
  ASSUME IInv, NEW t \in Threads, Aim(t), Typed'
  PROVE  IInv'
<1>1. /\ pc \in [Threads -> Labels] /\ pc[t] = "aim" /\ Go(t, "write")
      /\ to' = [to EXCEPT ![t] = clifd]
      /\ to \in [Threads -> Threads \cup {Nobody}]
      /\ UNCHANGED <<pend, conn, buf, main, mine, clifd, is_end, used_time>>
  BY DEF Aim, At, kernel, globals, IInv, Typed
<1>2. pc'[t] = "write" /\ \A u \in Threads : u # t => pc'[u] = pc[u]
  BY <1>1, Moves
<1>3. clifd \in Threads
  BY <1>1 DEF IInv, Directed, Looping, Labels
<1>4. Directed'
  BY <1>1, <1>2, <1>3 DEF IInv, Directed
<1> QED BY <1>1, <1>4, QueueStays, MessagesStay, EndStays DEF IInv

(* A write makes a message and a reader,                                   *)
LEMMA WriteKeeps ==
  ASSUME IInv, NEW t \in Threads, ThreadWrite(t), Typed'
  PROVE  IInv'
<1>1. /\ pc \in [Threads -> Labels] /\ pc[t] = "write" /\ Go(t, "read")
      /\ pc[t] \in Looping
      /\ UNCHANGED <<pend, conn, main, mine, to, clifd, is_end, used_time>>
  BY DEF ThreadWrite, Write, At, globals, IInv, Typed, Looping, Labels
<1>2. to[t] \in Threads
  BY <1>1 DEF IInv, Directed
<1>3. Owed'
  <2>1. /\ IsFiniteSet(Messages')
        /\ Cardinality(Messages') = Cardinality(Messages) + 1
    BY <1>2, Written DEF ThreadWrite, IInv, Typed, Owed
  <2>2. Cardinality(In({"read"})') = Cardinality(In({"read"})) + 1
    BY <1>1, Enters
  <2> QED BY <2>1, <2>2 DEF IInv, Owed, MessagesAreOwed
<1> QED BY <1>1, <1>3, QueueStays, EndStays, DirectionStays DEF IInv

(* and a read takes one of each.                                           *)
LEMMA ReadKeeps ==
  ASSUME IInv, NEW t \in Threads, ThreadRead(t), Typed'
  PROVE  IInv'
<1> DEFINE label == IF time_start THEN "load" ELSE "check"
<1>1. /\ pc \in [Threads -> Labels] /\ pc[t] = "read" /\ Go(t, label)
      /\ pc[t] \in Looping
      /\ UNCHANGED <<pend, conn, main, mine, to, clifd, is_end, used_time>>
  BY DEF ThreadRead, Read, At, globals, IInv, Typed, Looping, Labels
<1>2. label \in {"load", "check"}
  OBVIOUS
<1> HIDE DEF label
<1>3. Owed'
  <2>1. /\ IsFiniteSet(Messages')
        /\ Cardinality(Messages') = Cardinality(Messages) - 1
    BY ReadOut DEF ThreadRead, IInv, Typed, Owed
  <2>2. Cardinality(In({"read"})') = Cardinality(In({"read"})) - 1
    BY <1>1, <1>2, Leaves
  <2> QED BY <2>1, <2>2 DEF IInv, Owed, MessagesAreOwed
<1>4. Created' /\ Queued' /\ Taken'
  BY <1>1, <1>2, QueueStays
<1>5. Ended' /\ Directed'
  BY <1>1, <1>2, EndStays, DirectionStays
<1> QED BY <1>3, <1>4, <1>5 DEF IInv

(* Counting concerns nobody else.                                          *)
LEMMA CountKeeps ==
  ASSUME IInv, NEW t \in Threads, CountLoad(t) \/ CountStore(t), Typed'
  PROVE  IInv'
<1>1. PICK label \in {"add", "check"} : Go(t, label)
  BY DEF CountLoad, CountStore
<1>2. /\ pc[t] \in {"load", "add"} /\ pc[t] \in Looping
      /\ UNCHANGED <<pend, conn, buf, main, mine, to, clifd, is_end, used_time>>
  BY DEF CountLoad, CountStore, At, kernel, globals, Looping, Labels
<1> QED BY <1>1, <1>2, QueueStays, MessagesStay, EndStays, DirectionStays
        DEF IInv

(* Who sees the last count                                                 *)
LEMMA CheckKeeps ==
  ASSUME IInv, NEW t \in Threads, Check(t), Typed'
  PROVE  IInv'
<1>1. PICK label \in {"loop", "end"} : Go(t, label)
  BY DEF Check
<1>2. /\ pc[t] = "check" /\ pc[t] \in Looping
      /\ UNCHANGED <<pend, conn, buf, main, mine, to, clifd, is_end, used_time>>
  BY DEF Check, At, kernel, globals, Looping, Labels
<1> QED BY <1>1, <1>2, QueueStays, MessagesStay, EndStays, DirectionStays
        DEF IInv

(* sets is_end, and goes to write the time.                                *)
LEMMA EndKeeps ==
  ASSUME IInv, NEW t \in Threads, End(t), Typed'
  PROVE  IInv'
<1>1. /\ pc[t] = "end" /\ pc[t] \in Looping /\ Go(t, "clock")
      /\ pc \in [Threads -> Labels] /\ is_end' = TRUE
      /\ UNCHANGED <<pend, conn, buf, main, mine, to, clifd, used_time>>
  BY DEF End, At, kernel, Looping, Labels, IInv, Typed
<1>2. Ended'
  <2>1. pc'[t] = "clock"
    BY <1>1, Moves
  <2> QED BY <1>1, <2>1 DEF Ended
<1> QED BY <1>1, <1>2, QueueStays, MessagesStay, DirectionStays DEF IInv

LEMMA ClockKeeps ==
  ASSUME IInv, NEW t \in Threads, Clock(t), Typed'
  PROVE  IInv'
<1>1. /\ pc[t] = "clock" /\ pc[t] \in Looping /\ Go(t, "loop")
      /\ pc \in [Threads -> Labels]
      /\ UNCHANGED <<pend, conn, buf, main, mine, to, clifd, is_end>>
      /\ used_time' = 1
  BY DEF Clock, At, kernel, Looping, Labels, IInv, Typed
<1>2. Ended'
  <2>1. pc'[t] = "loop" /\ \A u \in Threads : u # t => pc'[u] = pc[u]
    BY <1>1, Moves
  <2> QED BY <1>1, <2>1 DEF IInv, Ended
<1> QED BY <1>1, <1>2, QueueStays, MessagesStay, DirectionStays DEF IInv

-----------------------------------------------------------------------------
LEMMA InitIInv == Init => IInv
<1> SUFFICES ASSUME Init PROVE IInv
  OBVIOUS
<1>1. /\ pend[ser] = <<>> /\ DOMAIN pend[ser] = {}
      /\ \A t \in Threads : /\ pc[t] = "none" /\ conn[t] = "none"
                            /\ buf[t] = 0
      /\ is_end = FALSE /\ main = "init"
  BY ServersAre DEF Init, KernelInit
<1>2. \A l : l # "none" => In({l}) = {}
  BY <1>1 DEF In
<1>3. Typed
  <2>1. <<>> \in Seq(Threads)
    OBVIOUS
  <2>2. pend \in [Servers -> Seq(Threads)]
    BY <2>1 DEF Init, KernelInit
  <2>3. /\ path \in {NoSock, ser}
        /\ sock \in [Servers -> {"none", "bound", "listening"}]
    BY DEF Init, KernelInit
  <2>4. /\ conn \in [Threads -> {"none", "pending", "open"}]
        /\ buf \in [Threads -> Nat]
    BY ServersAre DEF Init, KernelInit
  <2>5. pc \in [Threads -> Labels] /\ loaded \in [Threads -> Nat]
    BY DEF Init, Labels
  <2>6. /\ mine \in [Threads -> Threads \cup {Nobody}]
        /\ to \in [Threads -> Threads \cup {Nobody}]
    BY DEF Init
  <2>7. /\ main = "init" /\ count = 0 /\ clifd = Nobody /\ time_start = FALSE
        /\ is_end = FALSE /\ used_time = 0
    BY DEF Init
  <2> QED BY <2>2, <2>3, <2>4, <2>5, <2>6, <2>7 DEF Typed
<1>4. Created /\ Ended /\ Directed
  BY <1>1 DEF Created, Ended, Directed, Looping
<1>5. Queued
  <2>1. Len(pend[ser]) = Cardinality(In({"accept"}))
    <3>1. Len(pend[ser]) = 0
      BY <1>1
    <3>2. Cardinality(In({"accept"})) = 0
      BY <1>2, FS_EmptySet
    <3> QED BY <3>1, <3>2
  <2> QED BY <1>1, <2>1 DEF Queued
<1>6. Taken
  <2>1. Accepted = {}
    BY <1>1 DEF Accepted, In
  <2> QED BY <2>1 DEF Taken
<1>7. Owed
  <2>1. Messages = {}
    BY <1>1 DEF Messages
  <2> QED BY <1>2, <2>1, FS_EmptySet DEF Owed, MessagesAreOwed
<1> QED BY <1>3, <1>4, <1>5, <1>6, <1>7 DEF IInv

LEMMA StepIInv == IInv /\ [Next]_vars => IInv'
<1> SUFFICES ASSUME IInv, [Next]_vars PROVE IInv'
  OBVIOUS
<1>1. CASE Main
  BY <1>1, MainKeeps
<1>2. ASSUME NEW t \in Threads, Thread(t)
      PROVE  IInv'
  BY <1>2, ThreadTyped, ConnectKeeps, AcceptKeeps, StoreKeeps, LoopKeeps,
     AimKeeps, WriteKeeps, ReadKeeps, CountKeeps, CheckKeeps, EndKeeps, ClockKeeps
     DEF Thread
<1>3. CASE UNCHANGED vars
  BY <1>3 DEF vars, kernel, locals, globals, IInv, Typed, Created, Ended,
          Queued, Taken, Accepted, In, Owed, MessagesAreOwed, Messages, Directed
<1> QED BY <1>1, <1>2, <1>3 DEF Next

LEMMA ThreadsInvariant == Spec => []IInv
BY InitIInv, StepIInv, PTL DEF Spec

-----------------------------------------------------------------------------
(* A connection holds no more messages than there are.                     *)
LEMMA BufBounded ==
  ASSUME IInv
  PROVE  buf \in [Threads -> 0 .. Cardinality(Threads)]
<1>1. ASSUME NEW c \in Threads
      PROVE  buf[c] \in 0 .. Cardinality(Threads)
  <2>1. buf[c] \in Nat
    BY DEF IInv, Typed
  <2>2. ({c} \X (1 .. buf[c])) \in SUBSET Messages
    BY DEF Messages
  <2>3. /\ IsFiniteSet({c}) /\ Cardinality({c}) = 1
        /\ IsFiniteSet(1 .. buf[c]) /\ Cardinality(1 .. buf[c]) = buf[c]
    <3>1. IsFiniteSet({c}) /\ Cardinality({c}) = 1
      BY FS_Singleton
    <3>2. /\ IsFiniteSet(1 .. buf[c])
          /\ Cardinality(1 .. buf[c]) = IF 1 > buf[c] THEN 0 ELSE buf[c] - 1 + 1
      BY <2>1, FS_Interval
    <3>3. Cardinality(1 .. buf[c]) = buf[c]
      BY <2>1, <3>2
    <3> QED BY <3>1, <3>2, <3>3
  <2>4. Cardinality({c} \X (1 .. buf[c])) = buf[c]
    <3>1. Cardinality({c} \X (1 .. buf[c]))
            = Cardinality({c}) * Cardinality(1 .. buf[c])
      BY <2>3, FS_Product
    <3> QED BY <2>1, <2>3, <3>1
  <2>5. buf[c] <= Cardinality(Messages)
    BY <2>2, <2>4, FS_Subset DEF IInv, Owed
  <2>6. /\ Cardinality(In({"read"})) <= Cardinality(Threads)
        /\ Cardinality(Threads) \in Nat /\ Cardinality(In({"read"})) \in Nat
    <3>1. In({"read"}) \in SUBSET Threads
      BY DEF In
    <3> QED BY <3>1, InIsFinite, ThreadsAssumption, FS_Subset, FS_CardinalityType
  <2> QED BY <2>1, <2>5, <2>6 DEF IInv, Owed, MessagesAreOwed
<1> QED BY <1>1 DEF IInv, Typed

(* The variables keep their types; in particular no connection ever holds  *)
(* more messages than there are threads, so that write does not block      *)
(* (test_AF_UNIX.cpp:36).                                                  *)
THEOREM ThreadsTypes == Spec => []TypeOK
<1>1. IInv => TypeOK
  BY BufBounded, ServersAre DEF IInv, Typed, TypeOK
<1> QED BY <1>1, ThreadsInvariant, PTL

(* A thread that accepts finds a connection, and none is taken twice,      *)
(* whoever connects and accepts first (:28-29).                            *)
THEOREM AcceptsPairUpHolds == Spec => []AcceptsPairUp
<1>1. IInv => AcceptsPairUp
  BY DEF IInv, Queued, Taken, AcceptsPairUp
<1> QED BY <1>1, ThreadsInvariant, PTL

(* As many messages are under way as threads wait to read (:36-37).        *)
THEOREM MessagesAreOwedHolds == Spec => []MessagesAreOwed
<1>1. IInv => MessagesAreOwed
  BY DEF IInv, Owed
<1> QED BY <1>1, ThreadsInvariant, PTL

(* If all threads waited, all would be in read, and no message would be    *)
(* there, though one is owed to each.                                      *)
LEMMA NotAllWait ==
  ASSUME IInv, main = "spin", used_time = 0
  PROVE  \E t \in Threads : ~Waits(t)
<1> SUFFICES ASSUME \A t \in Threads : Waits(t) PROVE FALSE
  OBVIOUS
<1>1. \A t \in Threads : pc[t] # "none"
  BY DEF IInv, Created
<1>2. \A t \in Threads : pc[t] # "done"
  <2>1. \A t \in Threads : pc[t] # "clock"
    BY DEF Waits
  <2> QED BY <2>1 DEF IInv, Ended
<1>3. \A t \in Threads : pc[t] # "accept"
  <2>1. ASSUME NEW t \in Threads, pc[t] = "accept"
        PROVE  FALSE
    <3>1. pend[ser] = <<>>
      BY <2>1 DEF Waits
    <3>2. Cardinality(In({"accept"})) = 0
      BY <3>1 DEF IInv, Queued
    <3>3. In({"accept"}) = {}
      BY <3>2, InIsFinite, FS_EmptySet
    <3> QED BY <2>1, <3>3 DEF In
  <2> QED BY <2>1
<1>4. \A t \in Threads : pc[t] # "connect"
  <2>1. In({"accept"}) = {}
    BY <1>3 DEF In
  <2>2. Len(pend[ser]) = 0
    BY <2>1, FS_EmptySet DEF IInv, Queued
  <2> QED BY <2>2, ServersAre DEF Waits
<1>5. \A t \in Threads : pc[t] = "read" /\ buf[t] = 0
  BY <1>1, <1>2, <1>3, <1>4 DEF Waits
<1>6. Messages = {} /\ In({"read"}) = Threads
  BY <1>5 DEF Messages, In
<1>7. Threads = {}
  BY <1>6, ThreadsAssumption, FS_EmptySet DEF IInv, Owed, MessagesAreOwed
<1> QED BY <1>7, ThreadsAssumption

(* The threads are never all blocked before the result is there, although  *)
(* they share one ser.clifd (:29, :36-37, :66).                            *)
THEOREM SomebodyGoesOnHolds == Spec => []SomebodyGoesOn
<1>1. IInv => SomebodyGoesOn
  BY NotAllWait DEF SomebodyGoesOn
<1> QED BY <1>1, ThreadsInvariant, PTL
=============================================================================
