--------------------------- MODULE AfUnixThreads ---------------------------
(***************************************************************************)
(* 1148/test_AF_UNIX.cpp: one process with one server object, ser, and a   *)
(* thread for each client.  Every thread connects its client, accepts a    *)
(* connection - not necessarily its own - into the one field ser.clifd,    *)
(* and then writes to ser.clifd and reads from its client for ever.        *)
(* Globals are shared without a lock: no step loads or stores two.         *)
(***************************************************************************)
EXTENDS AfUnix, FiniteSets

CONSTANTS ser,
          Threads,   \* a thread and its client object
          MaxCount   \* bound of the model: the 100*1000*1000 of line 43

\* main creates pt_num threads, at least one
ASSUME ThreadsAssumption ==
  /\ Servers = {ser} /\ Clients = Threads
  /\ IsFiniteSet(Threads) /\ Threads # {}
  /\ MaxCount \in Nat \ {0}

VARIABLES
  main,      \* where main is
  pc,        \* where each thread is
  mine,      \* what its accept returned
  to,        \* the clifd it has loaded
  loaded,    \* the count it has loaded
  clifd, count, time_start, is_end, used_time   \* the globals

locals  == <<main, pc, mine, to, loaded>>
globals == <<clifd, count, time_start, is_end, used_time>>
vars    == <<kernel, locals, globals>>

Nobody == "nobody"

Go(t, label) == pc' = [pc EXCEPT ![t] = label]
At(t, label) == main # "ended" /\ pc[t] = label

-----------------------------------------------------------------------------
(* main.  The constructor of ser has run, and no other program is at the   *)
(* path: neither bind nor connect fails, which would end the process.      *)
MainInit ==
  /\ main = "init"
  /\ Bind(ser)
  /\ main' = "listen"
  /\ UNCHANGED <<pc, mine, to, loaded, globals>>

MainListen ==
  /\ main = "listen" /\ Listen(ser)
  /\ main' = "create"
  /\ UNCHANGED <<pc, mine, to, loaded, globals>>

MainCreate ==
  /\ main = "create"
  /\ \/ \E t \in Threads : pc[t] = "none" /\ Go(t, "connect") /\ UNCHANGED main
     \/ (\A t \in Threads : pc[t] # "none") /\ main' = "time" /\ UNCHANGED pc
  /\ UNCHANGED <<kernel, mine, to, loaded, globals>>

MainTime ==
  /\ main = "time"
  /\ time_start' = TRUE
  /\ main' = "spin"
  /\ UNCHANGED <<kernel, pc, mine, to, loaded, clifd, count, is_end, used_time>>

\* the end of main ends every thread
MainSpin ==
  /\ main = "spin" /\ used_time # 0
  /\ main' = "ended"
  /\ UNCHANGED <<kernel, pc, mine, to, loaded, globals>>

Main == MainInit \/ MainListen \/ MainCreate \/ MainTime \/ MainSpin

-----------------------------------------------------------------------------
(* A thread: client_connect, then server_connect in two steps, the call    *)
(* and the store into ser.clifd.                                           *)
ThreadConnect(t) ==
  /\ At(t, "connect")
  /\ Connect(t)
  /\ Go(t, "accept")
  /\ UNCHANGED <<main, mine, to, loaded, globals>>

\* mutant: the thread takes the connection and leaves it in the queue
ThreadAcceptPeek(t) ==
  /\ At(t, "accept") /\ pend[ser] # <<>>
  /\ mine' = [mine EXCEPT ![t] = Oldest(ser)]
  /\ Go(t, "store")
  /\ UNCHANGED <<kernel, main, to, loaded, globals>>

ThreadAccept(t) ==
  /\ At(t, "accept")
  /\ Accept(ser)
  /\ mine' = [mine EXCEPT ![t] = Oldest(ser)]
  /\ Go(t, "store")
  /\ UNCHANGED <<main, to, loaded, globals>>

ThreadStore(t) ==
  /\ At(t, "store")
  /\ clifd' = mine[t]
  /\ Go(t, "loop")
  /\ UNCHANGED <<kernel, main, mine, to, loaded,
                 count, time_start, is_end, used_time>>

(* The loop: write to ser.clifd, read from the own client, count, check.   *)
\* mutant: the loop does not write
LoopReads(t) ==
  /\ At(t, "loop")
  /\ Go(t, IF is_end THEN "done" ELSE "read")
  /\ UNCHANGED <<kernel, main, mine, to, loaded, globals>>

Loop(t) ==
  /\ At(t, "loop")
  /\ Go(t, IF is_end THEN "done" ELSE "aim")
  /\ UNCHANGED <<kernel, main, mine, to, loaded, globals>>

Aim(t) ==
  /\ At(t, "aim")
  /\ to' = [to EXCEPT ![t] = clifd]
  /\ Go(t, "write")
  /\ UNCHANGED <<kernel, main, mine, loaded, globals>>

ThreadWrite(t) ==
  /\ At(t, "write")
  /\ Write(to[t], 1)
  /\ Go(t, "read")
  /\ UNCHANGED <<main, mine, to, loaded, globals>>

\* mutant: a read that leaves the message in the connection
ThreadReadPeek(t) ==
  /\ At(t, "read")
  /\ buf[t] > 0
  /\ Go(t, IF time_start THEN "load" ELSE "check")
  /\ UNCHANGED <<kernel, main, mine, to, loaded, globals>>

ThreadRead(t) ==
  /\ At(t, "read")
  /\ Read(t, 1)
  /\ Go(t, IF time_start THEN "load" ELSE "check")
  /\ UNCHANGED <<main, mine, to, loaded, globals>>

CountLoad(t) ==
  /\ At(t, "load")
  /\ loaded' = [loaded EXCEPT ![t] = count]
  /\ Go(t, "add")
  /\ UNCHANGED <<kernel, main, mine, to, globals>>

CountStore(t) ==
  /\ At(t, "add")
  /\ count' = loaded[t] + 1
  /\ Go(t, "check")
  /\ UNCHANGED <<kernel, main, mine, to, loaded,
                 clifd, time_start, is_end, used_time>>

Check(t) ==
  /\ At(t, "check")
  /\ Go(t, IF count >= MaxCount THEN "end" ELSE "loop")
  /\ UNCHANGED <<kernel, main, mine, to, loaded, globals>>

End(t) ==
  /\ At(t, "end")
  /\ is_end' = TRUE
  /\ Go(t, "clock")
  /\ UNCHANGED <<kernel, main, mine, to, loaded,
                 clifd, count, time_start, used_time>>

\* whole seconds; a run of 100*1000*1000 rounds takes more than one
Clock(t) ==
  /\ At(t, "clock")
  /\ used_time' = 1
  /\ Go(t, "loop")
  /\ UNCHANGED <<kernel, main, mine, to, loaded,
                 clifd, count, time_start, is_end>>

Thread(t) ==
  \/ ThreadConnect(t) \/ ThreadAccept(t) \/ ThreadStore(t)
  \/ Loop(t) \/ Aim(t) \/ ThreadWrite(t) \/ ThreadRead(t)
  \/ CountLoad(t) \/ CountStore(t) \/ Check(t) \/ End(t) \/ Clock(t)

-----------------------------------------------------------------------------
Init ==
  /\ KernelInit /\ path = NoSock
  /\ main = "init"
  /\ pc = [t \in Threads |-> "none"]
  /\ mine = [t \in Threads |-> Nobody] /\ to = [t \in Threads |-> Nobody]
  /\ loaded = [t \in Threads |-> 0]
  /\ clifd = Nobody /\ count = 0
  /\ time_start = FALSE /\ is_end = FALSE /\ used_time = 0

Next == Main \/ \E t \in Threads : Thread(t)

Spec == Init /\ [][Next]_vars

(* Threads are scheduled by the kernel: one that can go on does in the end. *)
FairSpec == Spec /\ WF_vars(Main) /\ \A t \in Threads : WF_vars(Thread(t))

-----------------------------------------------------------------------------
Labels == {"none", "connect", "accept", "store", "loop", "aim", "write", "read",
           "load", "add", "check", "end", "clock", "done"}

(* The types of the variables.                                             *)
TypeOK ==
  /\ path \in {NoSock, ser} /\ sock[ser] \in {"none", "bound", "listening"}
  /\ pend[ser] \in Seq(Threads)
  /\ conn \in [Threads -> {"none", "pending", "open"}]
  /\ buf \in [Threads -> 0 .. Cardinality(Threads)]
  /\ main \in {"init", "listen", "create", "time", "spin", "ended"}
  /\ pc \in [Threads -> Labels]
  /\ mine \in [Threads -> Threads \cup {Nobody}]
  /\ to \in [Threads -> Threads \cup {Nobody}]
  /\ loaded \in [Threads -> Nat] /\ count \in Nat
  /\ clifd \in Threads \cup {Nobody}
  /\ time_start \in BOOLEAN /\ is_end \in BOOLEAN /\ used_time \in {0, 1}

\* where the threads are
In(labels) == {t \in Threads : pc[t] \in labels}
Accepted   == Threads \ In({"none", "connect", "accept"})

(* Although any thread may take any connection, a thread that calls accept *)
(* finds one, and no connection is taken by two: there are as many in the  *)
(* queue as threads in accept (test_AF_UNIX.cpp:28-29).                    *)
AcceptsPairUp ==
  /\ Len(pend[ser]) = Cardinality(In({"accept"}))
  /\ \A t, u \in Accepted : mine[t] = mine[u] => t = u

\* the messages in the connections, one by one
Messages == UNION {{c} \X (1 .. buf[c]) : c \in Threads}

(* A message is written for each thread that is in read, to whichever      *)
(* client ser.clifd was at the time: so no connection ever holds more than *)
(* one message per thread, and write never blocks (:36-37).                *)
MessagesAreOwed == Cardinality(Messages) = Cardinality(In({"read"}))

(* Each thread waits for what others write to it, and most of them wait    *)
(* for ever: ser.clifd is overwritten by every accept, and all write to    *)
(* its last value.  But never do all wait: as long as main waits for the   *)
(* result, a thread can go on (:29, :36-37, :66).                          *)
Waits(t) ==
  \/ pc[t] = "read" /\ buf[t] = 0
  \/ pc[t] = "accept" /\ pend[ser] = <<>>
  \/ pc[t] = "connect" /\ Len(pend[ser]) > QLEN
  \/ pc[t] \in {"none", "done"}

SomebodyGoesOn ==
  main = "spin" /\ used_time = 0 => \E t \in Threads : ~Waits(t)

(* The benchmark comes to its end, although the threads lose counts to     *)
(* each other (:41) and all but one may be blocked in read.                *)
BenchmarkEnds == <>(main = "ended" /\ used_time # 0)
=============================================================================
