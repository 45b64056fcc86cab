------------------------------ MODULE FreeList ------------------------------
(***************************************************************************)
(* freeList (util/freeList.cpp): the manager's list of ids for the shared  *)
(* memory segments c4_Manager_<name> that carry the connections.  The list *)
(* holds the file descriptors that shm_open returned, in creation order,   *)
(* while the segments are named by the counter count_.                     *)
(***************************************************************************)
EXTENDS ShmNames, Integers, Sequences

CONSTANTS INITIALSIZE,  \* segments made by the constructor
          EXTENDSIZE,   \* segments made when the list runs empty
          FirstFd,      \* the first free descriptor of the manager process
          FdLimit       \* its descriptors are 0 .. FdLimit - 1

ASSUME FreeListAssumption ==
  /\ INITIALSIZE \in Nat /\ EXTENDSIZE \in Nat \ {0}
  /\ FirstFd \in Nat /\ FdLimit \in Nat
  /\ FirstFd + INITIALSIZE <= FdLimit

VARIABLES count_,      \* the counter the names are taken from
          free_list_,  \* the ids that can be granted, oldest first
          nextFd       \* the next descriptor the manager process gets

freeListVars == <<count_, free_list_, nextFd, segs>>

-----------------------------------------------------------------------------
NoFd == -1   \* what shm_open returns when the descriptors are used up

\* the result of the i-th of a series of shm_open calls
OpenedFd(i) == IF nextFd + i - 1 < FdLimit THEN nextFd + i - 1 ELSE NoFd

\* mutant: names that start at the counter itself
ExtendedNameFromCount(i) == count_ + i - 1

\* the names of an extension: count_ += i in the i-th round
ExtendedName(i) == count_ + (i * (i + 1)) \div 2

-----------------------------------------------------------------------------
\* others: descriptors the process opens right after the list's
FreeListInit(others) ==
  /\ count_ = INITIALSIZE
  /\ free_list_ = [i \in 1 .. INITIALSIZE |-> FirstFd + i - 1]
  /\ nextFd = FirstFd + INITIALSIZE + others
  /\ segs = 0 .. INITIALSIZE - 1

\* what getFreeFd returns in this state
FreeFront == IF free_list_ = <<>> THEN OpenedFd(1) ELSE Head(free_list_)

\* mutant: front() without pop_front()
GetFreeFdNoPop ==
  /\ free_list_ # <<>>
  /\ UNCHANGED <<count_, free_list_, nextFd, segs>>

GetFreeFd ==
  \/ /\ free_list_ # <<>>
     /\ free_list_' = Tail(free_list_)
     /\ UNCHANGED <<count_, nextFd, segs>>
  \/ /\ free_list_ = <<>>
     /\ free_list_' = Tail([i \in 1 .. EXTENDSIZE |-> OpenedFd(i)])
     /\ count_' = ExtendedName(EXTENDSIZE)
     /\ nextFd' = IF nextFd + EXTENDSIZE <= FdLimit THEN nextFd + EXTENDSIZE
                                                    ELSE FdLimit
     /\ segs' = segs \cup {ExtendedName(i) :
                             i \in {j \in 1 .. EXTENDSIZE : OpenedFd(j) # NoFd}}

FreeFd(fd) ==
  /\ free_list_' = Append(free_list_, fd)
  /\ UNCHANGED <<count_, nextFd, segs>>
=============================================================================
