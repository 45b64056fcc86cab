---------------------------- MODULE FreeListUse -----------------------------
(***************************************************************************)
(* freeList used as it is meant to be: an id is given back only by whoever *)
(* was granted it, once.  (What msgr really gives back is in Msgr.)        *)
(***************************************************************************)
EXTENDS FreeList, FiniteSets

CONSTANT MaxRounds   \* bound of the model: extensions of the list

ASSUME MaxRoundsAssumption == MaxRounds \in Nat

VARIABLES held,      \* the ids granted and not given back
          rounds     \* extensions so far

vars == <<freeListVars, held, rounds>>

Init ==
  /\ FreeListInit(0)
  /\ held = {}
  /\ rounds = 0

\* mutant: -1 is taken for an id
TakeAny ==
  /\ free_list_ = <<>> => rounds < MaxRounds
  /\ GetFreeFd
  /\ held' = held \cup {FreeFront}
  /\ rounds' = IF free_list_ = <<>> THEN rounds + 1 ELSE rounds

Take ==
  /\ free_list_ = <<>> => rounds < MaxRounds
  /\ GetFreeFd
  /\ held' = IF FreeFront = NoFd THEN held ELSE held \cup {FreeFront}
  /\ rounds' = IF free_list_ = <<>> THEN rounds + 1 ELSE rounds

GiveBack(id) ==
  /\ FreeFd(id)
  /\ held' = held \ {id}
  /\ UNCHANGED rounds

Next == Take \/ \E id \in held : GiveBack(id)

Spec == Init /\ [][Next]_vars

-----------------------------------------------------------------------------
TypeOK ==
  /\ count_ \in Nat
  /\ free_list_ \in Seq(Nat \cup {NoFd})
  /\ nextFd \in FirstFd .. FdLimit
  /\ segs \subseteq Nat
  /\ held \subseteq Nat
  /\ rounds \in 0 .. MaxRounds

(* The ids are neither lost nor doubled: every descriptor opened so far is *)
(* either held or in the list, and in the list at one place only, also     *)
(* after the list has run empty and after the descriptors have run out     *)
(* (freeList.cpp:31-52).                                                   *)
EachIdOnce ==
  LET listed == {i \in DOMAIN free_list_ : free_list_[i] # NoFd}
  IN  /\ held \cup {free_list_[i] : i \in listed} = FirstFd .. nextFd - 1
      /\ Cardinality(held) + Cardinality(listed) = nextFd - FirstFd

(* An extension never reuses a name: it makes as many new segments as it   *)
(* gets descriptors, although its names leave growing gaps                 *)
(* (freeList.cpp:35).                                                      *)
OneSegmentPerFd == Cardinality(segs) = nextFd - FirstFd
=============================================================================
