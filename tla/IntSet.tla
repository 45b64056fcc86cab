------------------------------- MODULE IntSet -------------------------------
(***************************************************************************)
(* What a BitMap promises: a set of small numbers to which numbers can be  *)
(* added and from which they can be taken.                                 *)
(***************************************************************************)
CONSTANT Index   \* the numbers that fit

VARIABLE members

Init == members = {}

Add(i)    == members' = members \cup {i}
Remove(i) == members' = members \ {i}

Next == \E i \in Index : Add(i) \/ Remove(i)

Spec == Init /\ [][Next]_members
=============================================================================
