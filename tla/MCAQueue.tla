------------------------------ MODULE MCAQueue ------------------------------
(* Instances of AQueue for TLC: the constants get their values in the      *)
(* configurations.                                                         *)
EXTENDS AQueue

CONSTANTS n1, n2   \* two connections, told apart by identity only

BacklogTwo      == {2}
BacklogTooLarge == {64}
=============================================================================
