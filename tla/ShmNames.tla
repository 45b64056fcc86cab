------------------------------ MODULE ShmNames ------------------------------
(***************************************************************************)
(* The POSIX shared memory objects that carry connections: c4_Manager_<i>. *)
(* The manager's freeList creates them, the two ends of a connection open  *)
(* them by name.                                                           *)
(***************************************************************************)

VARIABLE segs   \* the names that exist: i for c4_Manager_<i>
=============================================================================
