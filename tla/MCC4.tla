-------------------------------- MODULE MCC4 --------------------------------
(* Instances of C4 for TLC.  Processes: s serve, c are clients.  Channels: *)
(* l listen, a are given to accept, k connect.                             *)
EXTENDS C4, TLC

CONSTANTS s1, s2, c1, c2, c3, l1, l2, a1, a2, k1, k2, k3,
          A, B, X, Y, Z

\* one server with two channels to accept into, two clients
OneServerProcOf ==
  (l1 :> s1) @@ (a1 :> s1) @@ (a2 :> s1) @@ (k1 :> c1) @@ (k2 :> c2)
OneServerAddrOf ==
  (l1 :> A) @@ (a1 :> A) @@ (a2 :> A) @@ (k1 :> X) @@ (k2 :> Y)

\* one server, three clients
ThreeClientsProcOf == OneServerProcOf @@ (k3 :> c3)
ThreeClientsAddrOf == OneServerAddrOf @@ (k3 :> Z)

\* two servers at one address, two clients
TwoByTwoProcOf ==
  (l1 :> s1) @@ (a1 :> s1) @@ (l2 :> s2) @@ (a2 :> s2) @@ (k1 :> c1) @@ (k2 :> c2)
TwoByTwoAddrOf ==
  (l1 :> A) @@ (a1 :> A) @@ (l2 :> A) @@ (a2 :> A) @@ (k1 :> X) @@ (k2 :> Y)

\* a listening channel that also connects to a second server, one client
ReuseProcOf ==
  (l1 :> s1) @@ (l2 :> s2) @@ (a2 :> s2) @@ (k1 :> c1)
ReuseAddrOf ==
  (l1 :> A) @@ (l2 :> B) @@ (a2 :> B) @@ (k1 :> X)
=============================================================================
