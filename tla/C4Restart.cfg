\* Any process may die at any point, a second server listens at the address
\* of the first, the manager runs out of descriptors.
CONSTANTS
  s1 = s1
  s2 = s2
  c1 = c1
  c2 = c2
  c3 = c3
  l1 = l1
  l2 = l2
  a1 = a1
  a2 = a2
  k1 = k1
  k2 = k2
  k3 = k3
  A = A
  B = B
  X = X
  Y = Y
  Z = Z
  NoProc = NoProc
  NoAddr = NoAddr
  Stray = Stray
  Backlog = 1
  InboxCap = 4
  INITIALSIZE = 2
  EXTENDSIZE = 2
  FirstFd = 1
  FdLimit = 7
  MaxPops = 3
  Closable = {a1, a2, k1}
  DefaultBuilt = {a1}
  Mortal = {s1, s2, c1}
  StoreBuffer = TRUE
  Procs = {s1, s2, c1, c2}
  Addrs = {A, X, Y}
  Channels = {l1, l2, a1, a2, k1, k2}
  ProcOf <- TwoByTwoProcOf
  AddrOf <- TwoByTwoAddrOf
  Listeners = {l1, l2}
  Connectors = {k1, k2}
  Acceptees = {a1, a2}
SPECIFICATION Spec
INVARIANTS
  PrivateSegment
  GrantInOnePlace
PROPERTIES
  IsARendezvous
  NoEarlyRelease
CHECK_DEADLOCK FALSE
