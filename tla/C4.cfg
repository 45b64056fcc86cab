\* One server that accepts two connections, two clients that retry; three of
\* the four ends may close and come back.  The queue has one place, and a
\* store of a flag may be delayed.
CONSTANTS
  s1 = s1
  s2 = s2
  c1 = c1
  c2 = c2
  c3 = c3
  l1 = l1
  l2 = l2
  a1 = a1
  a2 = a2
  k1 = k1
  k2 = k2
  k3 = k3
  A = A
  B = B
  X = X
  Y = Y
  Z = Z
  NoProc = NoProc
  NoAddr = NoAddr
  Stray = Stray
  Backlog = 1
  InboxCap = 3
  INITIALSIZE = 4
  EXTENDSIZE = 2
  FirstFd = 1
  FdLimit = 12
  MaxPops = 2
  Closable = {a1, a2, k1}
  DefaultBuilt = {}
  Mortal = {}
  StoreBuffer = TRUE
  Procs = {s1, c1, c2}
  Addrs = {A, X, Y}
  Channels = {l1, a1, a2, k1, k2}
  ProcOf <- OneServerProcOf
  AddrOf <- OneServerAddrOf
  Listeners = {l1}
  Connectors = {k1, k2}
  Acceptees = {a1, a2}
SPECIFICATION FairSpec
INVARIANTS
  TypeOK
  OneInFlight
  MetAtTheAddress
  GrantInOnePlace
PROPERTIES
  LastOneOut
  IsARendezvous
  CallsReturn
  RetriesSucceed
CHECK_DEADLOCK FALSE
