\* A listening channel also connects, and is closed: LISTEN_CLOSE.
CONSTANTS
  s1 = s1
  s2 = s2
  c1 = c1
  c2 = c2
  c3 = c3
  l1 = l1
  l2 = l2
  a1 = a1
  a2 = a2
  k1 = k1
  k2 = k2
  k3 = k3
  A = A
  B = B
  X = X
  Y = Y
  Z = Z
  NoProc = NoProc
  NoAddr = NoAddr
  Stray = Stray
  Backlog = 1
  InboxCap = 3
  INITIALSIZE = 2
  EXTENDSIZE = 2
  FirstFd = 1
  FdLimit = 12
  MaxPops = 3
  Closable = {l1, l2, a2, k1}
  DefaultBuilt = {}
  Mortal = {}
  StoreBuffer = FALSE
  Procs = {s1, s2, c1}
  Addrs = {A, B, X}
  Channels = {l1, l2, a2, k1}
  ProcOf <- ReuseProcOf
  AddrOf <- ReuseAddrOf
  Listeners = {l1, l2}
  Connectors = {l1, k1}
  Acceptees = {a2}
SPECIFICATION Spec
INVARIANTS
  OneInFlight
  
CHECK_DEADLOCK FALSE
