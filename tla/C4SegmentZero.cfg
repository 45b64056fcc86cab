\* After enough closes: does every connection have its own segment?
CONSTANTS
  s1 = s1
  s2 = s2
  c1 = c1
  c2 = c2
  c3 = c3
  l1 = l1
  l2 = l2
  a1 = a1
  a2 = a2
  k1 = k1
  k2 = k2
  k3 = k3
  A = A
  B = B
  X = X
  Y = Y
  Z = Z
  NoProc = NoProc
  NoAddr = NoAddr
  Stray = Stray
  Backlog = 3
  InboxCap = 4
  INITIALSIZE = 2
  EXTENDSIZE = 2
  FirstFd = 1
  FdLimit = 12
  MaxPops = 2
  Closable = {a1, k1}
  DefaultBuilt = {}
  Mortal = {}
  StoreBuffer = FALSE
  Procs = {s1, c1, c2, c3}
  Addrs = {A, X, Y, Z}
  Channels = {l1, a1, a2, k1, k2, k3}
  ProcOf <- ThreeClientsProcOf
  AddrOf <- ThreeClientsAddrOf
  Listeners = {l1}
  Connectors = {k1, k2, k3}
  Acceptees = {a1, a2}
SPECIFICATION Spec
INVARIANTS
  EveryMatchItsOwnSegment
CHECK_DEADLOCK FALSE
