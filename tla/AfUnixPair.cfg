\* Two runs of the server, two of the client, one of each LOOPBACK program; a
\* connection holds less than two calls write, and the end is within a call.
CONSTANTS
  Servers = {s1, s2}
  Clients = {c1, c2}
  LoopbackServers = {ls}
  LoopbackClients = {lc}
  Mortal = {c1}
  QLEN = 0
  NoSock = NoSock
  OldSock = OldSock
  Size = 2
  Room = 3
  Top = 3
SPECIFICATION FairSpec
INVARIANTS
  TypeOK
  SomebodyServes
  NothingIsLost
PROPERTIES
  EverythingArrives
  NobodyWaitsInVain
CHECK_DEADLOCK FALSE
