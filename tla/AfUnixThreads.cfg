\* Three threads; a queue that holds two connections, so that connect blocks.
CONSTANTS
  ser = ser
  Servers = {ser}
  Clients = {t1, t2, t3}
  Threads = {t1, t2, t3}
  QLEN = 1
  NoSock = NoSock
  OldSock = OldSock
  MaxCount = 2
SPECIFICATION FairSpec
INVARIANTS
  TypeOK
  AcceptsPairUp
  MessagesAreOwed
  SomebodyGoesOn
PROPERTIES
  BenchmarkEnds
CHECK_DEADLOCK FALSE
