\* Three ids, extensions of three: the second one meets the descriptor limit.
CONSTANTS
  INITIALSIZE = 3
  EXTENDSIZE = 3
  FirstFd = 3
  FdLimit = 10
  MaxRounds = 3
SPECIFICATION Spec
INVARIANTS
  TypeOK
  EachIdOnce
  OneSegmentPerFd
CHECK_DEADLOCK FALSE
