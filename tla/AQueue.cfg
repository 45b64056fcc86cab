\* One backlog, two connections: the ring wraps twice.
CONSTANTS
  n1 = n1
  n2 = n2
  Nodes = {n1, n2}
  Blank = Blank
  Backlogs <- BacklogTwo
  MaxGrants = 6
SPECIFICATION Spec
INVARIANTS
  TypeOK
  NoSlotRace
  FullMeansBacklog
PROPERTIES
  EnqueueNeverRefused
  FifoSpec
