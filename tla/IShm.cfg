\* A lane of one byte for the server, of two for the client: size 2 spills from
\* the first, size 3 from both, and ends behind the mapping.
CONSTANTS
  ShmSize = 27
  Sizes = {1, 2, 3}
  MaxWrites = 2
SPECIFICATION Spec
INVARIANTS
  TypeOK
  ReadsAreRegular
CHECK_DEADLOCK FALSE
