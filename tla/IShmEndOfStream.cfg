\* The peer has closed and everything is read: does read say so?
CONSTANTS
  ShmSize = 28
  Sizes = {1, 2}
  MaxWrites = 1
SPECIFICATION Spec
PROPERTIES
  EndOfStream
CHECK_DEADLOCK FALSE
