\* Texts of up to nine characters: five components, components over 255, and
\* some that are no int.
CONSTANTS
  Dot = Dot
  Digits = {1, 9}
  MaxLen = 9
  IntMax = 9999
SPECIFICATION Spec
INVARIANTS
  TypeOK
  ConstructorReads
  DottedQuad
CHECK_DEADLOCK FALSE
