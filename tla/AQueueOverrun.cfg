\* One more: the last cell lies behind the mapped page.
CONSTANTS
  n1 = n1
  n2 = n2
  Nodes = {n1}
  Blank = Blank
  Backlogs <- BacklogTooLarge
  MaxGrants = 66
SPECIFICATION Spec
INVARIANTS
  StoreInsideMapping
