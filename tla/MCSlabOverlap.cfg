SPECIFICATION Spec
CONSTANTS
  PGSIZE = 8
  Header = 5
  NPages = 6
  Sizes = {1, 2, 9}
  MaxLive = 4
CHECK_DEADLOCK FALSE
INVARIANT NoOverlap
