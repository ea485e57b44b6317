SPECIFICATION Spec
CONSTANTS
  PGSIZE = 8
  Header = 6
  NPages = 4
  Sizes = {1, 4, 9}
  MaxLive = 3
CHECK_DEADLOCK FALSE
INVARIANTS
  DispatchByAlignment
  PagesOwned
