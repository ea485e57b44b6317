SPECIFICATION PmemSpec
CONSTANTS
  CPUs = {0}
  ByteBits = 2
  PGSIZE = 2
  Lengths = {1, 2, 3}
  MaxOwned = 3
  MaxEntry = 4
  MemMaps <- Maps
CHECK_DEADLOCK FALSE
INVARIANTS
  NoDoubleAllocation
  BitmapExact
  LowestRun
  FreeAtFirst
  UsableOnly
  BitmapKept
PROPERTY CallsEnd
