SPECIFICATION FairSpec
CONSTANTS
  CPUs = {0, 1}
  NPROC = 3
INVARIANTS
  LockHasOneHolder
  
  RunningIsCurrent
PROPERTY
  TicksServed
CHECK_DEADLOCK FALSE
