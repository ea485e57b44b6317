SPECIFICATION FairSpec
CONSTANTS
  b0 = b0
  b1 = b1
  NoThread = NoThread
  Threads = {t1, t2}
  Bytes <- MCBytes
  Requests <- MCRequests
INVARIANTS
  WriteFits
PROPERTIES
  Implements
  LockIsReleased
