SPECIFICATION Spec
CONSTANTS
  MaxNode = 4
  MaxVfs = 1
  Careful = TRUE
  MaxHeld = 1
  MaxRef = 2
  MaxSteps = 6
  ProperPrefix <- NamePrefixes
  Calls <- TreeAndLinkCalls
INVARIANTS
  LinkCounts TreeIsSound HeldIsReferenced RemovedIsReferenced
PROPERTIES DeleteIsLast
CHECK_DEADLOCK FALSE
