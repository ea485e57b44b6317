SPECIFICATION Spec
CONSTANTS
  MaxNode = 4
  MaxVfs = 2
  Careful = TRUE
  MaxHeld = 2
  MaxRef = 3
  MaxSteps = 6
  ProperPrefix <- NamePrefixes
  Calls <- MountCalls
INVARIANT MountStays
CHECK_DEADLOCK FALSE
