SPECIFICATION Spec
CONSTANTS
  MaxNode = 4
  MaxVfs = 3
  Careful = TRUE
  MaxHeld = 2
  MaxRef = 3
  MaxSteps = 6
  ProperPrefix <- NamePrefixes
  Calls <- MountCalls
INVARIANTS MountsAgree
PROPERTIES DeleteIsLast
CHECK_DEADLOCK FALSE
