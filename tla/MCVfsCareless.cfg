SPECIFICATION Spec
CONSTANTS
  MaxNode = 4
  MaxVfs = 1
  Careful = FALSE
  MaxHeld = 2
  MaxRef = 3
  MaxSteps = 6
  ProperPrefix <- NamePrefixes
  Calls <- CarelessCalls
INVARIANT HeldOutlives
CHECK_DEADLOCK FALSE
