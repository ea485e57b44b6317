SPECIFICATION FairSpec
CONSTANTS
  CPUs <- MCCPUs
  PitMod = 4
  SleepArgs <- MCSleepArgs
  Prompt = TRUE
  Letters <- MCLetters
  MaxCalls = 2
  MaxEvents = 3
INVARIANTS OneWriter SleepExact Echo
PROPERTIES SleepEnds KeysServed
CHECK_DEADLOCK FALSE
