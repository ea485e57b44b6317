SPECIFICATION Spec
CONSTANTS
  Names <- MCNames
  RecLen <- MCRecLen
  BufSizes <- MCBufSizes
  MaxSeq = 6
INVARIANTS NothingSkipped
PROPERTIES OnlyCursorAgain PrintdirComplete
