CONSTANTS
  COLS = 40
  FourBit = TRUE
  TensBase = 48
  MaxScore = 255
SPECIFICATION Spec
INVARIANT ScoreReadsRight
