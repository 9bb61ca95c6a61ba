CONSTANTS
  COLS = 40
  FourBit = FALSE
  TensBase = 47
  MaxScore = 255
SPECIFICATION Spec
INVARIANTS ScoreReadsRight NoOldDigits
