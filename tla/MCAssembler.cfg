CONSTANTS
  Programs <- Sources
  MAXPASSES = 6
  FASTOPTPHASE = 2
SPECIFICATION FairSpec
INVARIANTS Settled LabelsPlaced  
PROPERTIES OnlyShrinks Terminates
CHECK_DEADLOCK FALSE
