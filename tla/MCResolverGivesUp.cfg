CONSTANTS
  Programs <- Sources
  MAXPASSES = 6
  FASTOPTPHASE = 2
SPECIFICATION FairSpec
PROPERTIES ResolverGivesUp
CHECK_DEADLOCK FALSE
