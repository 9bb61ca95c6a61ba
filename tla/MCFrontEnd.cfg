SPECIFICATION FairSpec
CONSTANTS
  Programs <- Sources
  ignore_multinc = FALSE
  maxmacrecurs = 3
  MAXCONDLEV = 5
  INLSTACKSIZE = 2
INVARIANTS
  TypeOK
  ExpandsAsWritten
  PlacedAsWritten
  RecursionsCounted
  SymbolIsCurrent
  OnlyInnermostFalse
PROPERTIES
  Terminates
