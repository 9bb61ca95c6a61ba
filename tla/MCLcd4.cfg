CONSTANTS
  BootBytes <- BootInstructions
  Ops <- SomeOps
  MaxCalls = 6
  Resets = TRUE
SPECIFICATION FairSpec
INVARIANTS NoContention NoOverrun SameHalf
PROPERTIES ImplementsLink CallsReturn
CHECK_DEADLOCK FALSE
