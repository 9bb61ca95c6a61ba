CONSTANTS
  BootBytes <- BootInstructions
  Ops <- SomeOps
  MaxCalls = 4
  Resets = TRUE
SPECIFICATION Spec
INVARIANT BootInitializes
CHECK_DEADLOCK FALSE
