CONSTANTS
  BootBytes <- BootInstructions
  Bytes = {65, 192}
  MaxCalls = 6
  HandlerTexts <- Handlers
  MaxPresses = 2
  Resets = TRUE
SPECIFICATION FairSpec
INVARIANTS NoContentionUndisturbed NoOverrun
PROPERTIES ImplementsLink CallsReturn
CHECK_DEADLOCK FALSE
