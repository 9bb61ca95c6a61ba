CONSTANTS
  BootBytes <- BootInstructions
  Bytes = {65}
  MaxCalls = 5
  HandlerTexts <- InterruptText
  MaxPresses = 1
  Resets = FALSE
SPECIFICATION Spec
INVARIANT NoContention
CHECK_DEADLOCK FALSE
