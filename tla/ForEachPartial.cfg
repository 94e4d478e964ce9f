CONSTANTS
  NoStep = NoStep
  Shapes <- OneForEach
  MaxAttempts = 2
SPECIFICATION Spec
INVARIANT EveryItemIsProcessed
CHECK_DEADLOCK FALSE
