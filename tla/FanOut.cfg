CONSTANTS
  NoStep = NoStep
  Shapes <- MCShapes
  MaxAttempts = 2
SPECIFICATION FairSpec
INVARIANTS LimitHolds SuccessIsEarned NoneLeftBehind
PROPERTIES StepIsFinal StepEnds
CHECK_DEADLOCK FALSE
