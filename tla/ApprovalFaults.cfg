SPECIFICATION FairSpec
CONSTANTS
  o1 = o1
  o2 = o2
  h1 = h1
  Operators <- TwoOperators
  Handlers <- OneHandler
  Reconciler = reconciler
  Replayer = replayer
  NoOne = NoOne
  NoSnapshot = NoSnapshot
  MaxPolicies = 2
  MaxRequests = 2
  Listed = TRUE
  MaxDeliveries = 1
  MaxFaults = 1
INVARIANTS AdmittedWasGranted PublishedMeansTold
PROPERTIES RefusalIsFinal DecisionIsHeard
CHECK_DEADLOCK FALSE
