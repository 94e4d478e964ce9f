CONSTANTS
  a = a
  b = b
  c = c
  NoStep = NoStep
  NoOne = NoOne
  NoRun = NoRun
  Instances <- MCInstances
  Replicas = {p1, p2}
  MaxAttempts = 3
  MaxRecoveries = 1
SPECIFICATION FairSpec
INVARIANTS OneLiveAttempt OutcomeIsTheJobs SuccessIsQuiet
PROPERTIES DispatchIsDue KeepsLifecycle RunEnds
CHECK_DEADLOCK FALSE
