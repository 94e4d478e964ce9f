CONSTANTS
  Messages = {m1, m2}
  NoHolder = NoHolder
  Reports = {"SUCCEEDED", "FAILED", "RETRYING"}
  Fencings = {"current", "stale", "absent"}
  Verdicts = {"allow", "quarantine"}
  MaxFaults = 3
  MaxDeliveries = 5
SPECIFICATION CompatSpec
INVARIANTS FencedAppliesOnce PointerBeforeOutcome FailureIsInDLQ
CHECK_DEADLOCK FALSE
