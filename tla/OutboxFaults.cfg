CONSTANTS
  Jobs = {s1, s2, f}
  Fatal = {f}
  Replicas = {r1, r2}
  MaxFaults = 1
SPECIFICATION OutboxSpec
INVARIANTS AckedIsDelivered DispatchedInPopOrder AckedRollbackRan
PROPERTY EveryResultIsDelivered
CHECK_DEADLOCK FALSE
