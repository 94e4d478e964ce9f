CONSTANTS
  Workers = {w1}
  Tenants = {t1}
  MessageIds = {m1, m2}
  Outcomes = {"SUCCEEDED", "RETRYING"}
  NoFence = NoFence
  NoMessage = NoMessage
  MaxIssued = 3
SPECIFICATION Spec
INVARIANT EffectsAreCommittedResults
PROPERTIES OnlyNewestDispatchLands LateRollbackIsHarmless ImplementsLedger
CHECK_DEADLOCK FALSE
