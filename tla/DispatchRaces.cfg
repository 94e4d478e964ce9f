CONSTANTS
  Workers = {w1}
  Tenants = {t1}
  MessageIds = {m1}
  Outcomes = {"SUCCEEDED", "FAILED", "RETRYING"}
  Handlers = {h1, h2}
  Drainers = {d1, d2}
  Canceller = Canceller
  Reconciler = Reconciler
  Auditor = Auditor
  NoFence = NoFence
  NoMessage = NoMessage
  NoHandler = NoHandler
  Decisions = {"dispatch", "approval", "deny", "fail", "gate", "requeue"}
  Budgets <- Races
  MaxIssued = 2
SYMMETRY Symmetry
SPECIFICATION DispatchSpec
INVARIANTS NoDuplicateDispatch RunningWasPublished CancelSticks LegacyAgrees
PROPERTIES StepsRuntimeHash TerminalIsFinal
CHECK_DEADLOCK FALSE
