CONSTANTS
  Workers = {w1}
  Tenants = {t1}
  MessageIds = {m1}
  Outcomes = {"SUCCEEDED", "FAILED"}
  Handlers = {h1}
  Drainers = {d1}
  Canceller = Canceller
  Reconciler = Reconciler
  Auditor = Auditor
  NoFence = NoFence
  NoMessage = NoMessage
  NoHandler = NoHandler
  Decisions = {"dispatch"}
  Budgets <- QuarantineAndCancel
  MaxIssued = 2
SPECIFICATION DispatchSpec
PROPERTY RuntimeTerminalIsFinal
CHECK_DEADLOCK FALSE
