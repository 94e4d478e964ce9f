------------------------------ MODULE JobStates ------------------------------
(***************************************************************************)
(* The job state machine of the control plane: the states a job may be in, *)
(* the ones that are terminal, and the transition table the job store      *)
(* consults before it writes a state (core/infra/store/job_store.go).      *)
(***************************************************************************)
EXTENDS FiniteSets

\* The store reports "" for a job that has no state field yet.
NoState == ""

JobState == {"PENDING", "APPROVAL_REQUIRED", "SCHEDULED", "DISPATCHED",
             "RUNNING", "RETRYING", "SUCCEEDED", "FAILED", "CANCELLED",
             "TIMEOUT", "DENIED", "OUTPUT_QUARANTINED"}

terminalStates == {"SUCCEEDED", "FAILED", "CANCELLED", "TIMEOUT", "DENIED",
                   "OUTPUT_QUARANTINED"}

isActiveState(s) == s # NoState /\ s \notin terminalStates

allowedTransitions(from) ==
  CASE from = NoState ->
         {"PENDING", "APPROVAL_REQUIRED", "SCHEDULED", "DISPATCHED", "RUNNING",
          "FAILED", "CANCELLED"}
    [] from = "PENDING" ->
         {"APPROVAL_REQUIRED", "SCHEDULED", "DISPATCHED", "RUNNING", "DENIED",
          "FAILED", "TIMEOUT", "SUCCEEDED", "CANCELLED", "RETRYING"}
    [] from = "APPROVAL_REQUIRED" ->
         {"PENDING", "SCHEDULED", "DISPATCHED", "RUNNING", "DENIED", "FAILED",
          "TIMEOUT", "SUCCEEDED", "CANCELLED"}
    [] from = "SCHEDULED" ->
         {"SCHEDULED", "DISPATCHED", "RUNNING", "DENIED", "FAILED", "TIMEOUT",
          "SUCCEEDED", "CANCELLED", "OUTPUT_QUARANTINED", "RETRYING"}
    [] from = "DISPATCHED" ->
         {"SCHEDULED", "RUNNING", "SUCCEEDED", "FAILED", "CANCELLED", "TIMEOUT",
          "OUTPUT_QUARANTINED", "RETRYING"}
    [] from = "RUNNING" ->
         {"RUNNING", "SUCCEEDED", "FAILED", "CANCELLED", "TIMEOUT",
          "OUTPUT_QUARANTINED", "RETRYING"}
    [] from = "RETRYING" ->
         {"SCHEDULED", "DISPATCHED", "RUNNING", "RETRYING", "SUCCEEDED",
          "FAILED", "CANCELLED", "TIMEOUT"}
    [] from = "SUCCEEDED" -> {"OUTPUT_QUARANTINED"}
    [] OTHER -> {}

isAllowedTransition(from, to) == to \in allowedTransitions(from)

\* The states in which a worker's event may still land on the runtime hash.
AwaitingWorker == {"DISPATCHED", "RUNNING"}

\* The states stateForJobResult and the durable path may give to a result.
ResultStates == {"SUCCEEDED", "FAILED", "RETRYING", "TIMEOUT", "DENIED",
                 "CANCELLED", "OUTPUT_QUARANTINED"}
=============================================================================
