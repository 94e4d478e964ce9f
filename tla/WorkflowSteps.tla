--------------------------- MODULE WorkflowSteps ---------------------------
(***************************************************************************)
(* The pure part of the workflow engine: what the document of a run says   *)
(* about its steps.  A workflow wf gives each step its kind, its           *)
(* dependencies, its on_error handler and its retries; a run document m    *)
(* holds the status of the run and one StepRun per step.  A step that the  *)
(* document does not hold yet has the status "".  A job ID names the run,  *)
(* the step and the attempt, so within a step it is the attempt number.    *)
(***************************************************************************)
EXTENDS Integers, FiniteSets

CONSTANT NoStep   \* an empty on_error

Terminal == {"succeeded", "failed", "denied", "cancelled", "timed_out"}
RunStatuses == Terminal \cup {"pending", "running", "waiting"}
StepStatuses == Terminal \cup {"", "pending", "running", "waiting", "skipped"}

NoJob == 0

\* backoff: NextAttemptAt is set.  activated: Input holds the error context
\* of a failed step.  notTaken: the reason a switch gives for a cancellation.
\* recoveries: _reconcile_retries of the Error map.
NewStepRun ==
  [status |-> "", job |-> NoJob, attempts |-> 0, backoff |-> FALSE,
   activated |-> FALSE, notTaken |-> FALSE, recoveries |-> 0]

NewRun(wf) ==
  [status |-> "pending", steps |-> [s \in DOMAIN wf.kind |-> NewStepRun]]

StatusOf(m, s) == m.steps[s].status

SetStatus(m, s, status) == [m EXCEPT !.steps[s].status = status]

countTerminalSteps(m) ==
  Cardinality({s \in DOMAIN m.steps : StatusOf(m, s) \in Terminal})

isOnErrorTarget(wf, s) == \E t \in DOMAIN wf.kind : wf.onError[t] = s

\* Mutant: a handler that has not run yet already stands in for the failed step.
depsSatisfiedEarly(wf, m, s) ==
  \A d \in wf.deps[s] :
    \/ StatusOf(m, d) = "succeeded"
    \/ StatusOf(m, d) \in {"failed", "denied", "timed_out"} /\ wf.onError[d] # NoStep

\* A dependency is met when it succeeded, or when it failed and its handler
\* succeeded; a handler that was activated does not wait for dependencies.
depsSatisfied(wf, m, s) ==
  \/ StatusOf(m, s) = "pending" /\ m.steps[s].activated
  \/ \A d \in wf.deps[s] :
       \/ StatusOf(m, d) = "succeeded"
       \/ /\ StatusOf(m, d) \in {"failed", "denied", "timed_out"}
          /\ wf.onError[d] # NoStep
          /\ StatusOf(m, wf.onError[d]) = "succeeded"

\* activateOnErrorHandler for every step of S: the handler becomes pending
\* with the error context, unless it was dispatched or is over.
activateOnErrorHandler(wf, m, S) ==
  [m EXCEPT !.steps = [t \in DOMAIN @ |->
     IF /\ \E s \in S : wf.onError[s] = t
        /\ @[t].status \in {"", "pending"}
     THEN [@[t] EXCEPT !.status = "pending", !.activated = TRUE]
     ELSE @[t]]]

-----------------------------------------------------------------------------
\* The statuses of a handler at which walkOnErrorChain stops.
Deciding == {"", "pending", "running", "succeeded"}

\* The handlers walkOnErrorChain looks at: that of step s, and that of every
\* handler that does not decide.  They are the least set closed under this.
Handlers(wf, m, s) ==
  LET all == {wf.onError[t] : t \in DOMAIN wf.kind} \ {NoStep}
      Walked(C) == \A t \in C \cup {s} :
        t = s \/ StatusOf(m, t) \notin Deciding => wf.onError[t] \in C \cup {NoStep}
  IN {t \in all : \A C \in SUBSET all : Walked(C) => t \in C}

\* walkOnErrorChain: the first handler that did not fail decides.
walkOnErrorChain(wf, m, s) ==
  LET decision == {StatusOf(m, t) : t \in Handlers(wf, m, s)} \cap Deciding
  IN IF decision = {} THEN "exhausted"
     ELSE IF "succeeded" \in decision THEN "recovered" ELSE "pending"

\* The steps skipDependentSteps reaches from the failed step s: pending steps
\* that depend on it, directly or through one another.
Dependents(wf, m, s) ==
  LET reach[n \in 0..Cardinality(DOMAIN wf.kind)] ==
        IF n = 0 THEN {s}
        ELSE reach[n - 1] \cup
               {t \in DOMAIN wf.kind : /\ StatusOf(m, t) = "pending"
                                       /\ wf.deps[t] \cap reach[n - 1] # {}}
  IN reach[Cardinality(DOMAIN wf.kind)] \ {s}

\* Mutant: a step that was set back to pending is not counted.
ContributionOfStarted(wf, m, s) ==
  CASE StatusOf(m, s) \in {"", "pending", "succeeded"} -> "completed"
    [] StatusOf(m, s) = "waiting" -> "waiting"
    [] StatusOf(m, s) \in {"failed", "denied", "timed_out"} -> "failed"
    [] OTHER -> "unfinished"

\* What one step contributes to the status of its run.  A handler nothing
\* activated counts for nothing.
Contribution(wf, m, s) ==
  LET status == StatusOf(m, s) IN
  CASE status \in {"failed", "denied", "timed_out"} ->
         LET chain == walkOnErrorChain(wf, m, s) IN
         IF chain = "exhausted" THEN status
         ELSE IF chain = "recovered" THEN "completed" ELSE "unfinished"
    [] status = "cancelled" ->
         IF m.steps[s].notTaken THEN "completed" ELSE "failed"
    [] status = "succeeded" -> "completed"
    [] status = "waiting" -> "waiting"
    [] status = "" /\ isOnErrorTarget(wf, s) -> "none"
    [] OTHER -> "unfinished"

\* updateRunStatus: a cancelled or timed-out run keeps its status; otherwise
\* failure outweighs denial, denial a timeout, and a timeout a waiting step.
\* The dependents of a step whose failure no handler absorbed are skipped.
updateRunStatus(wf, m) ==
  LET given(c) == {s \in DOMAIN wf.kind : Contribution(wf, m, s) = c}
      lost == {s \in given("failed") \cup given("denied") : StatusOf(m, s) # "cancelled"}
      skipped == UNION {Dependents(wf, m, s) : s \in lost}
      status ==
        IF given("failed") # {} THEN "failed"
        ELSE IF given("denied") # {} THEN "denied"
        ELSE IF given("timed_out") # {} THEN "timed_out"
        ELSE IF given("waiting") # {} THEN "waiting"
        ELSE IF given("unfinished") = {} THEN "succeeded"
        ELSE "running"
  IN IF m.status \in {"cancelled", "timed_out"} THEN m
     ELSE [status |-> status,
           steps |-> [s \in DOMAIN m.steps |->
             IF s \in skipped THEN [m.steps[s] EXCEPT !.status = "skipped"]
             ELSE m.steps[s]]]

-----------------------------------------------------------------------------
\* The attempt was counted when it was dispatched, so MaxRetries further
\* attempts may follow the first.
shouldRetry(wf, s, sr) == wf.retries[s] > 0 /\ sr.attempts <= wf.retries[s]

\* applyResult: what the status a job was reported with makes of its step.  A
\* failure its worker calls retryable is a failure like another.
applyResult(wf, s, sr, status) ==
  CASE status = "SUCCEEDED" -> [sr EXCEPT !.status = "succeeded", !.backoff = FALSE]
    [] status = "DENIED" -> [sr EXCEPT !.status = "denied"]
    [] status = "CANCELLED" -> [sr EXCEPT !.status = "cancelled"]
    [] status \in {"FAILED", "FAILED_RETRYABLE", "TIMEOUT"} /\ shouldRetry(wf, s, sr) ->
         [sr EXCEPT !.status = "pending", !.backoff = TRUE, !.recoveries = 0]
    [] status = "TIMEOUT" /\ ~shouldRetry(wf, s, sr) -> [sr EXCEPT !.status = "timed_out"]
    [] OTHER -> [sr EXCEPT !.status = "failed"]

\* The step has already taken a result of this job: it is over, or it waits
\* to retry.
shouldIgnoreProcessedResult(sr) ==
  sr.status \in Terminal \/ (sr.status = "pending" /\ sr.backoff)

\* cancelStepRun and timeoutStepRun: what is not over takes the status.
StopSteps(m, status) ==
  [status |-> status,
   steps |-> [s \in DOMAIN m.steps |->
     IF StatusOf(m, s) \in Terminal THEN m.steps[s]
     ELSE [m.steps[s] EXCEPT !.status = status]]]

\* The jobs of the steps that are running or waiting.
collectCancelableJobs(m) ==
  {<<s, m.steps[s].job>> : s \in {t \in DOMAIN m.steps :
     StatusOf(m, t) \in {"running", "waiting"} /\ m.steps[t].job # NoJob}}
=============================================================================
