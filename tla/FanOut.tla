------------------------------- MODULE FanOut -------------------------------
(***************************************************************************)
(* One step of a workflow run that has children: a for_each step with one  *)
(* child per item, a parallel step with one child per listed step, or a    *)
(* loop with one child per iteration.  The other steps of the run are in   *)
(* WorkflowRun; here they only decide when the run is over.                *)
(*                                                                         *)
(* Unlike a worker step, a child is published before the document that     *)
(* says so is written, at the end of scheduleReady: a handler that dies,   *)
(* or whose last write fails, leaves jobs that the document does not know. *)
(* Handlers take turns under the lock of the run, so there is one at a     *)
(* time.  The job of a child is a pair: the child and the attempt.         *)
(* Cancelling the run and its timeout are in WorkflowRun.                  *)
(***************************************************************************)
EXTENDS WorkflowSteps

CONSTANTS
  Shapes,      \* the steps to run, each with the trouble it may meet
  MaxAttempts  \* bound on the attempts of a child

\* width: the items, the listed steps, or max_iterations.  limit:
\* max_parallel, 0 for none.  required: the successes a parallel step needs,
\* which is all of them for "all" and one for "any".  tested: the loop has a
\* condition or until in its input.  gated: the step has a condition.  passes:
\* the steps of the workflow.
Steps ==
  [kind : {"foreach", "parallel", "loop"}, width : Nat, limit : Nat, required : Nat,
   retries : Nat, tested : BOOLEAN, gated : BOOLEAN, passes : Nat \ {0}]

\* What the scheduler reports of a job whose worker is done with it.  A
\* success that output policy quarantines is reported as denied.
Outcomes == {"SUCCEEDED", "FAILED", "FAILED_FATAL", "FAILED_RETRYABLE", "DENIED", "TIMEOUT"}

Budgets == [crashes : Nat, errors : Nat, lost : Nat, made : Nat, ends : SUBSET Outcomes]

ASSUME FanOutAssumption ==
  /\ Shapes \subseteq [step : Steps, budget : {b \in Budgets : b.made = 0}]
  /\ MaxAttempts \in Nat

VARIABLES
  step,     \* the definition of the step
  run,      \* its part of the run document in Redis
  over,     \* the run is over
  pc,       \* what the handler is doing
  mem,      \* its copy of the document
  next,     \* the first child it has not looked at
  loop,     \* the number of its pass, and countTerminalSteps before it
  submits,  \* jobs on sys.job.submit
  job,      \* the state of each job in the job store, before any quarantine
  results,  \* results on the bus
  cancels,  \* the jobs whose cancellation was published
  due,      \* children whose NextAttemptAt has passed
  budget,   \* the crashes, errors and lost acknowledgements to come, the errors
            \* so far, and how jobs end
  forgot    \* how often what a handler did to the document was never written

handler == <<pc, mem, next, loop>>
world == <<submits, job, results>>
vars == <<step, run, over, handler, world, cancels, due, budget, forgot>>

Children == 1..step.width
Jobs == Children \X (1..MaxAttempts)
Ended == {"SUCCEEDED", "FAILED", "DENIED", "CANCELLED", "TIMEOUT"}
Reports == Outcomes \cup {"CANCELLED"}

\* The states of a job a result was published for.  One whose worker asked for
\* a retry is RETRYING, and "again" once the scheduler dispatched it again.
Reported == Ended \cup {"RETRYING", "again"}

Count(m, S) == Cardinality({c \in Children : m.child[c].status \in S})
Exists(m) == {c \in Children : m.child[c].status # ""}

Fail == /\ budget.errors > 0
        /\ budget' = [budget EXCEPT !.errors = @ - 1, !.made = @ + 1]

Init ==
  /\ \E shape \in Shapes : step = shape.step /\ budget = shape.budget
  /\ run = [status |-> "", child |-> [c \in Children |-> NewStepRun]]
  /\ over = FALSE
  /\ pc = "idle" /\ mem = run /\ next = 0 /\ loop = [pass |-> 0, before |-> 0]
  /\ submits = {} /\ results = {} /\ cancels = {} /\ due = {}
  /\ job = [j \in Jobs |-> "none"]
  /\ forgot = 0

-----------------------------------------------------------------------------
countTerminal(m) ==
  Count(m, Terminal) + (IF m.status \in Terminal THEN 1 ELSE 0)

\* The handler returns, and its copy is gone.
Return ==
  /\ pc' = "idle" /\ mem' = run'
  /\ next' = 0 /\ loop' = [pass |-> 0, before |-> 0]

\* scheduleReady up to its first look at the step.
scheduleReady(m) ==
  /\ pc' = "evaluate"
  /\ mem' = m
  /\ next' = 0 /\ loop' = [pass |-> 1, before |-> countTerminal(m)]

\* The handler has looked at the step, which is now as m says.
Evaluated(m, label, from) ==
  /\ pc' = label
  /\ mem' = m
  /\ next' = from
  /\ UNCHANGED loop

\* Mutant: a failed child does not fail its parent before all are done.
aggregateWhenDone(m) ==
  LET of(S) == \E c \in Exists(m) : m.child[c].status \in S IN
  IF Exists(m) = {} THEN m.status
  ELSE IF of({"pending", "running"}) THEN "running"
  ELSE IF of({"denied"}) THEN "denied" ELSE "succeeded"

aggregateChildren(m) ==
  LET of(S) == \E c \in Exists(m) : m.child[c].status \in S IN
  IF Exists(m) = {} THEN m.status
  ELSE IF of({"failed", "cancelled", "timed_out"}) THEN "failed"
  ELSE IF of({"denied"}) THEN "denied"
  ELSE IF of({"pending", "running"}) THEN "running" ELSE "succeeded"

\* The children cancelForEachSiblings and cancelParallelChildren stop, and the
\* jobs they cancel.
Unfinished(m) == {c \in Exists(m) : m.child[c].status \notin Terminal}

Stopped(m) ==
  [m EXCEPT !.child = [c \in Children |->
     IF c \in Unfinished(m) THEN [m.child[c] EXCEPT !.status = "cancelled"] ELSE m.child[c]]]

\* Mutant: the jobs are collected after the children were marked.
NeedsCancelLate(m) ==
  {<<c, m.child[c].job>> : c \in {d \in Unfinished(Stopped(m)) : m.child[d].job # NoJob}}

NeedsCancel(m) ==
  {<<c, m.child[c].job>> : c \in {d \in Unfinished(m) : m.child[d].job # NoJob}}

\* A publishJobCancel that fails is only logged.
publishCancels(S) ==
  \/ cancels' = cancels \cup S /\ UNCHANGED budget
  \/ \E T \in SUBSET S : T # S /\ Fail /\ cancels' = cancels \cup T

-----------------------------------------------------------------------------
\* Mutant: only the job is compared.
IgnoredByJob(j) ==
  LET sr == run.child[j[1]] IN
  sr.job # NoJob /\ sr.job # j[2]

\* A result of another attempt than the current one, or one the child has
\* taken, is acknowledged and changes nothing.
Ignored(j) ==
  LET sr == run.child[j[1]] IN
  (sr.job # NoJob /\ sr.job # j[2]) \/ shouldIgnoreProcessedResult(sr)

\* The document with the result: the child adopts the job if it has none, and
\* a success whose output is refused is a failure.  A for_each step is
\* aggregated, a loop that took a result runs, whatever it was, and a parallel
\* step is left to scheduleReady.
Taken(j, status) ==
  LET c == j[1]
      sr == [run.child[c] EXCEPT !.job = IF @ = NoJob THEN j[2] ELSE @,
                                 !.attempts = IF j[2] > @ THEN j[2] ELSE @]
      ended == applyResult([retries |-> [d \in Children |-> step.retries]], c, sr, status)
      outputs == IF status = "SUCCEEDED" THEN {ended, [ended EXCEPT !.status = "failed"]}
                 ELSE {ended}
      with(sr2) == [run EXCEPT !.child[c] = sr2]
      parent(m) == CASE step.kind = "foreach" -> aggregateChildren(m)
                     [] step.kind = "loop" -> "running"
                     [] step.kind = "parallel" -> m.status
  IN {[with(sr2) EXCEPT !.status = parent(with(sr2))] : sr2 \in outputs}

\* A for_each step that failed or was denied by the result stops its other
\* children, before the document is written.
handleJobResultLocked(j, status) ==
  \E m \in Taken(j, status) :
    LET ends == step.kind = "foreach" /\ m.status \in {"failed", "denied"}
        m2 == IF ends THEN Stopped(m) ELSE m
    IN
    /\ due' = due \ {j[1]}
    /\ \/ /\ IF ends THEN publishCancels(NeedsCancel(m)) ELSE UNCHANGED <<cancels, budget>>
          /\ run' = m2
          /\ IF m2.status \in Terminal THEN Return ELSE scheduleReady(m2)
       \/ /\ Fail
          /\ cancels' = IF ends THEN cancels \cup NeedsCancel(m) ELSE cancels
          /\ UNCHANGED <<run, handler>>

\* The result comes from the bus, or from the job store by way of the
\* reconciler, which looks up the jobs of the running children.
HandleJobResult(j, status) ==
  /\ pc = "idle" /\ ~over
  /\ \/ [job |-> j, status |-> status] \in results
     \/ run.child[j[1]].status = "running" /\ run.child[j[1]].job = j[2] /\ job[j] = status
  /\ ~Ignored(j)
  /\ handleJobResultLocked(j, status)
  /\ UNCHANGED <<step, over, world, forgot>>

\* The bus delivers a result again until a handler acknowledges it.
AckResult(r) ==
  /\ pc = "idle"
  /\ over \/ Ignored(r.job)
  /\ results' = results \ {r}
  /\ UNCHANGED <<step, run, over, handler, submits, job, cancels, due, budget, forgot>>

\* StartRun, by the gateway, a timer or the reconciler.
StartRun ==
  /\ pc = "idle" /\ ~over
  /\ run.status \notin Terminal
  /\ scheduleReady(run)
  /\ UNCHANGED <<step, run, over, world, cancels, due, budget, forgot>>

-----------------------------------------------------------------------------
\* The children a step starts with.
Created(m) ==
  [m EXCEPT !.status = "running",
            !.child = [c \in Children |->
              IF m.child[c].status = "" THEN [m.child[c] EXCEPT !.status = "pending"]
              ELSE m.child[c]]]

\* The condition of the step is asked at every look, also when children are
\* under way: if it is false the step has succeeded, if it cannot be evaluated
\* it has failed, and the children are left as they are.
ConditionGate ==
  /\ pc = "evaluate" /\ step.gated
  /\ \E status \in {"succeeded", "failed"} :
       Evaluated([mem EXCEPT !.status = status], "end", 0)
  /\ UNCHANGED <<step, run, over, world, cancels, due, budget, forgot>>

\* The expression of a for_each step is evaluated once, and may fail or give
\* too many items; no items is a success.
EvaluateForEach ==
  /\ pc = "evaluate" /\ step.kind = "foreach"
  /\ \/ Exists(mem) # Children /\ Evaluated([mem EXCEPT !.status = "failed"], "end", 0)
     \/ Children = {} /\ Evaluated([mem EXCEPT !.status = "succeeded"], "end", 0)
     \/ Children # {} /\ Evaluated(Created(mem), "dispatch", 1)
  /\ UNCHANGED <<step, run, over, world, cancels, due, budget, forgot>>

\* evaluateParallelOutcome: enough successes, or too many failures to reach
\* them.
evaluateParallelOutcome(m) ==
  IF Count(m, {"succeeded"}) >= step.required THEN "succeeded"
  ELSE IF step.width - Count(m, Terminal \ {"succeeded"}) < step.required THEN "failed"
  ELSE "running"

\* A parallel step is decided before anything more is dispatched, and once
\* decided stops the other children; its aggregated output may be refused.
EvaluateParallel ==
  LET m == Created(mem)
      outcome == evaluateParallelOutcome(m)
  IN
  /\ pc = "evaluate" /\ step.kind = "parallel"
  /\ IF outcome = "running"
     THEN Evaluated(m, "dispatch", 1) /\ UNCHANGED <<cancels, budget>>
     ELSE /\ \E status \in {outcome, "failed"} :
               Evaluated([Stopped(m) EXCEPT !.status = status], "end", 0)
          /\ publishCancels(NeedsCancel(m))
  /\ UNCHANGED <<step, run, over, world, due, forgot>>

\* A loop fails with its iteration, waits for an active one, and otherwise
\* asks its condition, if there is one, whether there is to be another.
EvaluateLoop ==
  LET m == [mem EXCEPT !.status = "running"]
      done(status) == Evaluated([m EXCEPT !.status = status], "end", 0)
      iterations == Cardinality(Exists(m))
  IN
  /\ pc = "evaluate" /\ step.kind = "loop"
  /\ IF Count(m, {"failed", "cancelled", "timed_out"}) > 0 THEN done("failed")
     ELSE IF Count(m, {"pending", "running"}) > 0 THEN done("running")
     ELSE IF iterations >= step.width
          THEN done(IF step.tested THEN "failed" ELSE "succeeded")
     ELSE \/ Evaluated([m EXCEPT !.child[iterations + 1].status = "pending"],
                       "dispatch", iterations + 1)
          \/ step.tested /\ (done("succeeded") \/ done("failed"))
  /\ UNCHANGED <<step, run, over, world, cancels, due, budget, forgot>>

-----------------------------------------------------------------------------
\* Mutant: the children that were sent in this pass are not counted.
FullAtStart(m) == step.limit > 0 /\ Count(run, {"running"}) >= step.limit

Full(m) == step.limit > 0 /\ Count(m, {"running"}) >= step.limit

\* Mutant: NextAttemptAt is never compared with the time.
ReadyUntimed(m) ==
  {c \in Children : c >= next /\ m.child[c].status = "pending" /\ ~m.child[c].backoff}

\* The children left in this pass: pending, and not waiting to retry.
Ready(m) ==
  {c \in Children : /\ c >= next
                    /\ m.child[c].status = "pending"
                    /\ m.child[c].backoff => c \in due}

\* A child whose publish reported an error: an item stays pending without a
\* job, under the same attempt; a listed step or an iteration has failed.
Unsent(m, c) ==
  IF step.kind = "foreach" THEN [m EXCEPT !.child[c].job = NoJob]
  ELSE [m EXCEPT !.child[c].status = "failed"]

Sent(m, c) ==
  [m EXCEPT !.child[c] = [m.child[c] EXCEPT !.status = "running",
                                            !.job = m.child[c].attempts + 1,
                                            !.attempts = m.child[c].attempts + 1]]

\* The next child is published, in the order of the items.  Its input may be
\* invalid or its context not be stored, which fails it; publishing may report
\* an error, also after the message was delivered.
DispatchChild(c) ==
  LET j == <<c, mem.child[c].attempts + 1>> IN
  /\ pc = "dispatch" /\ ~Full(mem)
  /\ c \in Ready(mem) /\ \A d \in Ready(mem) : c <= d
  /\ j[2] <= MaxAttempts
  /\ \/ /\ submits' = submits \cup {j}
        /\ mem' = Sent(mem, c)
        /\ UNCHANGED budget
     \/ /\ Fail
        /\ \/ submits' = submits /\ mem' = [mem EXCEPT !.child[c].status = "failed"]
           \/ submits' \in {submits, submits \cup {j}} /\ mem' = Unsent(mem, c)
  /\ next' = c + 1
  /\ pc' = IF step.kind = "loop" THEN "end" ELSE pc
  /\ UNCHANGED <<step, run, over, loop, job, results, cancels, due, forgot>>

Forget == IF mem # run THEN forgot + 1 ELSE forgot

\* The end of a pass.  Another follows if this one completed anything;
\* otherwise the document is written, or what the passes did is forgotten.
EndPass ==
  LET done == countTerminal(mem)
      again == /\ done > loop.before /\ loop.pass < step.passes
               /\ mem.status \notin Terminal
  IN
  /\ pc = "end" \/ (pc = "dispatch" /\ (Full(mem) \/ Ready(mem) = {}))
  /\ \/ /\ again
        /\ pc' = "evaluate" /\ next' = 0
        /\ loop' = [pass |-> loop.pass + 1, before |-> done]
        /\ UNCHANGED <<run, mem, budget, forgot>>
     \/ /\ ~again
        /\ \/ run' = mem /\ UNCHANGED <<budget, forgot>>
           \/ Fail /\ run' = run /\ forgot' = Forget
        /\ Return
  /\ UNCHANGED <<step, over, world, cancels, due>>

Crash ==
  /\ pc # "idle"
  /\ budget.crashes > 0
  /\ budget' = [budget EXCEPT !.crashes = @ - 1]
  /\ run' = run
  /\ Return
  /\ forgot' = Forget
  /\ UNCHANGED <<step, over, world, cancels, due>>

-----------------------------------------------------------------------------
\* The scheduler takes a submitted job, and dispatches one that is RETRYING
\* again.
AcceptJob(j) ==
  /\ j \in submits
  /\ submits' = submits \ {j}
  /\ job' = CASE job[j] = "none" -> [job EXCEPT ![j] = "active"]
              [] job[j] = "RETRYING" -> [job EXCEPT ![j] = "again"]
              [] OTHER -> job
  /\ UNCHANGED <<step, run, over, handler, results, cancels, due, budget, forgot>>

\* The submit of a job is delivered again, its acknowledgement having been
\* lost, which matters to a job that is RETRYING.
RedeliverJob(j) ==
  /\ budget.lost > 0
  /\ budget' = [budget EXCEPT !.lost = @ - 1]
  /\ job[j] = "RETRYING"
  /\ job' = [job EXCEPT ![j] = "again"]
  /\ UNCHANGED <<step, run, over, handler, submits, results, cancels, due, forgot>>

\* The state a job is left in by what is reported of it.
Stored(status) ==
  CASE status = "FAILED_RETRYABLE" -> "RETRYING"
    [] status = "FAILED_FATAL" -> "FAILED"
    [] OTHER -> status

EndJob(j, status) ==
  /\ \/ job[j] \in {"active", "again"} /\ status \in budget.ends
     \/ job[j] \in {"active", "again", "RETRYING"} /\ status = "CANCELLED" /\ j \in cancels
  /\ job' = [job EXCEPT ![j] = Stored(status)]
  /\ results' = results \cup {[job |-> j, status |-> status]}
  /\ UNCHANGED <<step, run, over, handler, submits, cancels, due, budget, forgot>>

BackoffElapses(c) ==
  /\ run.child[c].backoff /\ c \notin due
  /\ due' = due \cup {c}
  /\ UNCHANGED <<step, run, over, handler, world, cancels, budget, forgot>>

\* The rest of the run ends after this step.
RestEnds ==
  /\ pc = "idle" /\ ~over /\ run.status \in Terminal
  /\ over' = TRUE
  /\ UNCHANGED <<step, run, handler, world, cancels, due, budget, forgot>>

-----------------------------------------------------------------------------
Work ==
  \/ ConditionGate \/ EvaluateForEach \/ EvaluateParallel \/ EvaluateLoop
  \/ \E c \in Children : DispatchChild(c)
  \/ EndPass

Next ==
  \/ \E j \in Jobs : \E status \in Reports : HandleJobResult(j, status)
  \/ \E r \in results : AckResult(r)
  \/ StartRun \/ Work \/ Crash
  \/ \E j \in Jobs : AcceptJob(j) \/ RedeliverJob(j) \/ \E status \in Reports : EndJob(j, status)
  \/ \E c \in Children : BackoffElapses(c)
  \/ RestEnds

Spec == Init /\ [][Next]_vars

\* A handler goes on, the reconciler starts the run again and again, jobs and
\* backoffs end, and a result that can be taken is taken in the end.
Fairness ==
  /\ WF_vars(Work) /\ WF_vars(StartRun)
  /\ WF_vars(\E j \in Jobs : AcceptJob(j))
  /\ WF_vars(\E j \in Jobs : \E status \in budget.ends : EndJob(j, status))
  /\ WF_vars(\E c \in Children : BackoffElapses(c))
  /\ SF_vars(\E j \in Jobs : \E status \in Reports : HandleJobResult(j, status))

FairSpec == Spec /\ Fairness

-----------------------------------------------------------------------------
\* Types.  A document holds the step's status and a StepRun for each child.
Statuses == Terminal \cup {"", "pending", "running"}
StepRuns ==
  [status : Statuses, job : 0..MaxAttempts, attempts : 0..MaxAttempts, backoff : BOOLEAN,
   activated : {FALSE}, notTaken : {FALSE}, recoveries : {0}]
Documents == [status : Statuses, child : [Children -> StepRuns]]

FanOutTypeOK ==
  /\ step \in Steps
  /\ run \in Documents /\ mem \in Documents
  /\ over \in BOOLEAN /\ pc \in {"idle", "evaluate", "dispatch", "end"}
  /\ next \in 0..(step.width + 1) /\ loop.pass \in 0..step.passes
  /\ submits \subseteq Jobs /\ cancels \subseteq Jobs /\ due \subseteq Children
  /\ job \in [Jobs -> Reported \cup {"none", "active"}]
  /\ results \subseteq [job : Jobs, status : Reports]
  /\ budget \in Budgets /\ forgot \in Nat

\* A job that was sent and of which nothing was reported yet.
Unreported(j) == (j \in submits /\ job[j] = "none") \/ job[j] = "active"
Succeeded(c) == \E n \in 1..MaxAttempts : job[<<c, n>>] = "SUCCEEDED"

Limit ==
  IF step.kind = "loop" THEN 1 ELSE IF step.limit > 0 THEN step.limit ELSE step.width

\* At most max_parallel jobs of the step, or one of a loop, are sent and not
\* reported at once, however often results are repeated and children retried.
\* A publish that reports an error may add one, since its message may have been
\* delivered, and a pass that was forgotten as many as it may dispatch.  A job
\* whose worker asked for a retry has been reported: when the scheduler
\* dispatches it again it runs beside the next attempt, and beyond the limit.
LimitHolds == Cardinality({j \in Jobs : Unreported(j)}) <= Limit * (1 + forgot) + budget.made

\* What a success stands on: a job of every item succeeded, of as many listed
\* steps as required, or of every iteration, where one that policy denied
\* counts as well.
Earned ==
  CASE step.kind = "foreach" -> \A c \in Children : Succeeded(c)
    [] step.kind = "parallel" ->
         Cardinality({c \in Children : Succeeded(c)}) >= step.required
    [] step.kind = "loop" ->
         \A c \in Exists(run) : Succeeded(c) \/ run.child[c].status = "denied"

\* A step without a condition succeeds only with the work of its children
\* behind it, whatever was repeated, retried or reported late, as long as
\* nothing was forgotten.
SuccessIsEarned == run.status = "succeeded" /\ ~step.gated /\ forgot = 0 => Earned

\* A for_each step succeeds only when every item was processed.
EveryItemIsProcessed == step.kind = "foreach" /\ run.status = "succeeded" => Earned

\* When a step without a condition is over, every job of it that was not
\* reported was told to stop: no work goes on for a result nobody waits for,
\* unless a publish failed or a pass was forgotten.
NoneLeftBehind ==
  run.status \in Terminal /\ ~step.gated /\ budget.made = 0 /\ forgot = 0 =>
    \A j \in Jobs : Unreported(j) => j \in cancels

\* A step without a condition that is over keeps its status and its children
\* theirs, as long as nothing was forgotten: a late or repeated result does not
\* reopen it.
StepIsFinal ==
  [][run.status \in Terminal /\ ~step.gated /\ forgot' = 0 => run' = run]_vars

\* The two ways a step is left running with nothing under way: a for_each step
\* whose last child failed to be dispatched is not aggregated again, and an
\* iteration that waits to retry counts as active but is not dispatched.
Stalled ==
  /\ run.status = "running"
  /\ \/ step.kind = "foreach" /\ Count(run, {"failed"}) > 0 /\ Count(run, {"pending", "running"}) = 0
     \/ step.kind = "loop" /\ \E c \in Children : run.child[c].status = "pending" /\ run.child[c].backoff

\* Every fan-out step ends, through failed publishes and writes, dead handlers
\* and lost results, unless it stalls.
StepEnds == <>(run.status \in Terminal \/ Stalled)
=============================================================================
