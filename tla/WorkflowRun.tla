---------------------------- MODULE WorkflowRun ----------------------------
(***************************************************************************)
(* One workflow run as the workflow engine drives it: the handlers of the  *)
(* engine's replicas and of the gateway, which work on a copy of the run   *)
(* document under the run's distributed lock, the reconciler that repairs  *)
(* what they missed, and the scheduler's jobs as the engine sees them.     *)
(*                                                                         *)
(* A handler that dispatches persists the document before it publishes,    *)
(* and may die in between.  A publish may fail, also after the message was *)
(* delivered; a write of the document may fail; a result may arrive any    *)
(* number of times, or never.  A handler finishes within the TTL of the    *)
(* lock: only the lock of a dead one expires.                              *)
(***************************************************************************)
EXTENDS WorkflowSteps

CONSTANTS
  Instances,      \* workflows to run, each with the trouble it may meet
  Replicas,       \* the handlers that may work on the run
  NoOne,          \* nobody holds the lock
  NoRun,          \* no document in memory
  MaxAttempts,    \* bound on the attempts, or on the child runs, of a step
  MaxRecoveries   \* maxRetries of reconcileStuckWaitingSteps

ASSUME RunAssumption == NoOne \notin Replicas /\ MaxAttempts \in Nat \ {0}

\* validateDAG refuses a dependency on a step that does not exist.  An on_error
\* handler that does not exist, which it accepts, is left out.
ASSUME WorkflowAssumption ==
  \A i \in Instances : \A s \in DOMAIN i.wf.kind :
    /\ i.wf.deps[s] \subseteq DOMAIN i.wf.kind
    /\ i.wf.onError[s] \in (DOMAIN i.wf.kind) \cup {NoStep}

VARIABLES
  wf,        \* the workflow definition
  run,       \* the document in Redis
  lock,      \* who holds the run's lock
  pc,        \* what each handler is doing
  mem,       \* its copy of the document
  todo,      \* the steps left in its pass over the workflow
  loop,      \* the number of the pass, and countTerminalSteps before it
  dispatch,  \* the step it persisted and has not published
  replay,    \* the jobs a reconciler has yet to look up
  resume,    \* whether it returns to the reconciler's loop
  stop,      \* the jobs it has to cancel
  submits,   \* jobs on sys.job.submit
  job,       \* the state of each job in the job store
  results,   \* results on the bus
  cancels,   \* jobs on sys.job.cancel
  child,     \* the child runs each sub-workflow step created, by number
  due,       \* steps whose NextAttemptAt has passed
  expired,   \* the workflow's deadline has passed
  budget,    \* the crashes, errors and cancellations to come, the bound on
             \* handlers that work without the run's lock, and what the
             \* workers' jobs may end with
  unlocked   \* handlers that worked without the lock so far

handler == <<pc, mem, todo, loop, dispatch, replay, resume, stop>>
world == <<submits, job, results, cancels, child>>
vars == <<wf, run, lock, handler, world, due, expired, budget, unlocked>>

Steps == DOMAIN wf.kind
Jobs == Steps \X (1..MaxAttempts)
Kinds == {"worker", "approval", "inline", "delay", "switch", "subworkflow"}

\* The states of a job that the reconciler takes for an outcome.
Ended == {"SUCCEEDED", "FAILED", "TIMEOUT", "DENIED", "CANCELLED"}

\* The states of a job that the scheduler works on or may cancel: it was
\* dispatched or waits for an approval, its worker asked for it to be retried,
\* or it was dispatched again after that.
Open == {"active", "approval", "RETRYING", "again"}

Set(f, p, v) == [f EXCEPT ![p] = v]

Fail == /\ budget.errors > 0
        /\ budget' = [budget EXCEPT !.errors = @ - 1]

Init ==
  /\ \E i \in Instances : wf = i.wf /\ budget = i.budget
  /\ run = NewRun(wf)
  /\ lock = NoOne
  /\ pc = [p \in Replicas |-> "idle"]
  /\ mem = [p \in Replicas |-> NoRun]
  /\ todo = [p \in Replicas |-> {}]
  /\ loop = [p \in Replicas |-> [pass |-> 0, before |-> 0]]
  /\ dispatch = [p \in Replicas |-> NoStep]
  /\ replay = [p \in Replicas |-> {}]
  /\ resume = [p \in Replicas |-> FALSE]
  /\ stop = [p \in Replicas |-> {}]
  /\ submits = {} /\ results = {} /\ cancels = {}
  /\ job = [j \in Jobs |-> "none"]
  /\ child = [j \in Jobs |-> "none"]
  /\ due = {} /\ expired = FALSE
  /\ unlocked = 0

-----------------------------------------------------------------------------
\* A handler takes the run's lock, if it is free.  A timer of the gateway's
\* engine, which has no RunLocker, and a handler whose lock call fails work
\* under the lock of their own process only.
acquire(p) ==
  /\ pc[p] = "idle"
  /\ \/ lock = NoOne /\ unlocked' = unlocked
     \/ lock # p /\ unlocked < budget.unlocked /\ unlocked' = unlocked + 1

Locked(p) == lock' = IF unlocked' = unlocked THEN p ELSE lock

\* The handler is done with the run, or goes back to the reconciler's loop
\* it was called from.
Return(p) ==
  /\ pc' = Set(pc, p, IF resume[p] THEN "replay" ELSE "idle")
  /\ lock' = IF resume[p] \/ lock # p THEN lock ELSE NoOne
  /\ mem' = Set(mem, p, NoRun)
  /\ todo' = Set(todo, p, {})
  /\ loop' = Set(loop, p, [pass |-> 0, before |-> 0])
  /\ dispatch' = Set(dispatch, p, NoStep)
  /\ stop' = Set(stop, p, {})

\* The deadline counts from the first time the run was scheduled.
TimedOut(m) == wf.timeout /\ expired /\ m.status # "pending"

\* timeoutRun and CancelRun: every step that is not over is stopped, the
\* document written, and only then are the jobs cancelled.
StopRun(p, m, status) ==
  /\ run' = StopSteps(m, status)
  /\ stop' = Set(stop, p, collectCancelableJobs(m))
  /\ pc' = Set(pc, p, "stop")
  /\ Locked(p)
  /\ UNCHANGED <<mem, todo, loop, dispatch>>

\* scheduleReady up to its loop over the steps.
scheduleReady(p, m) ==
  LET started == IF m.status = "pending" THEN [m EXCEPT !.status = "running"] ELSE m
  IN /\ pc' = Set(pc, p, "pass")
     /\ Locked(p)
     /\ mem' = Set(mem, p, started)
     /\ todo' = Set(todo, p, Steps)
     /\ loop' = Set(loop, p, [pass |-> 1, before |-> countTerminalSteps(started)])
     /\ UNCHANGED <<dispatch, stop>>

-----------------------------------------------------------------------------
\* Mutant: the attempt the result belongs to is not compared.
IgnoredAnyAttempt(m, j) ==
  m.status \in Terminal \/ shouldIgnoreProcessedResult(m.steps[j[1]])

\* The result of another attempt than the current one, or one the step has
\* already taken, changes nothing.
Ignored(m, j) ==
  LET sr == m.steps[j[1]] IN
  \/ m.status \in Terminal
  \/ sr.job # NoJob /\ sr.job # j[2]
  \/ shouldIgnoreProcessedResult(sr)

\* The step takes the result: it adopts the job if it has none, and a success
\* whose output is refused (processStepOutput) is a failure.  A step that
\* ended badly hands over to its on_error handler.
Results(m, j, status) ==
  LET s == j[1]
      sr == [m.steps[s] EXCEPT !.job = IF @ = NoJob THEN j[2] ELSE @,
                               !.attempts = IF j[2] > @ THEN j[2] ELSE @]
      ended == applyResult(wf, s, sr, status)
      outputs == IF status = "SUCCEEDED" /\ wf.kind[s] = "worker"
                 THEN {ended, [ended EXCEPT !.status = "failed"]} ELSE {ended}
      with(sr2) == [m EXCEPT !.steps[s] = sr2]
      bad(sr2) == IF sr2.status \in {"failed", "denied", "timed_out"} THEN {s} ELSE {}
  IN {updateRunStatus(wf, activateOnErrorHandler(wf, with(sr2), bad(sr2))) : sr2 \in outputs}

\* handleJobResultLocked: a workflow past its deadline is timed out instead.
\* When the run waits for an approval, the steps the result made ready are
\* left to the reconciler.
handleJobResultLocked(p, j, status) ==
  /\ ~Ignored(run, j)
  /\ IF TimedOut(run) THEN StopRun(p, run, "timed_out") /\ UNCHANGED due
     ELSE \E m \in Results(run, j, status) :
            /\ run' = m
            /\ due' = due \ {j[1]}
            /\ IF m.status = "running" THEN scheduleReady(p, m) ELSE Return(p)

\* HandleJobResult of the workflow engine and of the gateway: a busy lock
\* sends the message back to the bus.
HandleJobResult(p, r) ==
  /\ acquire(p)
  /\ r \in results
  /\ handleJobResultLocked(p, r.job, r.status)
  /\ UNCHANGED <<wf, replay, resume, world, expired, budget>>

\* Mutant: the run is scheduled whatever its status.
StartRunAgain(p) ==
  /\ acquire(p)
  /\ scheduleReady(p, run)
  /\ UNCHANGED <<wf, run, replay, resume, world, due, expired, budget>>

\* StartRun, by the gateway that created the run or by a timer.
StartRun(p) ==
  /\ acquire(p)
  /\ run.status \notin Terminal
  /\ run.status = "pending" \/ \E s \in DOMAIN run.steps : run.steps[s].backoff /\ s \in due
  /\ IF TimedOut(run) THEN StopRun(p, run, "timed_out")
     ELSE scheduleReady(p, run) /\ UNCHANGED run
  /\ UNCHANGED <<wf, replay, resume, world, due, expired, budget>>

-----------------------------------------------------------------------------
\* The conditions under which the loop of scheduleReady handles step s.  A
\* sub-workflow is looked at while it runs, a delay whatever its status.
Ready(m, s) ==
  /\ \/ StatusOf(m, s) \in {"", "pending", "waiting"}
     \/ wf.kind[s] = "subworkflow" /\ StatusOf(m, s) = "running"
     \/ wf.kind[s] = "delay"
  /\ depsSatisfied(wf, m, s)
  /\ isOnErrorTarget(wf, s) => StatusOf(m, s) # "" /\ m.steps[s].activated

Fresh(m, s) == StatusOf(m, s) \in {"", "pending"}

\* The handler goes on to the next step with m as its copy.
Visited(p, s, m) ==
  /\ mem' = Set(mem, p, m)
  /\ todo' = Set(todo, p, todo[p] \ {s})

Visiting(p, s) == pc[p] = "pass" /\ s \in todo[p]

\* A step that is not ready, whose backoff has not elapsed, or that is
\* already waiting, is passed over.
PassOver(p, s) ==
  /\ Visiting(p, s)
  /\ \/ ~Ready(mem[p], s)
     \/ wf.kind[s] \in {"approval", "inline", "switch"} /\ ~Fresh(mem[p], s)
     \/ wf.kind[s] = "worker" /\ mem[p].steps[s].backoff /\ s \notin due
     \/ wf.kind[s] = "delay" /\ ~Fresh(mem[p], s)
          /\ ~(StatusOf(mem[p], s) = "running" /\ mem[p].steps[s].backoff /\ s \in due)
  /\ Visited(p, s, mem[p])
  /\ UNCHANGED <<wf, run, lock, pc, loop, dispatch, replay, resume, stop, world, due, expired, budget, unlocked>>

\* The document with step s dispatched: a worker's job under the next attempt
\* number, an approval's always under the first.
Dispatched(m, s) ==
  IF wf.kind[s] = "approval"
  THEN [m EXCEPT !.status = "waiting",
          !.steps[s] = [@ EXCEPT !.status = "waiting", !.job = 1, !.attempts = 1]]
  ELSE [m EXCEPT !.steps[s] = [@ EXCEPT !.status = "running", !.job = m.steps[s].attempts + 1,
                                        !.attempts = m.steps[s].attempts + 1]]

\* Mutant: the attempt that failed to be published stays counted.
RevertedCounted(m, s) ==
  [m EXCEPT !.steps[s] = [@ EXCEPT !.status = "pending", !.job = NoJob]]

\* The step goes back to pending as if it had not been dispatched.
Reverted(m, s) ==
  [m EXCEPT !.steps[s] =
     [@ EXCEPT !.status = "pending", !.job = NoJob,
               !.attempts = IF wf.kind[s] = "approval" THEN 0 ELSE m.steps[s].attempts - 1]]

\* A worker or approval step is dispatched: the document first, then the
\* message.  Its context may fail to be stored, which fails the step; the
\* write of the document may fail, which leaves the step for a later pass.
DispatchStep(p, s) ==
  LET m == mem[p] IN
  /\ Visiting(p, s) /\ Ready(m, s) /\ Fresh(m, s)
  /\ wf.kind[s] \in {"worker", "approval"}
  /\ wf.kind[s] = "worker" => ~m.steps[s].backoff \/ s \in due
  /\ m.steps[s].attempts < MaxAttempts
  /\ \/ /\ run' = Dispatched(m, s)
        /\ Visited(p, s, Dispatched(m, s))
        /\ pc' = Set(pc, p, "publish")
        /\ dispatch' = Set(dispatch, p, s)
        /\ UNCHANGED budget
     \/ /\ Fail
        /\ \/ Visited(p, s, Reverted(Dispatched(m, s), s))
           \/ Visited(p, s, SetStatus(m, s, "failed"))
        /\ UNCHANGED <<run, pc, dispatch>>
  /\ UNCHANGED <<wf, lock, loop, replay, resume, stop, world, due, expired, unlocked>>

\* The message goes out, or publishing it fails, perhaps after the message
\* was delivered: the step is reverted, in memory and, if the write succeeds,
\* in Redis.
PublishStep(p) ==
  LET s == dispatch[p]
      j == <<s, mem[p].steps[s].job>>
  IN
  /\ pc[p] = "publish"
  /\ pc' = Set(pc, p, "pass")
  /\ dispatch' = Set(dispatch, p, NoStep)
  /\ \/ /\ submits' = submits \cup {j}
        /\ UNCHANGED <<run, mem, budget>>
     \/ /\ Fail
        /\ submits' \in {submits, submits \cup {j}}
        /\ mem' = Set(mem, p, Reverted(mem[p], s))
        /\ run' \in {run, mem'[p]}
  /\ UNCHANGED <<wf, lock, todo, loop, replay, resume, stop, job, results, cancels, child,
                 due, expired, unlocked>>

\* Condition, transform, storage and notify steps succeed or fail on the spot.
InlineStep(p, s) ==
  /\ Visiting(p, s) /\ Ready(mem[p], s) /\ Fresh(mem[p], s)
  /\ wf.kind[s] = "inline"
  /\ \E status \in {"succeeded", "failed"} : Visited(p, s, SetStatus(mem[p], s, status))
  /\ UNCHANGED <<wf, run, lock, pc, loop, dispatch, replay, resume, stop, world, due, expired, budget, unlocked>>

\* The condition of a step that is not itself a condition or a switch is
\* evaluated at every visit: false completes the step, an error fails it.
ConditionGate(p, s) ==
  /\ Visiting(p, s) /\ Ready(mem[p], s)
  /\ wf.gated[s]
  /\ \E status \in {"succeeded", "failed"} : Visited(p, s, SetStatus(mem[p], s, status))
  /\ UNCHANGED <<wf, run, lock, pc, loop, dispatch, replay, resume, stop, world, due, expired, budget, unlocked>>

\* A delay starts its timer, and succeeds at a visit after the timer is due;
\* one that is already over, or cannot be computed, ends at once.
DelayStep(p, s) ==
  LET m == mem[p] IN
  /\ Visiting(p, s) /\ Ready(m, s) /\ wf.kind[s] = "delay"
  /\ \/ /\ Fresh(m, s)
        /\ \/ /\ Visited(p, s, [m EXCEPT !.steps[s] =
                                 [@ EXCEPT !.status = "running", !.backoff = TRUE]])
              /\ due' = due \ {s}
           \/ /\ \E status \in {"succeeded", "failed"} : Visited(p, s, SetStatus(m, s, status))
              /\ UNCHANGED due
     \/ /\ StatusOf(m, s) = "running" /\ m.steps[s].backoff /\ s \in due
        /\ Visited(p, s, [m EXCEPT !.steps[s] =
                            [@ EXCEPT !.status = "succeeded", !.backoff = FALSE]])
        /\ UNCHANGED due
  /\ UNCHANGED <<wf, run, lock, pc, loop, dispatch, replay, resume, stop, world, expired, budget, unlocked>>

\* A switch cancels the branches it does not take, then makes the step it
\* selects pending, unless its own output is refused.
SwitchStep(p, s) ==
  LET m == mem[p]
      without(others) == [m EXCEPT !.steps = [b \in DOMAIN @ |->
                            IF b \in others /\ @[b].status \notin Terminal
                            THEN [@[b] EXCEPT !.status = "cancelled", !.notTaken = TRUE]
                            ELSE @[b]]]
      pending(m2, t) == IF StatusOf(m2, t) = "" THEN SetStatus(m2, t, "pending") ELSE m2
  IN
  /\ Visiting(p, s) /\ Ready(m, s) /\ Fresh(m, s)
  /\ wf.kind[s] = "switch"
  /\ \/ \E t \in wf.branches[s] :
          LET m2 == without(wf.branches[s] \ {t}) IN
          \/ Visited(p, s, pending(SetStatus(m2, s, "succeeded"), t))
          \/ Visited(p, s, SetStatus(m2, s, "failed"))
     \/ Visited(p, s, SetStatus(m, s, "failed"))
  /\ UNCHANGED <<wf, run, lock, pc, loop, dispatch, replay, resume, stop, world, due, expired, budget, unlocked>>

\* A sub-workflow step creates and starts a child run under a new ID, which it
\* remembers in memory until the end of scheduleReady: one that is forgotten
\* there goes on, and a later visit creates another.  A child that was created
\* and could not be started fails the step, which then names none.
CreateChild(p, s, n) ==
  LET m == mem[p] IN
  /\ m.steps[s].job = NoJob
  /\ child[<<s, n>>] = "none" /\ \A k \in 1..(n - 1) : child[<<s, k>>] # "none"
  /\ child' = Set(child, <<s, n>>, "running")
  /\ \/ /\ Visited(p, s, [m EXCEPT !.steps[s] = [@ EXCEPT !.status = "running", !.job = n]])
        /\ UNCHANGED budget
     \/ Fail /\ Visited(p, s, SetStatus(m, s, "failed"))

\* A step that has a child run takes over the status the child has at each
\* visit, unless the child's output is refused or its document not read.
FollowChild(p, s) ==
  LET m == mem[p]  n == m.steps[s].job IN
  /\ n # NoJob
  /\ \/ Visited(p, s, SetStatus(m, s, child[<<s, n>>])) /\ UNCHANGED budget
     \/ /\ Visited(p, s, SetStatus(m, s, "failed"))
        /\ Fail \/ (child[<<s, n>>] = "succeeded" /\ UNCHANGED budget)
  /\ UNCHANGED child

\* A sub-workflow that does not exist, would call itself, or whose input
\* cannot be computed, fails its step before there is a child.
SubWorkflowStep(p, s) ==
  /\ Visiting(p, s) /\ Ready(mem[p], s)
  /\ wf.kind[s] = "subworkflow"
  /\ \/ \E n \in 1..MaxAttempts : CreateChild(p, s, n)
     \/ FollowChild(p, s)
     \/ /\ mem[p].steps[s].job = NoJob
        /\ Visited(p, s, SetStatus(mem[p], s, "failed"))
        /\ UNCHANGED <<child, budget>>
  /\ UNCHANGED <<wf, run, lock, pc, loop, dispatch, replay, resume, stop, submits, job, results,
                 cancels, due, expired, unlocked>>

\* The end of a pass: steps that failed in it activate their handlers, and
\* another pass follows as long as passes complete steps.  The last write may
\* fail, which forgets what was only in memory.
EndPass(p) ==
  LET m == activateOnErrorHandler(wf, mem[p],
             {s \in Steps : StatusOf(mem[p], s) \in {"failed", "timed_out"}})
      done == countTerminalSteps(m)
      again == done > loop[p].before /\ loop[p].pass < Cardinality(Steps)
  IN
  /\ pc[p] = "pass" /\ todo[p] = {}
  /\ \/ /\ again
        /\ mem' = Set(mem, p, m)
        /\ todo' = Set(todo, p, Steps)
        /\ loop' = Set(loop, p, [pass |-> loop[p].pass + 1, before |-> done])
        /\ UNCHANGED <<run, lock, pc, dispatch, stop, budget>>
     \/ /\ ~again
        /\ Return(p)
        /\ \/ run' = updateRunStatus(wf, m) /\ UNCHANGED budget
           \/ Fail /\ UNCHANGED run
  /\ UNCHANGED <<wf, replay, resume, world, due, expired, unlocked>>

-----------------------------------------------------------------------------
\* CancelRun, called by the gateway.
CancelRun(p) ==
  /\ acquire(p)
  /\ run.status \notin Terminal
  /\ budget.cancels > 0
  /\ budget' = [budget EXCEPT !.cancels = @ - 1]
  /\ StopRun(p, run, "cancelled")
  /\ UNCHANGED <<wf, replay, resume, world, due, expired>>

\* publishJobCancel for the jobs of a stopped run; some may fail.
PublishCancels(p) ==
  /\ pc[p] = "stop"
  /\ Return(p)
  /\ \/ cancels' = cancels \cup stop[p] /\ UNCHANGED budget
     \/ \E S \in SUBSET stop[p] : S # stop[p] /\ Fail /\ cancels' = cancels \cup S
  /\ UNCHANGED <<wf, run, replay, resume, submits, job, results, child, due, expired, unlocked>>

-----------------------------------------------------------------------------
\* reconcileRun takes the lock and notes the jobs of the running steps.  The
\* job store does not know the run ID a sub-workflow step holds for one.
reconcileRun(p) ==
  /\ pc[p] = "idle" /\ lock = NoOne
  /\ run.status \notin Terminal
  /\ lock' = p
  /\ pc' = Set(pc, p, "replay")
  /\ resume' = Set(resume, p, TRUE)
  /\ replay' = Set(replay, p,
       {<<s, run.steps[s].job>> : s \in {t \in DOMAIN run.steps :
          /\ StatusOf(run, t) = "running" /\ run.steps[t].job # NoJob
          /\ wf.kind[t] # "subworkflow"}})
  /\ UNCHANGED <<wf, run, mem, todo, loop, dispatch, stop, world, due, expired, budget, unlocked>>

\* It hands the engine the state of a job that ended, as its result.
ReplayJob(p, j) ==
  /\ pc[p] = "replay" /\ j \in replay[p]
  /\ UNCHANGED unlocked
  /\ replay' = Set(replay, p, replay[p] \ {j})
  /\ IF job[j] \in Ended /\ ~Ignored(run, j)
     THEN handleJobResultLocked(p, j, job[j])
     ELSE UNCHANGED <<run, lock, pc, mem, todo, loop, dispatch, stop, due>>
  /\ UNCHANGED <<wf, resume, world, expired, budget>>

\* Mutant: an approval whose job is missing is left waiting.
RecoveredNever(m) == m

\* reconcileStuckWaitingSteps: an approval that waits for a job the store
\* does not know is dispatched again, and failed after too many times.
Recovered(m) ==
  [m EXCEPT !.steps = [s \in DOMAIN @ |->
     IF @[s].status = "waiting" /\ @[s].job # NoJob /\ job[<<s, @[s].job>>] = "none"
     THEN IF @[s].recoveries >= MaxRecoveries THEN [@[s] EXCEPT !.status = "failed"]
          ELSE [@[s] EXCEPT !.status = "pending", !.job = NoJob, !.attempts = 0,
                            !.recoveries = m.steps[s].recoveries + 1]
     ELSE @[s]]]

\* The end of reconcileRun: stuck approvals are reset, and the run started.
FinishReconcile(p) ==
  /\ pc[p] = "replay" /\ replay[p] = {}
  /\ UNCHANGED unlocked
  /\ resume' = Set(resume, p, FALSE)
  /\ IF run.status \in Terminal
     THEN /\ pc' = Set(pc, p, "idle") /\ lock' = NoOne
          /\ UNCHANGED <<run, mem, todo, loop, dispatch, stop>>
     ELSE LET m == Recovered(run) IN
          IF TimedOut(m) THEN StopRun(p, m, "timed_out")
          ELSE scheduleReady(p, m) /\ run' = m
  /\ UNCHANGED <<wf, replay, world, due, expired, budget>>

\* reconcileOrphanedJobs: the jobs of a cancelled or timed-out run that are
\* still dispatched or running are cancelled again.
reconcileOrphanedJobs ==
  /\ lock = NoOne
  /\ run.status \in {"cancelled", "timed_out"}
  /\ LET orphaned == {<<s, run.steps[s].job>> : s \in {t \in DOMAIN run.steps :
                        run.steps[t].job # NoJob /\ job[<<t, run.steps[t].job>>] \in {"active", "again"}}}
     IN /\ ~(orphaned \subseteq cancels)
        /\ cancels' = cancels \cup orphaned
  /\ UNCHANGED <<wf, run, lock, handler, submits, job, results, child, due, expired, budget, unlocked>>

-----------------------------------------------------------------------------
\* A handler dies; its lock stays until it expires.
Crash(p) ==
  /\ pc[p] # "idle"
  /\ budget.crashes > 0
  /\ budget' = [budget EXCEPT !.crashes = @ - 1]
  /\ pc' = Set(pc, p, "idle")
  /\ mem' = Set(mem, p, NoRun)
  /\ todo' = Set(todo, p, {})
  /\ loop' = Set(loop, p, [pass |-> 0, before |-> 0])
  /\ dispatch' = Set(dispatch, p, NoStep)
  /\ replay' = Set(replay, p, {})
  /\ resume' = Set(resume, p, FALSE)
  /\ stop' = Set(stop, p, {})
  /\ UNCHANGED <<wf, run, lock, world, due, expired, unlocked>>

LockExpires ==
  /\ lock # NoOne /\ pc[lock] = "idle"
  /\ lock' = NoOne
  /\ UNCHANGED <<wf, run, handler, world, due, expired, budget, unlocked>>

\* The scheduler takes a submitted job, once per job ID, except that it
\* dispatches again a job that waits to be retried.  A message whose
\* acknowledgement is lost comes again.
AcceptJob(j) ==
  /\ j \in submits
  /\ \/ submits' = submits \ {j} /\ UNCHANGED budget
     \/ Fail /\ UNCHANGED submits
  /\ job' = IF job[j] = "RETRYING" THEN Set(job, j, "again")
            ELSE IF job[j] # "none" THEN job
            ELSE Set(job, j, IF wf.kind[j[1]] = "approval" THEN "approval" ELSE "active")
  /\ UNCHANGED <<wf, run, lock, handler, results, cancels, child, due, expired, unlocked>>

\* What a job may end with.  A worker's success may be quarantined by the
\* output policy.
Outcomes(s) ==
  IF wf.kind[s] = "approval" THEN {"SUCCEEDED", "DENIED"}
  ELSE budget.ends \cap (Ended \cup {"FAILED_FATAL", "FAILED_RETRYABLE", "OUTPUT_QUARANTINED"})

\* The state the job store keeps for it, and the status it is reported with.
Stored(end) ==
  CASE end = "FAILED_FATAL" -> "FAILED"
    [] end = "FAILED_RETRYABLE" -> "RETRYING"
    [] OTHER -> end

Reported(end) == IF end = "OUTPUT_QUARANTINED" THEN "DENIED" ELSE end

EndJob(j, end) ==
  /\ job[j] \in Open \ {"RETRYING"}
  /\ end \in Outcomes(j[1])
  /\ job' = Set(job, j, Stored(end))
  /\ results' = results \cup {[job |-> j, status |-> Reported(end)]}
  /\ UNCHANGED <<wf, run, lock, handler, submits, cancels, child, due, expired, budget, unlocked>>

\* The asynchronous output check quarantines a job whose success was already
\* reported, and tells the workflow engine nothing.
QuarantineLate(j) ==
  /\ job[j] = "SUCCEEDED" /\ wf.kind[j[1]] = "worker"
  /\ "OUTPUT_QUARANTINED" \in budget.ends
  /\ job' = Set(job, j, "OUTPUT_QUARANTINED")
  /\ UNCHANGED <<wf, run, lock, handler, submits, results, cancels, child, due, expired, budget, unlocked>>

\* A cancellation reaches the scheduler, or is lost: the subject is not
\* durable.
CancelJob(j) ==
  /\ j \in cancels
  /\ cancels' = cancels \ {j}
  /\ \/ /\ job[j] \in Open
        /\ job' = Set(job, j, "CANCELLED")
        /\ results' = results \cup {[job |-> j, status |-> "CANCELLED"]}
     \/ UNCHANGED <<job, results>>
  /\ UNCHANGED <<wf, run, lock, handler, submits, child, due, expired, budget, unlocked>>

EndChildRun(j, status) ==
  /\ child[j] = "running" /\ status \in Terminal
  /\ child' = Set(child, j, status)
  /\ UNCHANGED <<wf, run, lock, handler, submits, job, results, cancels, due, expired, budget, unlocked>>

\* Time passes: a backoff or delay elapses, or the workflow's deadline.
BackoffElapses(s) ==
  /\ run.steps[s].backoff /\ s \notin due
  /\ due' = due \cup {s}
  /\ UNCHANGED <<wf, run, lock, handler, world, expired, budget, unlocked>>

DeadlinePasses ==
  /\ wf.timeout /\ ~expired /\ run.status # "pending"
  /\ expired' = TRUE
  /\ UNCHANGED <<wf, run, lock, handler, world, due, budget, unlocked>>

-----------------------------------------------------------------------------
\* The steps of handler p that has the run.
Work(p) ==
  \/ \E s \in Steps :
       \/ PassOver(p, s) \/ DispatchStep(p, s) \/ InlineStep(p, s) \/ ConditionGate(p, s)
       \/ DelayStep(p, s) \/ SwitchStep(p, s) \/ SubWorkflowStep(p, s)
  \/ PublishStep(p) \/ EndPass(p) \/ PublishCancels(p)
  \/ \E j \in Jobs : ReplayJob(p, j)
  \/ FinishReconcile(p)

Next ==
  \/ \E p \in Replicas :
       \/ \E r \in results : HandleJobResult(p, r)
       \/ StartRun(p) \/ CancelRun(p) \/ reconcileRun(p)
       \/ Work(p) \/ Crash(p)
  \/ reconcileOrphanedJobs \/ LockExpires
  \/ \E j \in Jobs :
       \/ AcceptJob(j) \/ CancelJob(j) \/ QuarantineLate(j)
       \/ \E end \in Outcomes(j[1]) : EndJob(j, end)
       \/ \E status \in Terminal : EndChildRun(j, status)
  \/ \E s \in Steps : BackoffElapses(s)
  \/ DeadlinePasses

Spec == Init /\ [][Next]_vars

\* The reconciler polls, a handler that holds the run goes on, jobs, child
\* runs and timers end, and the bus delivers a result until it is taken, also
\* when the lock is busy now and then.
Fairness ==
  /\ \A p \in Replicas : WF_vars(Work(p)) /\ WF_vars(reconcileRun(p))
  /\ WF_vars(LockExpires)
  /\ WF_vars(\E j \in Jobs : AcceptJob(j))
  /\ WF_vars(\E j \in Jobs : \E end \in Outcomes(j[1]) : EndJob(j, end))
  /\ WF_vars(\E s \in Steps : BackoffElapses(s))
  /\ WF_vars(\E j \in Jobs : \E status \in Terminal : EndChildRun(j, status))
  /\ WF_vars(DeadlinePasses)
  /\ SF_vars(\E p \in Replicas : \E r \in results : HandleJobResult(p, r))

FairSpec == Spec /\ Fairness

-----------------------------------------------------------------------------
Live(j) == (j \in submits /\ job[j] = "none") \/ job[j] \in {"active", "approval", "again"}

\* The states of a job whose outcome, if only a wish to be retried, is known.
Settled == Ended \cup {"OUTPUT_QUARANTINED", "RETRYING", "again"}

StepRuns ==
  [status : StepStatuses, job : 0..MaxAttempts, attempts : 0..MaxAttempts,
   backoff : BOOLEAN, activated : BOOLEAN, notTaken : BOOLEAN, recoveries : 0..MaxRecoveries]

Runs == [status : RunStatuses, steps : [Steps -> StepRuns]]

\* The types of the engine's state; a handler has a copy of the document
\* exactly while it schedules.
RunTypeOK ==
  /\ run \in Runs
  /\ lock \in Replicas \cup {NoOne}
  /\ \A p \in Replicas :
       /\ pc[p] \in {"idle", "pass", "publish", "stop", "replay"}
       /\ mem[p] \in Runs \cup {NoRun}
       /\ pc[p] \in {"pass", "publish"} <=> mem[p] # NoRun
       /\ todo[p] \subseteq Steps /\ replay[p] \subseteq Jobs /\ stop[p] \subseteq Jobs
  /\ submits \subseteq Jobs /\ cancels \subseteq Jobs /\ due \subseteq Steps

\* Of two attempts of a step's job that are alive at once, the earlier one asked
\* to be retried and was dispatched again: otherwise the next attempt is
\* dispatched only when the last is over, whatever publishes failed after their
\* message was delivered.  Two live attempts are two workers doing the same
\* work.
OneLiveAttempt ==
  \A s \in Steps : \A n, k \in 1..MaxAttempts :
    n < k /\ Live(<<s, n>>) /\ Live(<<s, k>>) => job[<<s, n>>] = "again"

\* What a step of the document took for the outcome of its job is what the
\* job store holds for that job: no late result of an earlier attempt, no
\* repeated one and no replay by the reconciler is taken for another's.  A
\* quarantined job may have been reported as a success or as denied, and a
\* step may fail on a job that was to be retried.
OutcomeIsTheJobs ==
  \A s \in Steps :
    LET sr == run.steps[s]
        outcome == job[<<s, sr.job>>]
    IN
    /\ wf.kind[s] \in {"worker", "approval"} /\ sr.job # NoJob /\ ~wf.gated[s]
    => /\ sr.status = "succeeded" => outcome \in {"SUCCEEDED", "OUTPUT_QUARANTINED"}
       /\ sr.status = "denied" => outcome \in {"DENIED", "OUTPUT_QUARANTINED"}
       /\ sr.status = "failed" /\ wf.kind[s] = "worker" => outcome \in Settled

\* A run that succeeded has nothing left behind: no job of its steps is
\* submitted or alive but one that asked to be retried and was dispatched
\* again, and the child run a completed sub-workflow step names succeeded.
SuccessIsQuiet ==
  run.status = "succeeded" =>
    /\ \A j \in Jobs : ~wf.gated[j[1]] /\ Live(j) => job[j] = "again"
    /\ \A s \in Steps :
         /\ wf.kind[s] = "subworkflow" /\ ~wf.gated[s] /\ run.steps[s].status = "succeeded"
         => run.steps[s].job # NoJob /\ child[<<s, run.steps[s].job>>] = "succeeded"

\* A run that is over stays as it is: no handler that was at work when the
\* run was cancelled, timed out or completed writes over it, as long as every
\* handler took the lock of the run.
RunIsFinal == [][run.status \in Terminal /\ unlocked' = 0 => run' = run]_vars

\* A job is submitted only for a run that is not over and a step whose
\* dependencies succeeded or were recovered, or that is the activated handler
\* of a step that failed, as long as every handler took the lock of the run.
DispatchIsDue ==
  [][unlocked' = 0 => \A j \in submits' \ submits :
       /\ run.status \notin Terminal
       /\ \/ run.steps[j[1]].activated
          \/ \A d \in wf.deps[j[1]] :
               \/ StatusOf(run, d) = "succeeded"
               \/ walkOnErrorChain(wf, run, d) = "recovered"]_vars

\* The jobs the run has submitted, and the promise it keeps: it ends once, and
\* a run that ended submits nothing more and keeps its status, although
\* several handlers and the reconciler work on it and any of them may die.
Submitted == submits \cup {j \in Jobs : job[j] # "none"}

Lifecycle == INSTANCE RunLifecycle
  WITH Active <- {"running", "waiting"}, Final <- Terminal,
       status <- run.status, submitted <- Submitted, alone <- unlocked = 0

KeepsLifecycle == Lifecycle!Spec

\* A worker step that was persisted as running and never published, because
\* its handler died in between: nothing in the code looks for it.
DispatchLost ==
  \E s \in Steps : /\ wf.kind[s] = "worker" /\ StatusOf(run, s) = "running"
                   /\ LET j == <<s, run.steps[s].job>> IN j \notin submits /\ job[j] = "none"
                   /\ \A p \in Replicas : dispatch[p] # s

\* Every run ends, through failed publishes and writes, lost results and dead
\* handlers, unless a dispatch was lost in a workflow that has no timeout.
RunEnds == <>(run.status \in Terminal \/ (DispatchLost /\ ~wf.timeout))

=============================================================================
