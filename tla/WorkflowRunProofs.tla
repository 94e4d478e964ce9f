------------------------- MODULE WorkflowRunProofs -------------------------
(***************************************************************************)
(* Proofs about WorkflowRun for any workflow, any number of handlers and   *)
(* any trouble.  As long as every handler took the run's lock, a run ends  *)
(* once, keeps the promise of RunLifecycle, and submits a job only for a   *)
(* step that is due.  With or without the lock, a step has one attempt     *)
(* alive at a time, unless one asked to be retried, and takes for its      *)
(* outcome that of its job.                                                *)
(***************************************************************************)
EXTENDS WorkflowRun, TLAPS

Active == {"running", "waiting"}

\* The document of a run that is active.
AtWork(m) == "status" \in DOMAIN m /\ m.status \in Active

Places == {"idle", "pass", "publish", "stop", "replay"}

\* A handler that schedules holds the lock, works on a run that is not over,
\* and has an active copy of it; one that publishes has persisted it.
HandlerInv(p) ==
  /\ pc[p] \in Places
  /\ pc[p] # "idle" => lock = p
  /\ pc[p] \in {"pass", "publish"} =>
       /\ run.status \notin Terminal
       /\ AtWork(mem[p])
  /\ pc[p] = "publish" => run.status \in Active
  /\ pc[p] = "idle" => ~resume[p]

RunInv ==
  /\ unlocked = 0
  /\ DOMAIN job = Jobs
  /\ "status" \in DOMAIN run
  /\ run.status \in RunStatuses
  /\ pc \in [Replicas -> Places] /\ DOMAIN mem = Replicas /\ resume \in [Replicas -> BOOLEAN]
  /\ \A p \in Replicas : HandlerInv(p)

-----------------------------------------------------------------------------
\* updateRunStatus gives a document an active or a final status.
LEMMA UpdatedStatus ==
  ASSUME NEW w, NEW m, "status" \in DOMAIN m
  PROVE  /\ "status" \in DOMAIN updateRunStatus(w, m)
         /\ updateRunStatus(w, m).status \in Active \cup Terminal
  BY Zenon DEF updateRunStatus, Active, Terminal

\* What scheduleReady does with one step leaves the run at work.
LEMMA StepsKeepWorking ==
  ASSUME NEW m, AtWork(m), NEW s, NEW x, NEW S, NEW w
  PROVE  /\ AtWork(SetStatus(m, s, x))
         /\ AtWork([m EXCEPT !.steps[s] = x])
         /\ AtWork([m EXCEPT !.steps = x])
         /\ AtWork(activateOnErrorHandler(w, m, S))
         /\ AtWork(Dispatched(m, s))
         /\ AtWork(Reverted(m, s))
<1>1. AtWork(SetStatus(m, s, x))
  BY Zenon DEF AtWork, SetStatus
<1>2. AtWork([m EXCEPT !.steps[s] = x])
  BY Zenon DEF AtWork
<1>3. AtWork([m EXCEPT !.steps = x])
  BY Zenon DEF AtWork
<1>4. AtWork(activateOnErrorHandler(w, m, S))
  BY Zenon DEF AtWork, activateOnErrorHandler
<1>5. AtWork(Dispatched(m, s))
  BY Zenon DEF AtWork, Dispatched, Active
<1>6. AtWork(Reverted(m, s))
  BY Zenon DEF AtWork, Reverted
<1> QED BY Zenon, <1>1, <1>2, <1>3, <1>4, <1>5, <1>6

\* A result gives the run an active or a final status.
LEMMA ResultStatus ==
  ASSUME "status" \in DOMAIN run, NEW j, NEW status, NEW m \in Results(run, j, status)
  PROVE  "status" \in DOMAIN m /\ m.status \in Active \cup Terminal
<1> DEFINE With(sr) == [run EXCEPT !.steps[j[1]] = sr]
<1>1. \A sr, S : "status" \in DOMAIN activateOnErrorHandler(wf, With(sr), S)
  BY Zenon DEF activateOnErrorHandler
<1>2. PICK sr, S : m = updateRunStatus(wf, activateOnErrorHandler(wf, With(sr), S))
  BY Zenon DEF Results
<1> HIDE DEF With
<1> QED BY Zenon, <1>1, <1>2, UpdatedStatus

\* Whoever is at work is alone.
LEMMA Alone ==
  ASSUME RunInv, NEW p \in Replicas, pc[p] # "idle" \/ lock = NoOne
  PROVE  \A q \in Replicas \ {p} : pc[q] = "idle"
  BY Zenon, RunAssumption DEF RunInv, HandlerInv

\* A step of a handler that is alone concerns only that handler.
LEMMA StepOfOne ==
  ASSUME RunInv, NEW p \in Replicas, pc[p] # "idle" \/ lock = NoOne,
         NEW x, pc' = Set(pc, p, x), DOMAIN mem' = Replicas, HandlerInv(p)',
         NEW y \in BOOLEAN, resume' = Set(resume, p, y),
         UNCHANGED <<wf, unlocked>>, DOMAIN job' = DOMAIN job,
         "status" \in DOMAIN run', run'.status \in RunStatuses
  PROVE  RunInv'
<1>1. \A q \in Replicas \ {p} : pc'[q] = "idle"
  BY Zenon, Alone DEF RunInv, Set
<1>2. \A q \in Replicas \ {p} : HandlerInv(q)'
  BY Zenon, <1>1, Alone DEF HandlerInv, RunInv, Set
<1>3. pc' \in [Replicas -> Places] /\ resume' \in [Replicas -> BOOLEAN]
  BY Zenon DEF RunInv, HandlerInv, Set
<1>4. Jobs' = Jobs
  BY Zenon DEF Jobs, Steps
<1> QED BY Zenon, <1>2, <1>3, <1>4 DEF RunInv

\* A handler that is alone may start a pass over a run that is not over.
LEMMA ScheduleKeeps ==
  ASSUME RunInv, NEW p \in Replicas, pc[p] # "idle" \/ lock = NoOne,
         NEW m, scheduleReady(p, m), UNCHANGED <<wf, unlocked, job>>, run' = m,
         NEW y \in BOOLEAN, resume' = Set(resume, p, y),
         "status" \in DOMAIN m, m.status \in RunStatuses \ Terminal
  PROVE  RunInv'
<1> DEFINE started == IF m.status = "pending" THEN [m EXCEPT !.status = "running"] ELSE m
<1>1. AtWork(started)
  BY Zenon DEF AtWork, Active, RunStatuses, Terminal
<1>2. pc' = Set(pc, p, "pass") /\ mem' = Set(mem, p, started) /\ lock' = p
  BY Zenon DEF scheduleReady, Locked
<1> HIDE DEF started
<1>3. HandlerInv(p)'
  BY Zenon, <1>1, <1>2 DEF HandlerInv, RunInv, Set, Places
<1> QED BY Zenon, <1>2, <1>3, StepOfOne DEF RunInv, Set

\* A handler that is alone may stop a run.
LEMMA StopKeeps ==
  ASSUME RunInv, NEW p \in Replicas, pc[p] # "idle" \/ lock = NoOne,
         NEW m, NEW status \in Terminal, StopRun(p, m, status), UNCHANGED <<wf, unlocked, job>>,
         NEW y \in BOOLEAN, resume' = Set(resume, p, y)
  PROVE  RunInv' /\ run'.status = status
<1>1. "status" \in DOMAIN run' /\ run'.status = status
  BY Zenon DEF StopRun, StopSteps
<1>2. pc' = Set(pc, p, "stop") /\ mem' = mem /\ lock' = p
  BY Zenon DEF StopRun, Locked
<1>3. HandlerInv(p)'
  BY Zenon, <1>2 DEF HandlerInv, RunInv, Set, Places
<1> QED BY Zenon, <1>1, <1>2, <1>3, StepOfOne DEF RunInv, Set, RunStatuses

\* A handler may return.
LEMMA ReturnKeeps ==
  ASSUME RunInv, NEW p \in Replicas, pc[p] # "idle" \/ lock = NoOne,
         Return(p), UNCHANGED <<wf, unlocked, job, resume>>,
         "status" \in DOMAIN run', run'.status \in RunStatuses
  PROVE  RunInv'
<1>1. pc' = Set(pc, p, IF resume[p] THEN "replay" ELSE "idle") /\ mem' = Set(mem, p, NoRun)
  BY Zenon DEF Return
<1>2. resume[p] => lock' = p
  BY Zenon DEF Return, RunInv, HandlerInv
<1>3. HandlerInv(p)'
  BY Zenon, <1>1, <1>2 DEF HandlerInv, RunInv, Set, Places
<1>4. resume' = Set(resume, p, resume[p])
  BY Zenon DEF RunInv, Set
<1> QED BY Zenon, <1>1, <1>3, <1>4, StepOfOne DEF RunInv, Set

\* A visit of a step changes the copy of one handler.
LEMMA VisitKeeps ==
  ASSUME RunInv, NEW p \in Replicas, pc[p] = "pass",
         NEW s, NEW m, AtWork(m), Visited(p, s, m),
         UNCHANGED <<wf, run, lock, pc, resume, job, unlocked>>
  PROVE  RunInv'
<1>1. mem' = Set(mem, p, m) /\ DOMAIN mem' = Replicas
  BY Zenon DEF Visited, Set, RunInv
<1>2. HandlerInv(p)'
  BY Zenon, <1>1 DEF RunInv, HandlerInv, Set
<1>3. \A q \in Replicas \ {p} : HandlerInv(q)'
  BY Zenon, Alone DEF RunInv, HandlerInv
<1>4. Jobs' = Jobs
  BY Zenon DEF Jobs, Steps
<1> QED BY Zenon, <1>1, <1>2, <1>3, <1>4 DEF RunInv

\* Visits of every kind of step write nothing but the handler's copy.
LEMMA VisitsKeep ==
  ASSUME RunInv, NEW p \in Replicas, NEW s \in Steps,
         \/ PassOver(p, s) \/ InlineStep(p, s) \/ ConditionGate(p, s)
         \/ DelayStep(p, s) \/ SwitchStep(p, s) \/ SubWorkflowStep(p, s)
  PROVE  RunInv' /\ UNCHANGED <<run, submits, job>>
<1>1. pc[p] = "pass" /\ UNCHANGED <<wf, run, lock, pc, resume, job, submits, unlocked>>
  BY Zenon DEF PassOver, InlineStep, ConditionGate, DelayStep, SwitchStep, SubWorkflowStep, Visiting, world
<1>2. AtWork(mem[p])
  BY Zenon, <1>1 DEF RunInv, HandlerInv
<1>3. \E m : AtWork(m) /\ Visited(p, s, m)
  <2>1. CASE PassOver(p, s)
    BY Zenon, <2>1, <1>2 DEF PassOver
  <2>2. CASE InlineStep(p, s)
    BY Zenon, <2>2, <1>2, StepsKeepWorking DEF InlineStep
  <2>3. CASE ConditionGate(p, s)
    BY Zenon, <2>3, <1>2, StepsKeepWorking DEF ConditionGate
  <2>4. CASE DelayStep(p, s)
    BY Zenon, <2>4, <1>2, StepsKeepWorking DEF DelayStep
  <2>5. CASE SwitchStep(p, s)
    BY Zenon, <2>5, <1>2, StepsKeepWorking DEF SwitchStep
  <2>6. CASE SubWorkflowStep(p, s)
    BY Zenon, <2>6, <1>2, StepsKeepWorking DEF SubWorkflowStep, CreateChild, FollowChild
  <2> QED BY Zenon, <2>1, <2>2, <2>3, <2>4, <2>5, <2>6
<1> QED BY Zenon, <1>1, <1>3, VisitKeeps

-----------------------------------------------------------------------------
\* What every step must respect.
Promise ==
  /\ run.status \in Terminal => run' = run
  /\ [Lifecycle!Next]_<<run.status, Submitted>>

\* Submitted only depends on the submissions and the job store.
LEMMA SameJobs ==
  ASSUME UNCHANGED <<wf, submits, job>>
  PROVE  UNCHANGED Submitted
  BY Zenon DEF Submitted, Jobs, Steps

\* A step that leaves the document and the jobs alone respects it.
LEMMA Untouched ==
  ASSUME UNCHANGED <<run, wf, submits, job>>
  PROVE  Promise
  BY Zenon, SameJobs DEF Promise

\* So does a write of a run that is not over.
LEMMA Written ==
  ASSUME run.status \notin Terminal, UNCHANGED <<wf, submits, job>>,
         run'.status \in Active \cup Terminal \/ run'.status = run.status
  PROVE  Promise
  BY Zenon, SameJobs DEF Promise, Lifecycle!Next, Lifecycle!Work, Lifecycle!End, Active

\* A dispatch persists a document at work, or leaves it alone.
LEMMA DispatchKeeps ==
  ASSUME RunInv, NEW p \in Replicas, NEW s \in Steps, DispatchStep(p, s)
  PROVE  RunInv' /\ Promise
<1> DEFINE m == mem[p]
<1>1. pc[p] = "pass" /\ AtWork(m) /\ run.status \notin Terminal
  BY Zenon DEF DispatchStep, Visiting, RunInv, HandlerInv
<1>2. UNCHANGED <<wf, lock, resume, job, submits, unlocked>>
  BY Zenon DEF DispatchStep, world
<1>3. AtWork(Dispatched(m, s)) /\ AtWork(Reverted(Dispatched(m, s), s))
      /\ AtWork(SetStatus(m, s, "failed"))
  BY Zenon, <1>1, StepsKeepWorking
<1> HIDE DEF m
<1>4. CASE /\ run' = Dispatched(m, s) /\ Visited(p, s, Dispatched(m, s))
           /\ pc' = Set(pc, p, "publish")
  <2>1. HandlerInv(p)'
    BY Zenon, <1>1, <1>2, <1>3, <1>4 DEF HandlerInv, RunInv, Visited, Set, AtWork, Active, Terminal, Places
  <2>2. DOMAIN mem' = Replicas /\ resume' = Set(resume, p, resume[p]) /\ resume[p] \in BOOLEAN
    BY Zenon, <1>2, <1>4 DEF RunInv, Visited, Set
  <2>3. "status" \in DOMAIN run' /\ run'.status \in Active
    BY Zenon, <1>3, <1>4 DEF AtWork
  <2>4. RunInv'
    BY Zenon, <1>1, <1>2, <1>4, <2>1, <2>2, <2>3, StepOfOne DEF RunStatuses, Active
  <2> QED BY Zenon, <1>1, <1>2, <2>3, <2>4, Written
<1>5. CASE /\ \/ Visited(p, s, Reverted(Dispatched(m, s), s))
              \/ Visited(p, s, SetStatus(m, s, "failed"))
           /\ UNCHANGED <<run, pc>>
  BY Zenon, <1>1, <1>2, <1>3, <1>5, VisitKeeps, Untouched
<1> QED BY Zenon, <1>4, <1>5 DEF DispatchStep, m

\* A publish submits a job of an active run, and may set the step back.
LEMMA PublishKeeps ==
  ASSUME RunInv, NEW p \in Replicas, PublishStep(p)
  PROVE  RunInv' /\ Promise
<1> DEFINE m == mem[p]  s == dispatch[p]
<1>1. pc[p] = "publish" /\ AtWork(m) /\ run.status \in Active
  BY Zenon DEF PublishStep, RunInv, HandlerInv
<1>2. UNCHANGED <<wf, lock, resume, job, unlocked>> /\ pc' = Set(pc, p, "pass")
  BY Zenon DEF PublishStep
<1>3. AtWork(Reverted(m, s))
  BY Zenon, <1>1, StepsKeepWorking
<1>4. submits \subseteq submits'
  BY Zenon DEF PublishStep
<1>5. /\ mem' = mem \/ mem' = Set(mem, p, Reverted(m, s))
      /\ run' = run \/ run' = mem'[p]
  BY Zenon DEF PublishStep
<1> HIDE DEF m, s
<1>6. DOMAIN mem' = Replicas /\ AtWork(mem'[p])
  BY Zenon, <1>1, <1>3, <1>5 DEF RunInv, Set, m
<1>7. "status" \in DOMAIN run' /\ run'.status \in Active
  BY Zenon, <1>1, <1>5, <1>6 DEF AtWork, RunInv
<1>8. HandlerInv(p)'
  BY Zenon, <1>1, <1>2, <1>6, <1>7 DEF HandlerInv, RunInv, Set, Active, Terminal, Places
<1>9. resume' = Set(resume, p, resume[p]) /\ resume[p] \in BOOLEAN
  BY Zenon, <1>2 DEF RunInv, Set
<1>10. RunInv'
  BY Zenon, <1>1, <1>2, <1>6, <1>7, <1>8, <1>9, StepOfOne DEF RunStatuses, Active
<1>11. Submitted \subseteq Submitted'
  BY Zenon, <1>2, <1>4 DEF Submitted, Jobs, Steps
<1>12. Lifecycle!Submit
  BY Zenon, <1>1, <1>7, <1>11 DEF Lifecycle!Submit, Active
<1> QED BY Zenon, <1>1, <1>10, <1>12 DEF Promise, Lifecycle!Next, Active, Terminal

\* The end of a pass writes the status of the run, or forgets it.
LEMMA EndPassKeeps ==
  ASSUME RunInv, NEW p \in Replicas, EndPass(p)
  PROVE  RunInv' /\ Promise
<1> DEFINE m == activateOnErrorHandler(wf, mem[p],
                  {s \in Steps : StatusOf(mem[p], s) \in {"failed", "timed_out"}})
<1>1. pc[p] = "pass" /\ AtWork(m) /\ run.status \notin Terminal /\ "status" \in DOMAIN run
  BY Zenon, StepsKeepWorking DEF EndPass, RunInv, HandlerInv
<1>2. UNCHANGED <<wf, resume, job, submits, unlocked>>
  BY Zenon DEF EndPass, world
<1> DEFINE u == updateRunStatus(wf, m)
<1>3. "status" \in DOMAIN u /\ u.status \in Active \cup Terminal
  BY Zenon, <1>1, UpdatedStatus DEF AtWork
<1>4. \/ mem' = Set(mem, p, m) /\ todo' = Set(todo, p, Steps) /\ UNCHANGED <<run, lock, pc>>
      \/ Return(p) /\ (run' = u \/ run' = run)
  BY Zenon DEF EndPass
<1> HIDE DEF m, u
<1>5. CASE mem' = Set(mem, p, m) /\ UNCHANGED <<run, lock, pc>>
  <2>1. DOMAIN mem' = Replicas /\ HandlerInv(p)'
    BY Zenon, <1>1, <1>2, <1>5 DEF HandlerInv, RunInv, Set
  <2>2. pc' = Set(pc, p, "pass") /\ resume' = Set(resume, p, resume[p]) /\ resume[p] \in BOOLEAN
    BY Zenon, <1>1, <1>2, <1>5 DEF RunInv, Set
  <2>3. RunInv'
    BY Zenon, <1>1, <1>2, <1>5, <2>1, <2>2, StepOfOne DEF RunInv
  <2> QED BY Zenon, <1>2, <1>5, <2>3, Untouched
<1>6. CASE Return(p) /\ (run' = u \/ run' = run)
  <2>1. "status" \in DOMAIN run' /\ run'.status \in RunStatuses
    BY Zenon, <1>3, <1>6 DEF RunInv, Active, RunStatuses
  <2>2. RunInv'
    BY Zenon, <1>1, <1>2, <1>6, <2>1, ReturnKeeps
  <2> QED BY Zenon, <1>1, <1>2, <1>3, <1>6, <2>2, Written
<1> QED BY Zenon, <1>4, <1>5, <1>6

\* A handler that is alone takes a result, or times the run out.
LEMMA ResultKeeps ==
  ASSUME RunInv, NEW p \in Replicas, pc[p] # "idle" \/ lock = NoOne,
         NEW j, NEW status, handleJobResultLocked(p, j, status),
         UNCHANGED <<wf, resume, submits, job, unlocked>>
  PROVE  RunInv' /\ Promise
<1>1. run.status \notin Terminal
  BY Zenon DEF handleJobResultLocked, Ignored
<1>2. resume' = Set(resume, p, resume[p]) /\ resume[p] \in BOOLEAN
  BY Zenon DEF RunInv, Set
<1>3. CASE StopRun(p, run, "timed_out")
  <2>1. RunInv' /\ run'.status = "timed_out"
    BY Zenon, <1>2, <1>3, StopKeeps DEF Terminal
  <2> QED BY Zenon, <1>1, <2>1, Written DEF Terminal
<1>4. CASE \E m \in Results(run, j, status) :
             run' = m /\ IF m.status = "running" THEN scheduleReady(p, m) ELSE Return(p)
  <2>1. PICK m \in Results(run, j, status) :
          run' = m /\ IF m.status = "running" THEN scheduleReady(p, m) ELSE Return(p)
    BY Zenon, <1>4
  <2>2. "status" \in DOMAIN m /\ m.status \in Active \cup Terminal
    BY Zenon, ResultStatus DEF RunInv
  <2>3. ASSUME m.status = "running", scheduleReady(p, m)
        PROVE  RunInv'
    BY Zenon, <1>2, <2>1, <2>2, <2>3, ScheduleKeeps DEF RunStatuses, Terminal
  <2>4. ASSUME Return(p)
        PROVE  RunInv'
    BY Zenon, <2>1, <2>2, <2>4, ReturnKeeps DEF RunStatuses, Active
  <2>5. RunInv'
    BY Zenon, <2>1, <2>3, <2>4
  <2> QED BY Zenon, <1>1, <2>1, <2>2, <2>5, Written
<1> QED BY Zenon, <1>3, <1>4 DEF handleJobResultLocked

\* Cancelling the jobs of a stopped run leaves the document alone.
LEMMA PublishCancelsKeeps ==
  ASSUME RunInv, NEW p \in Replicas, PublishCancels(p)
  PROVE  RunInv' /\ Promise
<1>1. pc[p] # "idle" /\ Return(p) /\ UNCHANGED <<wf, run, resume, submits, job, unlocked>>
  BY Zenon DEF PublishCancels
<1>2. RunInv'
  BY Zenon, <1>1, ReturnKeeps DEF RunInv
<1> QED BY Zenon, <1>1, <1>2, Untouched

\* The reconciler replays a job as a result.
LEMMA ReplayKeeps ==
  ASSUME RunInv, NEW p \in Replicas, NEW j \in Jobs, ReplayJob(p, j)
  PROVE  RunInv' /\ Promise
<1>1. pc[p] # "idle" /\ UNCHANGED <<wf, resume, submits, job, unlocked>>
  BY Zenon DEF ReplayJob, world
<1>2. CASE handleJobResultLocked(p, j, job[j])
  BY Zenon, <1>1, <1>2, ResultKeeps
<1>3. CASE UNCHANGED <<run, lock, pc, mem>>
  <2>1. RunInv'
    BY Zenon, <1>1, <1>3 DEF RunInv, HandlerInv, Jobs, Steps
  <2> QED BY Zenon, <1>1, <1>3, <2>1, Untouched
<1> QED BY Zenon, <1>2, <1>3 DEF ReplayJob

\* The reconciler's last step starts the run again or times it out.
LEMMA FinishKeeps ==
  ASSUME RunInv, NEW p \in Replicas, FinishReconcile(p)
  PROVE  RunInv' /\ Promise
<1>1. /\ pc[p] # "idle" /\ UNCHANGED <<wf, submits, job, unlocked>>
      /\ resume' = Set(resume, p, FALSE)
  BY Zenon DEF FinishReconcile, world
<1>2. CASE /\ pc' = Set(pc, p, "idle") /\ UNCHANGED <<run, mem>>
  <2>1. HandlerInv(p)' /\ DOMAIN mem' = Replicas
    BY Zenon, <1>1, <1>2 DEF RunInv, HandlerInv, Set, Places
  <2>2. RunInv'
    BY Zenon, <1>1, <1>2, <2>1, StepOfOne DEF RunInv
  <2> QED BY Zenon, <1>1, <1>2, <2>2, Untouched
<1>3. CASE run.status \notin Terminal
  <2> DEFINE m == Recovered(run)
  <2>1. "status" \in DOMAIN m /\ m.status = run.status
    BY Zenon DEF Recovered, RunInv
  <2>2. \/ StopRun(p, m, "timed_out")
        \/ scheduleReady(p, m) /\ run' = m
    BY Zenon, <1>3 DEF FinishReconcile
  <2> HIDE DEF m
  <2>3. CASE StopRun(p, m, "timed_out")
    <3>1. RunInv' /\ run'.status = "timed_out"
      BY Zenon, <1>1, <2>3, StopKeeps DEF Terminal
    <3> QED BY Zenon, <1>1, <1>3, <3>1, Written DEF Terminal
  <2>4. CASE scheduleReady(p, m) /\ run' = m
    <3>1. RunInv'
      BY Zenon, <1>1, <1>3, <2>1, <2>4, ScheduleKeeps DEF RunInv
    <3> QED BY Zenon, <1>1, <1>3, <2>1, <2>4, <3>1, Written
  <2> QED BY Zenon, <2>2, <2>3, <2>4
<1> QED BY Zenon, <1>2, <1>3 DEF FinishReconcile

\* As long as every handler took the lock, one that begins is alone.
LEMMA AcquireAlone ==
  ASSUME unlocked' = 0, RunInv, NEW p \in Replicas, acquire(p)
  PROVE  lock = NoOne /\ UNCHANGED unlocked
  BY DEF acquire, RunInv

\* A result, a start and a cancellation begin under the lock.
LEMMA EntryKeeps ==
  ASSUME unlocked' = 0, RunInv, NEW p \in Replicas,
         \/ \E r \in results : HandleJobResult(p, r)
         \/ StartRun(p) \/ CancelRun(p)
  PROVE  RunInv' /\ Promise
<1>1. /\ lock = NoOne /\ UNCHANGED <<wf, resume, submits, job, unlocked>>
  BY Zenon, AcquireAlone DEF HandleJobResult, StartRun, CancelRun, world
<1>2. resume' = Set(resume, p, resume[p]) /\ resume[p] \in BOOLEAN
  BY Zenon, <1>1 DEF RunInv, Set
<1>3. CASE \E r \in results : HandleJobResult(p, r)
  BY Zenon, <1>1, <1>3, ResultKeeps DEF HandleJobResult
<1>4. ASSUME run.status \notin Terminal, NEW status \in Terminal, StopRun(p, run, status)
      PROVE  RunInv' /\ Promise
  <2>1. RunInv' /\ run'.status = status
    BY Zenon, <1>1, <1>2, <1>4, StopKeeps
  <2> QED BY Zenon, <1>1, <1>4, <2>1, Written
<1>5. CASE StartRun(p)
  <2>1. run.status \notin Terminal
    BY Zenon, <1>5 DEF StartRun
  <2>2. CASE StopRun(p, run, "timed_out")
    BY Zenon, <1>4, <2>1, <2>2 DEF Terminal
  <2>3. CASE scheduleReady(p, run) /\ UNCHANGED run
    <3>1. RunInv'
      BY Zenon, <1>1, <1>2, <2>1, <2>3, ScheduleKeeps DEF RunInv
    <3> QED BY Zenon, <1>1, <2>3, <3>1, Untouched
  <2> QED BY Zenon, <1>5, <2>2, <2>3 DEF StartRun
<1>6. CASE CancelRun(p)
  BY Zenon, <1>4, <1>6 DEF CancelRun, Terminal
<1> QED BY Zenon, <1>3, <1>5, <1>6

\* So does the reconciler.
LEMMA ReconcileKeeps ==
  ASSUME RunInv, NEW p \in Replicas, reconcileRun(p)
  PROVE  RunInv' /\ Promise
<1>1. /\ pc' = Set(pc, p, "replay") /\ resume' = Set(resume, p, TRUE) /\ lock' = p
      /\ lock = NoOne /\ UNCHANGED <<wf, run, mem, submits, job, unlocked>>
  BY Zenon DEF reconcileRun, world
<1>2. HandlerInv(p)'
  BY Zenon, <1>1 DEF RunInv, HandlerInv, Set, Places
<1>3. RunInv'
  BY Zenon, <1>1, <1>2, StepOfOne DEF RunInv
<1> QED BY Zenon, <1>1, <1>3, Untouched

\* A handler that dies leaves the lock, and no copy.
LEMMA CrashKeeps ==
  ASSUME RunInv, NEW p \in Replicas, Crash(p)
  PROVE  RunInv' /\ Promise
<1>1. /\ pc[p] # "idle" /\ pc' = Set(pc, p, "idle") /\ mem' = Set(mem, p, NoRun)
      /\ resume' = Set(resume, p, FALSE)
      /\ UNCHANGED <<wf, run, lock, submits, job, unlocked>>
  BY Zenon DEF Crash, world
<1>2. HandlerInv(p)' /\ DOMAIN mem' = Replicas
  BY Zenon, <1>1 DEF RunInv, HandlerInv, Set, Places
<1>3. RunInv'
  BY Zenon, <1>1, <1>2, StepOfOne DEF RunInv
<1> QED BY Zenon, <1>1, <1>3, Untouched

\* The world outside the handlers does not touch the document, and a job that
\* was submitted stays submitted.
LEMMA WorldKeeps ==
  ASSUME RunInv, UNCHANGED <<wf, run, lock, pc, mem, resume, unlocked>>,
         DOMAIN job' = DOMAIN job, UNCHANGED Submitted
  PROVE  RunInv' /\ Promise
  BY Zenon DEF RunInv, HandlerInv, Promise, Jobs, Steps

\* The scheduler's steps forget no job.
LEMMA JobsKeep ==
  ASSUME RunInv, NEW j \in Jobs,
         \/ AcceptJob(j) \/ CancelJob(j) \/ QuarantineLate(j)
         \/ \E end \in Outcomes(j[1]) : EndJob(j, end)
  PROVE  RunInv' /\ Promise
<1>1. UNCHANGED <<wf, run, lock, pc, mem, resume, unlocked>> /\ Jobs' = Jobs
  BY Zenon DEF AcceptJob, CancelJob, QuarantineLate, EndJob, handler, Jobs, Steps
<1>2. CASE AcceptJob(j)
  <2>1. /\ j \in submits /\ submits' \in {submits, submits \ {j}} /\ DOMAIN job' = DOMAIN job
        /\ job'[j] # "none" /\ \A k \in Jobs \ {j} : job'[k] = job[k]
    BY Zenon, <1>2 DEF AcceptJob, Set, RunInv
  <2>2. UNCHANGED Submitted
    BY Zenon, <1>1, <2>1 DEF Submitted
  <2> QED BY Zenon, <1>1, <2>1, <2>2, WorldKeeps
<1>3. ASSUME NEW x, x # "none", job[j] # "none", job' = Set(job, j, x), UNCHANGED submits
      PROVE  RunInv' /\ Promise
  <2>1. /\ DOMAIN job' = DOMAIN job /\ job[j] # "none" /\ job'[j] # "none"
        /\ \A k \in Jobs \ {j} : job'[k] = job[k]
    BY Zenon, <1>3 DEF Set, RunInv
  <2>2. UNCHANGED Submitted
    BY Zenon, <1>1, <1>3, <2>1 DEF Submitted
  <2> QED BY Zenon, <1>1, <2>1, <2>2, WorldKeeps
<1>4. CASE CancelJob(j)
  <2>1. CASE UNCHANGED <<job, submits>>
    BY Zenon, <1>1, <2>1, SameJobs, WorldKeeps
  <2> QED BY Zenon, <1>3, <1>4, <2>1 DEF CancelJob, Open
<1>5. CASE \E end \in Outcomes(j[1]) : EndJob(j, end)
  <2>1. PICK end \in Outcomes(j[1]) : EndJob(j, end)
    BY Zenon, <1>5
  <2>2. end # "none"
    BY Zenon, <2>1 DEF Outcomes, Ended
  <2>3. Stored(end) # "none"
    BY <2>2 DEF Stored
  <2>4. job[j] # "none" /\ job' = Set(job, j, Stored(end)) /\ UNCHANGED submits
    BY Zenon, <2>1 DEF EndJob, Open
  <2> QED BY Zenon, <1>3, <2>3, <2>4
<1>6. CASE QuarantineLate(j)
  BY Zenon, <1>3, <1>6 DEF QuarantineLate
<1> QED BY Zenon, <1>2, <1>4, <1>5, <1>6

\* Time, child runs and repeated cancellations leave the run alone.
LEMMA RestKeeps ==
  ASSUME RunInv,
         \/ reconcileOrphanedJobs \/ DeadlinePasses
         \/ \E s \in Steps : BackoffElapses(s)
         \/ \E j \in Jobs : \E status \in Terminal : EndChildRun(j, status)
         \/ UNCHANGED vars
  PROVE  RunInv' /\ Promise
<1>1. UNCHANGED <<wf, run, lock, pc, mem, resume, unlocked, submits, job>>
  BY Zenon DEF reconcileOrphanedJobs, DeadlinePasses, BackoffElapses, EndChildRun, vars, handler, world
<1> QED BY Zenon, <1>1, SameJobs, WorldKeeps

\* A lock expires only when nobody is at work.
LEMMA ExpiryKeeps ==
  ASSUME RunInv, LockExpires
  PROVE  RunInv' /\ Promise
<1>1. /\ UNCHANGED <<wf, run, pc, mem, resume, unlocked, submits, job>>
      /\ pc[lock] = "idle"
  BY Zenon DEF LockExpires, handler, world
<1>2. \A p \in Replicas : pc[p] = "idle"
  BY Zenon, <1>1 DEF RunInv, HandlerInv
<1>3. RunInv'
  BY Zenon, <1>1, <1>2 DEF RunInv, HandlerInv, Jobs, Steps
<1> QED BY Zenon, <1>1, <1>3, Untouched

\* Every step keeps the invariant and respects the promise.
LEMMA StepKeeps ==
  ASSUME unlocked' = 0, RunInv, [Next]_vars
  PROVE  RunInv' /\ Promise
<1>1. ASSUME NEW p \in Replicas, Work(p)
      PROVE  RunInv' /\ Promise
  <2>1. CASE \E s \in Steps : \/ PassOver(p, s) \/ InlineStep(p, s) \/ ConditionGate(p, s)
                             \/ DelayStep(p, s) \/ SwitchStep(p, s) \/ SubWorkflowStep(p, s)
    <3>1. PICK s \in Steps : \/ PassOver(p, s) \/ InlineStep(p, s) \/ ConditionGate(p, s)
                             \/ DelayStep(p, s) \/ SwitchStep(p, s) \/ SubWorkflowStep(p, s)
      BY Zenon, <2>1
    <3>2. UNCHANGED wf
      BY Zenon, <3>1 DEF PassOver, InlineStep, ConditionGate, DelayStep, SwitchStep, SubWorkflowStep
    <3> QED BY Zenon, <3>1, <3>2, VisitsKeep, Untouched
  <2>2. CASE \E s \in Steps : DispatchStep(p, s)
    BY Zenon, <2>2, DispatchKeeps
  <2>3. CASE PublishStep(p) \/ EndPass(p) \/ PublishCancels(p) \/ FinishReconcile(p)
    BY Zenon, <2>3, PublishKeeps, EndPassKeeps, PublishCancelsKeeps, FinishKeeps
  <2>4. CASE \E j \in Jobs : ReplayJob(p, j)
    BY Zenon, <2>4, ReplayKeeps
  <2> QED BY Zenon, <1>1, <2>1, <2>2, <2>3, <2>4 DEF Work
<1>2. ASSUME NEW p \in Replicas,
             \/ \E r \in results : HandleJobResult(p, r)
             \/ StartRun(p) \/ CancelRun(p) \/ reconcileRun(p) \/ Crash(p)
      PROVE  RunInv' /\ Promise
  BY Zenon, <1>2, EntryKeeps, ReconcileKeeps, CrashKeeps
<1>3. CASE \E j \in Jobs : \/ AcceptJob(j) \/ CancelJob(j) \/ QuarantineLate(j)
                           \/ \E end \in Outcomes(j[1]) : EndJob(j, end)
  BY Zenon, <1>3, JobsKeep
<1>4. CASE LockExpires
  BY Zenon, <1>4, ExpiryKeeps
<1>5. CASE \/ reconcileOrphanedJobs \/ DeadlinePasses \/ UNCHANGED vars
           \/ \E s \in Steps : BackoffElapses(s)
           \/ \E j \in Jobs : \E status \in Terminal : EndChildRun(j, status)
  BY Zenon, <1>5, RestKeeps
<1> QED BY Zenon, <1>1, <1>2, <1>3, <1>4, <1>5 DEF Next

\* A run begins pending, with nothing submitted.
LEMMA InitKeeps ==
  ASSUME Init
  PROVE  RunInv /\ run.status = "pending" /\ Submitted = {}
  BY Zenon DEF Init, RunInv, HandlerInv, NewRun, RunStatuses, Places, Submitted

\* The handlers that worked without the lock are only ever added to.
LEMMA UnlockedGrows ==
  ASSUME [Next]_vars
  PROVE  unlocked' \in {unlocked, unlocked + 1}
<1>1. ASSUME NEW p \in Replicas, Work(p)
      PROVE  unlocked' = unlocked
  BY Zenon, <1>1 DEF Work, PassOver, DispatchStep, InlineStep, ConditionGate, DelayStep, SwitchStep,
              SubWorkflowStep, PublishStep, EndPass, PublishCancels, ReplayJob, FinishReconcile
<1>2. ASSUME NEW p \in Replicas,
             \/ \E r \in results : HandleJobResult(p, r)
             \/ StartRun(p) \/ CancelRun(p) \/ reconcileRun(p) \/ Crash(p)
      PROVE  unlocked' \in {unlocked, unlocked + 1}
  BY Zenon, <1>2 DEF HandleJobResult, StartRun, CancelRun, reconcileRun, Crash, acquire
<1>3. ASSUME \/ reconcileOrphanedJobs \/ LockExpires \/ DeadlinePasses \/ UNCHANGED vars
             \/ \E j \in Jobs : \/ AcceptJob(j) \/ CancelJob(j) \/ QuarantineLate(j)
                                \/ \E end \in Outcomes(j[1]) : EndJob(j, end)
                                \/ \E status \in Terminal : EndChildRun(j, status)
             \/ \E s \in Steps : BackoffElapses(s)
      PROVE  unlocked' = unlocked
  BY Zenon, <1>3 DEF reconcileOrphanedJobs, LockExpires, DeadlinePasses, vars, AcceptJob, CancelJob,
              QuarantineLate, EndJob, BackoffElapses, EndChildRun
<1> QED BY Zenon, <1>1, <1>2, <1>3 DEF Next

\* The invariant behind the other theorems: as long as every handler took the
\* lock, whoever schedules the run holds it, is alone, and works on a run that
\* is not over.
LockedInv == unlocked \in Nat /\ (unlocked = 0 => RunInv)

\* A step that leaves every handler locked began so, and keeps the promise.
LEMMA LockedStep ==
  ASSUME LockedInv, [Next]_vars
  PROVE  LockedInv' /\ (unlocked' = 0 => RunInv /\ Promise)
<1>1. unlocked' \in Nat /\ (unlocked' = 0 => unlocked = 0)
  BY UnlockedGrows DEF LockedInv
<1>2. unlocked' = 0 => RunInv /\ RunInv' /\ Promise
  BY Zenon, <1>1, StepKeeps DEF LockedInv
<1> QED BY Zenon, <1>1, <1>2 DEF LockedInv

\* LockedInv holds for every workflow, any number of handlers and any trouble.
THEOREM RunInvariant == Spec => []LockedInv
<1>1. Init => LockedInv
  BY InitKeeps DEF LockedInv, RunInv
<1>2. LockedInv /\ [Next]_vars => LockedInv'
  BY Zenon, LockedStep
<1> QED BY <1>1, <1>2, PTL DEF Spec

\* A run that is over is never written again, by no handler and no reconciler,
\* as long as each took the lock of the run.
THEOREM EndedRunIsFinal == Spec => RunIsFinal
<1>1. LockedInv /\ [Next]_vars => [run.status \in Terminal /\ unlocked' = 0 => run' = run]_vars
  BY Zenon, LockedStep DEF Promise
<1> QED BY <1>1, RunInvariant, PTL DEF Spec, RunIsFinal

\* The engine keeps the promise of RunLifecycle: as long as the handlers are
\* alone with it, a run ends once, and submits no job before it is started or
\* after it ended.
THEOREM EngineKeepsLifecycle == Spec => KeepsLifecycle
<1>1. Init => Lifecycle!Init
  BY Zenon, InitKeeps DEF Lifecycle!Init
<1>2. LockedInv /\ [Next]_vars => [Lifecycle!Next]_<<run.status, Submitted>>
  BY Zenon, LockedStep DEF Promise, Lifecycle!Next
<1> QED BY <1>1, <1>2, RunInvariant, PTL DEF Spec, KeepsLifecycle, Lifecycle!Spec

-----------------------------------------------------------------------------
(* The jobs of a step.  These hold whether or not the handlers took the    *)
(* run's lock: they are about each document, the one in Redis and every    *)
(* handler's copy, however stale.                                          *)

Unsent == {"", "pending"}
JobStates == {"none", "active", "approval"} \cup Settled
Children == {"none", "running"} \cup Terminal

\* What a job that was reported as a success, or as denied, may have become.
Done == {"SUCCEEDED", "OUTPUT_QUARANTINED"}
Refused == {"DENIED", "OUTPUT_QUARANTINED"}

Statuses == Ended \cup {"FAILED_FATAL", "FAILED_RETRYABLE"}

\* A job in state o may have been reported with the status.
Tells(status, o) ==
  /\ o \in Settled
  /\ status = "SUCCEEDED" => o \in Done
  /\ status = "DENIED" => o \in Refused

\* What a job in state o may become keeps every report of it true.
Stays(o, o2) ==
  /\ o \in Settled => o2 \in Settled
  /\ o \in Done => o2 \in Done
  /\ o \in Refused => o2 \in Refused

StepRecs ==
  [status : StepStatuses \cup {"none"}, job : 0..MaxAttempts, attempts : 0..MaxAttempts,
   backoff : BOOLEAN, activated : BOOLEAN, notTaken : BOOLEAN, recoveries : Nat]

\* The steps whose outcome is that of a job.
Judged(w, s) == w.kind[s] \in {"worker", "approval"} /\ ~w.gated[s]

\* The outcome a step of workflow w took from the job store jb.
Taken(w, jb, s, sr) ==
  LET o == jb[<<s, sr.job>>] IN
  /\ sr.status \in Unsent => o \in Settled
  /\ sr.status = "succeeded" => o \in Done
  /\ sr.status = "denied" => o \in Refused
  /\ sr.status = "failed" /\ w.kind[s] = "worker" => o \in Settled

\* Every attempt the step has counted is over, except for the one it is at.
StepOK(w, jb, s, sr) ==
  /\ sr \in StepRecs
  /\ \A k \in 1..(sr.attempts - 1) : jb[<<s, k>>] \in Settled
  /\ sr.attempts # 0 =>
       \/ jb[<<s, sr.attempts>>] \in Settled
       \/ sr.job = sr.attempts /\ sr.status \notin Unsent
  /\ sr.status = "waiting" => w.kind[s] = "approval"
  /\ Judged(w, s) /\ sr.job # NoJob => Taken(w, jb, s, sr)

Docs(w) == [status : RunStatuses, steps : [DOMAIN w.kind -> StepRecs]]
DocOK(w, jb, m) == m \in Docs(w) /\ \A s \in DOMAIN w.kind : StepOK(w, jb, s, m.steps[s])

\* What a step may become without a job.
Follows(w, s, from, to) ==
  \/ to = from
  \/ to \in Unsent /\ from \in Unsent
  \/ to \in {"running", "cancelled", "timed_out", "skipped", "none"}
  \/ to = "failed" /\ from \in Unsent
  \/ to \in (Terminal \cup {"running", "none"}) /\ ~Judged(w, s)

\* Such a change keeps what is known of the jobs.
LEMMA StepFollows ==
  ASSUME NEW w, NEW jb, NEW s, NEW sr, StepOK(w, jb, s, sr),
         NEW x \in StepRecs, x.job = sr.job, x.attempts = sr.attempts,
         Follows(w, s, sr.status, x.status)
  PROVE  StepOK(w, jb, s, x)
<1>1. sr.status \notin Unsent => x.status \notin Unsent
  BY Zenon DEF Follows, Unsent, Terminal
<1>2. x.status = "waiting" => w.kind[s] = "approval"
  BY Zenon DEF Follows, StepOK, Unsent, Terminal
<1>3. Judged(w, s) /\ x.job # NoJob => Taken(w, jb, s, x)
  BY Zenon DEF Follows, StepOK, Taken, Unsent
<1> QED BY Zenon, <1>1, <1>2, <1>3 DEF StepOK

\* A job that is over stays so, and so does what the documents say of it.
LEMMA DocLater ==
  ASSUME NEW w, NEW jb, NEW jc, NEW m, DocOK(w, jb, m),
         \A s \in DOMAIN w.kind : \A k \in 1..MaxAttempts :
           Stays(jb[<<s, k>>], jc[<<s, k>>])
  PROVE  DocOK(w, jc, m)
<1> SUFFICES ASSUME NEW s \in DOMAIN w.kind PROVE StepOK(w, jc, s, m.steps[s])
  BY Zenon DEF DocOK
<1> DEFINE sr == m.steps[s]
<1>1. StepOK(w, jb, s, sr) /\ sr.job \in 0..MaxAttempts /\ sr.attempts \in 0..MaxAttempts
  BY Zenon DEF DocOK, StepOK, StepRecs
<1>2. \A k \in 1..MaxAttempts : Stays(jb[<<s, k>>], jc[<<s, k>>])
  BY Zenon
<1> HIDE DEF sr
<1> USE DEF Stays
<1>3. \A k \in 1..(sr.attempts - 1) : jc[<<s, k>>] \in Settled
  BY <1>1, <1>2, RunAssumption DEF StepOK
<1>4. sr.attempts # 0 /\ jb[<<s, sr.attempts>>] \in Settled => jc[<<s, sr.attempts>>] \in Settled
  BY <1>1, <1>2, RunAssumption
<1>5. ASSUME Judged(w, s), sr.job # NoJob PROVE Taken(w, jc, s, sr)
  <2>1. sr.job \in 1..MaxAttempts /\ Taken(w, jb, s, sr)
    BY <1>1, <1>5, RunAssumption DEF StepOK, NoJob
  <2> QED BY Zenon, <1>2, <2>1 DEF Taken
<1> QED BY Zenon, <1>1, <1>3, <1>4, <1>5 DEF StepOK, sr

\* A document may change one of its steps.
LEMMA DocStep ==
  ASSUME NEW w, NEW jb, NEW m, DocOK(w, jb, m), NEW s \in DOMAIN w.kind,
         NEW x, StepOK(w, jb, s, x), NEW status \in RunStatuses
  PROVE  /\ DocOK(w, jb, [m EXCEPT !.steps[s] = x])
         /\ DocOK(w, jb, [m EXCEPT !.status = status])
<1>1. x \in StepRecs
  BY Zenon DEF StepOK
<1> DEFINE m2 == [m EXCEPT !.steps[s] = x]
<1>2. m2 \in Docs(w) /\ m2.steps = [m.steps EXCEPT ![s] = x] /\ m.steps \in [DOMAIN w.kind -> StepRecs]
  BY Zenon, <1>1 DEF DocOK, Docs
<1>3. \A t \in DOMAIN w.kind : m2.steps[t] = IF t = s THEN x ELSE m.steps[t]
  BY Zenon, <1>2
<1>4. DocOK(w, jb, m2)
  BY Zenon, <1>2, <1>3 DEF DocOK
<1>5. DocOK(w, jb, [m EXCEPT !.status = status])
  BY Zenon DEF DocOK, Docs
<1> QED BY Zenon, <1>4, <1>5

\* It may change any of them.
LEMMA DocSteps ==
  ASSUME NEW w, NEW jb, NEW status \in RunStatuses, NEW f, f = [s \in DOMAIN w.kind |-> f[s]],
         \A s \in DOMAIN w.kind : StepOK(w, jb, s, f[s])
  PROVE  DocOK(w, jb, [status |-> status, steps |-> f])
<1>1. \A s \in DOMAIN w.kind : f[s] \in StepRecs
  BY Zenon DEF StepOK
<1>2. f \in [DOMAIN w.kind -> StepRecs]
  BY Zenon, <1>1
<1> QED BY Zenon, <1>2 DEF DocOK, Docs

\* A document is its status and its steps.
LEMMA DocForm ==
  ASSUME NEW w, NEW jb, NEW m, DocOK(w, jb, m)
  PROVE  /\ m.status \in RunStatuses /\ m.steps \in [DOMAIN w.kind -> StepRecs]
         /\ m = [status |-> m.status, steps |-> m.steps]
         /\ \A x : [m EXCEPT !.steps = x] = [status |-> m.status, steps |-> x]
  BY DEF DocOK, Docs

\* A step may take a status that needs no job.
LEMMA DocSetStatus ==
  ASSUME NEW w, NEW jb, NEW m, DocOK(w, jb, m), NEW s \in DOMAIN w.kind,
         NEW x \in StepStatuses \cup {"none"}, Follows(w, s, StatusOf(m, s), x)
  PROVE  DocOK(w, jb, SetStatus(m, s, x))
<1> DEFINE sr == m.steps[s]  y == [sr EXCEPT !.status = x]
<1>1. StepOK(w, jb, s, sr) /\ sr \in StepRecs
  BY Zenon DEF DocOK, StepOK
<1>2. y \in StepRecs /\ y.job = sr.job /\ y.attempts = sr.attempts /\ y.status = x
  BY Zenon, <1>1 DEF StepRecs
<1>3. StepOK(w, jb, s, y)
  BY Zenon, <1>1, <1>2, StepFollows DEF StatusOf
<1>4. DocOK(w, jb, [m EXCEPT !.steps[s] = y])
  <2> HIDE DEF y
  <2> QED BY Zenon, <1>3, DocStep DEF RunStatuses
<1>5. SetStatus(m, s, x) = [m EXCEPT !.steps[s] = y]
  BY Zenon DEF SetStatus
<1> HIDE DEF y
<1> QED BY Zenon, <1>4, <1>5

\* activateOnErrorHandler moves steps that were not dispatched.
LEMMA DocActivate ==
  ASSUME NEW w, NEW jb, NEW m, DocOK(w, jb, m), NEW S
  PROVE  DocOK(w, jb, activateOnErrorHandler(w, m, S))
<1> DEFINE to(t) == IF (\E s \in S : w.onError[s] = t) /\ m.steps[t].status \in {"", "pending"}
                    THEN [m.steps[t] EXCEPT !.status = "pending", !.activated = TRUE]
                    ELSE m.steps[t]
           f == [t \in DOMAIN w.kind |-> to(t)]
<1>1. ASSUME NEW t \in DOMAIN w.kind PROVE StepOK(w, jb, t, to(t))
  <2>1. StepOK(w, jb, t, m.steps[t]) /\ m.steps[t] \in StepRecs
    BY Zenon DEF DocOK, StepOK
  <2> DEFINE y == [m.steps[t] EXCEPT !.status = "pending", !.activated = TRUE]
  <2>2. y \in StepRecs /\ y.job = m.steps[t].job /\ y.attempts = m.steps[t].attempts /\ y.status = "pending"
    BY Zenon, <2>1 DEF StepRecs, StepStatuses
  <2>3. m.steps[t].status \in {"", "pending"} => StepOK(w, jb, t, y)
    <3> HIDE DEF y
    <3> QED BY Zenon, <2>1, <2>2, StepFollows DEF Follows, Unsent
  <2> QED BY Zenon, <2>1, <2>3
<1>2. activateOnErrorHandler(w, m, S) = [status |-> m.status, steps |-> f]
  <2>1. DOMAIN m.steps = DOMAIN w.kind
    BY Zenon, DocForm
  <2>2. activateOnErrorHandler(w, m, S) = [m EXCEPT !.steps = f]
    BY Zenon, <2>1 DEF activateOnErrorHandler
  <2> HIDE DEF f
  <2> QED BY Zenon, <2>2, DocForm
<1>3. \A t \in DOMAIN w.kind : StepOK(w, jb, t, f[t])
  BY Zenon, <1>1
<1>4. f = [t \in DOMAIN w.kind |-> f[t]]
  BY Zenon
<1> HIDE DEF f
<1> QED BY <1>2, <1>3, <1>4, DocForm, DocSteps

\* updateRunStatus skips steps and sets the status of the run.
LEMMA DocUpdate ==
  ASSUME NEW w, NEW jb, NEW m, DocOK(w, jb, m)
  PROVE  DocOK(w, jb, updateRunStatus(w, m))
<1>1. PICK status, skipped :
        /\ status \in RunStatuses
        /\ \/ updateRunStatus(w, m) = m
           \/ updateRunStatus(w, m) =
                [status |-> status,
                 steps |-> [s \in DOMAIN m.steps |->
                   IF s \in skipped THEN [m.steps[s] EXCEPT !.status = "skipped"] ELSE m.steps[s]]]
  BY Zenon DEF updateRunStatus, RunStatuses, Terminal
<1> DEFINE to(t) == IF t \in skipped THEN [m.steps[t] EXCEPT !.status = "skipped"] ELSE m.steps[t]
           f == [t \in DOMAIN w.kind |-> to(t)]
<1>2. ASSUME NEW t \in DOMAIN w.kind PROVE StepOK(w, jb, t, to(t))
  <2>1. StepOK(w, jb, t, m.steps[t]) /\ m.steps[t] \in StepRecs
    BY Zenon DEF DocOK, StepOK
  <2> DEFINE y == [m.steps[t] EXCEPT !.status = "skipped"]
  <2>2. y \in StepRecs /\ y.job = m.steps[t].job /\ y.attempts = m.steps[t].attempts /\ y.status = "skipped"
    BY Zenon, <2>1 DEF StepRecs, StepStatuses
  <2>3. StepOK(w, jb, t, y)
    <3> HIDE DEF y
    <3> QED BY Zenon, <2>1, <2>2, StepFollows DEF Follows
  <2> QED BY Zenon, <2>1, <2>3
<1>3. DOMAIN m.steps = DOMAIN w.kind
  BY Zenon, DocForm
<1>4. \A t \in DOMAIN w.kind : StepOK(w, jb, t, f[t])
  BY Zenon, <1>2
<1>5. f = [t \in DOMAIN w.kind |-> f[t]]
  BY Zenon
<1>6. updateRunStatus(w, m) \in {m, [status |-> status, steps |-> f]}
  BY Zenon, <1>1, <1>3
<1> HIDE DEF f
<1>7. DocOK(w, jb, [status |-> status, steps |-> f])
  BY Zenon, <1>1, <1>4, <1>5, DocSteps
<1> QED BY Zenon, <1>6, <1>7

\* CancelRun and timeoutRun stop what is not over.
LEMMA DocStop ==
  ASSUME NEW w, NEW jb, NEW m, DocOK(w, jb, m), NEW status \in {"cancelled", "timed_out"}
  PROVE  DocOK(w, jb, StopSteps(m, status))
<1> DEFINE to(t) == IF StatusOf(m, t) \in Terminal THEN m.steps[t]
                    ELSE [m.steps[t] EXCEPT !.status = status]
           f == [t \in DOMAIN w.kind |-> to(t)]
<1>1. ASSUME NEW t \in DOMAIN w.kind PROVE StepOK(w, jb, t, to(t))
  <2>1. StepOK(w, jb, t, m.steps[t]) /\ m.steps[t] \in StepRecs
    BY Zenon DEF DocOK, StepOK
  <2> DEFINE y == [m.steps[t] EXCEPT !.status = status]
  <2>2. y \in StepRecs /\ y.job = m.steps[t].job /\ y.attempts = m.steps[t].attempts /\ y.status = status
    BY Zenon, <2>1 DEF StepRecs, StepStatuses, Terminal
  <2>3. StepOK(w, jb, t, y)
    <3> HIDE DEF y
    <3> QED BY Zenon, <2>1, <2>2, StepFollows DEF Follows
  <2> QED BY Zenon, <2>1, <2>3
<1>2. StopSteps(m, status) = [status |-> status, steps |-> f]
  <2>1. DOMAIN m.steps = DOMAIN w.kind
    BY Zenon, DocForm
  <2> QED BY Zenon, <2>1 DEF StopSteps
<1>3. \A t \in DOMAIN w.kind : StepOK(w, jb, t, f[t])
  BY Zenon, <1>1
<1>4. f = [t \in DOMAIN w.kind |-> f[t]]
  BY Zenon
<1> HIDE DEF f
<1> QED BY Zenon, <1>2, <1>3, <1>4, DocSteps DEF RunStatuses, Terminal

\* A dispatch follows attempts that are over.
LEMMA DocDispatch ==
  ASSUME NEW m, DocOK(wf, job, m), NEW s \in Steps, StatusOf(m, s) \in Unsent,
         wf.kind[s] \in {"worker", "approval"}, m.steps[s].attempts < MaxAttempts
  PROVE  /\ DocOK(wf, job, Dispatched(m, s))
         /\ LET sr == Dispatched(m, s).steps[s] IN sr.attempts # 0 /\ sr.job = sr.attempts
<1> DEFINE sr == m.steps[s]
           a == [sr EXCEPT !.status = "waiting", !.job = 1, !.attempts = 1]
           b == [sr EXCEPT !.status = "running", !.job = sr.attempts + 1, !.attempts = sr.attempts + 1]
<1>1. StepOK(wf, job, s, sr) /\ sr \in StepRecs /\ sr.status \in Unsent /\ sr.attempts < MaxAttempts
      /\ s \in DOMAIN wf.kind
  BY Zenon DEF DocOK, StepOK, StatusOf, Steps
<1>2. sr.attempts \in Nat /\ sr.attempts + 1 \in 1..MaxAttempts /\ 1 \in 0..MaxAttempts
  BY <1>1, RunAssumption DEF StepRecs
<1> HIDE DEF sr
<1>3. /\ a \in StepRecs /\ a.status = "waiting" /\ a.job = 1 /\ a.attempts = 1
      /\ b \in StepRecs /\ b.status = "running" /\ b.job = sr.attempts + 1 /\ b.attempts = sr.attempts + 1
  <2>1. sr.attempts + 1 \in 0..MaxAttempts
    BY <1>2, RunAssumption
  <2>2. {"waiting", "running"} \subseteq StepStatuses
    BY Zenon DEF StepStatuses
  <2>3. sr \in StepRecs /\ "waiting" \in StepStatuses /\ "running" \in StepStatuses
    BY Zenon, <1>1, <2>2
  <2>4. a \in StepRecs /\ a.status = "waiting" /\ a.job = 1 /\ a.attempts = 1
    BY Zenon, <1>2, <2>3 DEF StepRecs
  <2> DEFINE n == sr.attempts + 1
  <2>5. b = [sr EXCEPT !.status = "running", !.job = n, !.attempts = n] /\ n \in 0..MaxAttempts
    BY Zenon, <2>1
  <2> HIDE DEF n, b
  <2>6. b \in StepRecs /\ b.status = "running" /\ b.job = n /\ b.attempts = n
    BY Zenon, <2>3, <2>5 DEF StepRecs
  <2> QED BY Zenon, <2>4, <2>6 DEF n
<1> HIDE DEF a, b
<1>4. wf.kind[s] = "approval" => StepOK(wf, job, s, a)
  <2>1. a.status \notin Unsent \cup {"succeeded", "denied", "failed"}
    BY Zenon, <1>3 DEF Unsent
  <2> QED BY <1>3, <2>1 DEF StepOK, Taken
<1>5. StepOK(wf, job, s, b)
  <2>1. b.status \notin Unsent \cup {"succeeded", "denied", "failed", "waiting"}
    BY Zenon, <1>3 DEF Unsent
  <2>2. \A k \in 1..(b.attempts - 1) : job[<<s, k>>] \in Settled
    <3>1. sr.attempts # 0 => job[<<s, sr.attempts>>] \in Settled
      BY Zenon, <1>1 DEF StepOK
    <3>2. \A k \in 1..(sr.attempts - 1) : job[<<s, k>>] \in Settled
      BY Zenon, <1>1 DEF StepOK
    <3>3. b.attempts - 1 = sr.attempts
      BY <1>2, <1>3
    <3>4. \A k \in 1..sr.attempts : k \in 1..(sr.attempts - 1) \/ (k = sr.attempts /\ sr.attempts # 0)
      BY <1>2
    <3> QED BY Zenon, <3>1, <3>2, <3>3, <3>4
  <2> QED BY Zenon, <1>3, <2>1, <2>2 DEF StepOK, Taken
<1>6. CASE wf.kind[s] = "approval"
  <2>1. Dispatched(m, s) = [[m EXCEPT !.status = "waiting"] EXCEPT !.steps[s] = a]
    BY Zenon, <1>6, DocForm DEF Dispatched, a, sr
  <2>2. DocOK(wf, job, [m EXCEPT !.status = "waiting"])
    BY Zenon, <1>1, <1>5, DocStep DEF RunStatuses
  <2>3. DocOK(wf, job, Dispatched(m, s))
    <3> DEFINE m2 == [m EXCEPT !.status = "waiting"]
    <3>1. DocOK(wf, job, m2)
      BY Zenon, <2>2
    <3> HIDE DEF m2
    <3>2. DocOK(wf, job, [m2 EXCEPT !.steps[s] = a])
      BY Zenon, <1>1, <1>4, <1>6, <3>1, DocStep DEF RunStatuses
    <3> QED BY Zenon, <2>1, <3>2 DEF m2
  <2>4. Dispatched(m, s).steps[s] = a
    BY <1>1, <2>1, <2>2, DocForm
  <2> QED BY <1>3, <2>3, <2>4
<1>7. CASE wf.kind[s] # "approval"
  <2>1. Dispatched(m, s) = [m EXCEPT !.steps[s] = b]
    BY Zenon, <1>7, DocForm DEF Dispatched, b, sr
  <2>2. DocOK(wf, job, Dispatched(m, s))
    <3>1. DocOK(wf, job, [m EXCEPT !.steps[s] = b])
      BY Zenon, <1>1, <1>5, DocStep DEF RunStatuses
    <3> QED BY Zenon, <2>1, <3>1
  <2>3. Dispatched(m, s).steps[s] = b
    BY <1>1, <2>1, DocForm
  <2> QED BY <1>2, <1>3, <2>2, <2>3
<1> QED BY Zenon, <1>6, <1>7

\* A step whose publish failed goes back to the attempt before, which is over.
LEMMA DocRevert ==
  ASSUME NEW m, DocOK(wf, job, m), NEW s \in Steps, m.steps[s].attempts # 0,
         m.steps[s].job = m.steps[s].attempts
  PROVE  DocOK(wf, job, Reverted(m, s))
<1> DEFINE sr == m.steps[s]
           n == IF wf.kind[s] = "approval" THEN 0 ELSE sr.attempts - 1
           b == [sr EXCEPT !.status = "pending", !.job = NoJob, !.attempts = n]
<1>1. StepOK(wf, job, s, sr) /\ sr \in StepRecs /\ sr.attempts # 0 /\ s \in DOMAIN wf.kind
  BY Zenon DEF DocOK, StepOK, Steps
<1>2. sr.attempts \in 1..MaxAttempts /\ n \in 0..(sr.attempts - 1) /\ n \in 0..MaxAttempts
  BY <1>1, RunAssumption DEF StepRecs
<1>3. b \in StepRecs /\ b.status = "pending" /\ b.job = NoJob /\ b.attempts = n
  <2>1. "pending" \in StepStatuses
    BY Zenon DEF StepStatuses
  <2>2. NoJob \in 0..MaxAttempts
    BY RunAssumption DEF NoJob
  <2> HIDE DEF n, sr
  <2>3. sr \in StepRecs /\ n \in 0..MaxAttempts
    BY Zenon, <1>1, <1>2
  <2> QED BY Zenon, <2>1, <2>2, <2>3 DEF StepRecs
<1>4. Reverted(m, s) = [m EXCEPT !.steps[s] = b]
  BY Zenon, DocForm DEF Reverted
<1> HIDE DEF sr, b, n
<1>5. StepOK(wf, job, s, b)
  <2>1. \A k \in 1..n : job[<<s, k>>] \in Settled
    BY <1>1, <1>2, RunAssumption DEF StepOK
  <2>2. n # 0 => job[<<s, n>>] \in Settled
    BY <1>2, <2>1, RunAssumption
  <2>3. \A k \in 1..(n - 1) : job[<<s, k>>] \in Settled
    BY <1>2, <2>1, RunAssumption
  <2> QED BY Zenon, <1>3, <2>2, <2>3 DEF StepOK
<1>6. DocOK(wf, job, [m EXCEPT !.steps[s] = b])
  BY Zenon, <1>1, <1>5, DocStep DEF RunStatuses
<1> QED BY Zenon, <1>4, <1>6

\* reconcileStuckWaitingSteps fails or resets approvals only.
LEMMA DocRecover ==
  ASSUME NEW m, DocOK(wf, job, m)
  PROVE  DocOK(wf, job, Recovered(m))
<1> DEFINE bad(t) == [m.steps[t] EXCEPT !.status = "failed"]
           new(t) == [m.steps[t] EXCEPT !.status = "pending", !.job = NoJob, !.attempts = 0,
                                        !.recoveries = m.steps[t].recoveries + 1]
           to(t) == IF /\ m.steps[t].status = "waiting" /\ m.steps[t].job # NoJob
                       /\ job[<<t, m.steps[t].job>>] = "none"
                    THEN IF m.steps[t].recoveries >= MaxRecoveries THEN bad(t) ELSE new(t)
                    ELSE m.steps[t]
           f == [t \in DOMAIN wf.kind |-> to(t)]
<1>1. ASSUME NEW t \in DOMAIN wf.kind PROVE StepOK(wf, job, t, to(t))
  <2> DEFINE sr == m.steps[t]
  <2>1. StepOK(wf, job, t, sr) /\ sr \in StepRecs
    BY Zenon DEF DocOK, StepOK
  <2>2. NoJob \in 0..MaxAttempts /\ 0 \in 0..MaxAttempts /\ NoJob = 0
    BY RunAssumption DEF NoJob
  <2>3. bad(t) \in StepRecs /\ bad(t).job = sr.job /\ bad(t).attempts = sr.attempts /\ bad(t).status = "failed"
    BY Zenon, <2>1 DEF StepRecs, StepStatuses, Terminal
  <2>4. new(t) \in StepRecs /\ new(t).job = NoJob /\ new(t).attempts = 0 /\ new(t).status = "pending"
    <3>1. sr.recoveries + 1 \in Nat
      BY <2>1 DEF StepRecs
    <3> QED BY Zenon, <2>1, <2>2, <3>1 DEF StepRecs, StepStatuses
  <2>5. StepOK(wf, job, t, new(t))
    <3> HIDE DEF new
    <3> QED BY <2>2, <2>4 DEF StepOK
  <2>6. sr.status = "waiting" => StepOK(wf, job, t, bad(t))
    <3>1. ASSUME sr.status = "waiting" PROVE StepOK(wf, job, t, bad(t))
      <4> HIDE DEF bad, sr
      <4>1. wf.kind[t] = "approval" /\ "failed" \notin Unsent
        BY Zenon, <2>1, <3>1 DEF StepOK, Unsent
      <4>2. Taken(wf, job, t, bad(t))
        BY Zenon, <2>3, <4>1 DEF Taken
      <4>3. bad(t).attempts # 0 =>
              \/ job[<<t, bad(t).attempts>>] \in Settled
              \/ bad(t).job = bad(t).attempts /\ bad(t).status \notin Unsent
        BY Zenon, <2>1, <2>3, <4>1 DEF StepOK
      <4>4. \A k \in 1..(bad(t).attempts - 1) : job[<<t, k>>] \in Settled
        BY Zenon, <2>1, <2>3 DEF StepOK
      <4> QED BY Zenon, <2>3, <4>2, <4>3, <4>4 DEF StepOK
    <3> QED BY Zenon, <3>1
  <2> HIDE DEF bad, new
  <2> QED BY Zenon, <2>1, <2>5, <2>6
<1>2. Recovered(m) = [status |-> m.status, steps |-> f]
  <2>1. DOMAIN m.steps = DOMAIN wf.kind
    BY Zenon, DocForm
  <2>2. Recovered(m) = [m EXCEPT !.steps = f]
    BY Zenon, <2>1 DEF Recovered
  <2> HIDE DEF f
  <2> QED BY Zenon, <2>2, DocForm
<1>3. \A t \in DOMAIN wf.kind : StepOK(wf, job, t, f[t])
  BY Zenon, <1>1
<1>4. f = [t \in DOMAIN wf.kind |-> f[t]]
  BY Zenon
<1> HIDE DEF f
<1> QED BY <1>2, <1>3, <1>4, DocForm, DocSteps

\* A step that takes the result of its job, or of the one it adopts, stands at
\* the later of that job and the last attempt it knew.
LEMMA StepResult ==
  ASSUME NEW w, NEW jb, NEW s, NEW sr, StepOK(w, jb, s, sr), NEW n \in 1..MaxAttempts,
         sr.job \in {NoJob, n}, \A k \in 1..n : jb[<<s, k>>] \in Settled,
         NEW x \in StepRecs, x.job = n,
         x.attempts = IF n > sr.attempts THEN n ELSE sr.attempts,
         x.status # "waiting",
         x.status = "succeeded" => jb[<<s, n>>] \in Done,
         x.status = "denied" => jb[<<s, n>>] \in Refused
  PROVE  StepOK(w, jb, s, x)
<1>1. n \in Nat \ {0} /\ sr.attempts \in Nat /\ sr.job \in Nat /\ n \in 1..n
  BY RunAssumption DEF StepOK, StepRecs
<1>2. jb[<<s, n>>] \in Settled
  BY Zenon, <1>1
<1>3. \A k \in 1..x.attempts : jb[<<s, k>>] \in Settled
  <2>1. CASE n > sr.attempts
    BY Zenon, <2>1
  <2>2. CASE ~(n > sr.attempts)
    <3>1. sr.attempts # 0 /\ x.attempts = sr.attempts
      BY <1>1, <2>2
    <3>2. jb[<<s, sr.attempts>>] \in Settled
      BY Zenon, <1>1, <1>2, <3>1 DEF StepOK, NoJob
    <3>3. \A k \in 1..sr.attempts : k \in 1..(sr.attempts - 1) \/ k = sr.attempts
      BY <1>1
    <3> QED BY Zenon, <3>1, <3>2, <3>3 DEF StepOK
  <2> QED BY Zenon, <2>1, <2>2
<1>4. x.attempts \in Nat
  BY Zenon, <1>1
<1>5. \A k \in 1..(x.attempts - 1) : jb[<<s, k>>] \in Settled
  BY <1>3, <1>4
<1>6. x.attempts # 0 => jb[<<s, x.attempts>>] \in Settled
  BY <1>3, <1>4
<1>7. Taken(w, jb, s, x)
  BY Zenon, <1>2 DEF Taken
<1> QED BY Zenon, <1>5, <1>6, <1>7 DEF StepOK

\* A document that takes the result of a job it does not ignore.
LEMMA DocResults ==
  ASSUME NEW m, DocOK(wf, job, m), NEW j \in Jobs, ~Ignored(m, j),
         NEW status \in Statuses, Tells(status, job[j]),
         \A k \in 1..(j[2] - 1) : job[<<j[1], k>>] \in Settled,
         NEW d \in Results(m, j, status)
  PROVE  DocOK(wf, job, d)
<1> DEFINE s == j[1]  n == j[2]
           old == m.steps[s]
           sr == [old EXCEPT !.job = IF old.job = NoJob THEN n ELSE old.job,
                             !.attempts = IF n > old.attempts THEN n ELSE old.attempts]
           ended == applyResult(wf, s, sr, status)
           refused == [ended EXCEPT !.status = "failed"]
<1>1. s \in DOMAIN wf.kind /\ n \in 1..MaxAttempts /\ j = <<s, n>>
  BY DEF Jobs, Steps
<1>2. StepOK(wf, job, s, old) /\ old \in StepRecs /\ old.job \in {NoJob, n}
  BY Zenon, <1>1 DEF DocOK, StepOK, Ignored
<1>3. job[<<s, n>>] \in Settled
  BY Zenon, <1>1 DEF Tells
<1>4. \A k \in 1..n : job[<<s, k>>] \in Settled
  <2>1. \A k \in 1..n : k \in 1..(n - 1) \/ k = n
    BY <1>1, RunAssumption
  <2> QED BY Zenon, <1>3, <2>1
<1>5. PICK x \in {ended, refused} : \E S :
        d = updateRunStatus(wf, activateOnErrorHandler(wf, [m EXCEPT !.steps[s] = x], S))
  BY Zenon DEF Results
<1>6. status = "SUCCEEDED" => job[<<s, n>>] \in Done
  BY Zenon, <1>1 DEF Tells
<1>7. status = "DENIED" => job[<<s, n>>] \in Refused
  BY Zenon, <1>1 DEF Tells
<1> DEFINE top == IF n > old.attempts THEN n ELSE old.attempts
<1> HIDE DEF old, s, n
<1>8. top \in 0..MaxAttempts /\ n \in 0..MaxAttempts /\ NoJob \in 0..MaxAttempts
  BY <1>1, <1>2, RunAssumption DEF StepRecs, NoJob
<1>9. sr \in StepRecs /\ sr.job = n /\ sr.attempts = top
  <2>1. sr = [old EXCEPT !.job = n, !.attempts = top]
    BY Zenon, <1>2
  <2> HIDE DEF sr, top
  <2> QED BY Zenon, <1>2, <1>8, <2>1 DEF StepRecs
<1> HIDE DEF sr, top
<1>10. /\ ended \in StepRecs /\ ended.job = n /\ ended.attempts = top
       /\ ended.status \in Terminal \cup {"pending"}
       /\ ended.status = "succeeded" => status = "SUCCEEDED"
       /\ ended.status = "denied" => status = "DENIED"
  <2> DEFINE Good(e) == /\ e \in StepRecs /\ e.job = n /\ e.attempts = top
                        /\ e.status \in Terminal \cup {"pending"}
                        /\ e.status = "succeeded" => status = "SUCCEEDED"
                        /\ e.status = "denied" => status = "DENIED"
  <2>1. Terminal \cup {"pending"} \subseteq StepStatuses
    BY Zenon DEF StepStatuses
  <2>2. status = "SUCCEEDED" => Good([sr EXCEPT !.status = "succeeded", !.backoff = FALSE])
    BY Zenon, <1>9, <2>1 DEF StepRecs, Terminal
  <2>3. status = "DENIED" => Good([sr EXCEPT !.status = "denied"])
    BY Zenon, <1>9, <2>1 DEF StepRecs, Terminal
  <2>4. \A u \in {"cancelled", "timed_out", "failed"} : Good([sr EXCEPT !.status = u])
    BY Zenon, <1>9, <2>1 DEF StepRecs, Terminal
  <2>5. Good([sr EXCEPT !.status = "pending", !.backoff = TRUE, !.recoveries = 0])
    BY Zenon, <1>9, <2>1 DEF StepRecs, Terminal
  <2>6. \/ status = "SUCCEEDED" /\ ended = [sr EXCEPT !.status = "succeeded", !.backoff = FALSE]
        \/ status = "DENIED" /\ ended = [sr EXCEPT !.status = "denied"]
        \/ \E u \in {"cancelled", "timed_out", "failed"} : ended = [sr EXCEPT !.status = u]
        \/ ended = [sr EXCEPT !.status = "pending", !.backoff = TRUE, !.recoveries = 0]
    BY DEF applyResult
  <2> HIDE DEF Good, ended
  <2>7. Good(ended)
    BY Zenon, <2>2, <2>3, <2>4, <2>5, <2>6
  <2> QED BY Zenon, <2>7 DEF Good
<1> HIDE DEF ended
<1>11. /\ refused \in StepRecs /\ refused.job = n /\ refused.attempts = top
       /\ refused.status = "failed"
  BY Zenon, <1>10 DEF StepRecs, StepStatuses, Terminal
<1> HIDE DEF refused
<1>12. /\ x \in StepRecs /\ x.job = n /\ x.attempts = top /\ x.status # "waiting"
       /\ x.status = "succeeded" => job[<<s, n>>] \in Done
       /\ x.status = "denied" => job[<<s, n>>] \in Refused
  BY Zenon, <1>5, <1>6, <1>7, <1>10, <1>11 DEF Terminal
<1>13. StepOK(wf, job, s, x)
  BY Zenon, <1>1, <1>2, <1>4, <1>12, StepResult DEF top
<1>14. DocOK(wf, job, [m EXCEPT !.steps[s] = x])
  BY Zenon, <1>1, <1>13, DocStep DEF RunStatuses
<1> DEFINE m2 == [m EXCEPT !.steps[s] = x]
<1>15. DocOK(wf, job, m2) /\ \E S : d = updateRunStatus(wf, activateOnErrorHandler(wf, m2, S))
  BY Zenon, <1>5, <1>14
<1> HIDE DEF m2
<1> QED BY Zenon, <1>15, DocActivate, DocUpdate

\* The document after a switch cancelled the branches it does not take.
NotTaken(m, others) ==
  [m EXCEPT !.steps = [b \in DOMAIN m.steps |->
     IF b \in others /\ m.steps[b].status \notin Terminal
     THEN [m.steps[b] EXCEPT !.status = "cancelled", !.notTaken = TRUE]
     ELSE m.steps[b]]]

\* A switch cancels steps that are not over.
LEMMA DocCancelBranches ==
  ASSUME NEW w, NEW jb, NEW m, DocOK(w, jb, m), NEW others
  PROVE  DocOK(w, jb, NotTaken(m, others))
<1> DEFINE to(t) == IF t \in others /\ m.steps[t].status \notin Terminal
                    THEN [m.steps[t] EXCEPT !.status = "cancelled", !.notTaken = TRUE]
                    ELSE m.steps[t]
           f == [t \in DOMAIN m.steps |-> to(t)]
<1>1. ASSUME NEW t \in DOMAIN w.kind PROVE StepOK(w, jb, t, to(t))
  <2>1. StepOK(w, jb, t, m.steps[t]) /\ m.steps[t] \in StepRecs
    BY Zenon DEF DocOK, StepOK
  <2> DEFINE y == [m.steps[t] EXCEPT !.status = "cancelled", !.notTaken = TRUE]
  <2>2. y \in StepRecs /\ y.job = m.steps[t].job /\ y.attempts = m.steps[t].attempts /\ y.status = "cancelled"
    BY Zenon, <2>1 DEF StepRecs, StepStatuses, Terminal
  <2>3. StepOK(w, jb, t, y)
    <3> HIDE DEF y
    <3> QED BY Zenon, <2>1, <2>2, StepFollows DEF Follows
  <2> QED BY Zenon, <2>1, <2>3
<1>2. DOMAIN m.steps = DOMAIN w.kind
  BY Zenon, DocForm
<1>3. \A t \in DOMAIN w.kind : StepOK(w, jb, t, f[t])
  BY Zenon, <1>1, <1>2
<1>4. f = [t \in DOMAIN w.kind |-> f[t]]
  BY Zenon, <1>2
<1>5. DocOK(w, jb, [m EXCEPT !.steps = f])
  <2> HIDE DEF f
  <2> QED BY <1>3, <1>4, DocForm, DocSteps
<1> QED BY Zenon, <1>5 DEF NotTaken

-----------------------------------------------------------------------------
\* A result on the bus is the stored outcome of its job, and a job that was
\* submitted follows attempts that are over.
WorldOK(w, jb, sub, res, ch) ==
  LET js == (DOMAIN w.kind) \X (1..MaxAttempts) IN
  /\ jb \in [js -> JobStates] /\ sub \subseteq js /\ ch \in [js -> Children]
  /\ \A r \in res : /\ r.job \in js /\ r.status \in Statuses
                    /\ Tells(r.status, jb[r.job])
  /\ \A j \in js : j \in sub \/ jb[j] # "none" =>
       \A k \in 1..(j[2] - 1) : jb[<<j[1], k>>] \in Settled

\* A handler's copy of the document, and the step it has yet to publish.
HandlerOK(w, jb, at, m, d) ==
  /\ at \in {"pass", "publish"} => DocOK(w, jb, m)
  /\ at = "publish" =>
       /\ d \in DOMAIN w.kind
       /\ m.steps[d].attempts # 0 /\ m.steps[d].job = m.steps[d].attempts

JobInv ==
  /\ WorldOK(wf, job, submits, results, child)
  /\ DocOK(wf, job, run)
  /\ pc \in [Replicas -> Places] /\ DOMAIN mem = Replicas /\ DOMAIN dispatch = Replicas
  /\ \A p \in Replicas : HandlerOK(wf, job, pc[p], mem[p], dispatch[p])

\* The other handlers are where they were.
OthersStay(p) ==
  /\ pc' \in [Replicas -> Places] /\ DOMAIN mem' = Replicas /\ DOMAIN dispatch' = Replicas
  /\ \A q \in Replicas : q # p => pc'[q] = pc[q] /\ mem'[q] = mem[q] /\ dispatch'[q] = dispatch[q]

\* What a step of handler p has to show.
LEMMA HandlerStep ==
  ASSUME JobInv, NEW p \in Replicas, OthersStay(p), wf' = wf, job' = job,
         WorldOK(wf, job, submits', results', child'), DocOK(wf, job, run'),
         HandlerOK(wf, job, pc'[p], mem'[p], dispatch'[p])
  PROVE  JobInv'
<1>1. ASSUME NEW q \in Replicas PROVE HandlerOK(wf', job', pc'[q], mem'[q], dispatch'[q])
  <2>1. CASE q = p
    BY Zenon, <2>1
  <2>2. CASE q # p
    BY Zenon, <2>2 DEF JobInv, OthersStay
  <2> QED BY Zenon, <2>1, <2>2
<1>2. pc' \in [Replicas -> Places] /\ DOMAIN mem' = Replicas /\ DOMAIN dispatch' = Replicas
  BY Zenon DEF OthersStay
<1>3. WorldOK(wf', job', submits', results', child') /\ DocOK(wf', job', run')
  BY Zenon
<1> QED BY Zenon, <1>1, <1>2, <1>3 DEF JobInv

\* A handler that moves to another place, with another copy and another step.
LEMMA MovesOne ==
  ASSUME JobInv, NEW p \in Replicas, NEW at \in Places, NEW m, NEW d,
         pc' = Set(pc, p, at) \/ (pc' = pc /\ at = pc[p]),
         mem' = Set(mem, p, m) \/ (mem' = mem /\ m = mem[p]),
         dispatch' = Set(dispatch, p, d) \/ (dispatch' = dispatch /\ d = dispatch[p])
  PROVE  OthersStay(p) /\ pc'[p] = at /\ mem'[p] = m /\ dispatch'[p] = d
<1>1. pc \in [Replicas -> Places] /\ DOMAIN mem = Replicas /\ DOMAIN dispatch = Replicas
  BY Zenon DEF JobInv
<1>2. pc' \in [Replicas -> Places] /\ pc'[p] = at /\ \A q \in Replicas : q # p => pc'[q] = pc[q]
  BY Zenon, <1>1 DEF Set
<1>3. DOMAIN mem' = Replicas /\ mem'[p] = m /\ \A q \in Replicas : q # p => mem'[q] = mem[q]
  BY Zenon, <1>1 DEF Set
<1>4. DOMAIN dispatch' = Replicas /\ dispatch'[p] = d
      /\ \A q \in Replicas : q # p => dispatch'[q] = dispatch[q]
  BY Zenon, <1>1 DEF Set
<1> QED BY Zenon, <1>2, <1>3, <1>4 DEF OthersStay

\* The ways in which a handler leaves the run or starts to schedule it.
LEMMA Leaves ==
  ASSUME JobInv, NEW p \in Replicas
  PROVE  /\ Return(p) => OthersStay(p) /\ HandlerOK(wf, job, pc'[p], mem'[p], dispatch'[p])
         /\ \A m : DocOK(wf, job, m) /\ scheduleReady(p, m)
              => OthersStay(p) /\ HandlerOK(wf, job, pc'[p], mem'[p], dispatch'[p])
         /\ \A m, status : status \in {"cancelled", "timed_out"} /\ DocOK(wf, job, m) /\ StopRun(p, m, status)
              => /\ OthersStay(p) /\ HandlerOK(wf, job, pc'[p], mem'[p], dispatch'[p])
                 /\ DocOK(wf, job, run')
<1>1. ASSUME Return(p) PROVE OthersStay(p) /\ HandlerOK(wf, job, pc'[p], mem'[p], dispatch'[p])
  <2> DEFINE at == IF resume[p] THEN "replay" ELSE "idle"
  <2>1. at \in {"replay", "idle"} /\ at \in Places
    BY Zenon DEF Places
  <2>2. pc' = Set(pc, p, at) /\ mem' = Set(mem, p, NoRun) /\ dispatch' = Set(dispatch, p, NoStep)
    BY Zenon, <1>1 DEF Return
  <2> HIDE DEF at
  <2>3. OthersStay(p) /\ pc'[p] = at
    BY Zenon, <2>1, <2>2, MovesOne
  <2> QED BY Zenon, <2>1, <2>3 DEF HandlerOK
<1>2. ASSUME NEW m, DocOK(wf, job, m), scheduleReady(p, m)
      PROVE  OthersStay(p) /\ HandlerOK(wf, job, pc'[p], mem'[p], dispatch'[p])
  <2> DEFINE m2 == IF m.status = "pending" THEN [m EXCEPT !.status = "running"] ELSE m
  <2>1. DocOK(wf, job, m2)
    BY Zenon, <1>2 DEF DocOK, Docs, RunStatuses
  <2>2. pc' = Set(pc, p, "pass") /\ mem' = Set(mem, p, m2) /\ dispatch' = dispatch
    BY Zenon, <1>2 DEF scheduleReady
  <2> HIDE DEF m2
  <2>3. OthersStay(p) /\ pc'[p] = "pass" /\ mem'[p] = m2
    BY Zenon, <2>2, MovesOne DEF Places
  <2> QED BY Zenon, <2>1, <2>3 DEF HandlerOK
<1>3. ASSUME NEW m, NEW status \in {"cancelled", "timed_out"}, DocOK(wf, job, m), StopRun(p, m, status)
      PROVE  /\ OthersStay(p) /\ HandlerOK(wf, job, pc'[p], mem'[p], dispatch'[p])
             /\ DocOK(wf, job, run')
  <2>1. DocOK(wf, job, run')
    BY Zenon, <1>3, DocStop DEF StopRun
  <2>2. pc' = Set(pc, p, "stop") /\ mem' = mem /\ dispatch' = dispatch
    BY Zenon, <1>3 DEF StopRun
  <2>3. OthersStay(p) /\ pc'[p] = "stop"
    BY Zenon, <2>2, MovesOne DEF Places
  <2> QED BY Zenon, <2>1, <2>3 DEF HandlerOK
<1> QED BY Zenon, <1>1, <1>2, <1>3

\* The job store and the bus.
LEMMA WorldFacts ==
  ASSUME JobInv
  PROVE  /\ job \in [Jobs -> JobStates] /\ submits \subseteq Jobs /\ child \in [Jobs -> Children]
         /\ \A r \in results : /\ r.job \in Jobs /\ r.status \in Statuses
                               /\ Tells(r.status, job[r.job])
         /\ \A j \in Jobs : j \in submits \/ job[j] # "none" =>
              \A k \in 1..(j[2] - 1) : job[<<j[1], k>>] \in Settled
<1>1. WorldOK(wf, job, submits, results, child)
  BY Zenon DEF JobInv
<1> USE DEF Jobs, Steps, WorldOK
<1>2. job \in [Jobs -> JobStates] /\ submits \subseteq Jobs /\ child \in [Jobs -> Children]
  BY Zenon, <1>1
<1>3. \A r \in results : /\ r.job \in Jobs /\ r.status \in Statuses
                         /\ Tells(r.status, job[r.job])
  BY Zenon, <1>1
<1>4. \A j \in Jobs : j \in submits \/ job[j] # "none" =>
        \A k \in 1..(j[2] - 1) : job[<<j[1], k>>] \in Settled
  BY <1>1, Zenon
<1> QED BY Zenon, <1>2, <1>3, <1>4

\* A handler that takes a result keeps the invariant.
LEMMA JobResultKeeps ==
  ASSUME JobInv, NEW p \in Replicas, NEW j \in Jobs, NEW status \in Statuses,
         Tells(status, job[j]), handleJobResultLocked(p, j, status), wf' = wf, UNCHANGED world
  PROVE  JobInv'
<1>1. job[j] \in Settled /\ job[j] # "none"
  BY Zenon DEF Tells, Settled, Ended
<1>2. \A k \in 1..(j[2] - 1) : job[<<j[1], k>>] \in Settled
  BY Zenon, <1>1, WorldFacts
<1>3. DocOK(wf, job, run) /\ ~Ignored(run, j)
  BY Zenon DEF JobInv, handleJobResultLocked
<1>4. WorldOK(wf, job, submits', results', child') /\ job' = job
  BY Zenon DEF JobInv, world
<1>5. CASE TimedOut(run)
  <2>1. StopRun(p, run, "timed_out")
    BY Zenon, <1>5 DEF handleJobResultLocked
  <2> QED BY Zenon, <1>3, <1>4, <2>1, Leaves, HandlerStep
<1>6. CASE ~TimedOut(run)
  <2>1. PICK d \in Results(run, j, status) : run' = d /\ (scheduleReady(p, d) \/ Return(p))
    BY Zenon, <1>6 DEF handleJobResultLocked
  <2>2. DocOK(wf, job, d)
    BY Zenon, <1>2, <1>3, DocResults
  <2>3. OthersStay(p) /\ HandlerOK(wf, job, pc'[p], mem'[p], dispatch'[p])
    BY Zenon, <2>1, <2>2, Leaves
  <2> QED BY Zenon, <1>4, <2>1, <2>2, <2>3, HandlerStep
<1> QED BY Zenon, <1>5, <1>6

\* The handlers that take, start, cancel and reconcile the run.
LEMMA JobEntryKeeps ==
  ASSUME JobInv, NEW p \in Replicas
  PROVE  /\ \A r \in results : HandleJobResult(p, r) => JobInv'
         /\ StartRun(p) \/ CancelRun(p) \/ reconcileRun(p) \/ FinishReconcile(p) => JobInv'
         /\ \A j \in Jobs : ReplayJob(p, j) => JobInv'
<1>0. DocOK(wf, job, run) /\ WorldOK(wf, job, submits, results, child)
  BY Zenon DEF JobInv
<1>1. ASSUME NEW r \in results, HandleJobResult(p, r) PROVE JobInv'
  <2>1. /\ r.job \in Jobs /\ r.status \in Statuses
        /\ Tells(r.status, job[r.job])
    BY Zenon, WorldFacts
  <2> QED BY Zenon, <1>1, <2>1, JobResultKeeps DEF HandleJobResult
<1>2. ASSUME StartRun(p) PROVE JobInv'
  <2>1. wf' = wf /\ job' = job /\ WorldOK(wf, job, submits', results', child')
    BY Zenon, <1>0, <1>2 DEF StartRun, world
  <2>2. StopRun(p, run, "timed_out") \/ (scheduleReady(p, run) /\ run' = run)
    BY Zenon, <1>2 DEF StartRun
  <2>3. DocOK(wf, job, run') /\ OthersStay(p) /\ HandlerOK(wf, job, pc'[p], mem'[p], dispatch'[p])
    BY Zenon, <1>0, <2>2, Leaves
  <2> QED BY Zenon, <2>1, <2>3, HandlerStep
<1>3. ASSUME CancelRun(p) PROVE JobInv'
  <2>1. wf' = wf /\ job' = job /\ WorldOK(wf, job, submits', results', child')
    BY Zenon, <1>0, <1>3 DEF CancelRun, world
  <2>2. StopRun(p, run, "cancelled")
    BY Zenon, <1>3 DEF CancelRun
  <2>3. DocOK(wf, job, run') /\ OthersStay(p) /\ HandlerOK(wf, job, pc'[p], mem'[p], dispatch'[p])
    BY Zenon, <1>0, <2>2, Leaves
  <2> QED BY Zenon, <2>1, <2>3, HandlerStep
<1>4. ASSUME reconcileRun(p) PROVE JobInv'
  <2>1. wf' = wf /\ job' = job /\ run' = run /\ WorldOK(wf, job, submits', results', child')
    BY Zenon, <1>0, <1>4 DEF reconcileRun, world
  <2>2. pc' = Set(pc, p, "replay") /\ mem' = mem /\ dispatch' = dispatch
    BY Zenon, <1>4 DEF reconcileRun
  <2>3. OthersStay(p) /\ pc'[p] = "replay"
    BY Zenon, <2>2, MovesOne DEF Places
  <2>4. HandlerOK(wf, job, pc'[p], mem'[p], dispatch'[p])
    BY Zenon, <2>3 DEF HandlerOK
  <2> QED BY Zenon, <1>0, <2>1, <2>3, <2>4, HandlerStep
<1>5. ASSUME FinishReconcile(p) PROVE JobInv'
  <2>1. wf' = wf /\ job' = job /\ WorldOK(wf, job, submits', results', child')
    BY Zenon, <1>0, <1>5 DEF FinishReconcile, world
  <2>2. CASE run.status \in Terminal
    <3>1. pc' = Set(pc, p, "idle") /\ mem' = mem /\ dispatch' = dispatch /\ run' = run
      BY Zenon, <1>5, <2>2 DEF FinishReconcile
    <3>2. OthersStay(p) /\ pc'[p] = "idle"
      BY Zenon, <3>1, MovesOne DEF Places
    <3>3. HandlerOK(wf, job, pc'[p], mem'[p], dispatch'[p])
      BY Zenon, <3>2 DEF HandlerOK
    <3> QED BY Zenon, <1>0, <2>1, <3>1, <3>2, <3>3, HandlerStep
  <2>3. CASE run.status \notin Terminal
    <3> DEFINE m == Recovered(run)
    <3>1. DocOK(wf, job, m)
      BY Zenon, <1>0, DocRecover
    <3>2. StopRun(p, m, "timed_out") \/ (scheduleReady(p, m) /\ run' = m)
      BY Zenon, <1>5, <2>3 DEF FinishReconcile
    <3> HIDE DEF m
    <3>3. DocOK(wf, job, run') /\ OthersStay(p) /\ HandlerOK(wf, job, pc'[p], mem'[p], dispatch'[p])
      BY Zenon, <3>1, <3>2, Leaves
    <3> QED BY Zenon, <2>1, <3>3, HandlerStep
  <2> QED BY Zenon, <2>2, <2>3
<1>6. ASSUME NEW j \in Jobs, ReplayJob(p, j) PROVE JobInv'
  <2>1. wf' = wf /\ UNCHANGED world
    BY Zenon, <1>6 DEF ReplayJob
  <2>2. CASE job[j] \in Ended /\ ~Ignored(run, j)
    <3>1. Tells(job[j], job[j])
      BY Zenon, <2>2 DEF Tells, Settled, Done, Refused
    <3>2. handleJobResultLocked(p, j, job[j])
      BY Zenon, <1>6, <2>2 DEF ReplayJob
    <3>3. job[j] \in Statuses
      BY Zenon, <2>2 DEF Statuses
    <3> QED BY Zenon, <2>1, <3>1, <3>2, <3>3, JobResultKeeps
  <2>3. CASE ~(job[j] \in Ended /\ ~Ignored(run, j))
    <3>1. UNCHANGED <<run, pc, mem, dispatch>>
      BY Zenon, <1>6, <2>3 DEF ReplayJob
    <3> QED BY Zenon, <2>1, <3>1 DEF JobInv, world
  <2> QED BY Zenon, <2>2, <2>3
<1> QED BY Zenon, <1>1, <1>2, <1>3, <1>4, <1>5, <1>6

\* A step that the pass of a handler leaves with m as its copy.
LEMMA JobVisitKeeps ==
  ASSUME JobInv, NEW p \in Replicas, NEW s, Visiting(p, s),
         wf' = wf, run' = run, pc' = pc, dispatch' = dispatch,
         submits' = submits, job' = job, results' = results,
         WorldOK(wf, job, submits, results, child'),
         NEW m, DocOK(wf, job, m), Visited(p, s, m)
  PROVE  JobInv'
<1>1. pc[p] = "pass" /\ mem' = Set(mem, p, m)
  BY Zenon DEF Visiting, Visited
<1>2. OthersStay(p) /\ pc'[p] = "pass" /\ mem'[p] = m
  BY Zenon, <1>1, MovesOne DEF Places
<1>3. HandlerOK(wf, job, pc'[p], mem'[p], dispatch'[p])
  BY Zenon, <1>2 DEF HandlerOK
<1>4. DocOK(wf, job, run')
  BY Zenon DEF JobInv
<1> QED BY Zenon, <1>2, <1>3, <1>4, HandlerStep

\* The copy of a handler in its pass.
LEMMA Copy ==
  ASSUME JobInv, NEW p \in Replicas, pc[p] \in {"pass", "publish"}
  PROVE  DocOK(wf, job, mem[p]) /\ WorldOK(wf, job, submits, results, child)
  BY Zenon DEF JobInv, HandlerOK

\* The steps that end or wait on the spot.
LEMMA JobSpotKeeps ==
  ASSUME JobInv, NEW p \in Replicas, NEW s \in Steps
  PROVE  PassOver(p, s) \/ InlineStep(p, s) \/ ConditionGate(p, s) \/ DelayStep(p, s) => JobInv'
<1> SUFFICES ASSUME Visiting(p, s), PassOver(p, s) \/ InlineStep(p, s) \/ ConditionGate(p, s) \/ DelayStep(p, s)
             PROVE  JobInv'
  BY Zenon DEF PassOver, InlineStep, ConditionGate, DelayStep
<1> DEFINE m == mem[p]
<1>1. DocOK(wf, job, m) /\ WorldOK(wf, job, submits, results, child) /\ s \in DOMAIN wf.kind
  BY Zenon, Copy DEF Visiting, Steps
<1>2. /\ wf' = wf /\ run' = run /\ pc' = pc /\ dispatch' = dispatch
      /\ submits' = submits /\ job' = job /\ results' = results /\ child' = child
  BY Zenon DEF PassOver, InlineStep, ConditionGate, DelayStep, world
<1>3. \/ Visited(p, s, m)
      \/ wf.gated[s] \/ wf.kind[s] \in {"inline", "delay"}
  BY Zenon DEF PassOver, InlineStep, ConditionGate, DelayStep
<1>4. \/ Visited(p, s, m)
      \/ \E status \in {"succeeded", "failed"} : Visited(p, s, SetStatus(m, s, status))
      \/ Visited(p, s, [m EXCEPT !.steps[s] = [m.steps[s] EXCEPT !.status = "running", !.backoff = TRUE]])
      \/ Visited(p, s, [m EXCEPT !.steps[s] = [m.steps[s] EXCEPT !.status = "succeeded", !.backoff = FALSE]])
  BY Zenon DEF PassOver, InlineStep, ConditionGate, DelayStep
<1> HIDE DEF m
<1>5. ASSUME ~Judged(wf, s), NEW status \in {"running", "succeeded", "failed"}, NEW b \in BOOLEAN
      PROVE  /\ DocOK(wf, job, SetStatus(m, s, status))
             /\ DocOK(wf, job, [m EXCEPT !.steps[s] = [m.steps[s] EXCEPT !.status = status, !.backoff = b]])
  <2>1. StepOK(wf, job, s, m.steps[s]) /\ m.steps[s] \in StepRecs
    BY Zenon, <1>1 DEF DocOK, StepOK
  <2>2. status \in StepStatuses \cup {"none"} /\ Follows(wf, s, StatusOf(m, s), status)
    BY Zenon, <1>5 DEF StepStatuses, Terminal, Follows
  <2>3. DocOK(wf, job, SetStatus(m, s, status))
    BY Zenon, <1>1, <2>2, DocSetStatus
  <2> DEFINE y == [m.steps[s] EXCEPT !.status = status, !.backoff = b]
  <2>4. y \in StepRecs /\ y.job = m.steps[s].job /\ y.attempts = m.steps[s].attempts /\ y.status = status
    BY Zenon, <2>1, <2>2 DEF StepRecs
  <2> HIDE DEF y
  <2>5. StepOK(wf, job, s, y)
    BY Zenon, <2>1, <2>2, <2>4, StepFollows DEF StatusOf
  <2>6. DocOK(wf, job, [m EXCEPT !.steps[s] = y])
    BY Zenon, <1>1, <2>5, DocStep DEF RunStatuses
  <2> QED BY Zenon, <2>3, <2>6 DEF y
<1>6. \/ Visited(p, s, m)
      \/ ~Judged(wf, s)
  BY Zenon, <1>3 DEF Judged
<1>7. PICK d : DocOK(wf, job, d) /\ Visited(p, s, d)
  <2>1. CASE Visited(p, s, m)
    BY Zenon, <1>1, <2>1
  <2>2. CASE \E status \in {"succeeded", "failed"} : Visited(p, s, SetStatus(m, s, status))
    BY Zenon, <1>1, <1>5, <1>6, <2>2
  <2>3. CASE Visited(p, s, [m EXCEPT !.steps[s] = [m.steps[s] EXCEPT !.status = "running", !.backoff = TRUE]])
    <3>1. ~Judged(wf, s) => DocOK(wf, job, [m EXCEPT !.steps[s] = [m.steps[s] EXCEPT !.status = "running", !.backoff = TRUE]])
      BY Zenon, <1>5
    <3> QED BY Zenon, <1>1, <1>6, <2>3, <3>1
  <2>4. CASE Visited(p, s, [m EXCEPT !.steps[s] = [m.steps[s] EXCEPT !.status = "succeeded", !.backoff = FALSE]])
    <3>1. ~Judged(wf, s) => DocOK(wf, job, [m EXCEPT !.steps[s] = [m.steps[s] EXCEPT !.status = "succeeded", !.backoff = FALSE]])
      BY Zenon, <1>5
    <3> QED BY Zenon, <1>1, <1>6, <2>4, <3>1
  <2> QED BY Zenon, <1>4, <2>1, <2>2, <2>3, <2>4
<1> QED BY Zenon, <1>1, <1>2, <1>7, JobVisitKeeps

\* A dispatch writes the document before the message is published.
LEMMA JobDispatchKeeps ==
  ASSUME JobInv, NEW p \in Replicas, NEW s \in Steps, DispatchStep(p, s)
  PROVE  JobInv'
<1> DEFINE m == mem[p]  d == Dispatched(m, s)
<1>1. pc[p] = "pass" /\ Visiting(p, s)
  BY Zenon DEF DispatchStep, Visiting
<1>2. DocOK(wf, job, m) /\ WorldOK(wf, job, submits, results, child) /\ s \in DOMAIN wf.kind
  BY Zenon, <1>1, Copy DEF Steps
<1>3. /\ StatusOf(m, s) \in Unsent /\ wf.kind[s] \in {"worker", "approval"}
      /\ m.steps[s].attempts < MaxAttempts
  BY Zenon DEF DispatchStep, Fresh, Unsent
<1>4. /\ DocOK(wf, job, d)
      /\ d.steps[s].attempts # 0 /\ d.steps[s].job = d.steps[s].attempts
  <2> HIDE DEF m
  <2> QED BY Zenon, <1>2, <1>3, DocDispatch
<1>5. wf' = wf /\ submits' = submits /\ job' = job /\ results' = results /\ child' = child
  BY Zenon DEF DispatchStep, world
<1>6. \/ run' = d /\ mem' = Set(mem, p, d) /\ pc' = Set(pc, p, "publish") /\ dispatch' = Set(dispatch, p, s)
      \/ /\ Visited(p, s, Reverted(d, s)) \/ Visited(p, s, SetStatus(m, s, "failed"))
         /\ UNCHANGED <<run, pc, dispatch>>
  BY Zenon DEF DispatchStep, Visited
<1> HIDE DEF m, d
<1>7. CASE run' = d /\ mem' = Set(mem, p, d) /\ pc' = Set(pc, p, "publish") /\ dispatch' = Set(dispatch, p, s)
  <2>1. OthersStay(p) /\ pc'[p] = "publish" /\ mem'[p] = d /\ dispatch'[p] = s
    BY Zenon, <1>7, MovesOne DEF Places
  <2>2. HandlerOK(wf, job, pc'[p], mem'[p], dispatch'[p])
    BY Zenon, <1>2, <1>4, <2>1 DEF HandlerOK
  <2> QED BY Zenon, <1>2, <1>4, <1>5, <1>7, <2>1, <2>2, HandlerStep
<1>8. ASSUME Visited(p, s, Reverted(d, s)), UNCHANGED <<run, pc, dispatch>> PROVE JobInv'
  <2>1. DocOK(wf, job, Reverted(d, s))
    BY Zenon, <1>4, DocRevert
  <2> QED BY Zenon, <1>1, <1>2, <1>5, <1>8, <2>1, JobVisitKeeps
<1>9. ASSUME Visited(p, s, SetStatus(m, s, "failed")), UNCHANGED <<run, pc, dispatch>> PROVE JobInv'
  <2>1. Follows(wf, s, StatusOf(m, s), "failed") /\ "failed" \in StepStatuses \cup {"none"}
    BY Zenon, <1>3 DEF Follows, StepStatuses, Terminal
  <2>2. DocOK(wf, job, SetStatus(m, s, "failed"))
    BY Zenon, <1>2, <2>1, DocSetStatus
  <2> QED BY Zenon, <1>1, <1>2, <1>5, <1>9, <2>2, JobVisitKeeps
<1> QED BY Zenon, <1>6, <1>7, <1>8, <1>9

\* A switch cancels branches and makes the one it takes pending.
LEMMA JobSwitchKeeps ==
  ASSUME JobInv, NEW p \in Replicas, NEW s \in Steps, SwitchStep(p, s)
  PROVE  JobInv'
<1> DEFINE m == mem[p]
           without(others) == NotTaken(m, others)
           pending(m2, t) == IF StatusOf(m2, t) = "" THEN SetStatus(m2, t, "pending") ELSE m2
<1>1. Visiting(p, s) /\ pc[p] = "pass" /\ ~Judged(wf, s)
  BY Zenon DEF SwitchStep, Visiting, Judged
<1>2. DocOK(wf, job, m) /\ WorldOK(wf, job, submits, results, child) /\ s \in DOMAIN wf.kind
  BY Zenon, <1>1, Copy DEF Steps
<1>3. /\ wf' = wf /\ run' = run /\ pc' = pc /\ dispatch' = dispatch
      /\ submits' = submits /\ job' = job /\ results' = results /\ child' = child
  BY Zenon DEF SwitchStep, world
<1>4. \/ \E t \in wf.branches[s] :
           \/ Visited(p, s, pending(SetStatus(without(wf.branches[s] \ {t}), s, "succeeded"), t))
           \/ Visited(p, s, SetStatus(without(wf.branches[s] \ {t}), s, "failed"))
      \/ Visited(p, s, SetStatus(m, s, "failed"))
  BY Zenon DEF SwitchStep, NotTaken
<1>5. \A others : DocOK(wf, job, without(others))
  <2> HIDE DEF m
  <2> QED BY Zenon, <1>2, DocCancelBranches
<1> HIDE DEF m, without
<1>6. ASSUME NEW m2, DocOK(wf, job, m2), NEW x \in {"succeeded", "failed"}
      PROVE  DocOK(wf, job, SetStatus(m2, s, x))
  <2>1. Follows(wf, s, StatusOf(m2, s), x) /\ x \in StepStatuses \cup {"none"}
    BY Zenon, <1>1 DEF Follows, StepStatuses, Terminal
  <2> QED BY Zenon, <1>2, <1>6, <2>1, DocSetStatus
<1>7. ASSUME NEW m2, DocOK(wf, job, m2), NEW t PROVE DocOK(wf, job, pending(m2, t))
  <2>1. CASE StatusOf(m2, t) = "" /\ t \in DOMAIN wf.kind
    <3>1. Follows(wf, t, StatusOf(m2, t), "pending") /\ "pending" \in StepStatuses \cup {"none"}
      BY Zenon, <2>1 DEF Follows, Unsent, StepStatuses
    <3> QED BY Zenon, <1>7, <2>1, <3>1, DocSetStatus
  <2>2. CASE StatusOf(m2, t) = "" /\ t \notin DOMAIN wf.kind
    <3>1. m2.steps \in [DOMAIN wf.kind -> StepRecs] /\ m2 = [status |-> m2.status, steps |-> m2.steps]
      BY Zenon, <1>7, DocForm
    <3>2. [m2.steps EXCEPT ![t].status = "pending"] = m2.steps
      BY Zenon, <2>2, <3>1
    <3>3. SetStatus(m2, t, "pending") = m2
      BY Zenon, <3>1, <3>2 DEF SetStatus
    <3> QED BY Zenon, <1>7, <2>2, <3>3
  <2>3. CASE StatusOf(m2, t) # ""
    BY Zenon, <1>7, <2>3
  <2> QED BY Zenon, <2>1, <2>2, <2>3
<1> HIDE DEF pending
<1>8. PICK d : DocOK(wf, job, d) /\ Visited(p, s, d)
  BY Zenon, <1>2, <1>4, <1>5, <1>6, <1>7
<1> QED BY Zenon, <1>1, <1>2, <1>3, <1>8, JobVisitKeeps

\* A sub-workflow step holds the child run where other steps hold a job.
LEMMA JobSubWorkflowKeeps ==
  ASSUME JobInv, NEW p \in Replicas, NEW s \in Steps, SubWorkflowStep(p, s)
  PROVE  JobInv'
<1> DEFINE m == mem[p]  sr == m.steps[s]
           y(n) == [m.steps[s] EXCEPT !.status = "running", !.job = n]
<1>1. Visiting(p, s) /\ pc[p] = "pass" /\ ~Judged(wf, s)
  BY Zenon DEF SubWorkflowStep, Visiting, Judged
<1>2. DocOK(wf, job, m) /\ WorldOK(wf, job, submits, results, child) /\ s \in DOMAIN wf.kind
  BY Zenon, <1>1, Copy DEF Steps
<1>3. /\ wf' = wf /\ run' = run /\ pc' = pc /\ dispatch' = dispatch
      /\ submits' = submits /\ job' = job /\ results' = results
  BY Zenon DEF SubWorkflowStep
<1>4. child \in [Jobs -> Children]
  BY Zenon, <1>2 DEF WorldOK, Jobs, Steps
<1>5. /\ child' = child \/ \E n \in 1..MaxAttempts : child' = Set(child, <<s, n>>, "running")
      /\ \/ sr.job = NoJob /\ \E n \in 1..MaxAttempts : Visited(p, s, [m EXCEPT !.steps[s] = y(n)])
         \/ Visited(p, s, SetStatus(m, s, "failed"))
         \/ sr.job # NoJob /\ Visited(p, s, SetStatus(m, s, child[<<s, sr.job>>]))
  BY Zenon DEF SubWorkflowStep, CreateChild, FollowChild
<1>6. WorldOK(wf, job, submits, results, child')
  <2>1. child' \in [Jobs -> Children]
    BY Zenon, <1>4, <1>5 DEF Set, Children
  <2> QED BY Zenon, <1>2, <2>1 DEF WorldOK, Jobs, Steps
<1>7. ASSUME NEW x \in Children PROVE DocOK(wf, job, SetStatus(m, s, x))
  <2>1. x \in {"none", "running"} \cup Terminal
    BY Zenon DEF Children
  <2>2. x \in StepStatuses \cup {"none"} /\ Follows(wf, s, StatusOf(m, s), x)
    BY Zenon, <1>1, <2>1 DEF StepStatuses, Follows
  <2> HIDE DEF m
  <2> QED BY Zenon, <1>2, <2>2, DocSetStatus
<1>8. ASSUME sr.job = NoJob, NEW n \in 1..MaxAttempts
      PROVE  DocOK(wf, job, [m EXCEPT !.steps[s] = y(n)])
  <2>1. StepOK(wf, job, s, sr) /\ sr \in StepRecs /\ sr.job = NoJob
    BY Zenon, <1>2, <1>8 DEF DocOK, StepOK
  <2> HIDE DEF m
  <2>2. n \in 0..MaxAttempts
    BY RunAssumption
  <2>3. y(n) \in StepRecs /\ y(n).attempts = sr.attempts /\ y(n).status = "running"
    BY Zenon, <2>1, <2>2 DEF StepRecs, StepStatuses
  <2> HIDE DEF y, sr
  <2>4. y(n).attempts # 0 => job[<<s, y(n).attempts>>] \in Settled
    BY Zenon, <2>1, <2>3 DEF StepOK, NoJob
  <2>5. \A k \in 1..(y(n).attempts - 1) : job[<<s, k>>] \in Settled
    BY Zenon, <2>1, <2>3 DEF StepOK
  <2>6. StepOK(wf, job, s, y(n))
    BY Zenon, <1>1, <2>3, <2>4, <2>5 DEF StepOK
  <2> QED BY Zenon, <1>2, <2>6, DocStep DEF RunStatuses
<1>9. sr.job # NoJob => child[<<s, sr.job>>] \in Children
  <2>1. sr.job \in 0..MaxAttempts
    BY Zenon, <1>2 DEF DocOK, StepOK, StepRecs
  <2> HIDE DEF sr
  <2>2. sr.job # NoJob => sr.job \in 1..MaxAttempts
    BY <2>1, RunAssumption DEF NoJob
  <2> QED BY Zenon, <1>2, <1>4, <2>2 DEF Jobs, Steps
<1>10. "failed" \in Children
  BY Zenon DEF Children, Terminal
<1> HIDE DEF m, y, sr
<1>11. PICK d : DocOK(wf, job, d) /\ Visited(p, s, d)
  BY Zenon, <1>5, <1>7, <1>8, <1>9, <1>10
<1> QED BY Zenon, <1>1, <1>3, <1>6, <1>11, JobVisitKeeps

\* The message that goes out is that of an attempt after those that are over;
\* a publish that fails takes the step back.
LEMMA JobPublishKeeps ==
  ASSUME JobInv, NEW p \in Replicas, PublishStep(p)
  PROVE  JobInv'
<1> DEFINE s == dispatch[p]  m == mem[p]  sr == m.steps[s]  j == <<s, sr.job>>
<1>1. pc[p] = "publish"
  BY Zenon DEF PublishStep
<1>2. DocOK(wf, job, m) /\ WorldOK(wf, job, submits, results, child) /\ DocOK(wf, job, run)
  BY Zenon, <1>1, Copy DEF JobInv
<1>3. s \in DOMAIN wf.kind /\ sr.attempts # 0 /\ sr.job = sr.attempts /\ s \in Steps
  BY Zenon, <1>1 DEF JobInv, HandlerOK, Steps
<1>4. /\ wf' = wf /\ job' = job /\ results' = results /\ child' = child
      /\ pc' = Set(pc, p, "pass") /\ dispatch' = Set(dispatch, p, NoStep)
      /\ submits' \in {submits, submits \cup {j}}
      /\ \/ run' = run /\ mem' = mem
         \/ mem' = Set(mem, p, Reverted(m, s)) /\ run' \in {run, mem'[p]}
  BY Zenon DEF PublishStep
<1> HIDE DEF m, s
<1>5. StepOK(wf, job, s, sr) /\ sr.attempts \in 1..MaxAttempts
  <2>1. StepOK(wf, job, s, sr)
    BY Zenon, <1>2, <1>3 DEF DocOK
  <2>2. sr.attempts \in 0..MaxAttempts
    BY Zenon, <2>1 DEF StepOK, StepRecs
  <2> HIDE DEF sr
  <2> QED BY <1>3, <2>1, <2>2, RunAssumption
<1>6. WorldOK(wf, job, submits', results', child')
  <2>1. j \in (DOMAIN wf.kind) \X (1..MaxAttempts) /\ j[1] = s /\ j[2] = sr.attempts
    BY Zenon, <1>3, <1>5
  <2>2. \A k \in 1..(sr.attempts - 1) : job[<<s, k>>] \in Settled
    BY Zenon, <1>5 DEF StepOK
  <2> HIDE DEF j, sr
  <2>3. submits' \subseteq (DOMAIN wf.kind) \X (1..MaxAttempts)
    BY Zenon, <1>2, <1>4, <2>1 DEF WorldOK
  <2>4. ASSUME NEW i \in (DOMAIN wf.kind) \X (1..MaxAttempts), i \in submits' \/ job[i] # "none"
        PROVE  \A k \in 1..(i[2] - 1) : job[<<i[1], k>>] \in Settled
    <3>1. CASE i = j
      BY Zenon, <2>1, <2>2, <3>1
    <3>2. CASE i # j
      <4>1. i \in submits \/ job[i] # "none"
        BY Zenon, <1>4, <2>4, <3>2
      <4> QED BY Zenon, <1>2, <4>1 DEF WorldOK
    <3> QED BY Zenon, <3>1, <3>2
  <2> QED BY Zenon, <1>2, <1>4, <2>3, <2>4 DEF WorldOK
<1>7. DocOK(wf, job, Reverted(m, s))
  BY Zenon, <1>2, <1>3, DocRevert
<1>8. PICK d : DocOK(wf, job, d) /\ (mem' = Set(mem, p, d) \/ (mem' = mem /\ d = mem[p]))
  BY Zenon, <1>2, <1>4, <1>7 DEF m
<1>9. OthersStay(p) /\ pc'[p] = "pass" /\ mem'[p] = d
  BY Zenon, <1>4, <1>8, MovesOne DEF Places
<1>10. DocOK(wf, job, run') /\ HandlerOK(wf, job, pc'[p], mem'[p], dispatch'[p])
  BY Zenon, <1>2, <1>4, <1>8, <1>9 DEF HandlerOK
<1> QED BY Zenon, <1>4, <1>6, <1>9, <1>10, HandlerStep

\* The end of a pass, the cancellations of a stopped run, and a crash.
LEMMA JobLastKeeps ==
  ASSUME JobInv, NEW p \in Replicas
  PROVE  EndPass(p) \/ PublishCancels(p) \/ Crash(p) => JobInv'
<1>0. DocOK(wf, job, run) /\ WorldOK(wf, job, submits, results, child)
  BY Zenon DEF JobInv
<1>1. ASSUME EndPass(p) PROVE JobInv'
  <2> DEFINE m == activateOnErrorHandler(wf, mem[p],
                    {s \in Steps : StatusOf(mem[p], s) \in {"failed", "timed_out"}})
  <2>1. pc[p] = "pass" /\ wf' = wf /\ job' = job /\ WorldOK(wf, job, submits', results', child')
    BY Zenon, <1>0, <1>1 DEF EndPass, world
  <2>2. DocOK(wf, job, m)
    BY Zenon, <2>1, Copy, DocActivate
  <2>3. \/ mem' = Set(mem, p, m) /\ UNCHANGED <<run, pc, dispatch>>
        \/ Return(p) /\ run' \in {run, updateRunStatus(wf, m)}
    BY Zenon, <1>1 DEF EndPass
  <2> HIDE DEF m
  <2>4. CASE mem' = Set(mem, p, m) /\ UNCHANGED <<run, pc, dispatch>>
    <3>1. OthersStay(p) /\ pc'[p] = "pass" /\ mem'[p] = m
      BY Zenon, <2>1, <2>4, MovesOne DEF Places
    <3>2. HandlerOK(wf, job, pc'[p], mem'[p], dispatch'[p])
      BY Zenon, <2>2, <3>1 DEF HandlerOK
    <3> QED BY Zenon, <1>0, <2>1, <2>4, <3>1, <3>2, HandlerStep
  <2>5. CASE Return(p) /\ run' \in {run, updateRunStatus(wf, m)}
    <3>1. DocOK(wf, job, run')
      BY Zenon, <1>0, <2>2, <2>5, DocUpdate
    <3>2. OthersStay(p) /\ HandlerOK(wf, job, pc'[p], mem'[p], dispatch'[p])
      BY Zenon, <2>5, Leaves
    <3> QED BY Zenon, <2>1, <3>1, <3>2, HandlerStep
  <2> QED BY Zenon, <2>3, <2>4, <2>5
<1>2. ASSUME PublishCancels(p) PROVE JobInv'
  <2>1. wf' = wf /\ job' = job /\ run' = run /\ WorldOK(wf, job, submits', results', child') /\ Return(p)
    BY Zenon, <1>0, <1>2 DEF PublishCancels
  <2>2. OthersStay(p) /\ HandlerOK(wf, job, pc'[p], mem'[p], dispatch'[p])
    BY Zenon, <2>1, Leaves
  <2> QED BY Zenon, <1>0, <2>1, <2>2, HandlerStep
<1>3. ASSUME Crash(p) PROVE JobInv'
  <2>1. wf' = wf /\ job' = job /\ run' = run /\ WorldOK(wf, job, submits', results', child')
    BY Zenon, <1>0, <1>3 DEF Crash, world
  <2>2. pc' = Set(pc, p, "idle") /\ mem' = Set(mem, p, NoRun) /\ dispatch' = Set(dispatch, p, NoStep)
    BY Zenon, <1>3 DEF Crash
  <2>3. OthersStay(p) /\ pc'[p] = "idle"
    BY Zenon, <2>2, MovesOne DEF Places
  <2>4. HandlerOK(wf, job, pc'[p], mem'[p], dispatch'[p])
    BY Zenon, <2>3 DEF HandlerOK
  <2> QED BY Zenon, <1>0, <2>1, <2>3, <2>4, HandlerStep
<1> QED BY Zenon, <1>1, <1>2, <1>3

\* The scheduler and the bus move, and a job that is over stays so.
LEMMA JobsMove ==
  ASSUME JobInv, wf' = wf, run' = run, UNCHANGED <<pc, mem, dispatch>>,
         WorldOK(wf, job', submits', results', child'),
         \A j \in Jobs : Stays(job[j], job'[j])
  PROVE  JobInv'
<1>1. \A s \in DOMAIN wf.kind : \A k \in 1..MaxAttempts :
        Stays(job[<<s, k>>], job'[<<s, k>>])
  BY Zenon DEF Jobs, Steps
<1>2. \A m : DocOK(wf, job, m) => DocOK(wf, job', m)
  BY Zenon, <1>1, DocLater
<1>3. DocOK(wf, job', run)
  BY Zenon, <1>2 DEF JobInv
<1>4. ASSUME NEW p \in Replicas PROVE HandlerOK(wf, job', pc[p], mem[p], dispatch[p])
  BY Zenon, <1>2 DEF JobInv, HandlerOK
<1> QED BY Zenon, <1>3, <1>4 DEF JobInv

\* A job goes on: it was submitted or alive, and its outcome is reported.
LEMMA JobGoesOn ==
  ASSUME JobInv, NEW j \in Jobs, wf' = wf, run' = run, UNCHANGED <<pc, mem, dispatch>>,
         child' = child, submits' \subseteq submits, NEW x \in JobStates,
         job' = Set(job, j, x) \/ job' = job, Stays(job[j], x) \/ job' = job,
         j \in submits \/ job[j] # "none" \/ job' = job,
         \A r \in results' : r \in results \/
           (r.job = j /\ r.status \in Statuses /\ Tells(r.status, job'[j]))
  PROVE  JobInv'
<1>1. /\ job \in [Jobs -> JobStates] /\ submits \subseteq Jobs /\ child \in [Jobs -> Children]
      /\ \A r \in results : /\ r.job \in Jobs /\ r.status \in Statuses
                            /\ Tells(r.status, job[r.job])
  BY Zenon, WorldFacts
<1>2. job' \in [Jobs -> JobStates] /\ \A i \in Jobs : i # j => job'[i] = job[i]
  BY Zenon, <1>1 DEF Set
<1>3. \A i \in Jobs : Stays(job[i], job'[i])
  BY Zenon, <1>1, <1>2 DEF Stays, Set
<1>4. ASSUME NEW r \in results'
      PROVE  /\ r.job \in Jobs /\ r.status \in Statuses
             /\ Tells(r.status, job'[r.job])
  <2>1. CASE r \in results
    <3>1. Tells(r.status, job[r.job]) /\ Stays(job[r.job], job'[r.job])
      BY Zenon, <1>1, <1>3, <2>1
    <3>2. Tells(r.status, job'[r.job])
      BY Zenon, <3>1 DEF Tells, Stays
    <3> QED BY Zenon, <1>1, <2>1, <3>2
  <2>2. CASE r \notin results
    BY Zenon, <2>2
  <2> QED BY Zenon, <2>1, <2>2
<1>5. ASSUME NEW i \in Jobs, i \in submits' \/ job'[i] # "none", NEW k \in 1..(i[2] - 1)
      PROVE  job'[<<i[1], k>>] \in Settled
  <2>1. i \in submits \/ job[i] # "none"
    BY Zenon, <1>2, <1>5
  <2>2. job[<<i[1], k>>] \in Settled
    BY Zenon, <2>1, WorldFacts
  <2>3. <<i[1], k>> \in Jobs
    BY RunAssumption DEF Jobs
  <2> QED BY Zenon, <1>3, <2>2, <2>3 DEF Stays
<1>6. WorldOK(wf, job', submits', results', child')
  <2>1. submits' \subseteq Jobs /\ child' \in [Jobs -> Children]
    BY Zenon, <1>1
  <2> QED BY Zenon, <1>2, <1>4, <1>5, <2>1 DEF WorldOK, Jobs, Steps
<1> QED BY Zenon, <1>3, <1>6, JobsMove

\* The steps of the scheduler, the bus, the child runs and the clock.
LEMMA JobWorldKeeps ==
  ASSUME JobInv
  PROVE  /\ \A j \in Jobs : AcceptJob(j) \/ CancelJob(j) \/ QuarantineLate(j) => JobInv'
         /\ \A j \in Jobs : \A end \in Outcomes(j[1]) : EndJob(j, end) => JobInv'
         /\ \A j \in Jobs : \A status \in Terminal : EndChildRun(j, status) => JobInv'
         /\ (reconcileOrphanedJobs \/ LockExpires \/ DeadlinePasses
               \/ \E s \in Steps : BackoffElapses(s)) => JobInv'
<1>0. job \in [Jobs -> JobStates] /\ child \in [Jobs -> Children]
  BY Zenon, WorldFacts
<1>1. ASSUME NEW j \in Jobs, AcceptJob(j) PROVE JobInv'
  <2>1. /\ wf' = wf /\ run' = run /\ UNCHANGED <<pc, mem, dispatch>> /\ child' = child
        /\ results' = results /\ submits' \subseteq submits /\ j \in submits
    BY Zenon, <1>1 DEF AcceptJob, handler
  <2>2. PICK x \in {"active", "approval", "again"} : job' = Set(job, j, x) \/ job' = job
    BY Zenon, <1>1 DEF AcceptJob
  <2>3. job' = job \/ job[j] = "none" \/ (job[j] = "RETRYING" /\ job' = Set(job, j, "again"))
    BY Zenon, <1>1 DEF AcceptJob
  <2>4. "again" \in JobStates /\ Stays("RETRYING", "again") /\ \A y : Stays("none", y)
    BY Zenon DEF JobStates, Stays, Settled, Done, Refused, Ended
  <2>5. x \in JobStates
    BY Zenon, <2>2 DEF JobStates, Settled
  <2>6. CASE job[j] = "none" \/ job' = job
    BY Zenon, <2>1, <2>2, <2>4, <2>5, <2>6, JobGoesOn
  <2>7. CASE job[j] = "RETRYING" /\ job' = Set(job, j, "again")
    BY Zenon, <2>1, <2>4, <2>7, JobGoesOn
  <2> QED BY Zenon, <2>3, <2>6, <2>7
<1>2. ASSUME NEW j \in Jobs, NEW x \in JobStates, NEW status \in Statuses, Tells(status, x),
             job[j] \in Open, job' = Set(job, j, x),
             results' = results \cup {[job |-> j, status |-> status]},
             wf' = wf, run' = run, UNCHANGED <<pc, mem, dispatch>>, child' = child, submits' = submits
      PROVE  JobInv'
  <2>1. job[j] # "none" /\ job[j] \notin Done \cup Refused
    BY Zenon, <1>2 DEF Open, Done, Refused
  <2>2. Stays(job[j], x)
    BY Zenon, <1>2, <2>1 DEF Stays, Tells
  <2>3. job'[j] = x
    BY Zenon, <1>0, <1>2 DEF Set
  <2>4. \A r \in results' : r \in results \/
          (r.job = j /\ r.status \in Statuses /\ Tells(r.status, job'[j]))
    BY <1>2, <2>3
  <2>5. submits' \subseteq submits
    BY Zenon, <1>2
  <2> QED BY Zenon, <1>2, <2>1, <2>2, <2>4, <2>5, JobGoesOn
<1>3. ASSUME NEW j \in Jobs, NEW end \in Outcomes(j[1]), EndJob(j, end) PROVE JobInv'
  <2>1. end \in Ended \cup {"FAILED_FATAL", "FAILED_RETRYABLE", "OUTPUT_QUARANTINED"}
    BY Zenon DEF Outcomes, Ended
  <2>2. /\ job[j] \in Open /\ job' = Set(job, j, Stored(end))
        /\ results' = results \cup {[job |-> j, status |-> Reported(end)]}
        /\ wf' = wf /\ run' = run /\ UNCHANGED <<pc, mem, dispatch>> /\ child' = child /\ submits' = submits
    BY Zenon, <1>3 DEF EndJob, handler
  <2> DEFINE x == Stored(end)  status == Reported(end)
  <2>3. status \in Statuses
    BY <2>1 DEF Reported, Statuses, Ended
  <2>4. x \in Settled
    BY <2>1 DEF Stored, Settled, Ended
  <2>5. x \in JobStates
    BY Zenon, <2>4 DEF JobStates
  <2>6. (status = "SUCCEEDED" => x \in Done) /\ (status = "DENIED" => x \in Refused)
    BY <2>1 DEF Stored, Reported, Done, Refused
  <2>7. Tells(status, x)
    BY Zenon, <2>4, <2>6 DEF Tells
  <2> HIDE DEF x, status
  <2> QED BY Zenon, <1>2, <2>2, <2>3, <2>5, <2>7 DEF x, status
<1>4. ASSUME NEW j \in Jobs, CancelJob(j) PROVE JobInv'
  <2>1. wf' = wf /\ run' = run /\ UNCHANGED <<pc, mem, dispatch>> /\ child' = child /\ submits' = submits
    BY Zenon, <1>4 DEF CancelJob, handler
  <2>2. CASE UNCHANGED <<job, results>>
    BY Zenon, <2>1, <2>2 DEF JobInv
  <2>3. CASE /\ job[j] \in Open /\ job' = Set(job, j, "CANCELLED")
             /\ results' = results \cup {[job |-> j, status |-> "CANCELLED"]}
    <3>1. "CANCELLED" \in Statuses /\ "CANCELLED" \in JobStates /\ Tells("CANCELLED", "CANCELLED")
      BY Zenon DEF Statuses, JobStates, Tells, Settled, Ended
    <3> QED BY Zenon, <1>2, <2>1, <2>3, <3>1
  <2> QED BY Zenon, <1>4, <2>2, <2>3 DEF CancelJob
<1>5. ASSUME NEW j \in Jobs, NEW status \in Terminal, EndChildRun(j, status) PROVE JobInv'
  <2>1. /\ wf' = wf /\ run' = run /\ UNCHANGED <<pc, mem, dispatch>> /\ child' = Set(child, j, status)
        /\ job' = job /\ submits' = submits /\ results' = results
    BY Zenon, <1>5 DEF EndChildRun, handler
  <2>2. child' \in [Jobs -> Children]
    BY Zenon, <1>0, <2>1 DEF Set, Children
  <2>3. WorldOK(wf, job', submits', results', child')
    BY Zenon, <2>1, <2>2 DEF JobInv, WorldOK, Jobs, Steps
  <2> QED BY Zenon, <2>1, <2>3, JobsMove DEF Stays
<1>7. ASSUME NEW j \in Jobs, QuarantineLate(j) PROVE JobInv'
  <2>1. /\ wf' = wf /\ run' = run /\ UNCHANGED <<pc, mem, dispatch>> /\ child' = child
        /\ results' = results /\ submits' \subseteq submits
        /\ job[j] = "SUCCEEDED" /\ job' = Set(job, j, "OUTPUT_QUARANTINED")
    BY Zenon, <1>7 DEF QuarantineLate, handler
  <2>2. "OUTPUT_QUARANTINED" \in JobStates /\ Stays("SUCCEEDED", "OUTPUT_QUARANTINED")
    BY Zenon DEF JobStates, Stays, Settled, Done, Refused, Ended
  <2> QED BY Zenon, <2>1, <2>2, JobGoesOn
<1>6. ASSUME reconcileOrphanedJobs \/ LockExpires \/ DeadlinePasses \/ \E s \in Steps : BackoffElapses(s)
      PROVE  JobInv'
  <2>1. UNCHANGED <<wf, run, pc, mem, dispatch, submits, job, results, child>>
    BY Zenon, <1>6 DEF reconcileOrphanedJobs, LockExpires, DeadlinePasses, BackoffElapses, handler, world
  <2> QED BY Zenon, <2>1 DEF JobInv
<1> QED BY Zenon, <1>1, <1>3, <1>4, <1>5, <1>6, <1>7

\* Nothing was submitted for a new run.
LEMMA JobInit == Init => JobInv
<1> SUFFICES ASSUME Init PROVE JobInv
  BY Zenon
<1>1. NewStepRun \in StepRecs /\ NewStepRun.attempts = 0 /\ NewStepRun.job = NoJob /\ NewStepRun.status = ""
  BY RunAssumption DEF NewStepRun, StepRecs, StepStatuses, NoJob
<1>2. \A s \in DOMAIN wf.kind : StepOK(wf, job, s, NewStepRun)
  <2>1. \A n : n = 0 => \A k \in 1..(n - 1) : FALSE
    OBVIOUS
  <2>2. \A k \in 1..(NewStepRun.attempts - 1) : FALSE
    BY Zenon, <1>1, <2>1
  <2> QED BY Zenon, <1>1, <2>2 DEF StepOK
<1>3. DocOK(wf, job, run)
  <2>1. run = [status |-> "pending", steps |-> [s \in DOMAIN wf.kind |-> NewStepRun]]
    BY Zenon DEF Init, NewRun
  <2> QED BY Zenon, <1>1, <1>2, <2>1 DEF DocOK, Docs, RunStatuses
<1>4. WorldOK(wf, job, submits, results, child)
  <2>1. /\ job = [j \in Jobs |-> "none"] /\ submits = {} /\ results = {}
        /\ child = [j \in Jobs |-> "none"]
    BY Zenon DEF Init
  <2> QED BY Zenon, <2>1 DEF WorldOK, JobStates, Children, Jobs, Steps
<1>5. /\ pc = [p \in Replicas |-> "idle"] /\ mem = [p \in Replicas |-> NoRun]
      /\ dispatch = [p \in Replicas |-> NoStep]
  BY Zenon DEF Init
<1>6. \A p \in Replicas : HandlerOK(wf, job, pc[p], mem[p], dispatch[p])
  BY Zenon, <1>5 DEF HandlerOK
<1> QED BY Zenon, <1>3, <1>4, <1>5, <1>6 DEF JobInv, Places

\* Every step keeps what is known of the jobs.
LEMMA JobStep ==
  ASSUME JobInv, [Next]_vars
  PROVE  JobInv'
<1>1. CASE UNCHANGED vars
  BY Zenon, <1>1 DEF vars, handler, world, JobInv
<1>2. ASSUME NEW p \in Replicas, Work(p) PROVE JobInv'
  <2>1. ASSUME NEW s \in Steps,
               \/ PassOver(p, s) \/ DispatchStep(p, s) \/ InlineStep(p, s) \/ ConditionGate(p, s)
               \/ DelayStep(p, s) \/ SwitchStep(p, s) \/ SubWorkflowStep(p, s)
        PROVE  JobInv'
    BY Zenon, <2>1, JobSpotKeeps, JobDispatchKeeps, JobSwitchKeeps, JobSubWorkflowKeeps
  <2>2. ASSUME PublishStep(p) \/ EndPass(p) \/ PublishCancels(p) PROVE JobInv'
    BY Zenon, <2>2, JobPublishKeeps, JobLastKeeps
  <2>3. ASSUME FinishReconcile(p) \/ \E j \in Jobs : ReplayJob(p, j) PROVE JobInv'
    BY Zenon, <2>3, JobEntryKeeps
  <2> QED BY Zenon, <1>2, <2>1, <2>2, <2>3 DEF Work
<1>3. ASSUME NEW p \in Replicas,
             \/ \E r \in results : HandleJobResult(p, r)
             \/ StartRun(p) \/ CancelRun(p) \/ reconcileRun(p) \/ Crash(p)
      PROVE  JobInv'
  BY Zenon, <1>3, JobEntryKeeps, JobLastKeeps
<1>4. ASSUME NEW j \in Jobs,
             \/ AcceptJob(j) \/ CancelJob(j) \/ QuarantineLate(j)
             \/ \E end \in Outcomes(j[1]) : EndJob(j, end)
             \/ \E status \in Terminal : EndChildRun(j, status)
      PROVE  JobInv'
  BY Zenon, <1>4, JobWorldKeeps
<1>5. ASSUME \/ reconcileOrphanedJobs \/ LockExpires \/ DeadlinePasses
             \/ \E s \in Steps : BackoffElapses(s)
      PROVE  JobInv'
  BY Zenon, <1>5, JobWorldKeeps
<1> QED BY Zenon, <1>1, <1>2, <1>3, <1>4, <1>5 DEF Next

\* Of every document, the stored one and each handler's copy, every attempt
\* but the current one is over or asked to be retried, whatever failed, died or
\* had no lock.
THEOREM JobsInvariant == Spec => []JobInv
<1>1. JobInv /\ [Next]_vars => JobInv'
  BY Zenon, JobStep
<1> QED BY <1>1, JobInit, PTL DEF Spec

\* No two attempts of a step's job are alive at once but for an earlier one that
\* asked to be retried and was dispatched again, for every workflow, any number
\* of handlers, with or without the run's lock: scheduleReady counts the attempt
\* before it publishes it, and takes the count back when the publish fails.
THEOREM OneAttemptAtATime == Spec => []OneLiveAttempt
<1>1. ASSUME JobInv PROVE OneLiveAttempt
  <2> SUFFICES ASSUME NEW s \in Steps, NEW n \in 1..MaxAttempts, NEW k \in 1..MaxAttempts,
                      n < k, Live(<<s, n>>), Live(<<s, k>>)
               PROVE  job[<<s, n>>] = "again"
    BY Zenon DEF OneLiveAttempt
  <2> DEFINE j1 == <<s, n>>  j2 == <<s, k>>
  <2>1. j1 \in Jobs /\ j2 \in Jobs /\ j2[1] = s /\ j2[2] = k
    BY Zenon DEF Jobs
  <2>2. j2 \in submits \/ job[j2] # "none"
    BY Zenon DEF Live
  <2>3. n \in 1..(k - 1)
    BY RunAssumption
  <2>4. job[j1] \in Settled
    BY Zenon, <1>1, <2>1, <2>2, <2>3, WorldFacts
  <2> QED BY Zenon, <2>4 DEF Live, Settled, Ended
<1> QED BY <1>1, JobsInvariant, PTL

\* What a step took for the outcome of its job is what the job store holds for
\* that job, up to a quarantine and a wish to be retried, for every workflow,
\* whatever is late, repeated or replayed.
THEOREM OutcomesAreTheJobs == Spec => []OutcomeIsTheJobs
<1>1. ASSUME JobInv PROVE OutcomeIsTheJobs
  <2> SUFFICES ASSUME NEW s \in Steps, wf.kind[s] \in {"worker", "approval"},
                      run.steps[s].job # NoJob, ~wf.gated[s]
               PROVE  LET sr == run.steps[s]
                          outcome == job[<<s, sr.job>>]
                      IN
                      /\ sr.status = "succeeded" => outcome \in {"SUCCEEDED", "OUTPUT_QUARANTINED"}
                      /\ sr.status = "denied" => outcome \in {"DENIED", "OUTPUT_QUARANTINED"}
                      /\ sr.status = "failed" /\ wf.kind[s] = "worker" => outcome \in Settled
    BY Zenon DEF OutcomeIsTheJobs
  <2>1. StepOK(wf, job, s, run.steps[s]) /\ Judged(wf, s)
    BY Zenon, <1>1 DEF JobInv, DocOK, Steps, Judged
  <2> QED BY Zenon, <2>1 DEF StepOK, Taken, Done, Refused
<1> QED BY <1>1, JobsInvariant, PTL

-----------------------------------------------------------------------------
(* What a published job waited for.  The document is persisted before the  *)
(* job is published, and under the lock nobody writes in between.          *)

\* The dependencies and handlers of a step are steps.
WorkflowOK(w) ==
  \A s \in DOMAIN w.kind :
    w.deps[s] \subseteq DOMAIN w.kind /\ w.onError[s] \in (DOMAIN w.kind) \cup {NoStep}

Met(w, m, d) == StatusOf(m, d) = "succeeded" \/ walkOnErrorChain(w, m, d) = "recovered"
Due(w, m, s) == m.steps[s].activated \/ \A d \in w.deps[s] : Met(w, m, d)

\* A handler about to publish has a copy of the stored document, in which the
\* step is due.
PublishInv(p) == pc[p] = "publish" => run = mem[p] /\ Due(wf, run, dispatch[p])

DueInv == WorkflowOK(wf) /\ (unlocked = 0 => \A p \in Replicas : PublishInv(p))

\* The first handler of a chain that succeeded recovers the step.
LEMMA HandlerRecovers ==
  ASSUME NEW w, NEW m, NEW d \in DOMAIN w.kind, w.onError[d] # NoStep,
         StatusOf(m, w.onError[d]) = "succeeded"
  PROVE  walkOnErrorChain(w, m, d) = "recovered"
<1> DEFINE h == w.onError[d]
<1>1. h \in Handlers(w, m, d)
  BY Zenon DEF Handlers
<1>2. "succeeded" \in {StatusOf(m, t) : t \in Handlers(w, m, d)} \cap Deciding
  BY Zenon, <1>1 DEF Deciding
<1> QED BY Zenon, <1>2 DEF walkOnErrorChain

\* A dispatch changes the status of the one step it is about.
LEMMA DispatchedOthers ==
  ASSUME NEW m \in Docs(wf), NEW s \in Steps, NEW t \in Steps, t # s
  PROVE  StatusOf(Dispatched(m, s), t) = StatusOf(m, t)
<1>1. m.steps \in [Steps -> StepRecs] /\ "steps" \in DOMAIN m
  BY Zenon DEF Docs, Steps
<1> QED BY Zenon, <1>1 DEF StatusOf, Dispatched

\* It does not forget that the step was activated.
LEMMA DispatchedKeepsActivated ==
  ASSUME NEW m \in Docs(wf), NEW s \in Steps
  PROVE  Dispatched(m, s).steps[s].activated = m.steps[s].activated
<1>1. m.steps \in [Steps -> StepRecs] /\ "steps" \in DOMAIN m /\ m.steps[s] \in StepRecs
  BY Zenon DEF Docs, Steps
<1>2. "activated" \in DOMAIN m.steps[s]
  BY Zenon, <1>1 DEF StepRecs
<1> QED BY Zenon, <1>1, <1>2 DEF Dispatched

\* What scheduleReady dispatches is due, in the document it persists: the step
\* was not over, so it is no dependency of its own and recovered nothing.
LEMMA DispatchedIsDue ==
  ASSUME WorkflowOK(wf), NEW m \in Docs(wf), NEW s \in Steps, Ready(m, s), Fresh(m, s)
  PROVE  Due(wf, Dispatched(m, s), s)
<1>1. CASE m.steps[s].activated
  BY Zenon, <1>1, DispatchedKeepsActivated DEF Due
<1>2. CASE ~m.steps[s].activated
  <2> SUFFICES ASSUME NEW d \in wf.deps[s] PROVE Met(wf, Dispatched(m, s), d)
    BY Zenon DEF Due
  <2>1. d \in Steps /\ wf.onError[d] \in Steps \cup {NoStep}
    BY Zenon DEF WorkflowOK, Steps
  <2>2. \/ StatusOf(m, d) = "succeeded"
        \/ wf.onError[d] # NoStep /\ StatusOf(m, wf.onError[d]) = "succeeded"
    BY Zenon, <1>2 DEF Ready, depsSatisfied
  <2>3. StatusOf(m, s) # "succeeded"
    BY Zenon DEF Fresh
  <2>4. CASE StatusOf(m, d) = "succeeded"
    BY Zenon, <2>1, <2>3, <2>4, DispatchedOthers DEF Met
  <2>5. CASE wf.onError[d] # NoStep /\ StatusOf(m, wf.onError[d]) = "succeeded"
    <3>1. StatusOf(Dispatched(m, s), wf.onError[d]) = "succeeded"
      BY Zenon, <2>1, <2>3, <2>5, DispatchedOthers
    <3> QED BY Zenon, <2>1, <2>5, <3>1, HandlerRecovers DEF Met, Steps
  <2> QED BY Zenon, <2>2, <2>4, <2>5
<1> QED BY Zenon, <1>1, <1>2

\* A step of p as the other handlers see it, which leaves p elsewhere.
Elsewhere(p) ==
  \E x \in Places \ {"publish"} : pc' = Set(pc, p, x)

\* What is at stake when nothing is dispatched: no handler comes to publish,
\* and nobody touches what one has to publish.
StillDue ==
  \A p \in Replicas : pc'[p] = "publish" =>
    pc[p] = "publish" /\ run' = run /\ mem'[p] = mem[p] /\ dispatch'[p] = dispatch[p]

\* A handler at work is the only one, so it may write the document.
LEMMA OneMoves ==
  ASSUME RunInv, NEW p \in Replicas, pc[p] # "idle" \/ lock = NoOne, Elsewhere(p)
  PROVE  StillDue
<1>1. \A q \in Replicas \ {p} : pc[q] = "idle"
  BY Zenon, Alone
<1>2. PICK x \in Places \ {"publish"} : pc' = Set(pc, p, x)
  BY Zenon DEF Elsewhere
<1>3. pc'[p] # "publish" /\ \A q \in Replicas \ {p} : pc'[q] = "idle"
  BY Zenon, <1>1, <1>2 DEF RunInv, Set
<1> QED BY Zenon, <1>3 DEF StillDue

\* So may one that stays in its pass.
LEMMA OneStays ==
  ASSUME RunInv, NEW p \in Replicas, pc[p] \in {"pass", "replay"}, pc' = pc
  PROVE  StillDue
<1>1. \A q \in Replicas \ {p} : pc[q] = "idle"
  BY Zenon, Alone
<1> QED BY Zenon, <1>1 DEF StillDue

\* A handler that returns has nothing to publish.
LEMMA ReturnMoves ==
  ASSUME NEW p, Return(p)
  PROVE  Elsewhere(p)
<1>1. pc' = Set(pc, p, "replay") \/ pc' = Set(pc, p, "idle")
  BY Zenon DEF Return
<1> QED BY Zenon, <1>1 DEF Elsewhere, Places

\* Nor has one that has just taken a result.
LEMMA ResultMoves ==
  ASSUME NEW p, NEW j, NEW status, handleJobResultLocked(p, j, status)
  PROVE  Elsewhere(p)
<1>1. CASE \E m, x : StopRun(p, m, x)
  BY Zenon, <1>1 DEF StopRun, Elsewhere, Places
<1>2. CASE \E m : scheduleReady(p, m)
  BY Zenon, <1>2 DEF scheduleReady, Elsewhere, Places
<1> QED BY Zenon, <1>1, <1>2, ReturnMoves DEF handleJobResultLocked

\* The steps of the handlers other than a dispatch.
LEMMA WorkStillDue ==
  ASSUME RunInv, NEW p \in Replicas, Work(p), ~\E s \in Steps : DispatchStep(p, s)
  PROVE  StillDue
<1>1. CASE \E s \in Steps : \/ PassOver(p, s) \/ InlineStep(p, s) \/ ConditionGate(p, s)
                            \/ DelayStep(p, s) \/ SwitchStep(p, s) \/ SubWorkflowStep(p, s)
  <2>1. pc[p] = "pass" /\ pc' = pc
    BY Zenon, <1>1 DEF PassOver, InlineStep, ConditionGate, DelayStep, SwitchStep, SubWorkflowStep, Visiting
  <2> QED BY Zenon, <2>1, OneStays
<1>2. CASE PublishStep(p)
  <2>1. pc[p] # "idle" /\ Elsewhere(p)
    BY Zenon, <1>2 DEF PublishStep, Elsewhere, Places
  <2> QED BY Zenon, <2>1, OneMoves
<1>3. CASE EndPass(p)
  <2>1. pc[p] = "pass" /\ (pc' = pc \/ Return(p))
    BY Zenon, <1>3 DEF EndPass
  <2> QED BY Zenon, <2>1, OneStays, OneMoves, ReturnMoves
<1>4. CASE PublishCancels(p)
  <2>1. pc[p] # "idle" /\ Return(p)
    BY Zenon, <1>4 DEF PublishCancels
  <2> QED BY Zenon, <2>1, OneMoves, ReturnMoves
<1>5. CASE \E j \in Jobs : ReplayJob(p, j)
  <2>1. pc[p] = "replay" /\ (pc' = pc \/ \E j, x : handleJobResultLocked(p, j, x))
    BY Zenon, <1>5 DEF ReplayJob
  <2> QED BY Zenon, <2>1, OneStays, OneMoves, ResultMoves
<1>6. CASE FinishReconcile(p)
  <2>1. pc[p] # "idle"
    BY Zenon, <1>6 DEF FinishReconcile
  <2>2. \/ pc' = Set(pc, p, "idle")
        \/ \E m : StopRun(p, m, "timed_out") \/ scheduleReady(p, m)
    BY Zenon, <1>6 DEF FinishReconcile
  <2>3. Elsewhere(p)
    BY Zenon, <2>2 DEF Elsewhere, Places, StopRun, scheduleReady
  <2> QED BY Zenon, <2>1, <2>3, OneMoves
<1> QED BY Zenon, <1>1, <1>2, <1>3, <1>4, <1>5, <1>6 DEF Work

\* Handlers that begin under the lock, and one that dies.
LEMMA EntryStillDue ==
  ASSUME unlocked' = 0, RunInv, NEW p \in Replicas,
         \/ \E r \in results : HandleJobResult(p, r)
         \/ StartRun(p) \/ CancelRun(p) \/ reconcileRun(p) \/ Crash(p)
  PROVE  StillDue
<1>1. pc[p] # "idle" \/ lock = NoOne
  BY Zenon, AcquireAlone DEF HandleJobResult, StartRun, CancelRun, reconcileRun, Crash
<1>2. Elsewhere(p)
  <2>1. CASE \E r \in results : HandleJobResult(p, r)
    BY Zenon, <2>1, ResultMoves DEF HandleJobResult
  <2>2. CASE StartRun(p) \/ CancelRun(p)
    BY Zenon, <2>2 DEF StartRun, CancelRun, StopRun, scheduleReady, Elsewhere, Places
  <2>3. CASE reconcileRun(p) \/ Crash(p)
    BY Zenon, <2>3 DEF reconcileRun, Crash, Elsewhere, Places
  <2> QED BY Zenon, <2>1, <2>2, <2>3
<1> QED BY Zenon, <1>1, <1>2, OneMoves

\* The rest of the world leaves the document and the handlers alone.
LEMMA RestStillDue ==
  ASSUME \/ reconcileOrphanedJobs \/ LockExpires \/ DeadlinePasses \/ UNCHANGED vars
         \/ \E j \in Jobs : \/ AcceptJob(j) \/ CancelJob(j) \/ QuarantineLate(j)
                            \/ \E end \in Outcomes(j[1]) : EndJob(j, end)
                            \/ \E status \in Terminal : EndChildRun(j, status)
         \/ \E s \in Steps : BackoffElapses(s)
  PROVE  StillDue
<1>1. UNCHANGED <<run, pc, mem, dispatch>>
  BY Zenon DEF reconcileOrphanedJobs, LockExpires, DeadlinePasses, vars, AcceptJob, CancelJob,
               QuarantineLate, EndJob, BackoffElapses, EndChildRun, handler
<1> QED BY Zenon, <1>1 DEF StillDue

\* No step changes the workflow.
LEMMA WorkflowStays ==
  ASSUME [Next]_vars
  PROVE  wf' = wf
<1>1. ASSUME NEW p \in Replicas, Work(p)
      PROVE  wf' = wf
  BY Zenon, <1>1 DEF Work, PassOver, DispatchStep, InlineStep, ConditionGate, DelayStep, SwitchStep,
              SubWorkflowStep, PublishStep, EndPass, PublishCancels, ReplayJob, FinishReconcile
<1>2. ASSUME NEW p \in Replicas,
             \/ \E r \in results : HandleJobResult(p, r)
             \/ StartRun(p) \/ CancelRun(p) \/ reconcileRun(p) \/ Crash(p)
      PROVE  wf' = wf
  BY Zenon, <1>2 DEF HandleJobResult, StartRun, CancelRun, reconcileRun, Crash
<1>3. ASSUME \/ reconcileOrphanedJobs \/ LockExpires \/ DeadlinePasses \/ UNCHANGED vars
             \/ \E j \in Jobs : \/ AcceptJob(j) \/ CancelJob(j) \/ QuarantineLate(j)
                                \/ \E end \in Outcomes(j[1]) : EndJob(j, end)
                                \/ \E status \in Terminal : EndChildRun(j, status)
             \/ \E s \in Steps : BackoffElapses(s)
      PROVE  wf' = wf
  BY Zenon, <1>3 DEF reconcileOrphanedJobs, LockExpires, DeadlinePasses, vars, AcceptJob, CancelJob,
              QuarantineLate, EndJob, BackoffElapses, EndChildRun
<1> QED BY Zenon, <1>1, <1>2, <1>3 DEF Next

\* A dispatch persists the copy it is about to publish from.
LEMMA DispatchDue ==
  ASSUME WorkflowOK(wf), RunInv, JobInv, NEW p \in Replicas, NEW s \in Steps, DispatchStep(p, s),
         wf' = wf
  PROVE  \A q \in Replicas : PublishInv(q)'
<1> DEFINE m == mem[p]  e == Dispatched(m, s)
<1>1. pc[p] = "pass" /\ Ready(m, s) /\ Fresh(m, s)
  BY Zenon DEF DispatchStep, Visiting
<1>2. m \in Docs(wf)
  BY Zenon, <1>1 DEF JobInv, HandlerOK, DocOK
<1>3. Due(wf, e, s)
  BY Zenon, <1>1, <1>2, DispatchedIsDue
<1>4. \A q \in Replicas \ {p} : pc[q] = "idle"
  BY Zenon, <1>1, Alone
<1> HIDE DEF e
<1>5. CASE /\ run' = e /\ Visited(p, s, e)
           /\ pc' = Set(pc, p, "publish") /\ dispatch' = Set(dispatch, p, s)
  <2>1. mem'[p] = e /\ dispatch'[p] = s
    BY Zenon, <1>5 DEF Visited, Set, JobInv
  <2>2. \A q \in Replicas \ {p} : pc'[q] = "idle"
    BY Zenon, <1>4, <1>5 DEF Set, RunInv
  <2> QED BY Zenon, <1>3, <1>5, <2>1, <2>2 DEF PublishInv
<1>6. CASE pc' = pc
  BY Zenon, <1>1, <1>4, <1>6 DEF PublishInv
<1> QED BY Zenon, <1>5, <1>6 DEF DispatchStep, e

\* Every step keeps what is about to be published due.
LEMMA DueStep ==
  ASSUME LockedInv, JobInv, DueInv, [Next]_vars
  PROVE  DueInv'
<1>1. wf' = wf
  BY Zenon, WorkflowStays
<1> SUFFICES ASSUME unlocked' = 0 PROVE \A q \in Replicas : PublishInv(q)'
  BY Zenon, <1>1 DEF DueInv
<1>2. unlocked = 0 /\ RunInv
  <2>1. unlocked' \in {unlocked, unlocked + 1} /\ unlocked \in Nat
    BY Zenon, UnlockedGrows DEF LockedInv
  <2>2. unlocked = 0
    BY <2>1
  <2> QED BY Zenon, <2>2 DEF LockedInv
<1>3. CASE \E p \in Replicas : \E s \in Steps : DispatchStep(p, s)
  BY Zenon, <1>1, <1>2, <1>3, DispatchDue DEF DueInv
<1>4. CASE ~\E p \in Replicas : \E s \in Steps : DispatchStep(p, s)
  <2>1. StillDue
    BY Zenon, <1>2, <1>4, WorkStillDue, EntryStillDue, RestStillDue DEF Next
  <2> QED BY Zenon, <1>1, <1>2, <2>1 DEF StillDue, DueInv, PublishInv
<1> QED BY Zenon, <1>3, <1>4

\* Whatever step is published next was due when the document was persisted,
\* and still is, as long as every handler took the lock of the run.
THEOREM DueInvariant == Spec => []DueInv
<1>1. Init => DueInv
  BY Zenon, WorkflowAssumption DEF Init, DueInv, WorkflowOK, PublishInv
<1>2. LockedInv /\ JobInv /\ DueInv /\ [Next]_vars => DueInv'
  BY Zenon, DueStep
<1> QED BY <1>1, <1>2, RunInvariant, JobsInvariant, PTL DEF Spec

\* Only a publish submits, and it submits a job of its step.
LEMMA OnlyPublishSubmits ==
  ASSUME [Next]_vars, NEW j \in submits' \ submits
  PROVE  \E p \in Replicas : PublishStep(p) /\ j[1] = dispatch[p]
<1>1. ASSUME NEW p \in Replicas, Work(p)
      PROVE  PublishStep(p) \/ submits' = submits
  BY Zenon, <1>1 DEF Work, PassOver, DispatchStep, InlineStep, ConditionGate, DelayStep, SwitchStep,
              SubWorkflowStep, EndPass, PublishCancels, ReplayJob, FinishReconcile, world
<1>2. ASSUME NEW p \in Replicas,
             \/ \E r \in results : HandleJobResult(p, r)
             \/ StartRun(p) \/ CancelRun(p) \/ reconcileRun(p) \/ Crash(p)
      PROVE  submits' = submits
  BY Zenon, <1>2 DEF HandleJobResult, StartRun, CancelRun, reconcileRun, Crash, world
<1>3. ASSUME \/ reconcileOrphanedJobs \/ LockExpires \/ DeadlinePasses \/ UNCHANGED vars
             \/ \E k \in Jobs : \/ AcceptJob(k) \/ CancelJob(k)
                                \/ QuarantineLate(k)
                                \/ \E end \in Outcomes(k[1]) : EndJob(k, end)
                                \/ \E status \in Terminal : EndChildRun(k, status)
             \/ \E s \in Steps : BackoffElapses(s)
      PROVE  submits' \subseteq submits
  BY Zenon, <1>3 DEF reconcileOrphanedJobs, LockExpires, DeadlinePasses, vars, AcceptJob, CancelJob,
              QuarantineLate, EndJob, BackoffElapses, EndChildRun, world
<1>4. PICK p \in Replicas : PublishStep(p)
  BY Zenon, <1>1, <1>2, <1>3 DEF Next
<1>5. j = <<dispatch[p], mem[p].steps[dispatch[p]].job>>
  BY Zenon, <1>4 DEF PublishStep
<1>6. j[1] = dispatch[p]
  BY <1>5
<1> QED BY Zenon, <1>4, <1>6

\* A job is submitted only for a run that is not over and a step whose
\* dependencies succeeded or were recovered, or a handler that was activated,
\* for every workflow and whatever fails or dies: depsSatisfied looks at the
\* handler's copy, and the job goes out one write of the document later.
THEOREM DispatchesAreDue == Spec => DispatchIsDue
<1> DEFINE Fine ==
      unlocked' = 0 => \A j \in submits' \ submits :
        /\ run.status \notin Terminal
        /\ \/ run.steps[j[1]].activated
           \/ \A d \in wf.deps[j[1]] :
                \/ StatusOf(run, d) = "succeeded"
                \/ walkOnErrorChain(wf, run, d) = "recovered"
<1>1. ASSUME LockedInv, DueInv, [Next]_vars PROVE Fine
  <2> SUFFICES ASSUME unlocked' = 0, NEW j \in submits' \ submits
               PROVE  run.status \notin Terminal /\ Due(wf, run, j[1])
    BY Zenon DEF Due, Met
  <2>1. RunInv /\ unlocked = 0
    BY Zenon, <1>1, LockedStep DEF LockedInv, RunInv
  <2>2. PICK p \in Replicas : PublishStep(p) /\ j[1] = dispatch[p]
    BY Zenon, <1>1, OnlyPublishSubmits
  <2>3. pc[p] = "publish"
    BY Zenon, <2>2 DEF PublishStep
  <2>4. run.status \notin Terminal
    BY Zenon, <2>1, <2>3 DEF RunInv, HandlerInv
  <2> QED BY Zenon, <1>1, <2>1, <2>2, <2>3, <2>4 DEF DueInv, PublishInv
<1>2. LockedInv /\ DueInv /\ [Next]_vars => [Fine]_vars
  BY Zenon, <1>1
<1> HIDE DEF Fine
<1>3. Spec => [][Fine]_vars
  BY <1>2, RunInvariant, DueInvariant, PTL DEF Spec
<1> QED BY <1>3 DEF Fine, DispatchIsDue
=============================================================================
