---------------------------- MODULE JobDispatch ----------------------------
(***************************************************************************)
(* The life of one job in the production scheduler: handlers of the submit *)
(* subject that schedule, fence and publish it under the job lock, the     *)
(* worker that reports on the dispatches it received, the outbox drainer,  *)
(* the asynchronous output check, cancellation and the reconciler's        *)
(* timeouts.  All of them share the job store and interleave between any   *)
(* two of its round trips.                                                 *)
(*                                                                         *)
(* A handler may start at any time: NATS delivers a submit message at      *)
(* least once, and the pending replayer calls the same handler.            *)
(***************************************************************************)
EXTENDS JobStore

CONSTANTS
  Decisions,   \* what processJob may decide before it dispatches
  NoHandler,   \* the job lock is free
  Budgets      \* which faults and interventions may meet in one behaviour:
               \* each budget bounds how often every kind of them occurs

\* publish: a call of the handler that returns an error.  crash: a handler dies.
\* job: CancelJob.  attempts: the service cancel of all attempts.  timeout: a pass
\* of the reconciler that picks the job up.  audit: an output check that
\* quarantines.  retry: a worker that asks for a retry.  replay: an outbox
\* drainer that starts while another one is at work.
Kinds == {"publish", "crash", "job", "attempts", "timeout", "audit", "retry", "replay"}

ASSUME BudgetsAssumption == Budgets \subseteq [Kinds -> Nat]
ASSUME NoHandlerAssumption == NoHandler \notin Procs

VARIABLES
  lock,       \* holder of the job lock
  disp,       \* the dispatch each handler began: [id, attempt]
  stream,     \* ids of the dispatches stored in the jobs stream
  draining,   \* the effect each drainer is processing
  auditDue,   \* a success was handed to the asynchronous output check
  dedupe,     \* the broker's duplicate window holds this job's message id
  rolledBack, \* history: dispatches RollbackDispatch revoked
  cancelled,  \* history: a cancellation answered CANCELLED
  deadLetter, \* the scheduler put the job in the DLQ (entries for worker
              \* failures are in ResultOutbox)
  used        \* how much of each bound was used

scheduler ==
  <<lock, disp, stream, dedupe, draining, auditDue, rolledBack, cancelled,
    deadLetter, used>>
all == <<vars, legacy, calls, scheduler>>

Use(k) ==
  /\ used' = [used EXCEPT ![k] = @ + 1]
  /\ \E budget \in Budgets : \A c \in Kinds : used'[c] <= budget[c]

DispatchInit ==
  /\ StoreInit
  /\ lock = NoHandler
  /\ disp = [h \in Handlers |-> [id |-> 0, attempt |-> 0]]
  /\ stream = {}
  /\ dedupe = FALSE
  /\ draining = [d \in Drainers |-> NoMessage]
  /\ auditDue = FALSE
  /\ rolledBack = {}
  /\ cancelled = FALSE
  /\ deadLetter = FALSE
  /\ used = [k \in Kinds |-> 0]

\* The types of the scheduler's state, and its numbering: the stream holds, and
\* a rollback names, only dispatches that BeginDispatch has issued.
DispatchTypeOK ==
  /\ StoreTypeOK
  /\ lock \in Handlers \cup {Auditor, NoHandler}
  /\ stream \subseteq 1..issued
  /\ rolledBack \subseteq 1..issued
  /\ used \in [Kinds -> Nat]

-----------------------------------------------------------------------------
(* handleJobRequest and processJob                                         *)

\* withJobLock.
Acquire(h) ==
  /\ pc[h] = "idle" /\ lock = NoHandler
  /\ lock' = h
  /\ Goto(h, "read")
  /\ Stay
  /\ UNCHANGED <<vars, legacy, disp, stream, dedupe, rolledBack, cancelled,
                 used, draining, auditDue, deadLetter>>

\* The states whose redelivery emits the DLQ entry again.
DeadLettered == {"DENIED", "FAILED"}

\* Mutant: a redelivery does not stop at DISPATCHED.
ReadStateRunningOnly(h) ==
  /\ pc[h] = "read"
  /\ \/ /\ GetState \in {"RUNNING"} \cup terminalStates
        /\ Goto(h, IF GetState \in DeadLettered THEN "dlq" ELSE "release")
        /\ Stay
     \/ /\ GetState = NoState
        /\ CallSetState(h, "PENDING", "decide")
     \/ /\ isActiveState(GetState) /\ GetState # "RUNNING"
        /\ Goto(h, "decide") /\ Stay
  /\ UNCHANGED <<vars, legacy, scheduler>>

ReadState(h) ==
  /\ pc[h] = "read"
  /\ \/ /\ GetState \in AwaitingWorker \cup terminalStates
        /\ Goto(h, IF GetState \in DeadLettered THEN "dlq" ELSE "release")
        /\ Stay
     \/ /\ GetState = NoState
        /\ CallSetState(h, "PENDING", "decide")
     \/ /\ isActiveState(GetState) /\ GetState \notin AwaitingWorker
        /\ Goto(h, "decide") /\ Stay
  /\ UNCHANGED <<vars, legacy, scheduler>>

\* What processJob may decide before it dispatches.  A job is failed for an
\* unknown topic, a schema violation, exhausted retries, a bad delegation or
\* a dispatch error; a failure or denial ends with an entry in the DLQ.
FailJob(h) == CallSetState(h, "FAILED", "dlq")
DenyJob(h) == CallSetState(h, "DENIED", "dlq")
RequireApproval(h) == CallSetState(h, "APPROVAL_REQUIRED", "release")

\* An approval gate is completed without a worker.
CompleteGate(h) == CallSetState(h, "SUCCEEDED", "release")

\* Throttled, over a limit, or no worker: the message comes back later.
Requeue(h) == Goto(h, "release") /\ Stay

ChooseWorker(h) ==
  issued < MaxIssued /\ CallSetState(h, "SCHEDULED", "scheduled")

Decide(h) ==
  /\ pc[h] = "decide"
  /\ \/ "dispatch" \in Decisions /\ ChooseWorker(h)
     \/ "approval" \in Decisions /\ RequireApproval(h)
     \/ "deny"     \in Decisions /\ DenyJob(h)
     \/ "fail"     \in Decisions /\ FailJob(h)
     \/ "gate"     \in Decisions /\ CompleteGate(h)
     \/ "requeue"  \in Decisions /\ Requeue(h)
  /\ UNCHANGED <<vars, legacy, scheduler>>

\* emitDLQWithRetry.  When it fails the message is redelivered and finds the
\* job terminal.
EmitDLQ(h) ==
  /\ pc[h] = "dlq"
  /\ \/ deadLetter' = TRUE /\ UNCHANGED used
     \/ Use("publish") /\ UNCHANGED deadLetter
  /\ Goto(h, "release")
  /\ Stay
  /\ UNCHANGED <<vars, legacy, lock, disp, stream, dedupe, rolledBack,
                 cancelled, draining, auditDue>>

MarkDispatched(h) ==
  /\ pc[h] = "scheduled"
  /\ CallSetState(h, "DISPATCHED", "begin")
  /\ UNCHANGED <<vars, legacy, scheduler>>

BeginMigrate(h) ==
  /\ \/ MigrateRead(h, "begin", "begin_migrate")
     \/ MigrateWrite(h, "begin_migrate", "fence")
  /\ UNCHANGED scheduler

BeginFence(h) ==
  /\ pc[h] = "fence"
  /\ \E w \in Workers, t \in Tenants : BeginDispatch(w, t)
  /\ disp' = [disp EXCEPT ![h] = [id |-> issued', attempt |-> attempt']]
  /\ Goto(h, "publish")
  /\ Stay
  /\ UNCHANGED <<legacy, lock, stream, dedupe, rolledBack, cancelled, used,
                 draining, auditDue, deadLetter>>

\* BeginDispatch returns an error: back to SCHEDULED, the message is retried.
BeginFails(h) ==
  /\ pc[h] \in {"begin", "begin_migrate", "fence"}
  /\ Use("publish")
  /\ CallSetState(h, "SCHEDULED", "release")
  /\ UNCHANGED <<vars, legacy, lock, disp, stream, dedupe, rolledBack,
                 cancelled, draining, auditDue, deadLetter>>

\* Mutant: a publish that failed is taken for one that succeeded.
PublishUnchecked(h) ==
  /\ pc[h] = "publish"
  /\ \E stored \in BOOLEAN :
       /\ stored => ~dedupe
       /\ stream' = IF stored THEN stream \cup {disp[h].id} ELSE stream
       /\ dedupe' = (dedupe \/ stored)
  /\ CallSetState(h, "RUNNING", "release")
  /\ UNCHANGED <<vars, legacy, lock, disp, rolledBack, cancelled, used,
                 draining, auditDue, deadLetter>>

\* publishWithTrace.  The jobs stream drops a message whose id it holds in
\* its duplicate window and still acknowledges the publish; every dispatch
\* of a job has the message id jobreq:<job id>.  An error may come before or
\* after the broker stored the message.
Publish(h) ==
  /\ pc[h] = "publish"
  /\ \E stored, failed \in BOOLEAN :
       /\ stored => ~dedupe
       /\ ~stored => dedupe \/ failed
       /\ stream' = IF stored THEN stream \cup {disp[h].id} ELSE stream
       /\ dedupe' = (dedupe \/ stored)
       /\ \/ /\ failed
             /\ Use("publish")
             /\ Goto(h, "rollback") /\ Stay
          \/ /\ ~failed
             /\ CallSetState(h, "RUNNING", "release")
             /\ UNCHANGED used
  /\ UNCHANGED <<vars, legacy, lock, disp, rolledBack, cancelled, draining,
                 auditDue, deadLetter>>

rollbackFailedDispatch(h) ==
  /\ pc[h] = "rollback"
  /\ \/ /\ RollbackDispatch(disp[h].id, disp[h].attempt)
        /\ rolledBack' = rolledBack \cup {disp[h].id}
        /\ CallSetState(h, "SCHEDULED", "release")
     \/ /\ live # disp[h].id
        /\ Goto(h, "release") /\ Stay
        /\ UNCHANGED <<vars, rolledBack>>
  /\ UNCHANGED <<legacy, lock, disp, stream, dedupe, cancelled, used,
                 draining, auditDue, deadLetter>>

Release(h) ==
  /\ pc[h] \in {"release", "failed"}
  /\ lock' = NoHandler
  /\ Goto(h, "idle")
  /\ Stay
  /\ UNCHANGED <<vars, legacy, disp, stream, dedupe, rolledBack, cancelled,
                 used, draining, auditDue, deadLetter>>

\* The replica dies; its lock stays until the TTL of the lock key.
Crash(h) ==
  /\ pc[h] # "idle"
  /\ Use("crash")
  /\ Goto(h, "idle")
  /\ Stay
  /\ UNCHANGED <<vars, legacy, lock, disp, stream, dedupe, rolledBack,
                 cancelled, draining, auditDue, deadLetter>>

LockExpires ==
  /\ lock # NoHandler /\ pc[lock] = "idle"
  /\ lock' = NoHandler
  /\ UNCHANGED <<vars, legacy, calls, disp, stream, dedupe, rolledBack,
                 cancelled, used, draining, auditDue, deadLetter>>

Handle(h) ==
  \/ Acquire(h) \/ ReadState(h) \/ Decide(h) \/ EmitDLQ(h)
  \/ MarkDispatched(h)
  \/ BeginMigrate(h) \/ BeginFence(h) \/ BeginFails(h) \/ Publish(h)
  \/ rollbackFailedDispatch(h) \/ Release(h) \/ Crash(h)

\* The broker forgets the message id two minutes after it stored it.
DedupeWindowCloses ==
  /\ dedupe /\ dedupe' = FALSE
  /\ UNCHANGED <<vars, legacy, calls, lock, disp, stream, rolledBack,
                 cancelled, used, draining, auditDue, deadLetter>>

-----------------------------------------------------------------------------
(* The worker, the outbox, the output check, cancellation, timeouts        *)

\* handleProductionJobResult and handleProductionWorkerCancel: a report on a
\* dispatch the worker received, applied without the job lock.
WorkerReports ==
  /\ \E m \in Deliverable :
       /\ m.id \in stream /\ m.attempt = m.id /\ ApplyJobResult(m)
       /\ IF m.reports = "RETRYING" THEN Use("retry") ELSE UNCHANGED used
  /\ UNCHANGED <<legacy, calls, lock, disp, stream, dedupe, draining, auditDue,
                 rolledBack, cancelled, deadLetter>>

\* drainPendingJobEffects and processDurableJobEffect: project the effect,
\* start the asynchronous output check of a success, acknowledge.  Any number
\* of drainers may have listed the effect; only one of them acknowledges it.
DrainStart(d) ==
  /\ pc[d] = "idle"
  /\ \E mid \in MessageIds :
       /\ effects[mid] # NoMessage
       /\ CallProject(d, effects[mid].reports, "projected")
       /\ draining' = [draining EXCEPT ![d] = effects[mid]]
  /\ IF \E e \in Drainers : pc[e] # "idle" THEN Use("replay") ELSE UNCHANGED used
  /\ UNCHANGED <<vars, legacy, lock, disp, stream, dedupe, auditDue,
                 rolledBack, cancelled, deadLetter>>

DrainChecks(d) ==
  /\ pc[d] = "projected"
  /\ auditDue' = (auditDue \/ draining[d].reports = "SUCCEEDED")
  /\ Goto(d, "ack") /\ Stay
  /\ UNCHANGED <<vars, legacy, lock, disp, stream, dedupe, draining,
                 rolledBack, cancelled, used, deadLetter>>

DrainAck(d) ==
  /\ pc[d] = "ack"
  /\ \/ AckJobEffect(draining[d])
     \/ effects[draining[d].mid] = NoMessage /\ UNCHANGED vars
  /\ Goto(d, "idle") /\ Stay
  /\ UNCHANGED <<legacy, scheduler>>

\* The output check decides to quarantine and takes the job lock.
AuditStart ==
  /\ pc[Auditor] = "idle" /\ lock = NoHandler
  /\ auditDue
  /\ Use("audit")
  /\ lock' = Auditor
  /\ Goto(Auditor, "read") /\ Stay
  /\ UNCHANGED <<vars, legacy, disp, stream, dedupe, draining, auditDue,
                 rolledBack, cancelled, deadLetter>>

AuditRead ==
  /\ pc[Auditor] = "read"
  /\ \/ /\ GetState = "SUCCEEDED"
        /\ CallSetState(Auditor, "OUTPUT_QUARANTINED", "dlq")
     \/ /\ GetState # "SUCCEEDED"
        /\ Goto(Auditor, "release") /\ Stay
  /\ UNCHANGED <<vars, legacy, scheduler>>

CancelStart ==
  /\ pc[Canceller] = "idle"
  /\ \/ Use("job") /\ CallCancelJob(Canceller, "cancelled")
     \/ Use("attempts") /\ CallCancelAllAttempts(Canceller, "cancelled")
  /\ UNCHANGED <<vars, legacy, lock, disp, stream, dedupe, rolledBack,
                 cancelled, draining, auditDue, deadLetter>>

CancelReturns ==
  /\ pc[Canceller] = "cancelled"
  /\ cancelled' = (cancelled \/ target[Canceller] = "CANCELLED")
  /\ Goto(Canceller, "idle") /\ Stay
  /\ UNCHANGED <<vars, legacy, lock, disp, stream, dedupe, rolledBack, used,
                 draining, auditDue, deadLetter>>

\* handleTimeouts lists the job from a state index, handleDeadlineExpirations
\* from the deadline index, which holds it while job:meta is not terminal.
\* Neither looks at the job again before it writes TIMEOUT.
TimeoutListed ==
  /\ pc[Reconciler] = "idle"
  /\ \/ indexed \cap {"SCHEDULED", "DISPATCHED", "RUNNING"} # {}
     \/ isActiveState(meta)
  /\ Use("timeout")
  /\ CallSetState(Reconciler, "TIMEOUT", "idle")
  /\ UNCHANGED <<vars, legacy, lock, disp, stream, dedupe, rolledBack,
                 cancelled, draining, auditDue, deadLetter>>

TimeoutRefused ==
  /\ pc[Reconciler] = "failed"
  /\ Goto(Reconciler, "idle") /\ Stay
  /\ UNCHANGED <<vars, legacy, scheduler>>

DispatchNext ==
  \/ \E h \in Handlers : Handle(h)
  \/ \E p \in Procs : StoreStep(p) /\ UNCHANGED scheduler
  \/ LockExpires \/ DedupeWindowCloses \/ WorkerReports
  \/ \E d \in Drainers : DrainStart(d) \/ DrainChecks(d) \/ DrainAck(d)
  \/ AuditStart \/ AuditRead \/ EmitDLQ(Auditor) \/ Release(Auditor)
  \/ CancelStart \/ CancelReturns
  \/ TimeoutListed \/ TimeoutRefused

DispatchSpec == DispatchInit /\ [][DispatchNext]_all

-----------------------------------------------------------------------------
Retried(id) == \E m \in applied : m.id = id /\ m.reports = "RETRYING"

\* A worker asks for a retry of a dispatch once.
AsksOnce ==
  \A m, n \in applied :
    m.id = n.id /\ m.reports = "RETRYING" /\ n.reports = "RETRYING" => m = n

\* handleJobRequest returns early for a job that is dispatched or running:
\* redelivery and crashes never put a job on the workers' stream twice, a
\* second dispatch is published only after the publish of the first one failed
\* and was rolled back, or after its worker asked for a retry.  A handler that
\* dies between the publish and RUNNING leaves the state to what stopped it from
\* being DISPATCHED: the cancellation of all attempts while it still has to
\* overwrite the stale state it migrated, or a second retry of the old dispatch.
NoDuplicateDispatch ==
  used.crash = 0 \/ (used.attempts = 0 /\ AsksOnce) =>
    \A i, j \in stream : i < j => i \in rolledBack \/ Retried(i)

\* No cancellation and no timeout, which take no job lock, met the job.
OnlyLockedWriters == used.job + used.attempts + used.timeout = 0

Quarantined(from, to) == from = "SUCCEEDED" /\ to = "OUTPUT_QUARANTINED"
QuarantineCancelled(from, to) == from = "OUTPUT_QUARANTINED" /\ to = "CANCELLED"

\* A terminal state is final, except that a success may still be quarantined,
\* as long as no publish is rolled back: in the runtime hash whoever writes,
\* unless the cancel script, which does not know it, cancels a quarantine; in
\* what GetState answers as long as only the holders of the job lock and the
\* workers write.
TerminalIsFinal ==
  [][used.publish = 0 =>
       /\ state \in terminalStates =>
            \/ state' = state
            \/ Quarantined(state, state') \/ QuarantineCancelled(state, state')
       /\ GetState \in terminalStates /\ OnlyLockedWriters =>
            GetState' = GetState \/ Quarantined(GetState, GetState')]_all

\* transitionRuntimeState, the result, rollback and cancel scripts all write
\* the runtime hash: whichever race, a terminal state there is final, as long as
\* no publish fails and is rolled back.
RuntimeTerminalIsFinal ==
  [][(state \in terminalStates /\ used.publish = 0) =>
       state' = state \/ Quarantined(state, state')]_all

\* The cancellation of all attempts cancels a job that is not terminal: when it
\* answered CANCELLED, the job stays cancelled, unless a handler fences it again
\* and rolls its dispatch back.
CancelSticks == cancelled /\ used.job = 0 /\ used.publish = 0 => GetState = "CANCELLED"

\* processJob writes RUNNING after a publish that returned no error: the jobs
\* stream holds the dispatch the fence waits for, or an earlier one of the job
\* because of which the broker took this one for a duplicate.
RunningWasPublished ==
  state = "RUNNING" /\ fence # NoFence => \E i \in stream : i <= live

\* Every call has returned and the outbox is empty.
Quiet ==
  /\ \A p \in Procs : pc[p] = "idle"
  /\ \A mid \in MessageIds : effects[mid] = NoMessage

\* ProjectJobResult and SetState project the runtime hash: when all is quiet,
\* job:meta and the state indexes say what the runtime hash says, whatever
\* service cancels, output checks and replays met.  An error, a crash, CancelJob,
\* a timeout or a retry can leave them behind.
LegacyAgrees ==
  Quiet /\ state # NoState /\ (\A k \in Kinds \ {"attempts", "audit", "replay"} : used[k] = 0)
    => meta = state /\ indexed = {state}

\* Every step of the scheduler, the store and the workers moves the runtime
\* hash by one of its scripts or leaves it, so what holds of the hash under
\* any caller holds under this one.
StepsRuntimeHash == Spec
=============================================================================
