# TLA+ model of the Cordum job control plane

Cordum takes jobs from clients, asks a policy engine about each of them,
dispatches the allowed ones to workers over NATS, and carries their results
back to workflows. All state is in Redis; several replicas of each service work
on it at once, NATS delivers at least once, and any call may fail half way.
This directory models that core: the life of one job from submission to its
outcome, the approval it may need, the workflow run it belongs to, and the
locks and documents the gateway keeps. `PROJECT.json` lists every component,
run, theorem and hazard, and maps each definition to the lines it models.

## The system

| Part | State | Operations that change it | What makes it hard | What should hold |
|---|---|---|---|---|
| Job state machine (`core/model/job.go`, `job_store.go`) | state of a job | table of allowed transitions | many writers | terminal states are final |
| Runtime hash (`job_event_store.go`, `job_event_fence.go`, `job_runtime_state.go`) | state, fence, event digests, outbox | one Lua script each for migrate, transition, begin, roll back, apply, accept, cancel, acknowledge | late and repeated messages, expiry of the hash | only the newest dispatch lands, once |
| Job store calls (`job_store.go`, `job_event_projection.go`) | `job:meta`, state indexes | SetState, CancelJob, CancelAllJobAttempts, ProjectJobResult, each several round trips | interleaving between round trips | legacy keys follow the hash |
| Scheduler (`scheduler/engine.go`) | job lock, stream, DLQ | handleJobRequest, processJob, output check, cancel packets | redelivery, publish errors, crashes, attempts that run out | no duplicate dispatch, cancellation sticks |
| Job lock (withJobLock) | lock key with TTL | acquire, renew, release, fence | calls that time out after they took effect | bounded overlap |
| Result outbox and saga (`engine_durable_*.go`, `saga.go`) | effects, compensation stack | drain: project, saga, publish, DLQ, acknowledge | several replicas, a fault between any two steps | delivered before acknowledged, once and in order |
| Compatibility result path (`engine.go`, `engine_accepted_event.go`) | state, pointer, accepted events | handleJobResult, republication | redelivery after half a handler | applied once, pointer before outcome |
| Approvals (`job_store.go`, `handlers_approvals.go`, `scheduler/reconciler.go`, `pending_replayer.go`) | approval record, safety decision, labels, copies in the stream | approve, reject, repair, publish, replay, the scheduler's fast path | five records of one fact, a policy that changes, writers without the lock | a refusal stands, a decision is heard |
| Workflow engine (`core/workflow`) | run document, run lock | StartRun, HandleJobResult, CancelRun, scheduleReady, reconciler | one unversioned document, publishes around its writes | one live attempt, a run ends once |
| Steps with children (`engine.go`, `engine_steps_*.go`) | children in the run document | for_each, parallel, loop | children are published before the document is written | max_parallel, an earned success |
| Resource locks (`infra/locks`) | owners, mode, TTL | acquire, release, renew scripts | lost answers, late calls, shared lifetimes | an exclusive owner is alone |
| Pack installation (`handlers_packs.go`, `configsvc`) | config, policy and registry documents, topics, credentials | install, upgrade, uninstall, undo | locks that are not renewed, failures half way | no record is lost, an active pack is applied |
| NATS bus (`nats.go`) | streams, duplicate window | publish, deliver, ack, nak | duplicates, drops inside the window | at-least-once |
| Gateway (rest), policy evaluation, routing, audit chain, edge, MCP, dashboard, SDK, tools | - | request handling, evaluation and I/O | - | not modelled |

Submissions reach the scheduler on `sys.job.submit`. `handleJobRequest` takes
the job lock, skips a job that is past scheduling, and `processJob` decides:
fail, deny, ask for approval, complete a gate, requeue, or dispatch. A dispatch
writes SCHEDULED and DISPATCHED, fences the runtime hash with a fresh dispatch
id, publishes to the worker and writes RUNNING. The worker's signed result is
applied by one Lua script, which also puts an effect in the outbox. Every
replica drains the outbox: it projects the state to the legacy keys, runs the
saga, publishes the accepted result and acknowledges the effect. The workflow
engine takes the accepted result, moves the step it belongs to and submits the
jobs that are then due. A job that needs approval waits in the job store until
an operator decides at the gateway, which publishes it again.

## Modules

`JobStates` holds the states and the transition table.

`RuntimeFence` is the runtime hash of one job. Its variables are the fields of
the hash, plus two history variables: `issued`, the dispatch ids ever drawn, and
`applied`, the results that were committed. Each script is an action, and
because Redis runs a script atomically an action is the whole script. The
environment is unrestricted: any caller may run any script at any time with any
message of an issued dispatch, also one that is late, repeated or carries
another digest. `Expire` drops the hash. `DispatchLedger` is what the hash
promises: dispatches are numbered, at most the newest is live, only the live
one reports, and nothing follows an outcome. `RuntimeFence` implements it with
`live` and `landed` as refinement mapping.

`JobStore` adds `job:meta` (`meta`) and the state indexes (`indexed`), and
breaks the calls of the store into their round trips. A process in a call has
a program counter, the state it writes (`target`), what it read (`seen`) and
where it continues (`cont`). `JobDispatch` composes the store with the processes
that use it: handlers, outbox drainers, the asynchronous output check, a
canceller, the reconciler and the worker. `stream` is what the broker stored
and `dedupe` its duplicate window for the job. A handler may start at any time,
which covers redelivery and the pending replayer. `used` counts the faults and
interventions of each kind, and a budget bounds them together.

`JobLock` is `withJobLock` in discrete time. A call answers or fails within
`OpTimeout` and may fail after Redis executed it; the ticker fires every third
of the TTL; processes are prompt.

`ResultOutbox` is the outbox of a workflow's jobs with the saga, drained by
several replicas, any of which may meet an error or die at any step.
`CompatResult` is `handleCompatJobResult` for one result, with the bus that
redelivers it.

`Approvals` is one approval: operators at the gateway, the scheduler's handlers
with the fast path of `checkSafetyDecision`, the reconciler that repairs
without the lock, the replayer, and a policy that changes. Each store call is an
action; `mine` is what a process has read. The histories `granted`, `rejected`
and `admitted` are what the properties compare the records with.

`WorkflowSteps` holds the pure part of the workflow engine: dependencies,
handlers of failed steps, `updateRunStatus`, `applyResult` and retries.
`WorkflowRun` is one run: handlers of several processes that each load the
document into `mem`, pass over the steps, persist before they publish, and may
die in between; the reconciler; jobs as the engine sees them. `RunLifecycle` is
what a run promises: it ends once, and then submits nothing. `FanOut` is one
step with children, of any of the three kinds, with the handlers of the run one
at a time: its children, the pass that dispatches them, and `forgot`, which
counts the passes whose document was never written.

`LockStore` holds the three Lua scripts of the resource locks as operators on a
lock. `ResourceLocks` is one lock with the sessions that use it and what each
was told. `PackInstall` uses the same operators for the pack locks, and models
requests that write one store after the other; the write of each place is one
operator (`InstallWrite`, `UninstallWrite`), which the call that succeeds and the
call that fails after it has written have in common. `spoiled` says that something
happened after which overlays may differ from the registry.

The `MC` modules instantiate these for TLC. Operators marked "Mutant" are
plausible mistakes in the definition that follows them; each breaks the
property `PROJECT.json` pairs it with.

## Runs

| Run | Checks | Instance |
|---|---|---|
| `runtime_fence` | OnlyNewestDispatchLands, LateRollbackIsHarmless, EffectsAreCommittedResults, refinement of the ledger | 3 dispatches, 2 message ids; a dispatch can be superseded, rolled back and outlived by the hash's expiry |
| `job_dispatch` | NoDuplicateDispatch, RunningWasPublished, CancelSticks, LegacyAgrees, StepsRuntimeHash, TerminalIsFinal | 2 handlers, every decision, 2 dispatches, 2 drainers; the budgets `Races` |
| `job_lock` | OverlapIsBounded, OwnedUntilLastFailure, no deadlock | 2 handlers, 3 acquisitions, TTL of 9 call timeouts |
| `outbox` | AckedIsDelivered, DispatchedInPopOrder, AckedRollbackRan, EveryResultIsDelivered | 2 replicas, 2 successes and a fatal failure, one fault at any step |
| `compat_retries` | FencedAppliesOnce, PointerBeforeOutcome, FailureIsInDLQ | the result sent twice, 5 deliveries, 3 faults |
| `workflow_faults` | OneLiveAttempt, OutcomeIsTheJobs, SuccessIsQuiet, DispatchIsDue, KeepsLifecycle, RunEnds | 2 processes; 4 workflows of 3 steps with a crash, an error and a cancellation; one of 2 steps with a handler that has no lock |
| `fan_out` | LimitHolds, SuccessIsEarned, NoneLeftBehind, StepIsFinal, StepEnds | 13 steps: 3 for_each, 4 parallel, 3 loops and one of each with a condition; one error and mostly one crash; those with retries also with workers that ask for one |
| `approval_faults` | AdmittedWasGranted, PublishedMeansTold, RefusalIsFinal, DecisionIsHeard | 2 operators, a handler, reconciler and replayer, 2 policies, 2 requests, one delivery from the stream, one fault; the job is listed |
| `resource_locks` | ExclusiveIsAlone, LeaseIsKept, FreesItself, no deadlock | 3 sessions, lifetimes 1 and 2, 2 holds each |
| `pack_installs` | RecordsSurvive, ActiveIsApplied, SuccessIsWhole | 2 packs, 2 versions with one entry in common and one of their own, 2 requests, 2 faults |
| `quarantine_cancelled` | RuntimeTerminalIsFinal is violated | one handler, the output check and the service cancel |
| `foreach_partial` | EveryItemIsProcessed is violated | a for_each step of 2 items, one error |

`StepsRuntimeHash` says that a step of the scheduler moves the hash by one of
its scripts or not at all. What is proved of `RuntimeFence` under any caller
therefore holds of the scheduler's use of it; the statement itself is proved too.

A budget of `JobDispatch` says which troubles may meet in one behaviour:
a publish error with a crash and workers that ask for retries; the service
cancel of all attempts with overlapping drainers; the output check; CancelJob
with a timeout and a crash. Other combinations break some property, and the
properties name the condition: `TerminalIsFinal` assumes that no publish was
rolled back, excepts the cancellation of a quarantine, and for what GetState
answers assumes that neither a cancellation nor a timeout came in without the
lock; `CancelSticks` assumes that CancelJob did not come in and no publish was
rolled back; `NoDuplicateDispatch` assumes that no handler died, or that no
service cancel came in and no worker asked twice for a retry of one dispatch;
`LegacyAgrees` allows service cancels, output checks and replays only.
Disagreements below says what happens without each. With these conditions the
first three hold of every budget and not only of `Races`, which is proved.

In the same way `DispatchIsDue` and `KeepsLifecycle` speak of runs whose
handlers all had the lock, `SuccessIsEarned`, `NoneLeftBehind` and `StepIsFinal`
of steps without a condition none of whose passes was forgotten, `LeaseIsKept` of
sessions that ask for equal times, `DecisionIsHeard` of jobs the replayer is shown,
and `ActiveIsApplied` of packs under whose requests no lock expired, no undo was
cut short and no answer of a write was lost. `OneLiveAttempt`, `LimitHolds` and
`SuccessIsQuiet` leave out jobs that have asked for a retry. `RecordsSurvive` needs
no such condition. `SuccessIsQuiet` also depends on the workflow: those of the
run have switches whose branches wait for them.

The bounds are small on purpose. Two handlers are enough for the races on a
lock: it admits one holder, and a crash gives the second handler any state the
first can leave behind. Two dispatches are enough for redispatch, which only
compares the newest with an earlier one. One fault at any step, with everything
else interleaved freely, reaches every place where the code has done one thing
and not yet the next. A child beyond `max_parallel`, a retry and a required
number below the width give every comparison of the fan-out steps both answers.
Three steps let a workflow have a dependency, a handler and an unrelated step.
Deadlock is checked for the two locks. The other models may stop: a job, run or
request that is finished has nothing left to do, and bounds run out.

Every component's module has a type invariant (`TypeOK`, `StoreTypeOK`,
`FanOutTypeOK` and so on). They hold on the instances above and are no
properties of a run, since nearly all are proved: those of `RuntimeFence`,
`JobLock`, `ResourceLocks`, `JobDispatch`, `PackInstall` and `FanOut` as theorems
of their own, the others as far as the invariants below need them. The same is
true of `NothingLandsAfterOutcome`, `DigestsStayBound`, `OnlyOwnerReleases` and
`RunIsFinal`, which are proved and follow from what the runs check.

## Fairness

- `outbox`: weak fairness of each replica's drain.
  `startDurableJobEffectReconciler` drains at start and then every second for as
  long as the process lives. The fault may end any pass; the next one starts
  over.
- `workflow_faults`: weak fairness of a handler that holds a run and of the
  reconciler, which polls on a ticker; of the expiry of a dead holder's lock;
  of jobs, child runs, timers and the deadline, which end. Strong fairness of
  taking a result: the bus redelivers it until it is acknowledged, but the lock
  may be busy each time.
- `fan_out`: the same for its handlers, with StartRun for the reconciler.
- `approval_faults`: weak fairness of the steps of a request that was accepted,
  of the handlers and of the two tickers. Nobody has to send a request.
- `resource_locks`: weak fairness of time.

No fairness is assumed of a fault, of an operator, or of a worker's success.

## Proofs

Eight modules hold proofs that TLAPS checks. Together they state every safety
property of the runs but two, for every value of the constants: any number of
processes, jobs, steps, packs, attempts and faults, whatever the budgets. None of
the properties is inductive. Each proof has an invariant that says what a process
at each place has established, lemmas that the actions keep it, and the
properties as consequences. The assumptions are on the constants and stand in the
modules that declare them: processes of different kinds are different, a value
that stands for "nobody" or "absent" is none of the real ones, bounds are numbers
and inputs have their types.

`JobDispatchProofs`, the runtime hash and the scheduler.

- The hash alone, under any caller. `FenceInv` adds to the types that the fence,
  when there is one, is the newest dispatch (`FenceIsNewest`), that committed
  results belong to issued dispatches (`AppliedWereIssued`), and that a dispatch
  that reported an outcome and is still fenced leaves the job terminal
  (`OutcomeIsTerminal`). The last is why the transition table must never lead from
  a terminal to a live state, which is a lemma. From it follow
  OnlyNewestDispatchLands, NothingLandsAfterOutcome, LateRollbackIsHarmless,
  DigestsStayBound, EffectsAreCommittedResults and the refinement
  `HashImplementsLedger`. It assumes that the outcomes of a worker are among those
  of `stateForJobResult`.
- The scheduler. `HashInv` gives every process of `JobDispatch` what its call of
  a script needs, so every step is one of the hash's or leaves it
  (StepsRuntimeHash), and `FenceInv` carries over. `DispatchInv` is about the
  protocol around the scripts: only the holder of the lock is at work
  (`LockInv`), which calls each process makes and what was counted before it got
  there (`CallInv`, `UsedInv`), that RUNNING is written or read only after a
  publish (`RunningInv`), that a handler about to publish has begun the newest
  dispatch (`BeginInv`), that a cancellation that answers has cancelled
  (`CancelInv`), and that a dispatch on the stream that nothing ended keeps
  handleJobRequest from starting another (`MarkInv`, `OpenInv`). From it follow
  NoDuplicateDispatch, RunningWasPublished, CancelSticks and TerminalIsFinal.

`LockProofs`, the two locks.

- `JobLock`: the argument is about time. `Drift` bounds the ticks since Redis last
  wrote or extended a holder's key by the renewals that failed since, the position
  of the ticker and one call timeout. `TokensAreFresh` says that two handlers never
  hold one token. From both follow OverlapIsBounded, OwnedUntilLastFailure and
  OnlyOwnerReleases, for any timing in which two call timeouts are shorter than a
  third of the TTL. The code's constants satisfy this: the TTL is 60 s and a call
  gets 2 s.
- `ResourceLocks`: `LocksInv` adds to the types that what a session was told runs
  no longer than the time it asks for, and that the key backs what an exclusive
  owner was told (`Backed`), or what every owner was told when all ask for the same
  time. From it follow ExclusiveIsAlone and LeaseIsKept.

`ResultOutboxProofs`. Replicas do not coordinate, so `OutboxInv` says of each what
the steps it has taken with the effect in its hands have established
(`DeliveryInv`), of the saga that no compensation is twice on the stack or there
again once popped and that one replica rolls back at a time (`SagaInv`), and of a
fatal failure that everything it is owed is on the stack, in someone's hands,
dispatched or denied (`RollbackInv`). From it follow AckedIsDelivered,
DispatchedInPopOrder and AckedRollbackRan.

`CompatResultProofs`. `CompatInv`: the lock names the one handler inside it, the
fence accounts for the handler it let through and every outcome written, the
pointer comes before the state, and a failure is in the DLQ, on its way there, or
its entry or the answer of its state write failed. FencedAppliesOnce, PointerBeforeOutcome and FailureIsInDLQ follow.

`ApprovalsProofs`. `ApprovalInv` ties every copy of the labels and of the
approval record, in the store, in the stream and in the memory of each process,
to the history of what operators granted (`GoodLabels`, `GoodApproval`), says
what a process at each place has established (`Local`), and that a committed
rejection leaves the job DENIED. From it follow AdmittedWasGranted,
PublishedMeansTold and RefusalIsFinal.

`WorkflowRunProofs`, for every workflow.

- As long as every handler took the lock (`LockedInv` is `RunInv` under that
  condition): a handler that is not idle holds the lock, one in a pass has an
  active copy of a run that is not over, and one about to publish has persisted
  it. Mutual exclusion carries it: while one handler is in a pass nobody else ends
  the run. `RunIsFinal` and the refinement of `RunLifecycle` follow.
- Under the same condition, `DueInv`: a handler about to publish has a copy of the
  stored document in which the step is due, since depsSatisfied held of the copy it
  persisted and nobody writes before the publish. DispatchIsDue follows, because a
  handler that succeeded is the first on the chain walkOnErrorChain follows. It
  assumes that dependencies are steps, which validateDAG sees to, and that handlers
  are, which the model takes for granted.
- With or without the lock: `JobInv` says of the document, and of every handler's
  copy of it, how a step's status, job and attempts fit the jobs: an earlier
  attempt has ended or asked to be retried, and a step that is over is over as its
  job is, up to a quarantine. OneLiveAttempt
  and OutcomeIsTheJobs follow.

`FanOutProofs`, for steps of any width, limit, retries and required successes.
`FanOutInv` ties the handler's copy of the document to the jobs.

- `LimitInv`: a job that has not reported is the current job of a child that the copy calls running
  or has stopped (`Tracks`), or is in a set no larger than the errors plus the
  limit for each forgotten pass. The copy tracks at most the limit, because before
  the step is over a child that is not running has a job that reported (`Settled`).
  A handler that dies moves what its copy tracked into the set. LimitHolds follows.
- `WholeInv`, as long as nothing was forgotten and for a step without a condition:
  the children of a for_each or
  parallel step exist together, those of a loop one after the other, a step that
  is over has only children that are, and every job is of a child that exists. With
  `WorkInv`, that a child succeeds with a job of its own, SuccessIsEarned follows.
  Because the child of any known job is then over with its step, its result is
  ignored, which is StepIsFinal.
- `ToldInv`: a job that has not reported was told to stop or is that of a running child. Since
  nobody works on a step that is over (`PassInv`), NoneLeftBehind follows.

`PackInstallProofs`. `PackInv` says that a request whose copy of a document has
the document's revision has its content, so a write changes one pack only; that
as long as nothing was spoiled the request at work owns `packs:global` and is
alone; what it has applied and what its undo would put back; and that a pack
nobody works on has the entries of the version in the registry. Lemmas say which
entries each of the calls writes, so that a call that fails after it has written
is treated like the call. RecordsSurvive, ActiveIsApplied and
SuccessIsWhole follow.

Only model-checked:

- `LegacyAgrees`, which holds for the budgets of the run and not for all: several
  interventions of one kind that it allows can still leave the legacy keys behind.
- `SuccessIsQuiet`, which holds for the workflows and the trouble of the run and
  not for all (Disagreements has a workflow for which it fails).
- Every liveness property (`EveryResultIsDelivered`, `RunEnds`, `StepEnds`,
  `DecisionIsHeard`, `FreesItself`): fairness and ENABLED are beyond the prover.

## Disagreements

Two runs show that the code does something else than a comment says;
`PROJECT.json` quotes the lines.

- `quarantine_cancelled`: `cancelAllJobAttemptsScript` protects a state spelt
  QUARANTINED. The stored value is OUTPUT_QUARANTINED, so a cancellation
  overwrites it.
- `foreach_partial`: `scheduleReady` publishes the children's jobs and then
  writes the document that holds the children. When the write fails, the result
  of one item meets a document without children, and the step succeeds for that
  item alone.

The conditions and exceptions of the properties stand for further ones: TLC finds
them when the condition is dropped. Where an entry names no property, it is read
from the model's definition and the code. In the job's life:

- Rollback after a result: a publish that failed after the broker stored the
  message is rolled back over the worker's result, because
  `rollbackDispatchScript` does not look at the state (`job_event_store.go:28`).
  Hence `used.publish = 0` in `TerminalIsFinal`, and in `CancelSticks`: a handler
  that had read the job before it was cancelled fences it again, and the rollback
  of its dispatch makes the job SCHEDULED.
- Dead handler after its publish: one that dies between the publish and RUNNING
  relies on DISPATCHED being in the store. The cancellation of all attempts, or a
  second retry of the dispatch before, may have kept it from being written, and
  then the redelivered request is dispatched again. Hence the condition of
  `NoDuplicateDispatch`.
- Cancel against migration: `CancelJob` cancels `job:meta` between the two round
  trips of `migrateRuntimeFence`, which then makes the old state authoritative
  (`job_event_store.go:75`). Hence `used.job = 0` in `CancelSticks`. A denial can
  be overwritten the same way.
- Retry against RUNNING: a retryable failure that arrives before `processJob`
  writes RUNNING (`engine.go:2052`) leaves the job RUNNING on a dispatch that has
  reported. `RunningWasPublished` therefore does not say that a report is due.
- Redispatch inside the duplicate window: every dispatch of a job has the same
  broker message id (`nats.go:1244`). `RunningWasPublished` therefore allows an
  earlier dispatch in place of the current one.
- Quarantine against a second drainer: a replayed projection leaves SUCCEEDED in
  the legacy keys (`job_event_projection.go:21`). Hence output check and replay
  are in different budgets.
- Fence of the lock: `fenceCtx` is cancelled with the third failed renewal, by
  which time the key may be gone for up to two call timeouts.
  `OverlapIsBounded` is the exact statement.

In the delivery of results, the first two are what `broken` excepts in
`AckedRollbackRan`:

- `Rollback` pops a compensation before it publishes it. If the publish fails,
  the retry finds an empty stack and the effect is acknowledged.
- The saga lock of a dead replica reads as a rollback in progress, and the
  effect is acknowledged (`saga.go:217`).
- When `SetResultPtr` fails on the compatibility path, the handler asks for a
  retry, which `AcceptJobEvent` then drops as a duplicate: pointer and outcome
  are both missing.
- When its DLQ publish fails, or the state was written and the answer lost, the
  retry finds the job terminal and returns early (`engine.go:2469`): the two
  exceptions in `FailureIsInDLQ`. A quarantined result is then published with its
  original status.
- `recordDurableCompletion` counts in the memory of the replica, after the
  acknowledgement: a replica that dies in between, or whose acknowledgement took
  effect without an answer, leaves the completion uncounted. Hence `faults` in
  `AckedIsDelivered`.
- `handleCompatJobResult` publishes a result on the accepted subject also when
  the fence dropped it (`engine_accepted_event.go:16`).

In approvals: the comment at `handlers_approvals.go:1370` says that an approval
granted under one policy does not dispatch against the next without evaluation.
The fast path compares the grant's snapshot with the one stored in the safety
decision (`scheduler/engine.go:2310`), and not with the policy in force, so a
grant stays good until the reconciler or the policy's own check replaces that
decision. `AdmittedWasGranted` therefore speaks of a snapshot that was granted,
not of the current one. Replayer and reconciler look at the 200 oldest jobs of a
state (`pending_replayer.go:112`, `:162`, `:214`), and a job that was denied stays
in its index: when enough older ones are there, nobody repeats a rejection whose
gateway died. Hence `Listed` in `DecisionIsHeard`.

In workflow runs:

- `docs/horizontal-scaling.md:22` says that one replica at a time processes a
  run. The gateway builds its engine without a run locker (`gateway.go:634`), so
  its handler may write an older document over a cancelled run
  (`engine_state.go:290`). Hence `unlocked' = 0` in `RunIsFinal`, `DispatchIsDue`
  and `KeepsLifecycle`; the run has such a handler and shows what still holds.
- A worker step persisted as running whose handler died before the publish is
  not looked for by the reconciler (`DispatchLost` in `RunEnds`); only a
  workflow with a timeout ends.
- The documents describe `retry` for loop iterations
  (`docs/backend_capabilities.md:52`, `docs/workflow-step-types.md:872`). An
  iteration that waits to retry counts as active and is not dispatched again;
  and a for_each step whose last child failed to be dispatched is not aggregated,
  because `aggregateChildren` is called for results only
  (`workflow/engine.go:630`). Both are `Stalled` in `StepEnds`.
- A switch cancels the branches it does not take, also one that is running because
  it did not wait for the switch, and leaves its job alone (`workflow/engine.go:1332`).
  The run may succeed while the job is alive, against `SuccessIsQuiet`.
- A worker that answers FAILED_RETRYABLE makes the job RETRYING
  (`engine_durable_result.go:199`). The workflow engine takes the answer as the end
  of the attempt and plans the next one under another job id, but a redelivered
  submit, or one that was published twice, makes the scheduler dispatch the first
  job again (`scheduler/engine.go:1399`). Two attempts are then alive, beyond
  `max_parallel` too. Hence `again` in `OneLiveAttempt` and `SuccessIsQuiet`, and
  `LimitHolds` counts jobs that have not reported.
- The asynchronous output check quarantines a job whose success the engine has
  taken, and the step stays succeeded. Hence OUTPUT_QUARANTINED in
  `OutcomeIsTheJobs`.
- A sub-workflow step whose child run was created and then lost with the handler's
  copy creates another (`workflow/engine.go:1463`), and the first goes on.
  `SuccessIsQuiet` speaks of the child the document names.
- The condition of a step is asked again at every look, also at a fan-out step with
  children under way (`workflow/engine.go:885`). If it has become false, or cannot be
  evaluated, the step is over, nobody stops the children, and the late result of one
  opens a for_each or loop step again. Hence `gated` in the properties of `FanOut`.
- A loop goes on after an iteration was denied, and a pass that was forgotten can
  reopen a loop that had succeeded (`workflow/engine.go:625`).

In pack installation:

- `configsvc.Set` reports an error also when EXEC took effect and its answer was lost
  (`configsvc/service.go:120`). The undo does not know of that write: an upgrade
  that fails at the overlay leaves the new overlay under the old record, and one
  that fails at the registry leaves the pack ACTIVE while its overlays are put back.
  Hence the third exception in `ActiveIsApplied`.
- The topics of a failed upgrade are deleted, not put back, and the credential is
  revoked (`handlers_packs.go:351`). `ActiveIsApplied` therefore speaks of overlay
  and fragments only.
- An upgrade leaves the entries only the earlier version had, and an uninstall
  removes those of the version on record: what an upgrade wrote that died before
  its record, or what an earlier version alone had, stays for good. Hence
  `WhollyGone` speaks of the version on record.
- A purge drops the errors of its deletes (`handlers_packs.go:427`), so `WhollyGone`
  does not mention schemas and workflows.

## What is abstracted

- `JobDispatch` has one job. The tenant's concurrency limit needs two and is not
  modelled. Safety checks, routing and constraints are the choice of a decision.
  Reads of the store do not fail there, and `SetStateWithContext` is atomic: it is
  one WATCH transaction, which is not repeated on a conflict, so a call that meets
  one is the call that failed. A `BeginDispatch` that reports an error has not
  fenced the job, and every dispatch is fenced: a subject that names no worker, for
  which the code skips the fence (`engine.go:1990`), is left out. No property reads
  `deadLetter` of that module.
- Fence fields of jobs dispatched before the upgrade are not migrated: the
  legacy side of the model holds a state only. The hash expires in
  `RuntimeFence` only.
- DLQ entries for worker failures are in `ResultOutbox`; those the scheduler
  emits itself are in `JobDispatch`.
- In `JobLock` a call that timed out does not take effect later. The saga lock,
  which has two minutes and is not renewed, does not expire under a rollback that
  runs; it may stay behind after one.
- In `LockStore` time is discrete. releaseScript gives 30 seconds to a key that has
  less than a millisecond left (`redis_store.go:306`), which is not there.
- `CompatResult` leaves out the end of redelivery after 100 deliveries, the saga
  calls and the output check of the handler, and results without a pointer.
- `Approvals` has a safety client that fails closed. Permissions, batches and
  notifications are left out: they change none of the records.
- `WorkflowRun` has the data of steps as choices: a condition holds or not, a
  switch takes a branch, an inline step succeeds or fails. Worker, approval,
  inline, delay, switch and sub-workflow steps are there; steps with children
  are in `FanOut`, where the rest of the run only decides whether the run is over,
  handlers come one at a time, and other steps do not write in the middle of a
  pass. Cancelling the run, its timeout and late quarantines are in `WorkflowRun`
  only: `job` of `FanOut` is the state before a quarantine. How jobs end is part of
  a budget, so that not every outcome meets every other trouble.
  The reconciler looks at the 200 newest runs of each status (`store_redis.go:626`):
  `RunEnds` and `StepEnds` are about runs among them. An on_error handler that does not exist, which validateDAG accepts, is
  not modelled.
- `PackInstall` counts the schemas and workflows of a pack as one resource and
  has one overlay of each kind, which is a set of named entries, as are the topics.
  A version has some of the names and writes its own content to them. Names of
  different packs do not clash. A write of the undo that takes effect without an
  answer is the write that did not fail.

## Not modelled

The models cover the part of the repository where several actors change shared
state under faults. The definitions map about 9,400 of its 211,000 lines, which
is 4%. Most of the rest is user interface, SDK, generated messages, wiring,
request parsing, evaluation of one request at a time, and I/O. The components of
`PROJECT.json` give the reason for each. The parts nearest to the models, in the
order they are worth adding:

1. `RerunFrom` and the run quotas of the workflow engine, which create runs.
2. The composition of `ResultOutbox` with `WorkflowRun`; now the second takes
   from the bus what the first is shown to put there.
3. The bus's idempotency guard and the termination of a message after its last
   delivery; the tenant's concurrency limit with two jobs.
4. The circuit breaker's shared counters and the audit chain.
5. Routing and policy evaluation, as pure algorithms against a reference.
