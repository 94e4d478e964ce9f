----------------------------- MODULE Approvals -----------------------------
(***************************************************************************)
(* The approval of one job: operators who approve, reject or repair it     *)
(* through the gateway, the scheduler's handler that checks it against the *)
(* policy each time its request is delivered or replayed, the scheduler's  *)
(* reconciler that repairs approvals without the job lock, the replayer    *)
(* that finishes what a dead gateway left unpublished, cancellation,       *)
(* expiry, and a policy that changes under all of them.                    *)
(*                                                                         *)
(* Five records of the job store describe the same approval: the state,    *)
(* the safety decision, the approval record, the labels of the stored      *)
(* request and the copies of that request in the submit stream.  Each      *)
(* store call is atomic (a WATCH/MULTI transaction or one HSET); between   *)
(* two calls anything may happen.                                          *)
(*                                                                         *)
(* The request's payload never changes, so the request hash always agrees: *)
(* reqhash strips the labels and the injected configuration.               *)
(***************************************************************************)
EXTENDS Integers, JobStates

CONSTANTS
  Operators,        \* requests to the gateway that may be at work
  Handlers,         \* scheduler handlers of the submit subject
  Reconciler,       \* the scheduler replica that reconciles
  Replayer,         \* the scheduler replica that replays rejections
  NoOne,            \* the job lock is free
  NoSnapshot,       \* no approval_snapshot label
  MaxPolicies,      \* bound on policy snapshots
  MaxRequests,      \* bound on requests of operators
  Listed,           \* the job is among the 200 oldest of its state, which is
                    \* as far as a pass of the replayer or the reconciler looks
  MaxDeliveries,    \* bound on deliveries from the submit stream
  MaxFaults         \* bound on crashes, failed calls and publishes, expired
                    \* locks, absent workers, cancellations and deadlines

ASSUME ApprovalsAssumption ==
  /\ NoOne \notin Operators \cup Handlers
  /\ Reconciler \notin Operators \cup Handlers
  /\ Replayer \notin Operators \cup Handlers
  /\ Listed \in BOOLEAN
  /\ MaxPolicies \in Nat \ {0}
  /\ NoSnapshot \notin 1..MaxPolicies

VARIABLES
  gate,     \* the job is a workflow's approval gate
  state,    \* state of the job
  safety,   \* the safety decision: does it ask for approval, and which policy
  approval, \* the approval record
  labels,   \* approval labels of the stored request
  stream,   \* the copies of the request in the submit stream
  policy,   \* the policy in force and what it says of this job
  runOver,  \* the workflow run of the job is over
  lock,     \* holder of the job lock
  pc, mine, \* what each process does next, and what it has read
  told,     \* notices published: DLQ entry, denied result, success result
  granted,  \* history: the snapshots an operator approved under
  rejected, \* history: an operator's rejection was committed
  admitted, \* history: how the job got past the safety check, under which policy
  used      \* how much of each bound was used

records == <<gate, state, safety, approval, labels>>
history == <<told, granted, rejected, admitted>>
vars == <<records, stream, policy, runOver, lock, pc, mine, history, used>>

Processes == Operators \cup Handlers \cup {Reconciler, Replayer}
Snapshots == 1..MaxPolicies
Labels == [granted : BOOLEAN, snapshot : Snapshots \cup {NoSnapshot}]
Verdicts == {"allow", "require", "deny"}
Targets == {"", "submit", "dlq", "dlq_and_result"}

Bound == [request |-> MaxRequests, delivery |-> MaxDeliveries, fault |-> MaxFaults]

Use(b) == used[b] < Bound[b] /\ used' = [used EXCEPT ![b] = @ + 1]

Plain == [granted |-> FALSE, snapshot |-> NoSnapshot]

Fresh == [status |-> "pending", decision |-> "", revision |-> 1,
          publish |-> "", target |-> ""]

\* What a process keeps between two store calls: the records it read or wrote,
\* the policy snapshot it was told, the repair it planned and the state it
\* planned it for; replay: the replayer of pending jobs called the handler.
Nothing == [approval |-> Fresh, labels |-> Plain, snapshot |-> NoSnapshot,
            plan |-> "none", planned |-> NoState, replay |-> FALSE]

\* The scheduler gated the job, and its message may be delivered again.  (For a
\* job the gateway gated at submission there is no message yet: it behaves
\* like one whose message is never delivered again.)
ApprovalInit ==
  /\ gate \in BOOLEAN
  /\ state = "APPROVAL_REQUIRED"
  /\ safety = [required |-> TRUE, snapshot |-> 1]
  /\ approval = Fresh
  /\ labels = Plain
  /\ stream = {Plain}
  /\ policy = [snapshot |-> 1, verdict |-> "require"]
  /\ runOver = FALSE
  /\ lock = NoOne
  /\ pc = [p \in Processes |-> "idle"]
  /\ mine = [p \in Processes |-> Nothing]
  /\ told = {} /\ granted = {} /\ rejected = FALSE /\ admitted = {}
  /\ used = [b \in DOMAIN Bound |-> 0]

Goto(p, l) == pc' = [pc EXCEPT ![p] = l]
Keep(p, m) == mine' = [mine EXCEPT ![p] = m]

\* The handler returns; ReleaseLock compares the token.
Finish(p) ==
  /\ Goto(p, "idle")
  /\ Keep(p, Nothing)
  /\ lock' = IF lock = p THEN NoOne ELSE lock

HasPendingPublish(a) == a.publish = "pending" /\ a.target # ""

Awaiting == state = "APPROVAL_REQUIRED"

-----------------------------------------------------------------------------
(* The job store                                                           *)

\* SetSafetyDecision.  A decision that asks for approval also writes the
\* approval fields; an empty decision is not written, and the publish fields
\* stay.
SetSafetyDecision(required, snapshot, a) ==
  /\ safety' = [required |-> required, snapshot |-> snapshot]
  /\ approval' = IF required
                 THEN [approval EXCEPT !.status = a.status, !.revision = a.revision,
                         !.decision = IF a.decision = "" THEN @ ELSE a.decision]
                 ELSE approval

\* The conditions ResolveApproval verifies inside its transaction.
Resolvable == Awaiting /\ approval.status = "pending"

Resolved(status, decision, target) ==
  [status |-> status, decision |-> decision, revision |-> approval.revision + 1,
   publish |-> IF target = "" THEN "" ELSE "pending", target |-> target]

\* Mutant: the mark does not compare the target it was called for.
MarkAnyTarget(p) ==
  approval' = IF /\ approval.revision = mine[p].approval.revision
                 /\ approval.target # ""
              THEN [approval EXCEPT !.publish = "published"]
              ELSE approval

\* MarkApprovalPublishComplete, for the revision and the target p published.
MarkApprovalPublishComplete(p) ==
  approval' = IF /\ approval.revision = mine[p].approval.revision
                 /\ approval.target = mine[p].approval.target
                 /\ approval.target # ""
              THEN [approval EXCEPT !.publish = "published"]
              ELSE approval

\* The stored decision names another policy than the one it is compared with.
Drifted(snapshot) == safety.snapshot # NoSnapshot /\ safety.snapshot # snapshot

ClassifyApprovalRepair(over, stale) ==
  IF ~Awaiting
  THEN IF HasPendingPublish(approval) THEN "replay" ELSE "none"
  ELSE IF approval.decision = "approve" \/ approval.status = "approved" \/ labels.granted
       THEN "approved"
  ELSE IF approval.decision = "reject" \/ approval.status = "rejected"
       THEN "rejected"
  ELSE IF over \/ stale THEN "invalidate" ELSE "none"

RejectTarget == IF gate THEN "dlq_and_result" ELSE "dlq"

\* Mutant: a repair stamps the policy of the stored decision on the request.
RepairedStamped(plan) ==
  /\ state' = IF plan = "approved" THEN "PENDING" ELSE "DENIED"
  /\ approval' = IF plan = "approved" THEN Resolved("approved", "approve", "submit")
                 ELSE IF plan = "rejected"
                 THEN Resolved("rejected", "reject", RejectTarget)
                 ELSE Resolved("invalidated", "invalidate", "")
  /\ labels' = [labels EXCEPT !.granted = @ \/ plan = "approved",
                              !.snapshot = IF plan = "approved" THEN safety.snapshot ELSE @]

\* What ApplyApprovalRepair writes for a plan that resolves the approval.
Repaired(plan) ==
  /\ state' = IF plan = "approved" THEN "PENDING" ELSE "DENIED"
  /\ approval' = IF plan = "approved" THEN Resolved("approved", "approve", "submit")
                 ELSE IF plan = "rejected"
                 THEN Resolved("rejected", "reject", RejectTarget)
                 ELSE Resolved("invalidated", "invalidate", "")
  /\ labels' = [labels EXCEPT !.granted = @ \/ plan = "approved"]

\* Mutant: the repair does not compare the state it was planned for.
RepairAnyState(p) == mine[p].plan # "replay" /\ Repaired(mine[p].plan)

\* ApplyApprovalRepair fails when the state is not the one it was planned for.
Repair(p) ==
  /\ mine[p].plan # "replay" /\ state = mine[p].planned
  /\ Repaired(mine[p].plan)

-----------------------------------------------------------------------------
(* The gateway: one request of an operator, under the job lock             *)

\* withApprovalLock, for handleApproveJob, handleRejectJob, handleRepairApproval.
Begin(o, request) ==
  /\ pc[o] = "idle" /\ lock = NoOne
  /\ Use("request")
  /\ lock' = o
  /\ Goto(o, request)
  /\ UNCHANGED <<records, stream, policy, runOver, mine, history>>

\* The early returns of handleApproveJob: already resolved, a finished run,
\* or a safety record that asks for no approval.
ApproveRead(o) ==
  /\ pc[o] = "approve"
  /\ \/ /\ Awaiting /\ ~runOver /\ safety.required
        /\ Keep(o, [Nothing EXCEPT !.approval = approval, !.snapshot = safety.snapshot])
        /\ Goto(o, IF gate THEN "recheck" ELSE "list")
        /\ UNCHANGED lock
     \/ ~(Awaiting /\ ~runOver /\ safety.required) /\ Finish(o)
  /\ UNCHANGED <<records, stream, policy, runOver, history, used>>

\* ListSnapshots: has the policy changed since the job was gated?
ApproveList(o) ==
  /\ pc[o] = "list"
  /\ Keep(o, [mine[o] EXCEPT !.snapshot = policy.snapshot])
  /\ Goto(o, IF policy.snapshot = mine[o].snapshot THEN "recheck" ELSE "evaluate")
  /\ UNCHANGED <<records, stream, policy, runOver, lock, history, used>>

\* The current policy is asked again; what it says replaces the decision.
ApproveEvaluate(o) ==
  /\ pc[o] = "evaluate"
  /\ \/ /\ policy.verdict # "deny"
        /\ SetSafetyDecision(policy.verdict = "require", mine[o].snapshot,
                             [mine[o].approval EXCEPT !.revision = @ + 1])
        /\ Goto(o, "recheck")
        /\ UNCHANGED <<mine, lock>>
     \/ policy.verdict = "deny" /\ Finish(o) /\ UNCHANGED <<safety, approval>>
  /\ UNCHANGED <<gate, state, labels, stream, policy, runOver, history, used>>

ApproveRecheck(o) ==
  /\ pc[o] = "recheck"
  /\ \/ ~runOver /\ Goto(o, "grant") /\ UNCHANGED <<mine, lock>>
     \/ runOver /\ Finish(o)
  /\ UNCHANGED <<records, stream, policy, runOver, history, used>>

Conflict(o) ==
  /\ ~Resolvable
  /\ Finish(o)
  /\ UNCHANGED <<records, history>>

\* ResolveApproval with the decision approve.
Grant(o) ==
  /\ pc[o] = "grant"
  /\ \/ /\ Resolvable
        /\ state' = "PENDING"
        /\ safety' = [safety EXCEPT !.snapshot = mine[o].snapshot]
        /\ approval' = Resolved("approved", "approve", "submit")
        /\ labels' = [granted |-> TRUE, snapshot |-> mine[o].snapshot]
        /\ granted' = granted \cup {mine[o].snapshot}
        /\ Keep(o, [mine[o] EXCEPT !.approval = approval', !.labels = labels'])
        /\ Goto(o, "submit")
        /\ UNCHANGED <<gate, lock, told, rejected, admitted>>
     \/ Conflict(o)
  /\ UNCHANGED <<stream, policy, runOver, used>>

RejectRead(o) ==
  /\ pc[o] = "reject"
  /\ \/ Awaiting /\ ~runOver /\ Goto(o, "refuse") /\ UNCHANGED <<mine, lock>>
     \/ ~(Awaiting /\ ~runOver) /\ Finish(o)
  /\ UNCHANGED <<records, stream, policy, runOver, history, used>>

\* ResolveApproval with the decision reject.
Refuse(o) ==
  /\ pc[o] = "refuse"
  /\ \/ /\ Resolvable
        /\ state' = "DENIED"
        /\ approval' = Resolved("rejected", "reject", RejectTarget)
        /\ rejected' = TRUE
        /\ Keep(o, [mine[o] EXCEPT !.approval = approval'])
        /\ Goto(o, "dlq")
        /\ UNCHANGED <<gate, safety, labels, lock, told, granted, admitted>>
     \/ Conflict(o)
  /\ UNCHANGED <<stream, policy, runOver, used>>

\* handleRepairApproval: inspect, and apply what the plan says.  The gateway
\* does not hold a policy change against a gate.
Inspect(o) ==
  /\ pc[o] = "repair"
  /\ LET plan == ClassifyApprovalRepair(runOver, ~gate /\ Drifted(policy.snapshot))
     IN \/ /\ plan # "none"
           /\ Keep(o, [Nothing EXCEPT !.plan = plan, !.planned = state])
           /\ Goto(o, "apply")
           /\ UNCHANGED lock
        \/ plan = "none" /\ Finish(o)
  /\ UNCHANGED <<records, stream, policy, runOver, history, used>>

\* Where the publish of an approval record starts.
Publish(target) ==
  IF target = "submit" THEN "submit" ELSE IF target = "" THEN "return" ELSE "dlq"

\* A replay publishes what the record says now and writes nothing.
Apply(o) ==
  /\ pc[o] = "apply"
  /\ \/ /\ mine[o].plan # "replay" /\ Repair(o)
        /\ Keep(o, [mine[o] EXCEPT !.approval = approval', !.labels = labels'])
        /\ Goto(o, Publish(approval'.target))
        /\ UNCHANGED <<gate, safety, lock>>
     \/ /\ mine[o].plan = "replay" /\ state = mine[o].planned
        /\ Keep(o, [mine[o] EXCEPT !.approval = approval, !.labels = labels])
        /\ Goto(o, Publish(approval.target))
        /\ UNCHANGED <<records, lock>>
     \/ state # mine[o].planned /\ Finish(o) /\ UNCHANGED records
  /\ UNCHANGED <<stream, policy, runOver, history, used>>

Return(o) ==
  /\ pc[o] = "return"
  /\ Finish(o)
  /\ UNCHANGED <<records, stream, policy, runOver, history, used>>

-----------------------------------------------------------------------------
(* Publishing what was decided                                             *)

\* The submit stream drops a message whose id it has seen, and every message
\* of an approval carries the same id.
PublishSubmit(p) ==
  /\ pc[p] = "submit"
  /\ \/ stream' = stream \cup {mine[p].labels}
     \/ (\E m \in stream : m.granted) /\ UNCHANGED stream
  /\ Goto(p, "mark")
  /\ UNCHANGED <<records, policy, runOver, lock, mine, history, used>>

PublishDLQ(p) ==
  /\ pc[p] = "dlq"
  /\ told' = told \cup {"dlq"}
  /\ Goto(p, IF mine[p].approval.target = "dlq_and_result" THEN "result" ELSE "mark")
  /\ UNCHANGED <<records, stream, policy, runOver, lock, mine, granted, rejected,
                 admitted, used>>

PublishResult(p) ==
  /\ pc[p] = "result"
  /\ told' = told \cup {"result"}
  /\ Goto(p, "mark")
  /\ UNCHANGED <<records, stream, policy, runOver, lock, mine, granted, rejected,
                 admitted, used>>

\* The publish intent stays pending; the replayer or a repair finishes it.
PublishFails(p) ==
  /\ pc[p] \in {"submit", "dlq", "result"}
  /\ Use("fault")
  /\ Finish(p)
  /\ UNCHANGED <<records, stream, policy, runOver, history>>

Mark(p) ==
  /\ pc[p] = "mark"
  /\ MarkApprovalPublishComplete(p)
  /\ Finish(p)
  /\ UNCHANGED <<gate, state, safety, labels, stream, policy, runOver, history, used>>

\* replayRejected: no lock, and the record is read before it is published.  It
\* lists the oldest DENIED jobs, most of which stay in that index for good.
ReplayRejected ==
  /\ pc[Replayer] = "idle" /\ Listed
  /\ state = "DENIED" /\ HasPendingPublish(approval)
  /\ approval.target # "submit"
  /\ Keep(Replayer, [Nothing EXCEPT !.approval = approval])
  /\ Goto(Replayer, "dlq")
  /\ UNCHANGED <<records, stream, policy, runOver, lock, history, used>>

-----------------------------------------------------------------------------
(* The scheduler: handleJobRequest and the replayer that calls it          *)

\* A copy of the request is delivered, for the first time or again.
Deliver(h) ==
  /\ pc[h] = "idle"
  /\ \E m \in stream : Keep(h, [Nothing EXCEPT !.labels = m, !.replay = FALSE])
  /\ Use("delivery")
  /\ Goto(h, "lock")
  /\ UNCHANGED <<records, stream, policy, runOver, lock, history>>

\* Mutant: only jobs that still await approval are replayed.
ReplayApprovedOnly(h) ==
  /\ pc[h] = "idle" /\ Listed
  /\ Awaiting /\ labels.granted
  /\ Keep(h, [Nothing EXCEPT !.labels = labels])
  /\ Goto(h, "lock")
  /\ UNCHANGED <<records, stream, policy, runOver, lock, history, used>>

\* replayPending and replayApproved read the stored request.
Replay(h) ==
  /\ pc[h] = "idle" /\ Listed
  /\ state = "PENDING" \/ (Awaiting /\ labels.granted)
  /\ Keep(h, [Nothing EXCEPT !.labels = labels, !.replay = (state = "PENDING")])
  /\ Goto(h, "lock")
  /\ UNCHANGED <<records, stream, policy, runOver, lock, history, used>>

\* withJobLock.
HandlerLock(h) ==
  /\ pc[h] = "lock" /\ lock = NoOne
  /\ lock' = h
  /\ Goto(h, "read")
  /\ UNCHANGED <<records, stream, policy, runOver, mine, history, used>>

\* handleJobRequest returned no error: replayPending goes on from there.
Done(h) ==
  IF mine[h].replay THEN Goto(h, "replayed") /\ UNCHANGED <<mine, lock>> ELSE Finish(h)

\* A job that is beyond approval is left alone.  Otherwise the stored request
\* is replaced by the copy that was delivered, labels included.
HandlerRead(h) ==
  /\ pc[h] = "read"
  /\ \/ state \in terminalStates \cup AwaitingWorker /\ Done(h) /\ UNCHANGED labels
     \/ /\ state \notin terminalStates \cup AwaitingWorker
        /\ labels' = mine[h].labels
        /\ Goto(h, "check")
        /\ UNCHANGED <<mine, lock>>
  /\ UNCHANGED <<gate, state, safety, approval, stream, policy, runOver, history, used>>

\* The label says the job was approved, the stored decision asked for that
\* approval, and both name the same policy; a gate names none.
FastPath(h) ==
  /\ mine[h].labels.granted
  /\ safety.required
  /\ gate \/ /\ mine[h].labels.snapshot # NoSnapshot
             /\ mine[h].labels.snapshot = safety.snapshot

\* checkSafetyDecision: the fast path, or what the kernel answers under the
\* policy in force.  It may throttle the job, or not answer at all.
Decide(h) ==
  /\ pc[h] = "check"
  /\ \/ /\ FastPath(h)
        /\ Keep(h, [mine[h] EXCEPT !.plan = "fast", !.snapshot = safety.snapshot])
        /\ UNCHANGED used
     \/ /\ ~FastPath(h)
        /\ Keep(h, [mine[h] EXCEPT !.plan = policy.verdict, !.snapshot = policy.snapshot])
        /\ UNCHANGED used
     \/ /\ ~FastPath(h)
        /\ \E s \in {NoSnapshot, policy.snapshot} :
             Keep(h, [mine[h] EXCEPT !.plan = "retry", !.snapshot = s])
        /\ Use("fault")
  /\ Goto(h, "record")
  /\ UNCHANGED <<records, stream, policy, runOver, lock, history>>

\* The decision is stored whatever it is; a fast path uses the approval up.
Record(h) ==
  /\ pc[h] = "record"
  /\ SetSafetyDecision(mine[h].plan = "require", mine[h].snapshot, Fresh)
  /\ \/ mine[h].plan = "retry" /\ Finish(h)
     \/ mine[h].plan # "retry" /\ Goto(h, "outcome") /\ UNCHANGED <<mine, lock>>
  /\ UNCHANGED <<gate, state, labels, stream, policy, runOver, history, used>>

\* setJobState.  A refused transition is an error: the message comes back.
SetState(h, to) ==
  \/ isAllowedTransition(state, to) /\ state' = to /\ Done(h)
  \/ ~isAllowedTransition(state, to) /\ Finish(h) /\ UNCHANGED state

\* The policy asks for approval, or denies the job.
Withhold(h) ==
  /\ pc[h] = "outcome" /\ mine[h].plan \in {"require", "deny"}
  /\ SetState(h, IF mine[h].plan = "deny" THEN "DENIED" ELSE "APPROVAL_REQUIRED")
  /\ UNCHANGED <<gate, safety, approval, labels, stream, policy, runOver, history, used>>

Admissible(h) == pc[h] = "outcome" /\ mine[h].plan \in {"fast", "allow"}

NewlyAdmitted(h) == admitted \cup {[by |-> mine[h].plan, snapshot |-> mine[h].snapshot]}

\* A job other than a gate goes to a worker (JobDispatch has the details) ...
Admit(h) ==
  /\ Admissible(h) /\ ~gate
  /\ SetState(h, "DISPATCHED")
  /\ admitted' = IF state' = "DISPATCHED" THEN NewlyAdmitted(h) ELSE admitted
  /\ UNCHANGED <<gate, safety, approval, labels, stream, policy, runOver, told,
                 granted, rejected, used>>

\* ... or finds none: the message is acknowledged and the job stays.
NoWorker(h) ==
  /\ Admissible(h) /\ ~gate
  /\ Use("fault")
  /\ Done(h)
  /\ UNCHANGED <<records, stream, policy, runOver, history>>

\* A gate's success is published to its workflow ...
GateResult(h) ==
  /\ Admissible(h) /\ gate
  /\ \/ /\ told' = told \cup {"success"}
        /\ admitted' = NewlyAdmitted(h)
        /\ Goto(h, "complete")
        /\ UNCHANGED <<mine, lock, used>>
     \/ Use("fault") /\ Finish(h) /\ UNCHANGED <<told, admitted>>
  /\ UNCHANGED <<records, stream, policy, runOver, granted, rejected>>

\* ... and then the gate is over.
GateComplete(h) ==
  /\ pc[h] = "complete"
  /\ SetState(h, "SUCCEEDED")
  /\ UNCHANGED <<gate, safety, approval, labels, stream, policy, runOver, history, used>>

\* replayPending, after the handler gave the lock back: a pending publish to
\* the submit subject counts as done.
Replayed(h) ==
  /\ pc[h] = "replayed"
  /\ \/ /\ HasPendingPublish(approval) /\ approval.target = "submit"
        /\ Keep(h, [Nothing EXCEPT !.approval = approval])
        /\ Goto(h, "mark")
        /\ lock' = IF lock = h THEN NoOne ELSE lock
     \/ ~(HasPendingPublish(approval) /\ approval.target = "submit") /\ Finish(h)
  /\ UNCHANGED <<records, stream, policy, runOver, history, used>>

-----------------------------------------------------------------------------
(* The scheduler's reconciler: no job lock                                 *)

\* handleApprovalRepairs reads the policy once per sweep ...
Sweep ==
  /\ pc[Reconciler] = "idle" /\ Awaiting /\ Listed
  /\ Keep(Reconciler, [Nothing EXCEPT !.snapshot = policy.snapshot])
  /\ Goto(Reconciler, "inspect")
  /\ UNCHANGED <<records, stream, policy, runOver, lock, history, used>>

\* ... then inspects each job that awaits approval, gates included ...
SweepInspect ==
  /\ pc[Reconciler] = "inspect"
  /\ LET plan == ClassifyApprovalRepair(FALSE, Drifted(mine[Reconciler].snapshot))
     IN \/ /\ Awaiting /\ plan # "none"
           /\ Keep(Reconciler, [mine[Reconciler] EXCEPT !.plan = plan, !.planned = state])
           /\ Goto(Reconciler, "apply")
           /\ UNCHANGED lock
        \/ ~(Awaiting /\ plan # "none") /\ Finish(Reconciler)
  /\ UNCHANGED <<records, stream, policy, runOver, history, used>>

\* ... and applies the plan; the replayer publishes what it leaves pending.
SweepApply ==
  /\ pc[Reconciler] = "apply"
  /\ \/ Repair(Reconciler) /\ UNCHANGED <<gate, safety>>
     \/ state # mine[Reconciler].planned /\ UNCHANGED records
  /\ Finish(Reconciler)
  /\ UNCHANGED <<stream, policy, runOver, history, used>>

-----------------------------------------------------------------------------
(* What happens around them                                                *)

PolicyChanges ==
  /\ policy.snapshot < MaxPolicies
  /\ \E v \in Verdicts : policy' = [snapshot |-> policy.snapshot + 1, verdict |-> v]
  /\ UNCHANGED <<records, stream, runOver, lock, pc, mine, history, used>>

RunEnds ==
  /\ ~runOver
  /\ Use("fault")
  /\ runOver' = TRUE
  /\ UNCHANGED <<records, stream, policy, lock, pc, mine, history>>

\* CancelJob, or the reconciler's deadline: neither takes the job lock.
Ending ==
  /\ state \in {"PENDING", "APPROVAL_REQUIRED"}
  /\ Use("fault")
  /\ state' \in {"CANCELLED", "TIMEOUT"}
  /\ UNCHANGED <<gate, safety, approval, labels, stream, policy, runOver, lock, pc,
                 mine, history>>

\* A process dies, or a store call of it fails and it gives up.
Crash(p) ==
  /\ pc[p] # "idle"
  /\ Use("fault")
  /\ Finish(p)
  /\ UNCHANGED <<records, stream, policy, runOver, history>>

\* withApprovalLock does not renew its lock.
LockExpires(o) ==
  /\ lock = o
  /\ Use("fault")
  /\ lock' = NoOne
  /\ UNCHANGED <<records, stream, policy, runOver, pc, mine, history>>

OperatorStep(o) ==
  \/ ApproveRead(o) \/ ApproveList(o) \/ ApproveEvaluate(o) \/ ApproveRecheck(o)
  \/ Grant(o) \/ RejectRead(o) \/ Refuse(o) \/ Inspect(o) \/ Apply(o) \/ Return(o)
  \/ PublishSubmit(o) \/ PublishDLQ(o) \/ PublishResult(o) \/ Mark(o)

HandlerStep(h) ==
  \/ HandlerRead(h) \/ Decide(h) \/ Record(h) \/ Withhold(h) \/ Admit(h)
  \/ GateResult(h) \/ GateComplete(h) \/ Replayed(h) \/ Mark(h)

ReconcilerStep == Sweep \/ SweepInspect \/ SweepApply

ReplayerStep ==
  \/ ReplayRejected
  \/ PublishDLQ(Replayer) \/ PublishResult(Replayer) \/ Mark(Replayer)

Next ==
  \/ \E o \in Operators :
       \/ \E r \in {"approve", "reject", "repair"} : Begin(o, r)
       \/ OperatorStep(o) \/ LockExpires(o)
  \/ \E h \in Handlers :
       Deliver(h) \/ Replay(h) \/ HandlerLock(h) \/ HandlerStep(h) \/ NoWorker(h)
  \/ ReconcilerStep \/ ReplayerStep
  \/ \E p \in Processes : PublishFails(p) \/ Crash(p)
  \/ PolicyChanges \/ RunEnds \/ Ending

Spec == ApprovalInit /\ [][Next]_vars

\* A request that was accepted is handled to its end, and the scheduler's
\* tickers and handlers run; nobody is obliged to send a request.
Fairness ==
  /\ \A o \in Operators : WF_vars(OperatorStep(o))
  /\ \A h \in Handlers :
       WF_vars(Replay(h)) /\ WF_vars(HandlerLock(h)) /\ WF_vars(HandlerStep(h))
  /\ WF_vars(ReconcilerStep) /\ WF_vars(ReplayerStep)

FairSpec == Spec /\ Fairness

-----------------------------------------------------------------------------
(* Properties                                                              *)

ApprovalRecords ==
  [status : {"pending", "approved", "rejected", "invalidated"},
   decision : {"", "approve", "reject", "invalidate"}, revision : Nat,
   publish : {"", "pending", "published"}, target : Targets]

Places ==
  {"idle", "approve", "reject", "repair", "list", "evaluate", "recheck", "grant",
   "refuse", "apply", "return", "submit", "dlq", "result", "mark", "lock", "read",
   "check", "record", "outcome", "complete", "replayed", "inspect"}

Plans == Verdicts \cup {"none", "fast", "retry", "replay", "approved", "rejected",
                       "invalidate"}

Memory ==
  [approval : ApprovalRecords, labels : Labels, snapshot : Snapshots \cup {NoSnapshot},
   plan : Plans, planned : JobState \cup {NoState}, replay : BOOLEAN]

\* Every record has its type, and a publish intent has a target.
ApprovalTypeOK ==
  /\ gate \in BOOLEAN /\ state \in JobState
  /\ safety \in [required : BOOLEAN, snapshot : Snapshots \cup {NoSnapshot}]
  /\ approval \in ApprovalRecords
  /\ (approval.publish = "") = (approval.target = "")
  /\ labels \in Labels /\ stream \subseteq Labels
  /\ policy \in [snapshot : Snapshots, verdict : Verdicts]
  /\ runOver \in BOOLEAN /\ rejected \in BOOLEAN
  /\ lock \in Operators \cup Handlers \cup {NoOne}
  /\ pc \in [Processes -> Places] /\ mine \in [Processes -> Memory]
  /\ granted \subseteq Snapshots
  /\ told \subseteq {"dlq", "result", "success"}

\* checkSafetyDecision's fast path admits a job without asking the policy only
\* under a policy an operator approved it under; a gate, only after an approval.
AdmittedWasGranted ==
  \A a \in admitted : a.by = "fast" =>
    granted # {} /\ (gate \/ a.snapshot \in granted)

\* A rejection that ResolveApproval committed stands: whatever is redelivered,
\* replayed, repaired or was being handled, the job stays DENIED and goes to no
\* worker.
RefusalIsFinal ==
  [][rejected => state' = "DENIED" /\ (gate \/ admitted' = admitted)]_vars

\* A rejection is marked published only after every notice its target names was
\* published, although the re-gating of a job starts its revisions again.
PublishedMeansTold ==
  /\ approval.publish = "published" /\ approval.target \in {"dlq", "dlq_and_result"}
       => "dlq" \in told
  /\ approval.publish = "published" /\ approval.target = "dlq_and_result"
       => "result" \in told

\* A committed rejection reaches the DLQ, and a gate's workflow, although the
\* gateway that committed it dies or cannot publish.
RejectionIsTold ==
  Listed /\ rejected ~> ("dlq" \in told /\ (gate => "result" \in told))

\* A job approved under the policy in force gets past the scheduler, although
\* its message is lost, no worker is there at first and the approval is used up
\* by the first look at it: unless the policy moves on or a copy of the request
\* without the approval is delivered again.
GrantIsHeard ==
  (Listed /\ state = "PENDING" /\ labels = [granted |-> TRUE, snapshot |-> policy.snapshot])
    ~> \/ state \notin {"PENDING", "APPROVAL_REQUIRED"}
       \/ labels # [granted |-> TRUE, snapshot |-> policy.snapshot]

\* Every committed decision gets to where it takes effect, whoever dies between
\* ResolveApproval and the publish: a refusal is told, a grant is heard, provided
\* that ListJobsByState lists the job to the replayer that has to repeat it.
DecisionIsHeard == RejectionIsTold /\ GrantIsHeard
=============================================================================
