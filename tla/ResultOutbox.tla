---------------------------- MODULE ResultOutbox ----------------------------
(***************************************************************************)
(* The durable outbox of committed results and the saga it drives, for the *)
(* jobs of one workflow.  ApplyJobResult commits a result with its effect. *)
(* Every replica drains the effects: after each result it handles, and     *)
(* once a second.  An effect is projected, handed to the saga, published   *)
(* as accepted, put in the dead letter queue if it is a failure, and only  *)
(* then acknowledged; an error abandons the pass and the next one starts   *)
(* over.  Replicas do not coordinate.                                      *)
(*                                                                         *)
(* In the saga a success pushes its compensation on the workflow's stack,  *)
(* once per job; a fatal failure pops and dispatches the compensations     *)
(* under a lock without owner token.                                       *)
(***************************************************************************)
EXTENDS Naturals, Sequences, SequencesExt

CONSTANTS
  Jobs,       \* the jobs of the workflow, each with a compensation
  Fatal,      \* the jobs that report FAILED_FATAL; the others succeed
  Replicas,   \* one drainer per replica
  MaxFaults   \* bound on calls that return an error, replicas that die and
              \* compensations the safety kernel denies

ASSUME OutboxAssumption ==
  /\ Fatal \subseteq Jobs
  /\ MaxFaults \in Nat

VARIABLES
  committed,   \* jobs whose result was committed
  pending,     \* jobs whose effect is in the outbox
  todo,        \* the effects a replica listed and has not processed
  step,        \* what a replica does next with the first of them
  popped,      \* the compensations a replica took off the stack
  projected,   \* jobs whose legacy keys carry the result
  recorded,    \* set saga:{wf}:recorded
  stack,       \* list saga:{wf}:stack
  locked,      \* key saga:{wf}:lock exists
  dispatched,  \* compensations published to the submit subject, in order
  denied,      \* compensations skipped by the safety kernel
  accepted,    \* jobs published on the accepted-result subject
  deadLetters, \* jobs with an entry in the dead letter queue
  completions, \* how often the completion of a job was counted
  owed,        \* history: compensations on the stack when a result committed
  taken,       \* history: compensations in the order they were popped
  broken,      \* history: a fault ended a rollback or left its lock behind
  faults

saga == <<recorded, stack, locked, dispatched, denied, taken, popped, broken>>
sinks == <<projected, accepted, deadLetters, completions>>
ovars == <<committed, pending, owed, todo, step, saga, sinks, faults>>

Steps == {"idle", "project", "saga", "pop", "dispatch", "publish", "failure",
          "ack", "count"}

\* The types of the outbox, and the order of its writes: effects, deliveries
\* and dead letters only of committed results, and on the compensation stack
\* only jobs that RecordCompensation also put in the recorded set.
OutboxTypeOK ==
  /\ pending \subseteq committed /\ committed \subseteq Jobs
  /\ todo \in [Replicas -> Seq(Jobs)] /\ step \in [Replicas -> Steps]
  /\ popped \in [Replicas -> Seq(Jobs)]
  /\ \A r \in Replicas : step[r] # "idle" => todo[r] # <<>>
  /\ projected \cup accepted \cup deadLetters \subseteq committed
  /\ ToSet(stack) \subseteq recorded /\ recorded \subseteq Jobs \ Fatal
  /\ locked \in BOOLEAN
  /\ broken \in BOOLEAN /\ faults \in 0..MaxFaults

OutboxInit ==
  /\ committed = {} /\ pending = {}
  /\ owed = [j \in Jobs |-> {}]
  /\ todo = [r \in Replicas |-> <<>>]
  /\ step = [r \in Replicas |-> "idle"]
  /\ popped = [r \in Replicas |-> <<>>]
  /\ recorded = {} /\ stack = <<>> /\ locked = FALSE
  /\ dispatched = <<>> /\ denied = {} /\ taken = <<>>
  /\ projected = {} /\ accepted = {} /\ deadLetters = {}
  /\ completions = [j \in Jobs |-> 0]
  /\ broken = FALSE /\ faults = 0

Job(r) == Head(todo[r])
At(r, s) == step[r] = s
Goto(r, s) == step' = [step EXCEPT ![r] = s]
Fault == faults < MaxFaults /\ faults' = faults + 1

-----------------------------------------------------------------------------
\* ApplyJobResult: state and effect in one script, once per result.
ApplyJobResult(j) ==
  /\ j \notin committed
  /\ committed' = committed \cup {j}
  /\ pending' = pending \cup {j}
  /\ owed' = [owed EXCEPT ![j] = ToSet(stack)]
  /\ UNCHANGED <<todo, step, saga, sinks, faults>>

\* drainPendingJobEffects: SCAN and HGETALL list the effects in any order.
PendingJobEffects(r) ==
  /\ At(r, "idle") /\ pending # {}
  /\ \E listing \in SetToSeqs(pending) : todo' = [todo EXCEPT ![r] = listing]
  /\ Goto(r, "project")
  /\ UNCHANGED <<committed, pending, owed, saga, sinks, faults>>

ProjectJobResult(r) ==
  /\ At(r, "project")
  /\ projected' = projected \cup {Job(r)}
  /\ Goto(r, "saga")
  /\ UNCHANGED <<committed, pending, owed, todo, saga, accepted, deadLetters,
                 completions, faults>>

\* recordCompensationScript: SADD, and LPUSH when it was new.
RecordCompensation(r) ==
  /\ At(r, "saga") /\ Job(r) \notin Fatal
  /\ recorded' = recorded \cup {Job(r)}
  /\ stack' = IF Job(r) \in recorded THEN stack ELSE <<Job(r)>> \o stack
  /\ Goto(r, "publish")
  /\ UNCHANGED <<committed, pending, owed, todo, locked, dispatched, denied,
                 taken, popped, broken, sinks, faults>>

\* Mutant: the answer of SETNX is ignored.
RollbackUnlocked(r) ==
  /\ At(r, "saga") /\ Job(r) \in Fatal
  /\ locked' = TRUE
  /\ Goto(r, "pop")
  /\ UNCHANGED <<committed, pending, owed, todo, recorded, stack, dispatched,
                 denied, taken, popped, broken, sinks, faults>>

\* Rollback takes the lock, or leaves the work to whoever holds it.
Rollback(r) ==
  /\ At(r, "saga") /\ Job(r) \in Fatal
  /\ locked' = TRUE
  /\ Goto(r, IF locked THEN "publish" ELSE "pop")
  /\ UNCHANGED <<committed, pending, owed, todo, recorded, stack, dispatched,
                 denied, taken, popped, broken, sinks, faults>>

\* popCompensation; an empty stack ends the rollback, whose DEL of the lock is
\* best effort.
popCompensation(r) ==
  /\ At(r, "pop")
  /\ \/ /\ stack # <<>>
        /\ popped' = [popped EXCEPT ![r] = <<Head(stack)>>]
        /\ taken' = Append(taken, Head(stack))
        /\ stack' = Tail(stack)
        /\ Goto(r, "dispatch")
        /\ UNCHANGED <<locked, broken, faults>>
     \/ /\ stack = <<>>
        /\ \/ locked' = FALSE /\ UNCHANGED <<broken, faults>>
           \/ Fault /\ broken' = TRUE /\ UNCHANGED locked
        /\ Goto(r, "publish")
        /\ UNCHANGED <<popped, taken, stack>>
  /\ UNCHANGED <<committed, pending, owed, todo, recorded, dispatched, denied,
                 sinks>>

\* Mutant: a compensation that cannot be published is dropped silently.
DispatchDropped(r) ==
  /\ At(r, "dispatch")
  /\ \/ dispatched' = dispatched \o popped[r]
     \/ UNCHANGED dispatched
  /\ popped' = [popped EXCEPT ![r] = <<>>]
  /\ Goto(r, "pop")
  /\ UNCHANGED <<committed, pending, owed, todo, recorded, stack, locked,
                 denied, taken, broken, sinks, faults>>

\* dispatchCompensation: a denied one is skipped, the others are published.
dispatchCompensation(r) ==
  /\ At(r, "dispatch")
  /\ \/ /\ dispatched' = dispatched \o popped[r]
        /\ UNCHANGED <<denied, faults>>
     \/ /\ Fault
        /\ denied' = denied \cup ToSet(popped[r])
        /\ UNCHANGED dispatched
  /\ popped' = [popped EXCEPT ![r] = <<>>]
  /\ Goto(r, "pop")
  /\ UNCHANGED <<committed, pending, owed, todo, recorded, stack, locked,
                 taken, broken, sinks>>

\* Mutant: an error of the publish is logged and ignored.
PublishBestEffort(r) ==
  /\ At(r, "publish")
  /\ accepted' \in {accepted, accepted \cup {Job(r)}}
  /\ Goto(r, "failure")
  /\ UNCHANGED <<committed, pending, owed, todo, saga, projected, deadLetters,
                 completions, faults>>

\* publishSchedulerAcceptedPacket.
PublishAccepted(r) ==
  /\ At(r, "publish")
  /\ accepted' = accepted \cup {Job(r)}
  /\ Goto(r, "failure")
  /\ UNCHANGED <<committed, pending, owed, todo, saga, projected, deadLetters,
                 completions, faults>>

processDurableFailure(r) ==
  /\ At(r, "failure")
  /\ deadLetters' = deadLetters \cup ({Job(r)} \cap Fatal)
  /\ Goto(r, "ack")
  /\ UNCHANGED <<committed, pending, owed, todo, saga, projected, accepted,
                 completions, faults>>

\* Mutant: the effect field is not deleted.
AckKeepsEffect(r) ==
  /\ At(r, "ack")
  /\ todo' = [todo EXCEPT ![r] = Tail(@)]
  /\ Goto(r, IF Len(todo[r]) = 1 THEN "idle" ELSE "project")
  /\ UNCHANGED <<committed, pending, owed, saga, sinks, faults>>

\* ackJobEffectScript; an effect another replica acknowledged is an error
\* that ends the pass.
AckJobEffect(r) ==
  /\ At(r, "ack")
  /\ \/ /\ Job(r) \in pending
        /\ pending' = pending \ {Job(r)}
        /\ Goto(r, "count")
        /\ UNCHANGED todo
     \/ /\ Job(r) \notin pending
        /\ todo' = [todo EXCEPT ![r] = <<>>]
        /\ Goto(r, "idle")
        /\ UNCHANGED pending
  /\ UNCHANGED <<committed, owed, saga, sinks, faults>>

\* recordDurableCompletion counts in the memory of the replica, after the
\* acknowledgement has answered, and the pass goes on to the next effect.
recordDurableCompletion(r) ==
  /\ At(r, "count")
  /\ completions' = [completions EXCEPT ![Job(r)] = @ + 1]
  /\ todo' = [todo EXCEPT ![r] = Tail(@)]
  /\ Goto(r, IF Len(todo[r]) = 1 THEN "idle" ELSE "project")
  /\ UNCHANGED <<committed, pending, owed, saga, projected, accepted,
                 deadLetters, faults>>

Rolling(r) == step[r] \in {"pop", "dispatch"}

\* The pass ends where it is; an effect that was not acknowledged stays.
EndsPass(r) ==
  /\ ~At(r, "idle") /\ Fault
  /\ broken' = (broken \/ Rolling(r))
  /\ Goto(r, "idle")
  /\ todo' = [todo EXCEPT ![r] = <<>>]
  /\ popped' = [popped EXCEPT ![r] = <<>>]
  /\ UNCHANGED <<committed, pending, owed, recorded, stack, dispatched, denied,
                 taken, sinks>>

\* A call fails, at "count" the acknowledgement that took effect and whose
\* answer is lost; a rollback deletes its lock on the way out.
Fails(r) == EndsPass(r) /\ locked' = (locked /\ ~Rolling(r))

\* The replica dies and comes back: nobody deletes the lock.
Crash(r) == EndsPass(r) /\ UNCHANGED locked

\* The TTL of the lock outlives a rollback that runs.
SagaLockExpires ==
  /\ locked /\ \A r \in Replicas : ~Rolling(r)
  /\ locked' = FALSE
  /\ UNCHANGED <<committed, pending, owed, todo, step, recorded, stack,
                 dispatched, denied, taken, popped, broken, sinks, faults>>

Drain(r) ==
  \/ PendingJobEffects(r) \/ ProjectJobResult(r) \/ RecordCompensation(r)
  \/ Rollback(r) \/ popCompensation(r) \/ dispatchCompensation(r)
  \/ PublishAccepted(r) \/ processDurableFailure(r) \/ AckJobEffect(r)
  \/ recordDurableCompletion(r)

OutboxNext ==
  \/ \E j \in Jobs : ApplyJobResult(j)
  \/ \E r \in Replicas : Drain(r) \/ Fails(r) \/ Crash(r)
  \/ SagaLockExpires

\* The reconciler of every replica keeps draining.
OutboxSpec ==
  /\ OutboxInit /\ [][OutboxNext]_ovars
  /\ \A r \in Replicas : WF_ovars(Drain(r))

-----------------------------------------------------------------------------
Acked == committed \ pending

\* AckJobEffect comes after every delivery in processDurableJobEffect: an
\* effect leaves the outbox only after it reached every consumer: the legacy
\* keys, the accepted-result subject and, for a failure, the DLQ.  However
\* often it was replayed, and by whom, the completion of its job is counted at
\* most once and never before the acknowledgement; and it is counted, or about
\* to be, unless there was a fault.
AckedIsDelivered ==
  /\ Acked \subseteq projected \cap accepted
  /\ Acked \cap Fatal \subseteq deadLetters
  /\ \A j \in Jobs : completions[j] <= IF j \in Acked THEN 1 ELSE 0
  /\ \A j \in Acked :
       \/ completions[j] = 1 \/ faults > 0
       \/ \E r \in Replicas : At(r, "count") /\ Job(r) = j

\* RecordCompensation is idempotent per job and Rollback holds the saga lock:
\* however often effects are replayed and rollbacks compete, compensations are
\* dispatched at most once and in the order they were popped, newest first.
DispatchedInPopOrder ==
  /\ IsInjective(dispatched)
  /\ \A i, k \in DOMAIN dispatched :
       i < k => \E a, b \in DOMAIN taken :
                  a < b /\ taken[a] = dispatched[i] /\ taken[b] = dispatched[k]

\* processDurableSaga comes before the acknowledgement: when the effect of a
\* fatal failure is acknowledged, the compensations that were on the stack
\* when it committed were dispatched or denied, or a live replica is still
\* rolling them back; unless a call failed, or a replica died, in the middle
\* of a rollback or at its end.
AckedRollbackRan ==
  \A j \in Acked \cap Fatal :
    \/ broken
    \/ owed[j] \subseteq ToSet(dispatched) \cup denied
    \/ \E r \in Replicas : Rolling(r)

\* The reconciler drains every second, and each job commits one result: the
\* outbox empties again and again, so every committed result is delivered,
\* whatever pass an error or a crash ended.
EveryResultIsDelivered == []<>(pending = {})
=============================================================================
