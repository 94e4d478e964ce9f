---------------------------- MODULE CompatResult ----------------------------
(***************************************************************************)
(* The result path without production identities: handleCompatJobResult    *)
(* takes a worker's result off the durable result subject, applies it      *)
(* under the job lock and republishes it on the accepted-result subject    *)
(* for the workflow engine.  One job and one result, which its worker may  *)
(* send more than once; each message is delivered until it is              *)
(* acknowledged, and each delivery decodes it afresh.  The saga calls of   *)
(* the handler are those of ResultOutbox, its asynchronous output check    *)
(* that of JobDispatch, and the lock is taken as sound here (JobLock).     *)
(***************************************************************************)
EXTENDS JobStates, Naturals

CONSTANTS
  Messages,      \* copies of the result the worker sent
  NoHolder,      \* the job lock is free
  Reports,       \* the states a result may report
  Fencings,      \* its dispatch identity: "current", "stale" or "absent"
  Verdicts,      \* what the output policy says of a success
  MaxFaults,     \* bound on calls that fail and handlers that crash
  MaxDeliveries  \* bound on deliveries

ASSUME CompatAssumption ==
  /\ Reports \subseteq {"SUCCEEDED", "FAILED", "RETRYING"}
  /\ Fencings \subseteq {"current", "stale", "absent"}
  /\ Verdicts \subseteq {"allow", "quarantine"}
  /\ NoHolder \notin Messages
  /\ MaxFaults \in Nat /\ MaxDeliveries \in Nat

VARIABLES
  report, fencing, verdict, \* the result, and the policy on it
  state,      \* the job state
  accepted,   \* AcceptJobEvent has taken the result of this dispatch
  pointer,    \* the result pointer is stored
  applied,    \* how often the handler wrote the outcome
  deadLetter, \* a DLQ entry exists
  published,  \* statuses on the accepted-result subject
  unacked,    \* messages not acknowledged
  processed,  \* messages under a processed key
  lock, pc,   \* the job lock; the handler of each message
  status,     \* the status in the packet the handler holds
  failed,     \* the calls that failed, "answer" for a state write that took effect
  faults, deliveries

result == <<report, fencing, verdict>>
store == <<state, accepted, pointer, applied>>
bus == <<deadLetter, published, unacked, processed>>
bounds == <<failed, faults, deliveries>>
cvars == <<result, store, bus, bounds, lock, pc, status>>

Labels == {"idle", "lock", "check", "fence", "pointer", "state", "dlq",
           "publish", "ack"}
Locked == {"check", "fence", "pointer", "state", "dlq"}

Goto(m, label) == pc' = [pc EXCEPT ![m] = label]

\* The state handleJobResult moves the job to.
Outcome == IF report = "SUCCEEDED" /\ verdict = "quarantine"
             THEN "OUTPUT_QUARANTINED" ELSE report

\* The types of handleCompatJobResult's state: the job is where it was or has
\* its outcome, and the lock is held by the one handler inside withJobLock.
CompatTypeOK ==
  /\ report \in Reports /\ fencing \in Fencings /\ verdict \in Verdicts
  /\ state \in {"RUNNING", Outcome}
  /\ accepted \in BOOLEAN /\ pointer \in BOOLEAN /\ deadLetter \in BOOLEAN
  /\ applied \in 0..MaxDeliveries
  /\ published \subseteq {report, "DENIED"}
  /\ unacked \subseteq Messages /\ processed \subseteq Messages
  /\ pc \in [Messages -> Labels]
  /\ lock \in Messages \cup {NoHolder}
  /\ \A m \in Messages : lock = m <=> pc[m] \in Locked
  /\ failed \subseteq Labels \cup {"answer"}

CompatInit ==
  /\ report \in Reports /\ fencing \in Fencings /\ verdict \in Verdicts
  /\ state = "RUNNING"
  /\ accepted = FALSE /\ pointer = FALSE /\ applied = 0
  /\ deadLetter = FALSE /\ published = {}
  /\ unacked = Messages /\ processed = {}
  /\ lock = NoHolder
  /\ pc = [m \in Messages |-> "idle"]
  /\ status = [m \in Messages |-> report]
  /\ failed = {} /\ faults = 0 /\ deliveries = 0

-----------------------------------------------------------------------------
\* jsCallbackCtx: a message under a processed key is acknowledged at once.
Deliver(m) ==
  /\ pc[m] = "idle" /\ m \in unacked /\ deliveries < MaxDeliveries
  /\ deliveries' = deliveries + 1
  /\ status' = [status EXCEPT ![m] = report]
  /\ Goto(m, IF m \in processed THEN "ack" ELSE "lock")
  /\ UNCHANGED <<result, store, bus, failed, faults, lock>>

Lock(m) ==
  /\ pc[m] = "lock" /\ lock = NoHolder
  /\ lock' = m
  /\ Goto(m, "check")
  /\ UNCHANGED <<result, store, bus, bounds, status>>

\* handleJobResult returns nil: the lock is released, and the caller goes on
\* to publish whether or not the result was applied.
Return(m) == lock' = NoHolder /\ Goto(m, "publish")

\* A fault at a step: a call that fails, or a handler that dies.
FaultAt(step) ==
  /\ faults < MaxFaults
  /\ faults' = faults + 1
  /\ failed' = failed \cup {step}
  /\ UNCHANGED deliveries

Fault(m) == FaultAt(pc[m])

\* The handler of m ends: the lock is released or expires, and the message is
\* delivered again.
Abandon(m) ==
  /\ lock' = IF lock = m THEN NoHolder ELSE lock
  /\ Goto(m, "idle")

\* A retryable error or a crash before the step took effect.
Retry(m) ==
  /\ pc[m] # "idle"
  /\ Fault(m) /\ Abandon(m)
  /\ UNCHANGED <<result, store, bus, status>>

\* A job that already has a terminal state ignores the result; a failed read
\* counts as not terminal.
Check(m) ==
  /\ pc[m] = "check"
  /\ \/ state \in terminalStates /\ Return(m) /\ UNCHANGED bounds
     \/ /\ state \notin terminalStates
        /\ Goto(m, "fence") /\ UNCHANGED <<lock, bounds>>
     \/ Fault(m) /\ Goto(m, "fence") /\ UNCHANGED lock
  /\ UNCHANGED <<result, store, bus, status>>

\* Mutant: the fence does not remember the events it accepted.
FenceForgets(m) ==
  /\ pc[m] = "fence"
  /\ \/ fencing # "stale" /\ Goto(m, "pointer") /\ UNCHANGED lock
     \/ fencing = "stale" /\ Return(m)
  /\ UNCHANGED <<result, store, bus, bounds, status>>

\* AcceptJobEvent: the current dispatch, for the first time.  A result
\* without a dispatch identity is not fenced.  A failed call, which may have
\* reached the store, drops the result.
Fence(m) ==
  /\ pc[m] = "fence"
  /\ \/ /\ fencing = "absent"
        /\ Goto(m, "pointer") /\ UNCHANGED <<accepted, lock, bounds>>
     \/ /\ fencing = "current" /\ ~accepted
        /\ accepted' = TRUE
        /\ Goto(m, "pointer") /\ UNCHANGED <<lock, bounds>>
     \/ /\ fencing = "stale" \/ (fencing = "current" /\ accepted)
        /\ Return(m) /\ UNCHANGED <<accepted, bounds>>
     \/ /\ fencing # "absent" /\ Fault(m)
        /\ accepted' \in {accepted, fencing = "current"}
        /\ Return(m)
  /\ UNCHANGED <<result, state, pointer, applied, bus, status>>

\* Mutant: the pointer write is best effort.
SetResultPtrBestEffort(m) ==
  /\ pc[m] = "pointer"
  /\ \/ pointer' = TRUE /\ UNCHANGED bounds
     \/ Fault(m) /\ UNCHANGED pointer
  /\ Goto(m, "state")
  /\ UNCHANGED <<result, state, accepted, applied, bus, lock, status>>

\* setResultPtr, before the state.
SetResultPtr(m) ==
  /\ pc[m] = "pointer"
  /\ pointer' = TRUE
  /\ Goto(m, "state")
  /\ UNCHANGED <<result, state, accepted, applied, bus, bounds, lock, status>>

\* setJobState.  SetState is several round trips, so it may store the outcome
\* and return an error, which the handler passes on for a redelivery.  The
\* runtime hash takes the state it has once more; without one, the table
\* refuses to leave a terminal state.  A quarantined result is rewritten in
\* the packet before it goes further.
SetJobState(m) ==
  /\ pc[m] = "state"
  /\ \/ /\ state = Outcome \/ isAllowedTransition(state, Outcome)
        /\ state' = Outcome
        /\ applied' = applied + 1
        /\ \/ /\ status' = [status EXCEPT ![m] =
                              IF Outcome = "OUTPUT_QUARANTINED" THEN "DENIED" ELSE @]
              /\ Goto(m, "dlq") /\ UNCHANGED <<lock, bounds>>
           \/ FaultAt("answer") /\ Abandon(m) /\ UNCHANGED status
     \/ /\ state \in terminalStates
        /\ Abandon(m) /\ UNCHANGED <<state, applied, status, bounds>>
  /\ UNCHANGED <<result, accepted, pointer, bus>>

\* Mutant: only quarantined results go to the DLQ.
EmitDLQQuarantined(m) ==
  /\ pc[m] = "dlq"
  /\ deadLetter' = (deadLetter \/ Outcome = "OUTPUT_QUARANTINED")
  /\ Return(m)
  /\ UNCHANGED <<result, store, published, unacked, processed, bounds, status>>

\* emitDLQWithRetry for every failure that is not retryable.
EmitDLQ(m) ==
  /\ pc[m] = "dlq"
  /\ deadLetter' = (deadLetter \/ Outcome \in {"FAILED", "OUTPUT_QUARANTINED"})
  /\ Return(m)
  /\ UNCHANGED <<result, store, published, unacked, processed, bounds, status>>

\* publishSchedulerAcceptedPacket; the stream drops a second publication with
\* the same message id inside its duplicate window.
PublishAccepted(m) ==
  /\ pc[m] = "publish"
  /\ \/ published' = published \cup {status[m]}
     \/ published # {} /\ UNCHANGED published
  /\ Goto(m, "ack")
  /\ UNCHANGED <<result, store, deadLetter, unacked, processed, bounds, lock,
                 status>>

\* The processed key, best effort, and then the acknowledgement.
Ack(m) ==
  /\ pc[m] = "ack"
  /\ \/ /\ processed' = processed \cup {m}
        /\ unacked' = unacked \ {m} /\ UNCHANGED bounds
     \/ /\ Fault(m)
        /\ \/ unacked' = unacked \ {m} /\ UNCHANGED processed
           \/ processed' = processed \cup {m} /\ UNCHANGED unacked
  /\ Goto(m, "idle")
  /\ UNCHANGED <<result, store, deadLetter, published, lock, status>>

CompatNext ==
  \E m \in Messages :
    \/ Deliver(m) \/ Lock(m) \/ Check(m) \/ Fence(m) \/ SetResultPtr(m)
    \/ SetJobState(m) \/ EmitDLQ(m) \/ PublishAccepted(m) \/ Ack(m)
    \/ Retry(m)

CompatSpec == CompatInit /\ [][CompatNext]_cvars

-----------------------------------------------------------------------------
\* AcceptJobEvent guards handleJobResult: however often it is sent, delivered,
\* failed and retried, a fenced result is applied once, and one of a
\* superseded dispatch never.
FencedAppliesOnce ==
  /\ fencing = "current" => applied <= 1
  /\ fencing = "stale"   => applied = 0

\* handleJobResult writes the pointer before the state: no job has its
\* outcome without the pointer to its result.
PointerBeforeOutcome == state # "RUNNING" => pointer

\* emitDLQWithRetry comes after the state, and a redelivery ignores a job that
\* is terminal: a failure or a quarantined result whose messages are all
\* acknowledged has its DLQ entry, unless the entry itself failed or the write
\* of the state took effect without its answer arriving.
FailureIsInDLQ ==
  state \in {"FAILED", "OUTPUT_QUARANTINED"} /\ unacked = {} =>
    deadLetter \/ {"dlq", "answer"} \cap failed # {}
=============================================================================
