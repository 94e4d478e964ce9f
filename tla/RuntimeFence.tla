---------------------------- MODULE RuntimeFence ----------------------------
(***************************************************************************)
(* The runtime hash of one job, job:{<id>}:runtime in Redis, and the Lua   *)
(* scripts that are its only writers.  A script runs atomically, so each   *)
(* one is one action.  The hash holds the authoritative job state, the     *)
(* dispatch fence (dispatch id, attempt, worker, tenant), the signed event *)
(* ids already seen, each bound to its digest, and the outbox of effects   *)
(* that still have to be projected and published.                          *)
(*                                                                         *)
(* A dispatch id is a fresh UUID: it is modelled as a number never handed  *)
(* out before.  A signed message is modelled by its verified content, and  *)
(* its digest is that content, so two messages with one id and different   *)
(* bytes have different digests.  The network may deliver any message      *)
(* about a dispatch already issued, at any time and any number of times.   *)
(***************************************************************************)
EXTENDS JobStates, Naturals

CONSTANTS Workers,    \* worker ids
          Tenants,    \* tenant ids
          MessageIds, \* ids of signed worker messages
          Outcomes,   \* the job states a result may carry
          NoFence,    \* the dispatch fields are absent
          NoMessage,  \* an event or effect field is absent
          MaxIssued   \* bound on the number of dispatches ever begun

ASSUME MaxIssuedAssumption == MaxIssued \in Nat
ASSUME OutcomesAssumption == Outcomes \subseteq ResultStates

Progress == "progress"

VARIABLES
  state,    \* field state, NoState when the field is absent
  attempt,  \* field dispatch_attempt, 0 when absent
  fence,    \* fields dispatch_id, dispatch_worker_id, dispatch_tenant
  events,   \* fields event:<message id>, the digest each one is bound to
  effects,  \* fields effect:<message id>, the outbox
  accepted, \* fields event:<dispatch id>:result written by AcceptJobEvent
  issued,   \* history: number of dispatch ids handed out so far
  applied   \* history: the results that ApplyJobResult committed

hash == <<state, attempt, fence, events, effects, accepted>>
vars == <<state, attempt, fence, events, effects, accepted, issued, applied>>

Fence == [id : 1..MaxIssued, worker : Workers, tenant : Tenants]

\* A signed message: the claims of its dispatch identity and what it reports.
Message == [mid : MessageIds, id : 1..MaxIssued, attempt : 1..MaxIssued,
            worker : Workers, tenant : Tenants,
            reports : Outcomes \cup {Progress}]

ASSUME AbsentAssumption == NoFence \notin Fence /\ NoMessage \notin Message

Deliverable == {m \in Message : m.id <= issued}

\* The types of the fields of the runtime hash: the state is one the readers of
\* core/model know, and a fence or an outbox entry is whole or absent.
TypeOK ==
  /\ state \in JobState \cup {NoState}
  /\ attempt \in Nat
  /\ fence \in Fence \cup {NoFence}
  /\ events \in [MessageIds -> Message \cup {NoMessage}]
  /\ effects \in [MessageIds -> Message \cup {NoMessage}]
  /\ accepted \subseteq 1..MaxIssued
  /\ issued \in 0..MaxIssued
  /\ applied \subseteq Message

EmptyHash ==
  /\ state = NoState
  /\ attempt = 0
  /\ fence = NoFence
  /\ events = [mid \in MessageIds |-> NoMessage]
  /\ effects = [mid \in MessageIds |-> NoMessage]
  /\ accepted = {}

Init == EmptyHash /\ issued = 0 /\ applied = {}

\* Mutant: the comparison of the dispatch id is forgotten.
FenceMatchesAttempt(m) == fence # NoFence /\ attempt = m.attempt

\* The four HGET comparisons that open every script fenced by a dispatch.
FenceMatches(m) ==
  /\ fence = [id |-> m.id, worker |-> m.worker, tenant |-> m.tenant]
  /\ attempt = m.attempt

-----------------------------------------------------------------------------
\* migrateRuntimeFence: HSETNX of the state read earlier from job:meta.
Migrate(s) ==
  /\ state = NoState
  /\ state' = s
  /\ UNCHANGED <<attempt, fence, events, effects, accepted, issued, applied>>

\* Mutant: the transition table is not consulted.
TransitionUnchecked(s) ==
  /\ state # NoState
  /\ state' = s
  /\ UNCHANGED <<attempt, fence, events, effects, accepted, issued, applied>>

\* transitionRuntimeState: the target is written from any state the table
\* allows as its predecessor; an absent field matches no predecessor.
TransitionRuntimeState(s) ==
  /\ state # NoState
  /\ isAllowedTransition(state, s)
  /\ state' = s
  /\ UNCHANGED <<attempt, fence, events, effects, accepted, issued, applied>>

\* beginDispatchScript: a fresh identity overwrites the previous one.
BeginDispatch(w, t) ==
  /\ issued < MaxIssued
  /\ issued' = issued + 1
  /\ attempt' = attempt + 1
  /\ fence' = [id |-> issued + 1, worker |-> w, tenant |-> t]
  /\ UNCHANGED <<state, events, effects, accepted, applied>>

\* Mutant: the attempt alone identifies the dispatch to roll back.
RollbackByAttempt(id, a) ==
  /\ fence # NoFence
  /\ attempt = a
  /\ state' = "SCHEDULED"
  /\ fence' = NoFence
  /\ UNCHANGED <<attempt, events, effects, accepted, issued, applied>>

\* rollbackDispatchScript: only the exact dispatch that failed to publish.
RollbackDispatch(id, a) ==
  /\ fence # NoFence
  /\ fence.id = id
  /\ attempt = a
  /\ state' = "SCHEDULED"
  /\ fence' = NoFence
  /\ UNCHANGED <<attempt, events, effects, accepted, issued, applied>>

\* applyJobResultScript, outcome 1.  A message id seen before is answered
\* "duplicate" or refused for its digest, and the hash stays as it is.
ApplyJobResult(m) ==
  /\ m.reports # Progress
  /\ FenceMatches(m)
  /\ events[m.mid] = NoMessage
  /\ state \in AwaitingWorker
  /\ events' = [events EXCEPT ![m.mid] = m]
  /\ effects' = [effects EXCEPT ![m.mid] = m]
  /\ state' = m.reports
  /\ applied' = applied \cup {m}
  /\ UNCHANGED <<attempt, fence, accepted, issued>>

\* Mutant: the digest a message id is bound to is overwritten.
AcceptRebinds(m) ==
  /\ m.reports = Progress
  /\ FenceMatches(m)
  /\ state \in AwaitingWorker
  /\ events' = [events EXCEPT ![m.mid] = m]
  /\ UNCHANGED <<state, attempt, fence, effects, accepted, issued, applied>>

\* acceptSignedJobEventScript, outcome 1: progress of the current dispatch.
AcceptSignedJobEvent(m) ==
  /\ m.reports = Progress
  /\ FenceMatches(m)
  /\ state \in AwaitingWorker
  /\ events[m.mid] = NoMessage
  /\ events' = [events EXCEPT ![m.mid] = m]
  /\ UNCHANGED <<state, attempt, fence, effects, accepted, issued, applied>>

\* acceptJobEventScript: the unsigned result of a dispatch, accepted once.
AcceptJobEvent(m) ==
  /\ m.reports # Progress
  /\ FenceMatches(m)
  /\ m.id \notin accepted
  /\ accepted' = accepted \cup {m.id}
  /\ UNCHANGED <<state, attempt, fence, events, effects, issued, applied>>

\* The states cancelAllJobAttemptsScript spells out as final.
cancelRefused == {"SUCCEEDED", "FAILED", "CANCELLED", "TIMEOUT", "DENIED",
                  "QUARANTINED"}

CancelAllJobAttempts ==
  /\ state \notin cancelRefused
  /\ state' = "CANCELLED"
  /\ fence' = NoFence
  /\ UNCHANGED <<attempt, events, effects, accepted, issued, applied>>

\* ackJobEffectScript: the effect goes once it was published.
AckJobEffect(m) ==
  /\ events[m.mid] = m
  /\ effects[m.mid] # NoMessage
  /\ effects' = [effects EXCEPT ![m.mid] = NoMessage]
  /\ UNCHANGED <<state, attempt, fence, events, accepted, issued, applied>>

\* The TTL of the key runs out and Redis drops the whole hash: the attempt
\* counter starts again, dispatch ids never do.
Expire ==
  /\ state' = NoState /\ attempt' = 0 /\ fence' = NoFence
  /\ events' = [mid \in MessageIds |-> NoMessage]
  /\ effects' = [mid \in MessageIds |-> NoMessage]
  /\ accepted' = {}
  /\ UNCHANGED <<issued, applied>>

Next ==
  \/ \E s \in JobState : Migrate(s) \/ TransitionRuntimeState(s)
  \/ \E w \in Workers, t \in Tenants : BeginDispatch(w, t)
  \/ \E id, a \in 1..MaxIssued : RollbackDispatch(id, a)
  \/ \E m \in Deliverable :
       \/ ApplyJobResult(m)
       \/ AcceptSignedJobEvent(m)
       \/ AcceptJobEvent(m)
       \/ AckJobEffect(m)
  \/ CancelAllJobAttempts
  \/ Expire

Spec == Init /\ [][Next]_vars

-----------------------------------------------------------------------------
\* applyJobResultScript compares the whole fence: a result lands only on the
\* newest dispatch: one that was superseded by a later BeginDispatch never
\* changes the job, however late it is delivered and even if the attempt
\* counter restarted after the hash expired.
OnlyNewestDispatchLands ==
  [][\A m \in applied' \ applied : m.id = issued]_vars

\* applyJobResultScript refuses a terminal job: after a dispatch has reported
\* anything but a retryable failure, no further result of that dispatch is
\* applied.
NothingLandsAfterOutcome ==
  [][\A m \in applied' \ applied, p \in applied :
       p.id = m.id => p.reports = "RETRYING"]_vars

\* RollbackDispatch: a newer attempt is never affected by a late rollback.
LateRollbackIsHarmless ==
  [][\A id, a \in 1..MaxIssued :
       RollbackDispatch(id, a) => id = issued]_vars

\* applyJobResultScript and acceptSignedJobEventScript refuse a known message
\* id with another digest: a message id stays bound to its digest across
\* attempts, rollbacks and cancellations, for as long as the hash lives.
DigestsStayBound ==
  [][\A mid \in MessageIds :
       events[mid] # NoMessage =>
         events'[mid] = events[mid] \/ (state' = NoState /\ attempt' = 0)]_vars

\* applyJobResultScript writes event and effect together: the outbox carries
\* only results that were committed, an effect is the
\* message its event field is bound to, and that message was applied.
EffectsAreCommittedResults ==
  \A mid \in MessageIds :
    effects[mid] # NoMessage =>
      effects[mid] = events[mid] /\ effects[mid] \in applied

\* The dispatch ledger this hash implements.
live   == IF fence = NoFence THEN 0 ELSE fence.id
landed == {<<m.id, m.reports # "RETRYING">> : m \in applied}

Ledger == INSTANCE DispatchLedger

\* Every script, seen from the ledger, issues, revokes or lands a report of
\* the newest dispatch, or changes nothing a caller could observe there.
ImplementsLedger == Ledger!Spec
=============================================================================
