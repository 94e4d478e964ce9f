------------------------- MODULE JobDispatchProofs -------------------------
(***************************************************************************)
(* Proofs about the runtime hash and about the life of one job, for any    *)
(* number of handlers, drainers, workers, tenants, messages and            *)
(* dispatches, and whatever budgets bound the faults and interventions.    *)
(*                                                                         *)
(* The first part is about the hash alone (Spec).  None of its action      *)
(* properties is inductive by itself: that a result lands only on the      *)
(* newest dispatch needs to know that the fence always names the newest    *)
(* dispatch, and that nothing lands after an outcome needs to know that an *)
(* outcome leaves the job in a terminal state for as long as that dispatch *)
(* stays fenced.  FenceInv collects those facts.                           *)
(*                                                                         *)
(* The second part is about the scheduler (DispatchSpec).  Every step of   *)
(* it moves the hash by one of the hash's scripts, so that what the first  *)
(* part shows of the hash holds here; then comes what only the scheduler's *)
(* own steps guarantee.                                                    *)
(***************************************************************************)
EXTENDS JobDispatch, TLAPS

\* The fence, when there is one, is the newest dispatch.
FenceIsNewest == fence # NoFence => fence.id = issued

\* Every committed result belongs to a dispatch that was issued.
AppliedWereIssued == \A p \in applied : p.id <= issued

\* While a dispatch is fenced, an outcome it reported keeps the job terminal.
OutcomeIsTerminal ==
  \A p \in applied :
    fence # NoFence /\ p.id = fence.id /\ p.reports # "RETRYING" =>
      state \in terminalStates

FenceInv ==
  /\ TypeOK
  /\ FenceIsNewest
  /\ AppliedWereIssued
  /\ OutcomeIsTerminal
  /\ EffectsAreCommittedResults

-----------------------------------------------------------------------------
\* The transition table leads to job states only, and never from a terminal
\* state to one that is not terminal.
LEMMA TransitionsStayInJobState ==
  ASSUME NEW from \in JobState \cup {NoState}, NEW to,
         isAllowedTransition(from, to)
  PROVE  /\ to \in JobState
         /\ from \in terminalStates => to \in terminalStates
  BY Zenon DEF isAllowedTransition, allowedTransitions, JobState,
               terminalStates, NoState

\* An outcome other than a retryable failure is a terminal state.
LEMMA OutcomesAreTerminal ==
  ASSUME NEW m \in Message, m.reports # Progress
  PROVE  /\ m.reports \in JobState
         /\ m.reports # "RETRYING" => m.reports \in terminalStates
  BY Zenon, OutcomesAssumption DEF Message, ResultStates, JobState, terminalStates, Progress

\* The claims of a message that matches the fence are the fence.
LEMMA MatchingFence ==
  ASSUME TypeOK, NEW m \in Message, FenceMatches(m)
  PROVE  /\ fence \in Fence
         /\ fence # NoFence
         /\ fence.id = m.id
  BY AbsentAssumption DEF FenceMatches, TypeOK, Message, Fence

-----------------------------------------------------------------------------
\* Type correctness of the hash is preserved by every script.
LEMMA TypeStep ==
  ASSUME TypeOK, [Next]_vars
  PROVE  TypeOK'
<1> USE DEF TypeOK
<1>1. ASSUME NEW s \in JobState, Migrate(s) PROVE TypeOK'
  BY Zenon, <1>1 DEF Migrate
<1>2. ASSUME NEW s \in JobState, TransitionRuntimeState(s) PROVE TypeOK'
  BY Zenon, <1>2 DEF TransitionRuntimeState
<1>3. ASSUME NEW w \in Workers, NEW t \in Tenants, BeginDispatch(w, t)
      PROVE TypeOK'
  <2>1. issued' \in 1..MaxIssued
    BY <1>3, MaxIssuedAssumption DEF BeginDispatch
  <2>2. fence' \in Fence
    BY Zenon, <1>3, <2>1 DEF BeginDispatch, Fence
  <2> QED
    BY <1>3, <2>1, <2>2 DEF BeginDispatch
<1>4. ASSUME NEW id \in 1..MaxIssued, NEW a \in 1..MaxIssued,
             RollbackDispatch(id, a)
      PROVE TypeOK'
  BY Zenon, <1>4 DEF RollbackDispatch, JobState
<1>5. ASSUME NEW m \in Message, ApplyJobResult(m) PROVE TypeOK'
  BY Zenon, <1>5, OutcomesAreTerminal DEF ApplyJobResult
<1>6. ASSUME NEW m \in Message, AcceptSignedJobEvent(m) PROVE TypeOK'
  BY Zenon, <1>6 DEF AcceptSignedJobEvent
<1>7. ASSUME NEW m \in Message, AcceptJobEvent(m) PROVE TypeOK'
  BY Zenon, <1>7 DEF AcceptJobEvent, Message
<1>8. ASSUME NEW m \in Message, AckJobEffect(m) PROVE TypeOK'
  BY Zenon, <1>8 DEF AckJobEffect
<1>9. ASSUME CancelAllJobAttempts PROVE TypeOK'
  BY Zenon, <1>9 DEF CancelAllJobAttempts, JobState
<1>10. ASSUME Expire PROVE TypeOK'
  BY Zenon, <1>10 DEF Expire
<1>11. ASSUME UNCHANGED vars PROVE TypeOK'
  BY Zenon, <1>11 DEF vars
<1> QED
  BY Zenon, <1>1, <1>2, <1>3, <1>4, <1>5, <1>6, <1>7, <1>8, <1>9, <1>10, <1>11
  DEF Next, Deliverable

\* The inductive invariant holds of the empty hash.
LEMMA FenceInit == Init => FenceInv
  BY MaxIssuedAssumption
  DEF Init, EmptyHash, FenceInv, TypeOK, FenceIsNewest, AppliedWereIssued,
      OutcomeIsTerminal, EffectsAreCommittedResults

\* Every script preserves the inductive invariant.
LEMMA FenceStep ==
  ASSUME FenceInv, [Next]_vars
  PROVE  FenceInv'
<1> USE DEF FenceInv
<1> DEFINE Rest == /\ FenceIsNewest
                   /\ AppliedWereIssued
                   /\ OutcomeIsTerminal
                   /\ EffectsAreCommittedResults
<1> USE DEF FenceIsNewest, AppliedWereIssued, OutcomeIsTerminal,
            EffectsAreCommittedResults
<1>0. TypeOK'
  BY Zenon, TypeStep
<1>1. ASSUME NEW s \in JobState, Migrate(s) PROVE Rest'
  BY Zenon, <1>1 DEF Migrate, NoState, terminalStates
<1>2. ASSUME NEW s \in JobState, TransitionRuntimeState(s) PROVE Rest'
  <2>1. state \in terminalStates => state' \in terminalStates
    BY Zenon, <1>2, TransitionsStayInJobState DEF TransitionRuntimeState, TypeOK
  <2> QED
    BY Zenon, <1>2, <2>1 DEF TransitionRuntimeState
<1>3. ASSUME NEW w \in Workers, NEW t \in Tenants, BeginDispatch(w, t)
      PROVE Rest'
  <2>1. issued \in Nat /\ \A p \in applied : p.id \in Nat /\ p.id < issued + 1
    BY MaxIssuedAssumption DEF TypeOK, Message
  <2> QED
    BY <1>3, <2>1 DEF BeginDispatch
<1>4. ASSUME NEW id \in 1..MaxIssued, NEW a \in 1..MaxIssued,
             RollbackDispatch(id, a)
      PROVE Rest'
  BY Zenon, <1>4 DEF RollbackDispatch
<1>5. ASSUME NEW m \in Message, ApplyJobResult(m) PROVE Rest'
  <2>1. fence # NoFence /\ fence.id = m.id /\ m.id = issued
    BY Zenon, <1>5, MatchingFence DEF ApplyJobResult
  <2>2. state \notin terminalStates
    BY Zenon, <1>5 DEF ApplyJobResult, AwaitingWorker, terminalStates
  <2>3. FenceIsNewest' /\ AppliedWereIssued'
    BY <1>5, <2>1 DEF ApplyJobResult, TypeOK
  <2>4. OutcomeIsTerminal'
    BY Zenon, <1>5, <2>1, <2>2, OutcomesAreTerminal DEF ApplyJobResult
  <2>5. EffectsAreCommittedResults'
    BY Zenon, <1>5 DEF ApplyJobResult, TypeOK
  <2> QED
    BY Zenon, <2>3, <2>4, <2>5
<1>6. ASSUME NEW m \in Message, AcceptSignedJobEvent(m) PROVE Rest'
  <2>1. EffectsAreCommittedResults'
    BY Zenon, <1>6, AbsentAssumption DEF AcceptSignedJobEvent, TypeOK
  <2> QED
    BY Zenon, <1>6, <2>1 DEF AcceptSignedJobEvent
<1>7. ASSUME NEW m \in Message, AcceptJobEvent(m) PROVE Rest'
  BY Zenon, <1>7 DEF AcceptJobEvent
<1>8. ASSUME NEW m \in Message, AckJobEffect(m) PROVE Rest'
  BY Zenon, <1>8 DEF AckJobEffect, TypeOK
<1>9. ASSUME CancelAllJobAttempts PROVE Rest'
  BY Zenon, <1>9 DEF CancelAllJobAttempts
<1>10. ASSUME Expire PROVE Rest'
  BY Zenon, <1>10 DEF Expire
<1>11. ASSUME UNCHANGED vars PROVE Rest'
  BY Zenon, <1>11 DEF vars
<1>12. Rest'
  BY Zenon, <1>1, <1>2, <1>3, <1>4, <1>5, <1>6, <1>7, <1>8, <1>9, <1>10, <1>11
  DEF Next, Deliverable
<1> QED
  BY Zenon, <1>0, <1>12

-----------------------------------------------------------------------------
\* In every behaviour the inductive invariant always holds.
THEOREM FenceInvariant == Spec => []FenceInv
<1>1. FenceInv /\ [Next]_vars => FenceInv'
  BY Zenon, FenceStep
<1> QED
  BY FenceInit, <1>1, PTL DEF Spec

\* The fields of the hash and the history always have their types.
THEOREM TypeCorrect == Spec => []TypeOK
<1>1. FenceInv => TypeOK
  BY Zenon DEF FenceInv
<1> QED
  BY FenceInvariant, <1>1, PTL

\* The outbox holds results that ApplyJobResult committed and nothing else.
THEOREM OutboxHoldsCommittedResults == Spec => []EffectsAreCommittedResults
<1>1. FenceInv => EffectsAreCommittedResults
  BY Zenon DEF FenceInv
<1> QED
  BY FenceInvariant, <1>1, PTL

\* Only ApplyJobResult adds to the committed results.
LEMMA OnlyApplyCommits ==
  ASSUME FenceInv, [Next]_vars, NEW m \in applied' \ applied
  PROVE  m \in Message /\ ApplyJobResult(m)
<1>1. PICK x \in Message : ApplyJobResult(x)
  BY Zenon DEF Next, vars, Migrate, TransitionRuntimeState, BeginDispatch,
         RollbackDispatch, AcceptSignedJobEvent, AcceptJobEvent, AckJobEffect,
         CancelAllJobAttempts, Expire, Deliverable
<1> QED
  BY Zenon, <1>1 DEF ApplyJobResult

\* ApplyJobResult: a result lands only on the newest dispatch of the job.
THEOREM NewestDispatchLands == Spec => OnlyNewestDispatchLands
<1>1. ASSUME FenceInv, [Next]_vars
      PROVE  [\A m \in applied' \ applied : m.id = issued]_vars
  BY Zenon, <1>1, OnlyApplyCommits, MatchingFence
  DEF FenceInv, FenceIsNewest, ApplyJobResult
<1> QED
  BY FenceInvariant, <1>1, PTL DEF Spec, OnlyNewestDispatchLands

\* ApplyJobResult: a dispatch that reported an outcome reports nothing more.
THEOREM OutcomeIsFinal == Spec => NothingLandsAfterOutcome
<1>1. ASSUME FenceInv, [Next]_vars
      PROVE  [\A m \in applied' \ applied, p \in applied :
                p.id = m.id => p.reports = "RETRYING"]_vars
  <2>1. SUFFICES ASSUME NEW m \in applied' \ applied, NEW p \in applied,
                        p.id = m.id
                 PROVE  p.reports = "RETRYING"
    BY Zenon
  <2>2. m \in Message /\ ApplyJobResult(m)
    BY Zenon, <1>1, <2>1, OnlyApplyCommits
  <2>3. fence # NoFence /\ fence.id = m.id
    BY Zenon, <1>1, <2>2, MatchingFence DEF FenceInv, ApplyJobResult
  <2>4. state \notin terminalStates
    BY Zenon, <2>2 DEF ApplyJobResult, AwaitingWorker, terminalStates
  <2> QED
    BY Zenon, <1>1, <2>1, <2>3, <2>4 DEF FenceInv, OutcomeIsTerminal
<1> QED
  BY FenceInvariant, <1>1, PTL DEF Spec, NothingLandsAfterOutcome

\* RollbackDispatch never touches a dispatch newer than the one it names.
THEOREM RollbackSparesNewer == Spec => LateRollbackIsHarmless
<1>1. ASSUME FenceInv, [Next]_vars
      PROVE  [\A id, a \in 1..MaxIssued :
                RollbackDispatch(id, a) => id = issued]_vars
  BY Zenon, <1>1 DEF FenceInv, FenceIsNewest, RollbackDispatch
<1> QED
  BY FenceInvariant, <1>1, PTL DEF Spec, LateRollbackIsHarmless

\* A message id keeps its digest for as long as the hash lives.
THEOREM DigestBinding == Spec => DigestsStayBound
<1>1. ASSUME FenceInv, [Next]_vars
      PROVE  [\A mid \in MessageIds :
                events[mid] # NoMessage =>
                  events'[mid] = events[mid]
                    \/ (state' = NoState /\ attempt' = 0)]_vars
  BY Zenon, <1>1
  DEF FenceInv, TypeOK, Next, vars, Migrate, TransitionRuntimeState,
      BeginDispatch, RollbackDispatch, ApplyJobResult, AcceptSignedJobEvent,
      AcceptJobEvent, AckJobEffect, CancelAllJobAttempts, Expire, Deliverable
<1> QED
  BY FenceInvariant, <1>1, PTL DEF Spec, DigestsStayBound

-----------------------------------------------------------------------------
\* A step of the hash is a step of the ledger or leaves the ledger as it is.
LEMMA LedgerStep ==
  ASSUME FenceInv, [Next]_vars
  PROVE  [Ledger!Next]_<<issued, live, landed>>
<1> USE DEF FenceInv, Ledger!Next, live, landed
<1>1. ASSUME NEW s \in JobState, Migrate(s) \/ TransitionRuntimeState(s)
      PROVE  UNCHANGED <<issued, live, landed>>
  BY Zenon, <1>1 DEF Migrate, TransitionRuntimeState
<1>2. ASSUME NEW w \in Workers, NEW t \in Tenants, BeginDispatch(w, t)
      PROVE  Ledger!Issue
  <2>1. fence' \in Fence
    BY <1>2, TypeStep DEF BeginDispatch, TypeOK, Fence
  <2>2. fence' # NoFence /\ fence'.id = issued'
    BY Zenon, <1>2, <2>1, AbsentAssumption DEF BeginDispatch
  <2> QED
    BY Zenon, <1>2, <2>2 DEF BeginDispatch, Ledger!Issue
<1>3. ASSUME NEW id \in 1..MaxIssued, NEW a \in 1..MaxIssued,
             RollbackDispatch(id, a)
      PROVE  Ledger!Revoke
  BY Zenon, <1>3 DEF RollbackDispatch, Ledger!Revoke
<1>4. ASSUME NEW m \in Message, ApplyJobResult(m)
      PROVE  Ledger!Land(m.reports # "RETRYING")
  <2>1. fence # NoFence /\ fence.id = m.id /\ fence \in Fence
    BY Zenon, <1>4, MatchingFence DEF ApplyJobResult
  <2>2. live = m.id /\ live = issued /\ live # 0
    BY <2>1 DEF FenceIsNewest, Fence
  <2>3. \A p \in applied : p.id = m.id => p.reports = "RETRYING"
    BY Zenon, <1>4, <2>1
    DEF OutcomeIsTerminal, ApplyJobResult, AwaitingWorker, terminalStates
  <2>4. <<live, TRUE>> \notin landed
    BY Zenon, <2>2, <2>3
  <2>5. landed' = landed \cup {<<live, m.reports # "RETRYING">>}
    BY Zenon, <1>4, <2>2 DEF ApplyJobResult
  <2>6. UNCHANGED <<issued, live>>
    BY Zenon, <1>4 DEF ApplyJobResult
  <2> QED
    BY Zenon, <2>2, <2>4, <2>5, <2>6 DEF Ledger!Land
<1>5. ASSUME NEW m \in Message,
             AcceptSignedJobEvent(m) \/ AcceptJobEvent(m) \/ AckJobEffect(m)
      PROVE  UNCHANGED <<issued, live, landed>>
  BY Zenon, <1>5 DEF AcceptSignedJobEvent, AcceptJobEvent, AckJobEffect
<1>6. ASSUME CancelAllJobAttempts \/ Expire PROVE Ledger!Revoke
  BY Zenon, <1>6 DEF CancelAllJobAttempts, Expire, Ledger!Revoke
<1>7. ASSUME UNCHANGED vars PROVE UNCHANGED <<issued, live, landed>>
  BY Zenon, <1>7 DEF vars
<1> QED
  BY Zenon, <1>1, <1>2, <1>3, <1>4, <1>5, <1>6, <1>7 DEF Next, Deliverable

\* The runtime hash implements the dispatch ledger.
THEOREM HashImplementsLedger == Spec => ImplementsLedger
<1>1. Init => Ledger!Init
  BY Zenon DEF Init, EmptyHash, Ledger!Init, live, landed
<1>2. FenceInv /\ [Next]_vars => [Ledger!Next]_<<issued, live, landed>>
  BY Zenon, LedgerStep
<1> QED
  BY FenceInvariant, <1>1, <1>2, PTL
  DEF Spec, ImplementsLedger, Ledger!Spec, Ledger!ledger

-----------------------------------------------------------------------------
\* The scheduler.

\* A dispatch increments the attempt counter, which starts again at 0 when the
\* hash expires: it never overtakes the dispatches issued.
AttemptInv == attempt <= issued /\ (fence # NoFence => attempt # 0)

\* Where a process may be.
Labels ==
  {"idle", "read", "decide", "dlq", "scheduled", "begin", "begin_migrate", "fence", "publish",
   "rollback", "release", "failed", "exists", "script", "hget", "legacy", "project",
   "project_zrem", "project_zadd", "projected", "ack", "cancel", "cancel_read",
   "cancel_migrate", "cancel_script", "cancel_meta", "cancelled"}

\* Where a process goes on after a call of the store.
Returns == {"idle", "decide", "dlq", "release", "scheduled", "begin", "cancelled", "projected"}

\* The labels of ProjectJobResult.
Projects == {"project", "project_zrem", "project_zadd"}

\* The types of the store and of the scheduler, and that a handler that publishes
\* or rolls back has begun a dispatch.
Shape ==
  /\ DispatchTypeOK
  /\ pc \in [Procs -> Labels] /\ cont \in [Procs -> Returns]
  /\ \A h \in Handlers : pc[h] \in {"publish", "rollback"} => disp[h].id \in 1..issued
  /\ \A p \in Procs : pc[p] \in Projects => target[p] \in JobState
  /\ disp \in [Handlers -> [id : Nat, attempt : Nat]]
  /\ draining \in [Drainers -> Message \cup {NoMessage}]
  /\ dedupe \in BOOLEAN /\ auditDue \in BOOLEAN /\ cancelled \in BOOLEAN

\* A result carries an outcome.
ResultInv == \A m \in applied : m.reports \in Outcomes

\* A drainer works on a result that was committed.
DrainInv == \A d \in Drainers : pc[d] # "idle" => draining[d] \in applied

HashInv == FenceInv /\ AttemptInv /\ ResultInv /\ Shape /\ DrainInv

USE DEF Goto, Enter, Stay, CallSetState, CallProject, CallCancelJob, CallCancelAllAttempts,
        legacy, calls, scheduler

-----------------------------------------------------------------------------
\* What the use of a budget does to the counts.
LEMMA UseCounts ==
  ASSUME used \in [Kinds -> Nat], NEW k \in Kinds, Use(k)
  PROVE  used' \in [Kinds -> Nat] /\ used'[k] # 0
BY DEF Use

\* Nothing has happened at first.
LEMMA InitHash == DispatchInit => HashInv
<1> SUFFICES ASSUME DispatchInit PROVE HashInv
  BY Zenon
<1> USE DEF DispatchInit, StoreInit
<1>1. FenceInv
  BY Zenon, FenceInit
<1>2. AttemptInv
  BY DEF AttemptInv, Init, EmptyHash
<1>3. Shape
  <2>1. StoreTypeOK
    BY Zenon, <1>1 DEF StoreTypeOK, FenceInv
  <2>2. DispatchTypeOK
    <3>1. lock = NoHandler /\ stream = {} /\ rolledBack = {} /\ used \in [Kinds -> Nat]
      BY Zenon
    <3> QED BY Zenon, <2>1, <3>1 DEF DispatchTypeOK
  <2>3. disp \in [Handlers -> [id : Nat, attempt : Nat]]
    BY Zenon
  <2>4. /\ pc \in [Procs -> Labels] /\ cont \in [Procs -> Returns]
        /\ \A p \in Procs : pc[p] = "idle"
    BY Zenon DEF Returns, Labels
  <2>5. Handlers \subseteq Procs
    BY Zenon DEF Procs
  <2> QED BY Zenon, <2>2, <2>3, <2>4, <2>5 DEF Shape, Projects
<1>4. DrainInv
  BY Zenon DEF DrainInv, Procs
<1>5. ResultInv
  BY Zenon DEF ResultInv, Init
<1> QED BY Zenon, <1>1, <1>2, <1>3, <1>4, <1>5 DEF HashInv

\* A step of the job store moves the runtime hash by one script or leaves it.
LEMMA StoreMovesHash ==
  ASSUME HashInv, NEW p \in Procs, StoreStep(p)
  PROVE  [Next]_vars
<1>1. CASE SetStateScript(p)
  <2>1. TransitionRuntimeState(target[p]) => target[p] \in JobState
    BY Zenon, TransitionsStayInJobState DEF TransitionRuntimeState, HashInv, FenceInv, TypeOK
  <2> QED BY Zenon, <1>1, <2>1 DEF SetStateScript, Next
<1>2. CASE MigrateWrite(p, "cancel_migrate", "cancel_script")
  <2>1. seen[p] \in JobState \cup {NoState}
    BY Zenon DEF HashInv, Shape, DispatchTypeOK, StoreTypeOK
  <2> QED BY Zenon, <1>2, <2>1 DEF MigrateWrite, Next
<1>3. CASE CancelScript(p)
  BY Zenon, <1>3 DEF CancelScript, Next
<1> QED BY Zenon, <1>1, <1>2, <1>3
        DEF StoreStep, SetStateExists, SetStateHGet, SetStateWithContext, ProjectMeta, ProjectZRem,
            ProjectZAdd, CancelJobExists, CancelJobMeta, MigrateRead

\* A step of a handler does so too: RollbackDispatch names a dispatch and an
\* attempt that exist, for they are those of the fence.
LEMMA HandlerMovesHash ==
  ASSUME HashInv, NEW h \in Handlers, Handle(h)
  PROVE  [Next]_vars
<1>1. CASE BeginMigrate(h)
  <2>1. seen[h] \in JobState \cup {NoState}
    BY Zenon DEF HashInv, Shape, DispatchTypeOK, StoreTypeOK, Procs
  <2> QED BY Zenon, <1>1, <2>1 DEF BeginMigrate, MigrateRead, MigrateWrite, Next
<1>2. CASE BeginFence(h)
  BY Zenon, <1>2 DEF BeginFence, Next
<1>3. CASE rollbackFailedDispatch(h)
  <2>1. RollbackDispatch(disp[h].id, disp[h].attempt) =>
          disp[h].id \in 1..MaxIssued /\ disp[h].attempt \in 1..MaxIssued
    BY MaxIssuedAssumption DEF RollbackDispatch, HashInv, FenceInv, TypeOK, AttemptInv, Fence
  <2> QED BY Zenon, <1>3, <2>1 DEF rollbackFailedDispatch, Next
<1> QED BY Zenon, <1>1, <1>2, <1>3
        DEF Handle, Acquire, ReadState, Decide, EmitDLQ, MarkDispatched, BeginFails, Publish,
            Release, Crash

\* Every step of the scheduler, the store, the workers and the drainers does so.
LEMMA MovesHash ==
  ASSUME HashInv, [DispatchNext]_all
  PROVE  [Next]_vars
<1>1. CASE WorkerReports
  BY Zenon, <1>1 DEF WorkerReports, Next
<1>2. ASSUME NEW d \in Drainers, DrainAck(d) PROVE [Next]_vars
  <2>1. draining[d] \in Deliverable
    BY Zenon, <1>2 DEF DrainAck, HashInv, DrainInv, FenceInv, TypeOK, AppliedWereIssued, Deliverable
  <2> QED BY Zenon, <1>2, <2>1 DEF DrainAck, Next
<1>3. CASE UNCHANGED all
  BY Zenon, <1>3 DEF all
<1> QED BY Zenon, <1>1, <1>2, <1>3, StoreMovesHash, HandlerMovesHash
        DEF DispatchNext, LockExpires, DedupeWindowCloses, DrainStart, DrainChecks, AuditStart,
            AuditRead, EmitDLQ, Release, CancelStart, CancelReturns, TimeoutListed, TimeoutRefused

-----------------------------------------------------------------------------
\* Only process p moves.
Moves(p) ==
  \A q \in Procs \ {p} :
    pc'[q] = pc[q] /\ target'[q] = target[q] /\ cont'[q] = cont[q] /\ seen'[q] = seen[q]

\* A step of the store moves the process whose call it is.
LEMMA StoreMoves ==
  ASSUME Shape, NEW p \in Procs, StoreStep(p)
  PROVE  Moves(p) /\ pc[p] # "idle"
<1> USE DEF Shape, DispatchTypeOK, StoreTypeOK, Moves
<1>1. CASE SetStateExists(p) \/ SetStateScript(p) \/ SetStateHGet(p) \/ SetStateWithContext(p)
  BY Zenon, <1>1 DEF SetStateExists, SetStateScript, SetStateHGet, SetStateWithContext
<1>2. CASE ProjectMeta(p) \/ ProjectZRem(p) \/ ProjectZAdd(p)
  BY Zenon, <1>2 DEF ProjectMeta, ProjectZRem, ProjectZAdd
<1>3. CASE \/ CancelJobExists(p) \/ MigrateRead(p, "cancel_read", "cancel_migrate")
           \/ MigrateWrite(p, "cancel_migrate", "cancel_script")
  BY Zenon, <1>3 DEF CancelJobExists, MigrateRead, MigrateWrite
<1>4. CASE CancelJobMeta(p) \/ CancelScript(p)
  BY Zenon, <1>4 DEF CancelJobMeta, CancelScript
<1> QED BY Zenon, <1>1, <1>2, <1>3, <1>4 DEF StoreStep

\* A step of a handler moves that handler.
LEMMA HandlerMoves ==
  ASSUME Shape, NEW h \in Handlers, Handle(h)
  PROVE  Moves(h) /\ (pc[h] # "idle" \/ Acquire(h))
<1> USE DEF Shape, DispatchTypeOK, StoreTypeOK, Moves
<1>1. CASE Acquire(h) \/ ReadState(h) \/ EmitDLQ(h) \/ MarkDispatched(h) \/ BeginFails(h)
  BY Zenon, <1>1 DEF Acquire, ReadState, EmitDLQ, MarkDispatched, BeginFails
<1>2. CASE Decide(h)
  BY Zenon, <1>2 DEF Decide, ChooseWorker, RequireApproval, DenyJob, FailJob, CompleteGate, Requeue
<1>3. CASE BeginMigrate(h) \/ BeginFence(h)
  BY Zenon, <1>3 DEF BeginMigrate, MigrateRead, MigrateWrite, BeginFence
<1>4. CASE Publish(h) \/ rollbackFailedDispatch(h)
  BY Zenon, <1>4 DEF Publish, rollbackFailedDispatch
<1>5. CASE Release(h) \/ Crash(h)
  BY Zenon, <1>5 DEF Release, Crash
<1> QED BY Zenon, <1>1, <1>2, <1>3, <1>4, <1>5 DEF Handle

\* So do the steps of the other processes.
LEMMA RestMoves ==
  ASSUME Shape
  PROVE  /\ LockExpires \/ DedupeWindowCloses \/ WorkerReports \/ UNCHANGED all => UNCHANGED calls
         /\ AuditStart \/ AuditRead \/ EmitDLQ(Auditor) \/ Release(Auditor) => Moves(Auditor)
         /\ CancelStart \/ CancelReturns => Moves(Canceller)
         /\ TimeoutListed \/ TimeoutRefused => Moves(Reconciler)
         /\ \A d \in Drainers : DrainStart(d) \/ DrainChecks(d) \/ DrainAck(d) => Moves(d)
<1> USE DEF Shape, DispatchTypeOK, StoreTypeOK, Moves
<1>1. LockExpires \/ DedupeWindowCloses \/ WorkerReports \/ UNCHANGED all => UNCHANGED calls
  BY Zenon DEF LockExpires, DedupeWindowCloses, WorkerReports, all
<1>2. AuditStart \/ AuditRead \/ EmitDLQ(Auditor) \/ Release(Auditor) => Moves(Auditor)
  BY Zenon DEF AuditStart, AuditRead, EmitDLQ, Release
<1>3. CancelStart \/ CancelReturns => Moves(Canceller)
  BY Zenon DEF CancelStart, CancelReturns
<1>4. TimeoutListed \/ TimeoutRefused => Moves(Reconciler)
  BY Zenon DEF TimeoutListed, TimeoutRefused
<1>5. \A d \in Drainers : DrainStart(d) \/ DrainChecks(d) \/ DrainAck(d) => Moves(d)
  BY DEF DrainStart, DrainChecks, DrainAck
<1> QED BY Zenon, <1>1, <1>2, <1>3, <1>4, <1>5

-----------------------------------------------------------------------------
\* BeginDispatch moves the attempt and the dispatches issued together.
LEMMA AttemptStep ==
  ASSUME FenceInv, AttemptInv, [Next]_vars
  PROVE  AttemptInv'
<1> USE MaxIssuedAssumption DEF FenceInv, TypeOK, AttemptInv
<1>1. ASSUME NEW w \in Workers, NEW t \in Tenants, BeginDispatch(w, t) PROVE AttemptInv'
  BY <1>1 DEF BeginDispatch
<1>2. CASE Expire
  BY <1>2 DEF Expire
<1> QED BY Zenon, <1>1, <1>2
        DEF Next, vars, Migrate, TransitionRuntimeState, RollbackDispatch, ApplyJobResult,
            AcceptSignedJobEvent, AcceptJobEvent, AckJobEffect, CancelAllJobAttempts

\* ApplyJobResult refuses a progress report.
LEMMA ResultStep ==
  ASSUME FenceInv, ResultInv, [Next]_vars
  PROVE  ResultInv'
<1> SUFFICES ASSUME NEW m \in applied' \ applied PROVE m.reports \in Outcomes
  BY Zenon DEF ResultInv
<1> QED BY Zenon, OnlyApplyCommits DEF ApplyJobResult, Message

\* Dispatches and committed results are never taken back.
LEMMA HistoryGrows ==
  ASSUME FenceInv, [Next]_vars
  PROVE  applied \subseteq applied' /\ issued <= issued'
  BY MaxIssuedAssumption
  DEF FenceInv, TypeOK, Next, vars, Migrate, TransitionRuntimeState, BeginDispatch,
      RollbackDispatch, ApplyJobResult, AcceptSignedJobEvent, AcceptJobEvent, AckJobEffect,
      CancelAllJobAttempts, Expire

\* A step of the store writes job states where job states belong.
LEMMA StoreShape ==
  ASSUME HashInv, NEW p \in Procs, StoreStep(p), UNCHANGED scheduler, TypeOK', issued <= issued'
  PROVE  Shape'
<1> USE DEF HashInv, Shape, DispatchTypeOK, StoreTypeOK
<1>1. meta' \in JobState \cup {NoState} /\ indexed' \subseteq JobState
  <2>1. isAllowedTransition(meta, target[p]) => target[p] \in JobState
    BY Zenon, TransitionsStayInJobState
  <2> QED BY Zenon, <2>1
          DEF StoreStep, SetStateExists, SetStateScript, SetStateHGet, SetStateWithContext, ProjectMeta,
              ProjectZRem, ProjectZAdd, CancelJobExists, CancelJobMeta, MigrateRead, MigrateWrite,
              CancelScript, Projects, JobState
<1>2. /\ target' \in [Procs -> JobState \cup {NoState}]
      /\ seen' \in [Procs -> JobState \cup {NoState}]
      /\ \A q \in Procs : q # p => target'[q] = target[q]
      /\ pc' \in [Procs -> Labels] /\ UNCHANGED cont
      /\ \A q \in Procs : q # p => pc'[q] = pc[q]
      /\ pc'[p] \notin {"publish", "rollback"}
      /\ pc'[p] \in Projects => target'[p] \in JobState
  <2> USE DEF Returns, Projects, Labels
  <2>1. CASE SetStateExists(p) \/ SetStateScript(p) \/ SetStateHGet(p) \/ SetStateWithContext(p)
    BY <2>1 DEF SetStateExists, SetStateScript, SetStateHGet, SetStateWithContext
  <2>2. CASE ProjectMeta(p) \/ ProjectZRem(p) \/ ProjectZAdd(p)
    BY <2>2 DEF ProjectMeta, ProjectZRem, ProjectZAdd
  <2>3. CASE \/ CancelJobExists(p) \/ MigrateRead(p, "cancel_read", "cancel_migrate")
             \/ MigrateWrite(p, "cancel_migrate", "cancel_script")
    BY <2>3 DEF CancelJobExists, MigrateRead, MigrateWrite
  <2>4. CASE CancelJobMeta(p)
    BY <2>4 DEF CancelJobMeta, JobState
  <2>5. CASE CancelScript(p)
    <3>1. "CANCELLED" \in JobState /\ (state \in cancelRefused => state \in JobState)
      BY Zenon DEF FenceInv, TypeOK, cancelRefused, JobState, NoState
    <3>2. \E s \in JobState : target' = [target EXCEPT ![p] = s]
      BY Zenon, <2>5, <3>1 DEF CancelScript
    <3>3. pc' = [pc EXCEPT ![p] = "project"] /\ UNCHANGED <<cont, seen>>
      BY Zenon, <2>5 DEF CancelScript
    <3> QED BY <3>2, <3>3
  <2> QED BY Zenon, <2>1, <2>2, <2>3, <2>4, <2>5 DEF StoreStep
<1>3. \A q \in Procs : pc'[q] \in Projects => target'[q] \in JobState
  BY Zenon, <1>2
<1>4. \A h \in Handlers : pc'[h] \in {"publish", "rollback"} => disp'[h].id \in 1..issued'
  BY <1>2 DEF TypeOK, FenceInv, Procs
<1>5. stream' \subseteq 1..issued' /\ rolledBack' \subseteq 1..issued'
  BY DEF TypeOK, FenceInv
<1> QED BY Zenon, <1>1, <1>2, <1>3, <1>4, <1>5

\* A step of a handler moves itself, and a dispatch it publishes or rolls back is
\* one that was issued.
LEMMA HandlerShape ==
  ASSUME HashInv, NEW h \in Handlers, Handle(h), TypeOK', issued <= issued'
  PROVE  Shape'
<1> USE DEF HashInv, Shape, DispatchTypeOK, StoreTypeOK
<1>1. /\ h \in Procs /\ issued \in Nat /\ issued' \in Nat
      /\ \A q \in Handlers : q \in Procs
  BY DEF Procs, FenceInv, TypeOK
<1>2. UNCHANGED <<legacy, draining, auditDue, cancelled>>
  BY Zenon DEF Handle, Acquire, ReadState, Decide, EmitDLQ, MarkDispatched, BeginMigrate, MigrateRead,
         MigrateWrite, BeginFence, BeginFails, Publish, rollbackFailedDispatch, Release, Crash
<1>3. /\ pc' \in [Procs -> Labels] /\ cont' \in [Procs -> Returns]
      /\ target' \in [Procs -> JobState \cup {NoState}]
      /\ seen' \in [Procs -> JobState \cup {NoState}]
      /\ \A q \in Procs : q # h => pc'[q] = pc[q] /\ target'[q] = target[q]
      /\ pc'[h] \notin Projects
      /\ lock' \in Handlers \cup {Auditor, NoHandler}
  <2> USE <1>1 DEF Returns, Labels, Projects, JobState
  <2>1. CASE Acquire(h) \/ ReadState(h)
    <3>1. CASE Acquire(h)
      BY Zenon, <3>1 DEF Acquire
    <3>2. CASE ReadState(h)
      BY Zenon, <3>2 DEF ReadState
    <3> QED BY Zenon, <2>1, <3>1, <3>2
  <2>2. CASE Decide(h)
    BY Zenon, <2>2 DEF Decide, ChooseWorker, RequireApproval, DenyJob, FailJob, CompleteGate, Requeue
  <2>3. CASE EmitDLQ(h) \/ MarkDispatched(h) \/ BeginFails(h)
    BY Zenon, <2>3 DEF EmitDLQ, MarkDispatched, BeginFails
  <2>4. CASE BeginMigrate(h) \/ BeginFence(h)
    <3>1. CASE BeginMigrate(h)
      BY <3>1 DEF BeginMigrate, MigrateRead, MigrateWrite
    <3>2. CASE BeginFence(h)
      BY Zenon, <3>2 DEF BeginFence
    <3> QED BY Zenon, <2>4, <3>1, <3>2
  <2>5. CASE Publish(h) \/ rollbackFailedDispatch(h)
    BY Zenon, <2>5 DEF Publish, rollbackFailedDispatch
  <2>6. CASE Release(h) \/ Crash(h)
    BY <2>6 DEF Release, Crash
  <2> QED BY Zenon, <2>1, <2>2, <2>3, <2>4, <2>5, <2>6 DEF Handle
<1>4. \A q \in Procs : pc'[q] \in Projects => target'[q] \in JobState
  BY Zenon, <1>3
<1>5. used' \in [Kinds -> Nat] /\ dedupe' \in BOOLEAN
  <2>1. /\ \/ UNCHANGED used \/ Use("publish") \/ Use("crash")
        /\ dedupe' \in {dedupe, TRUE}
    BY Zenon DEF Handle, Acquire, ReadState, Decide, EmitDLQ, MarkDispatched, BeginMigrate,
           BeginFence, BeginFails, Publish, rollbackFailedDispatch, Release, Crash
  <2>2. "publish" \in Kinds /\ "crash" \in Kinds
    BY Zenon DEF Kinds
  <2> QED BY Zenon, <2>1, <2>2, UseCounts
<1>6. /\ disp' \in [Handlers -> [id : Nat, attempt : Nat]]
      /\ \A q \in Handlers : pc'[q] \in {"publish", "rollback"} => disp'[q].id \in 1..issued'
      /\ stream' \subseteq 1..issued' /\ rolledBack' \subseteq 1..issued'
  <2>1. CASE BeginFence(h)
    <3>1. issued' \in 1..issued' /\ attempt' \in Nat /\ UNCHANGED <<stream, rolledBack>>
      BY <1>1, <2>1 DEF BeginFence, BeginDispatch, TypeOK
    <3>2. disp' = [disp EXCEPT ![h] = [id |-> issued', attempt |-> attempt']]
      BY Zenon, <2>1 DEF BeginFence
    <3> QED BY <1>1, <1>3, <3>1, <3>2
  <2>2. CASE Publish(h)
    <3>1. UNCHANGED <<disp, rolledBack, issued>> /\ stream' \subseteq stream \cup {disp[h].id}
      BY Zenon, <2>2 DEF Publish, vars
    <3>2. disp[h].id \in 1..issued
      BY Zenon, <2>2 DEF Publish
    <3> QED BY Zenon, <1>1, <1>3, <3>1, <3>2
  <2>3. CASE rollbackFailedDispatch(h)
    <3>1. UNCHANGED <<disp, stream, issued>> /\ rolledBack' \subseteq rolledBack \cup {disp[h].id}
      BY Zenon, <2>3 DEF rollbackFailedDispatch, RollbackDispatch, vars
    <3>2. disp[h].id \in 1..issued
      BY Zenon, <2>3 DEF rollbackFailedDispatch
    <3> QED BY Zenon, <1>1, <1>3, <3>1, <3>2
  <2>4. CASE ~(BeginFence(h) \/ Publish(h) \/ rollbackFailedDispatch(h))
    <3>1. UNCHANGED <<disp, stream, rolledBack>> /\ pc'[h] \notin {"publish", "rollback"}
      BY Zenon, <1>1, <2>4
      DEF Handle, Acquire, ReadState, Decide, ChooseWorker, RequireApproval, DenyJob, FailJob,
          CompleteGate, Requeue, EmitDLQ, MarkDispatched, BeginMigrate, MigrateRead, MigrateWrite,
          BeginFails, Release, Crash
    <3> QED BY <1>1, <1>3, <3>1
  <2> QED BY Zenon, <2>1, <2>2, <2>3, <2>4
<1> QED BY Zenon, <1>2, <1>3, <1>4, <1>5, <1>6

\* The other processes.
LEMMA RestShape ==
  ASSUME HashInv, TypeOK', issued <= issued',
         \/ LockExpires \/ DedupeWindowCloses \/ WorkerReports
         \/ \E d \in Drainers : DrainStart(d) \/ DrainChecks(d) \/ DrainAck(d)
         \/ AuditStart \/ AuditRead \/ EmitDLQ(Auditor) \/ Release(Auditor)
         \/ CancelStart \/ CancelReturns \/ TimeoutListed \/ TimeoutRefused
         \/ UNCHANGED all
  PROVE  Shape'
<1> USE DEF HashInv, Shape, DispatchTypeOK, StoreTypeOK
<1>1. /\ issued \in Nat /\ issued' \in Nat /\ Handlers \subseteq Procs /\ Drainers \subseteq Procs
      /\ {Auditor, Canceller, Reconciler} \subseteq Procs
      /\ Handlers \cap (Drainers \cup {Auditor, Canceller, Reconciler}) = {}
  BY ProcsAssumption DEF Procs, FenceInv, TypeOK
<1>2. UNCHANGED <<legacy, disp, stream, rolledBack>>
  BY Zenon DEF LockExpires, DedupeWindowCloses, WorkerReports, DrainStart, DrainChecks, DrainAck,
         AuditStart, AuditRead, EmitDLQ, Release, CancelStart, CancelReturns, TimeoutListed,
         TimeoutRefused, all
<1>3. used' \in [Kinds -> Nat] /\ dedupe' \in BOOLEAN /\ auditDue' \in BOOLEAN /\ cancelled' \in BOOLEAN
  <2>1. used' \in [Kinds -> Nat]
    <3>1. \/ UNCHANGED used \/ Use("publish") \/ Use("retry") \/ Use("replay") \/ Use("audit")
          \/ Use("job") \/ Use("attempts") \/ Use("timeout")
      BY Zenon DEF LockExpires, DedupeWindowCloses, WorkerReports, DrainStart, DrainChecks, DrainAck,
             AuditStart, AuditRead, EmitDLQ, Release, CancelStart, CancelReturns, TimeoutListed,
             TimeoutRefused, all
    <3>2. {"publish", "retry", "replay", "audit", "job", "attempts", "timeout"} \subseteq Kinds
      BY Zenon DEF Kinds
    <3> QED BY Zenon, <3>1, <3>2, UseCounts
  <2>2. dedupe' \in {FALSE, dedupe}
    BY Zenon DEF LockExpires, DedupeWindowCloses, WorkerReports, DrainStart, DrainChecks, DrainAck,
           AuditStart, AuditRead, EmitDLQ, Release, CancelStart, CancelReturns, TimeoutListed,
           TimeoutRefused, all
  <2>3. UNCHANGED auditDue \/ \E d \in Drainers : DrainChecks(d)
    BY Zenon DEF LockExpires, DedupeWindowCloses, WorkerReports, DrainStart, DrainAck,
           AuditStart, AuditRead, EmitDLQ, Release, CancelStart, CancelReturns, TimeoutListed,
           TimeoutRefused, all
  <2>4. UNCHANGED cancelled \/ CancelReturns
    BY Zenon DEF LockExpires, DedupeWindowCloses, WorkerReports, DrainStart, DrainChecks, DrainAck,
           AuditStart, AuditRead, EmitDLQ, Release, CancelStart, TimeoutListed,
           TimeoutRefused, all
  <2>5. (\E d \in Drainers : DrainChecks(d)) => auditDue' \in BOOLEAN
    BY Zenon DEF DrainChecks
  <2>6. CancelReturns => cancelled' \in BOOLEAN
    BY Zenon DEF CancelReturns
  <2> QED BY Zenon, <2>1, <2>2, <2>3, <2>4, <2>5, <2>6
<1>4. lock' \in Handlers \cup {Auditor, NoHandler}
  BY Zenon DEF LockExpires, DedupeWindowCloses, WorkerReports, DrainStart, DrainChecks, DrainAck,
         AuditStart, AuditRead, EmitDLQ, Release, CancelStart, CancelReturns, TimeoutListed,
         TimeoutRefused, all
<1>5. /\ draining' \in [Drainers -> Message \cup {NoMessage}]
      /\ pc' \in [Procs -> Labels] /\ cont' \in [Procs -> Returns]
      /\ target' \in [Procs -> JobState \cup {NoState}]
      /\ seen' \in [Procs -> JobState \cup {NoState}]
      /\ \A h \in Handlers : pc'[h] = pc[h]
      /\ \A q \in Procs : pc'[q] \in Projects => target'[q] \in JobState
  <2> USE <1>1 DEF Returns, Labels, Projects, JobState
  <2>1. CASE LockExpires \/ DedupeWindowCloses \/ WorkerReports \/ UNCHANGED all
    BY Zenon, <2>1 DEF LockExpires, DedupeWindowCloses, WorkerReports, all
  <2>2. CASE \E d \in Drainers : DrainStart(d)
    <3>1. PICK d \in Drainers : DrainStart(d)
      BY Zenon, <2>2
    <3>2. PICK mid \in MessageIds :
            /\ effects[mid] # NoMessage
            /\ CallProject(d, effects[mid].reports, "projected")
            /\ draining' = [draining EXCEPT ![d] = effects[mid]]
      BY Zenon, <3>1 DEF DrainStart
    <3>3. effects[mid] \in Message /\ effects[mid].reports \in JobState
      BY Zenon, <3>2, OutcomesAssumption
      DEF FenceInv, TypeOK, EffectsAreCommittedResults, ResultInv, ResultStates
    <3> HIDE DEF JobState
    <3> QED BY Zenon, <3>2, <3>3
  <2>3. CASE \E d \in Drainers : DrainChecks(d) \/ DrainAck(d)
    <3>1. CASE \E d \in Drainers : DrainChecks(d)
      BY <3>1 DEF DrainChecks
    <3>2. CASE \E d \in Drainers : DrainAck(d)
      BY <3>2 DEF DrainAck
    <3> QED BY Zenon, <2>3, <3>1, <3>2
  <2>4. CASE AuditStart \/ AuditRead \/ EmitDLQ(Auditor) \/ Release(Auditor)
    <3>1. CASE AuditStart \/ AuditRead
      BY <3>1 DEF AuditStart, AuditRead
    <3>2. CASE EmitDLQ(Auditor) \/ Release(Auditor)
      BY <3>2 DEF EmitDLQ, Release
    <3> QED BY Zenon, <2>4, <3>1, <3>2
  <2>5. CASE CancelStart \/ CancelReturns \/ TimeoutListed \/ TimeoutRefused
    <3>1. CASE CancelStart \/ CancelReturns
      BY <3>1 DEF CancelStart, CancelReturns
    <3>2. CASE TimeoutListed \/ TimeoutRefused
      BY <3>2 DEF TimeoutListed, TimeoutRefused
    <3> QED BY Zenon, <2>5, <3>1, <3>2
  <2> QED BY Zenon, <2>1, <2>2, <2>3, <2>4, <2>5
<1> QED BY <1>1, <1>2, <1>3, <1>4, <1>5

\* A drainer is idle until it lists an effect, and the outbox holds committed
\* results only.
LEMMA DrainStep ==
  ASSUME HashInv, [DispatchNext]_all, applied \subseteq applied'
  PROVE  DrainInv'
<1> USE DEF HashInv, Shape, DrainInv
<1> SUFFICES ASSUME NEW d \in Drainers, pc'[d] # "idle" PROVE draining'[d] \in applied'
  BY Zenon
<1>2. /\ d \in Procs /\ d \notin Handlers /\ d \notin {Canceller, Reconciler, Auditor}
      /\ Handlers \subseteq Procs
  BY Zenon, ProcsAssumption DEF Procs
<1>3. CASE DrainStart(d)
  BY Zenon, <1>3 DEF DrainStart, FenceInv, TypeOK, EffectsAreCommittedResults
<1>4. CASE ~DrainStart(d)
  <2>1. draining'[d] = draining[d]
    BY Zenon, <1>4 DEF DispatchNext, Handle, Acquire, ReadState, Decide, EmitDLQ, MarkDispatched,
         BeginMigrate, BeginFence, BeginFails, Publish, rollbackFailedDispatch, Release, Crash,
         LockExpires, DedupeWindowCloses, WorkerReports, DrainStart, DrainChecks, DrainAck,
         AuditStart, AuditRead, CancelStart, CancelReturns, TimeoutListed, TimeoutRefused, all
  <2>2. pc[d] # "idle"
    <3>1. ASSUME NEW p \in Procs, StoreStep(p) PROVE pc[d] # "idle"
      BY Zenon, <1>2, <3>1, StoreMoves DEF Moves
    <3>2. ASSUME NEW h \in Handlers, Handle(h) PROVE pc[d] # "idle"
      BY Zenon, <1>2, <3>2, HandlerMoves DEF Moves
    <3>3. ASSUME NEW e \in Drainers, DrainStart(e) \/ DrainChecks(e) \/ DrainAck(e)
          PROVE  pc[d] # "idle"
      BY Zenon, <1>2, <1>4, <3>3 DEF DrainStart, DrainChecks, DrainAck
    <3>4. CASE \/ LockExpires \/ DedupeWindowCloses \/ WorkerReports \/ UNCHANGED all
               \/ AuditStart \/ AuditRead \/ EmitDLQ(Auditor) \/ Release(Auditor)
               \/ CancelStart \/ CancelReturns \/ TimeoutListed \/ TimeoutRefused
      BY Zenon, <1>2, <3>4, RestMoves DEF Moves, Procs
    <3> QED BY Zenon, <3>1, <3>2, <3>3, <3>4 DEF DispatchNext
  <2> QED BY Zenon, <2>1, <2>2
<1> QED BY Zenon, <1>3, <1>4

\* Every step keeps what the refinement rests on.
LEMMA HashStep == HashInv /\ [DispatchNext]_all => HashInv'
<1> SUFFICES ASSUME HashInv, [DispatchNext]_all PROVE HashInv'
  BY Zenon
<1>1. [Next]_vars
  BY Zenon, MovesHash
<1>2. FenceInv' /\ AttemptInv' /\ ResultInv' /\ applied \subseteq applied' /\ issued <= issued'
  BY Zenon, <1>1, FenceStep, AttemptStep, ResultStep, HistoryGrows DEF HashInv
<1>3. Shape'
  BY Zenon, <1>2, StoreShape, HandlerShape, RestShape DEF DispatchNext, FenceInv
<1>4. DrainInv'
  BY Zenon, <1>2, DrainStep
<1> QED BY Zenon, <1>2, <1>3, <1>4 DEF HashInv

\* The types, and what the refinement rests on, in every reachable state.
THEOREM HashInvariant == DispatchSpec => []HashInv
  BY InitHash, HashStep, PTL DEF DispatchSpec

\* The scheduler, the store, the workers, the drainers, the output check and the
\* cancellations together implement the runtime hash: whatever their round trips
\* do in between, the hash moves by one of its scripts at a time.
THEOREM SchedulerStepsHash == DispatchSpec => StepsRuntimeHash
<1>1. DispatchInit => Init
  BY Zenon DEF DispatchInit, StoreInit
<1>2. HashInv /\ [DispatchNext]_all => [Next]_vars
  BY Zenon, MovesHash
<1> QED BY <1>1, <1>2, HashInvariant, PTL DEF DispatchSpec, StepsRuntimeHash, Spec

\* The fields of the store and the stream hold what they are declared to hold,
\* and the stream only dispatches that were issued.
THEOREM DispatchTypeCorrect == DispatchSpec => []DispatchTypeOK
<1>1. HashInv => DispatchTypeOK
  BY Zenon DEF HashInv, Shape
<1> QED BY <1>1, HashInvariant, PTL

\* What was shown of the hash under any caller holds in the whole
\* system: a result lands on the newest dispatch and nothing lands after an outcome,
\* whatever handlers, drainers and cancellations do in between.
THEOREM SchedulerKeepsFence == DispatchSpec => OnlyNewestDispatchLands /\ NothingLandsAfterOutcome
  BY SchedulerStepsHash, NewestDispatchLands, OutcomeIsFinal, PTL DEF StepsRuntimeHash

-----------------------------------------------------------------------------
(* The protocol: the job lock, the calls of each process, the order of a   *)
(* handler's steps.                                                        *)

\* The processes that work under the job lock.
Lockers == Handlers \cup {Auditor}

\* withJobLock: only the holder of the lock is at work.
LockInv == \A p \in Lockers : pc[p] # "idle" => lock = p

\* The labels of SetState, and the states a handler sets on the way to a label.
Calls == {"exists", "script", "hget", "legacy"}
HandlerCalls ==
  {<<"PENDING", "decide">>, <<"FAILED", "dlq">>, <<"DENIED", "dlq">>,
   <<"APPROVAL_REQUIRED", "release">>, <<"SUCCEEDED", "release">>,
   <<"SCHEDULED", "scheduled">>, <<"SCHEDULED", "release">>,
   <<"DISPATCHED", "begin">>, <<"RUNNING", "release">>}

\* Which calls each process makes, and where it goes on after them.
HandlerCall(h) ==
  /\ pc[h] \in Calls \cup {"idle", "read", "decide", "dlq", "scheduled", "begin",
                 "begin_migrate", "fence", "publish", "rollback", "release", "failed"}
  /\ pc[h] \in Calls => <<target[h], cont[h]>> \in HandlerCalls
AuditorCall ==
  /\ pc[Auditor] \in Calls \cup {"idle", "read", "dlq", "release", "failed"}
  /\ pc[Auditor] \in Calls => target[Auditor] = "OUTPUT_QUARANTINED" /\ cont[Auditor] = "dlq"
ReconcilerCall ==
  /\ pc[Reconciler] \in Calls \cup {"idle", "failed"}
  /\ pc[Reconciler] \in Calls => target[Reconciler] = "TIMEOUT" /\ cont[Reconciler] = "idle"
CancellerCall ==
  /\ pc[Canceller] \in Projects \cup {"idle", "cancel", "cancel_read", "cancel_migrate",
                                      "cancel_script", "cancel_meta", "cancelled"}
  /\ pc[Canceller] # "idle" => cont[Canceller] = "cancelled"
DrainerCall(d) ==
  /\ pc[d] \in Projects \cup {"idle", "projected", "ack"}
  /\ pc[d] \in Projects => cont[d] = "projected" /\ target[d] = draining[d].reports

CallInv ==
  /\ \A h \in Handlers : HandlerCall(h)
  /\ AuditorCall /\ ReconcilerCall /\ CancellerCall
  /\ \A d \in Drainers : DrainerCall(d)

\* What was counted before a process got where it is.
UsedInv ==
  /\ \A h \in Handlers : pc[h] = "rollback" => used.publish # 0
  /\ pc[Canceller] \in {"cancel", "cancel_meta"} => used.job # 0
  /\ pc[Canceller] # "idle" => used.job # 0 \/ used.attempts # 0
  /\ pc[Reconciler] # "idle" => used.timeout # 0

\* Nothing in the scheduler waits for the hash to expire: a result that was
\* committed stays known to it, and a dispatch that was rolled back is not fenced.
EventInv ==
  /\ \A m \in applied : events[m.mid] = m
  /\ state = NoState => applied = {}
  /\ fence # NoFence => issued \notin rolledBack

\* RUNNING is written, or read, only after a publish; the broker takes for a
\* duplicate only what follows a message it stored.
RunningInv ==
  stream = {} =>
    /\ state # "RUNNING" /\ meta # "RUNNING" /\ ~dedupe
    /\ \A p \in Procs : seen[p] # "RUNNING" /\ target[p] # "RUNNING"

\* What a handler has established before it begins, publishes or rolls back a
\* dispatch: the job has a state, the hash exists once the fence is written, and
\* the dispatch is the newest one.
BeginInv ==
  \A h \in Handlers :
    /\ pc[h] = "script" => state # NoState
    /\ pc[h] = "begin" => meta # NoState
    /\ pc[h] = "begin_migrate" => seen[h] # NoState
    /\ pc[h] \in {"fence", "publish", "rollback"} => state # NoState
    /\ pc[h] \in {"publish", "rollback"} => disp[h].id = issued
    /\ pc[h] \in {"publish", "rollback"} /\ fence = NoFence => state \in terminalStates

ProtocolInv == LockInv /\ CallInv /\ UsedInv /\ EventInv /\ RunningInv /\ BeginInv

\* A cancellation of all attempts that answered, or will answer, CANCELLED has
\* cancelled the hash.
CancelInv ==
  used.job = 0 /\ used.publish = 0 =>
    /\ cancelled => state = "CANCELLED"
    /\ pc[Canceller] \in Projects \cup {"cancelled"} /\ target[Canceller] = "CANCELLED" =>
         state = "CANCELLED"

\* While only holders of the lock write, what a handler read to migrate is what
\* job:meta holds.
SeenInv ==
  OnlyLockedWriters /\ state = NoState =>
    \A h \in Handlers : pc[h] = "begin_migrate" => seen[h] = meta

\* The states in which handleJobRequest returns early.
Blocking == AwaitingWorker \cup terminalStates

\* No cancellation of all attempts, and one retry per dispatch.
Marked == used.attempts = 0 /\ AsksOnce

\* A handler that marked the job DISPATCHED finds it in a state that stops the next
\* handler, in the hash or, before there is one, in job:meta.
MarkedBy(h) ==
  /\ pc[h] = "hget" /\ cont[h] = "begin" => state \in Blocking
  /\ pc[h] = "legacy" /\ cont[h] = "begin" => state \in Blocking \cup {NoState}
  /\ pc[h] = "begin" => state \in Blocking \/ (state = NoState /\ meta \in Blocking)
  /\ pc[h] = "begin_migrate" => state \in Blocking \/ (state = NoState /\ seen[h] \in Blocking)
  /\ pc[h] \in {"fence", "publish"} => state \in Blocking

MarkInv ==
  Marked =>
    /\ pc[Canceller] \in {"cancel_read", "cancel_migrate", "cancel_script"} \cup Projects =>
         state # NoState
    /\ \A h \in Handlers : MarkedBy(h)

\* A dispatch on the stream that nothing has ended, and a handler on its way to
\* the next one.
Open(i) == i \in stream /\ i \notin rolledBack /\ ~Retried(i)
Dispatching(h) ==
  \/ pc[h] \in {"decide", "scheduled", "begin", "begin_migrate", "fence", "publish"}
  \/ pc[h] \in Calls /\ target[h] # "RUNNING"

\* While a dispatch is open it is the newest one, no handler is on its way to
\* another one, and the state stops those to come, unless the handler that
\* published it is still at work on it.
StaysOpen(i) ==
  /\ i = issued /\ state # NoState
  /\ fence = NoFence => state \in terminalStates
  /\ \A h \in Handlers : ~Dispatching(h)
  /\ \/ state \in Blocking
     \/ ~Marked /\ \E h \in Handlers : pc[h] \in {"exists", "script", "rollback"}

OpenInv ==
  used.crash = 0 \/ Marked => \A i \in stream : Open(i) => StaysOpen(i)

DispatchInv == ProtocolInv /\ CancelInv /\ SeenInv /\ MarkInv /\ OpenInv

-----------------------------------------------------------------------------
\* The processes are different from each other.
LEMMA Different ==
  /\ Handlers \subseteq Procs /\ Drainers \subseteq Procs
  /\ Canceller \in Procs /\ Reconciler \in Procs /\ Auditor \in Procs
  /\ \A h \in Handlers : h \notin Drainers /\ h \notin {Canceller, Reconciler, Auditor, NoHandler}
  /\ \A d \in Drainers : d \notin {Canceller, Reconciler, Auditor, NoHandler}
  /\ Canceller # Reconciler /\ Canceller # Auditor /\ Reconciler # Auditor
  /\ Auditor # NoHandler
  BY Zenon, ProcsAssumption, NoHandlerAssumption DEF Procs

\* All is idle at first.
LEMMA InitDispatch == DispatchInit => DispatchInv
<1> SUFFICES ASSUME DispatchInit PROVE DispatchInv
  BY Zenon
<1>1. /\ \A p \in Procs : pc[p] = "idle" /\ seen[p] = NoState /\ target[p] = NoState
      /\ state = NoState /\ meta = NoState /\ fence = NoFence /\ applied = {} /\ stream = {}
      /\ dedupe = FALSE /\ cancelled = FALSE
  BY Zenon DEF DispatchInit, StoreInit, Init, EmptyHash
<1>2. LockInv /\ UsedInv /\ EventInv /\ BeginInv /\ SeenInv /\ MarkInv
  BY Zenon, <1>1, Different DEF LockInv, Lockers, UsedInv, EventInv, BeginInv, SeenInv, MarkInv, MarkedBy,
     Calls, Projects
<1>3. CallInv
  BY Zenon, <1>1, Different
  DEF CallInv, HandlerCall, AuditorCall, ReconcilerCall, CancellerCall, DrainerCall, Calls, Projects
<1>4. RunningInv
  BY Zenon, <1>1 DEF RunningInv, NoState
<1>5. CancelInv /\ OpenInv
  BY Zenon, <1>1, Different DEF CancelInv, OpenInv, Projects
<1> QED BY Zenon, <1>2, <1>3, <1>4, <1>5 DEF DispatchInv, ProtocolInv

\* The lock passes from holder to holder, and only its holder leaves "idle".
LEMMA LockStep ==
  ASSUME Shape, LockInv, [DispatchNext]_all
  PROVE  LockInv'
<1> USE DEF LockInv, Lockers
<1>1. ASSUME NEW p \in Procs, StoreStep(p), UNCHANGED scheduler PROVE LockInv'
  BY Zenon, <1>1, StoreMoves, Different DEF Moves
<1>2. ASSUME NEW h \in Handlers, Handle(h) PROVE LockInv'
  <2>1. Moves(h) /\ (pc[h] # "idle" \/ Acquire(h))
    BY Zenon, <1>2, HandlerMoves
  <2>2. CASE Acquire(h)
    BY Zenon, <2>1, <2>2, Different DEF Acquire, Moves
  <2>3. CASE Release(h)
    BY <2>1, <2>3, Different DEF Release, Moves, Shape
  <2>4. CASE ~Acquire(h) /\ ~Release(h)
    <3>1. lock' = lock
      BY Zenon, <1>2, <2>4
      DEF Handle, ReadState, Decide, EmitDLQ, MarkDispatched, BeginMigrate, BeginFence, BeginFails,
          Publish, rollbackFailedDispatch, Crash
    <3> QED BY Zenon, <2>1, <2>4, <3>1, Different DEF Moves
  <2> QED BY Zenon, <2>2, <2>3, <2>4
<1>3. CASE LockExpires
  BY Zenon, <1>3, Different DEF LockExpires
<1>4. CASE AuditStart
  BY Zenon, <1>4, RestMoves, Different DEF AuditStart, Moves
<1>5. CASE Release(Auditor)
  BY <1>5, RestMoves, Different DEF Release, Moves, Shape
<1>6. CASE AuditRead \/ EmitDLQ(Auditor)
  BY Zenon, <1>6, RestMoves, Different DEF AuditRead, EmitDLQ, Moves
<1>7. CASE DedupeWindowCloses \/ WorkerReports \/ UNCHANGED all
  BY Zenon, <1>7 DEF DedupeWindowCloses, WorkerReports, all
<1>8. CASE CancelStart \/ CancelReturns \/ TimeoutListed \/ TimeoutRefused
  BY Zenon, <1>8, RestMoves, Different DEF CancelStart, CancelReturns, TimeoutListed, TimeoutRefused, Moves
<1>9. ASSUME NEW d \in Drainers, DrainStart(d) \/ DrainChecks(d) \/ DrainAck(d) PROVE LockInv'
  <2>1. lock' = lock
    BY Zenon, <1>9 DEF DrainStart, DrainChecks, DrainAck
  <2>2. Moves(d)
    BY Zenon, <1>9, RestMoves
  <2> QED BY Zenon, <2>1, <2>2, Different DEF Moves
<1> QED BY Zenon, <1>1, <1>2, <1>3, <1>4, <1>5, <1>6, <1>7, <1>8, <1>9 DEF DispatchNext

\* A process that does not move keeps its call.
LEMMA CallsKept ==
  ASSUME CallInv, NEW p \in Procs, Moves(p), \A d \in Drainers : d # p => draining'[d] = draining[d]
  PROVE  /\ \A h \in Handlers : h # p => HandlerCall(h)'
         /\ Auditor # p => AuditorCall'
         /\ Reconciler # p => ReconcilerCall'
         /\ Canceller # p => CancellerCall'
         /\ \A d \in Drainers : d # p => DrainerCall(d)'
  BY Different
  DEF CallInv, Moves, HandlerCall, AuditorCall, ReconcilerCall, CancellerCall, DrainerCall

\* The store leads a call on to its end or to "failed".
LEMMA StoreCalls ==
  ASSUME Shape, CallInv, NEW p \in Procs, StoreStep(p), UNCHANGED scheduler
  PROVE  CallInv'
<1> USE DEF Calls, Projects
<1>1. Moves(p)
  BY Zenon, StoreMoves
<1>2. pc' = [pc EXCEPT ![p] = pc'[p]] /\ cont' = cont
  BY Zenon DEF Shape, StoreStep, SetStateExists, SetStateScript, SetStateHGet, SetStateWithContext,
         ProjectMeta, ProjectZRem, ProjectZAdd, CancelJobExists, CancelJobMeta, MigrateRead,
         MigrateWrite, CancelScript
<1>3. pc[p] \in Calls =>
        /\ pc'[p] \in Calls \cup {"failed", cont[p]}
        /\ target'[p] = target[p] /\ cont'[p] = cont[p]
  BY Zenon DEF Shape, StoreStep, SetStateExists, SetStateScript, SetStateHGet, SetStateWithContext,
         ProjectMeta, ProjectZRem, ProjectZAdd, CancelJobExists, CancelJobMeta, MigrateRead,
         MigrateWrite, CancelScript
<1>4. pc[p] \in Projects =>
        /\ pc'[p] \in Projects \cup {cont[p]}
        /\ target'[p] = target[p] /\ cont'[p] = cont[p]
  BY Zenon DEF Shape, StoreStep, SetStateExists, SetStateScript, SetStateHGet, SetStateWithContext,
         ProjectMeta, ProjectZRem, ProjectZAdd, CancelJobExists, CancelJobMeta, MigrateRead,
         MigrateWrite, CancelScript
<1>5. pc[p] \notin Calls \cup Projects =>
        /\ pc[p] \in {"cancel", "cancel_meta", "cancel_read", "cancel_migrate", "cancel_script"}
        /\ pc'[p] \in {"cancel_meta", "cancel_read", "cancel_migrate", "cancel_script", "project",
                       "idle", cont[p]}
  BY Zenon DEF Shape, StoreStep, SetStateExists, SetStateScript, SetStateHGet, SetStateWithContext,
         ProjectMeta, ProjectZRem, ProjectZAdd, CancelJobExists, CancelJobMeta, MigrateRead,
         MigrateWrite, CancelScript
<1>6. p \in Handlers => HandlerCall(p)'
  BY Zenon, <1>2, <1>3, <1>5 DEF CallInv, HandlerCall, HandlerCalls
<1>7. p = Auditor => AuditorCall'
  BY Zenon, <1>2, <1>3, <1>5 DEF CallInv, AuditorCall
<1>8. p = Reconciler => ReconcilerCall'
  BY Zenon, <1>2, <1>3, <1>5 DEF CallInv, ReconcilerCall
<1>9. p = Canceller => CancellerCall'
  BY Zenon, <1>2, <1>4, <1>5 DEF CallInv, CancellerCall
<1>10. p \in Drainers => DrainerCall(p)'
  BY Zenon, <1>2, <1>4, <1>5 DEF CallInv, DrainerCall
<1> QED BY Zenon, <1>1, <1>6, <1>7, <1>8, <1>9, <1>10, CallsKept DEF CallInv

\* A handler makes the calls of processJob.
LEMMA HandlerCallsKept ==
  ASSUME Shape, CallInv, NEW h \in Handlers, Handle(h)
  PROVE  CallInv'
<1>1. Moves(h) /\ h \in Procs /\ draining' = draining
  BY Zenon, HandlerMoves, Different
  DEF Handle, Acquire, ReadState, Decide, EmitDLQ, MarkDispatched, BeginMigrate, BeginFence,
      BeginFails, Publish, rollbackFailedDispatch, Release, Crash
<1>2. HandlerCall(h)'
  <2> USE <1>1 DEF HandlerCall, HandlerCalls, Calls, Shape, DispatchTypeOK, StoreTypeOK
  <2>1. CASE Acquire(h) \/ ReadState(h)
    BY Zenon, <2>1 DEF Acquire, ReadState
  <2>2. CASE Decide(h)
    BY Zenon, <2>2 DEF Decide, ChooseWorker, RequireApproval, DenyJob, FailJob, CompleteGate, Requeue
  <2>3. CASE EmitDLQ(h) \/ MarkDispatched(h) \/ BeginFails(h)
    BY Zenon, <2>3 DEF EmitDLQ, MarkDispatched, BeginFails
  <2>4. CASE BeginMigrate(h) \/ BeginFence(h)
    BY Zenon, <2>4 DEF BeginMigrate, MigrateRead, MigrateWrite, BeginFence
  <2>5. CASE Publish(h) \/ rollbackFailedDispatch(h)
    BY Zenon, <2>5 DEF Publish, rollbackFailedDispatch
  <2>6. CASE Release(h) \/ Crash(h)
    BY Zenon, <2>6 DEF Release, Crash
  <2> QED BY Zenon, <2>1, <2>2, <2>3, <2>4, <2>5, <2>6 DEF Handle
<1> QED BY Zenon, <1>1, <1>2, CallsKept, Different DEF CallInv

\* The other processes make theirs.
LEMMA CallStep ==
  ASSUME Shape, CallInv, [DispatchNext]_all
  PROVE  CallInv'
<1>1. CASE LockExpires \/ DedupeWindowCloses \/ WorkerReports \/ UNCHANGED all
  BY <1>1 DEF LockExpires, DedupeWindowCloses, WorkerReports, all, CallInv, HandlerCall, AuditorCall,
              ReconcilerCall, CancellerCall, DrainerCall
<1>2. CASE AuditStart \/ AuditRead \/ EmitDLQ(Auditor) \/ Release(Auditor)
  <2>1. AuditorCall' /\ draining' = draining
    BY Zenon, <1>2, Different DEF Shape, DispatchTypeOK, StoreTypeOK, AuditorCall, Calls, AuditStart,
       AuditRead, EmitDLQ, Release
  <2> QED BY Zenon, <1>2, <2>1, RestMoves, CallsKept, Different DEF CallInv
<1>3. CASE CancelStart \/ CancelReturns
  <2>1. CancellerCall' /\ draining' = draining
    BY Zenon, <1>3, Different DEF Shape, DispatchTypeOK, StoreTypeOK, CancellerCall, Projects, CancelStart,
       CancelReturns
  <2> QED BY Zenon, <1>3, <2>1, RestMoves, CallsKept, Different DEF CallInv
<1>4. CASE TimeoutListed \/ TimeoutRefused
  <2>1. ReconcilerCall' /\ draining' = draining
    BY Zenon, <1>4, Different DEF Shape, DispatchTypeOK, StoreTypeOK, ReconcilerCall, Calls, TimeoutListed,
       TimeoutRefused
  <2> QED BY Zenon, <1>4, <2>1, RestMoves, CallsKept, Different DEF CallInv
<1>5. ASSUME NEW d \in Drainers, DrainStart(d) \/ DrainChecks(d) \/ DrainAck(d) PROVE CallInv'
  <2>1. DrainerCall(d)' /\ \A e \in Drainers : e # d => draining'[e] = draining[e]
    BY <1>5, Different DEF Shape, DispatchTypeOK, StoreTypeOK, DrainerCall, Projects, DrainStart,
       DrainChecks, DrainAck
  <2> QED BY Zenon, <1>5, <2>1, RestMoves, CallsKept, Different DEF CallInv
<1> QED BY Zenon, <1>1, <1>2, <1>3, <1>4, <1>5, StoreCalls, HandlerCallsKept DEF DispatchNext

\* Process p stays where it is.
Idles(p) ==
  pc'[p] = pc[p] /\ target'[p] = target[p] /\ cont'[p] = cont[p] /\ seen'[p] = seen[p]

\* A handler moves by a step of its own or by a step of its call, and no other
\* process moves with it.
LEMMA WhoMoves ==
  ASSUME Shape, [DispatchNext]_all, NEW h \in Handlers
  PROVE  \/ Handle(h)
         \/ StoreStep(h) /\ UNCHANGED scheduler
         \/ Idles(h)
<1>1. ASSUME NEW p \in Procs, StoreStep(p), UNCHANGED scheduler, p # h PROVE Idles(h)
  BY Zenon, <1>1, StoreMoves, Different DEF Moves, Idles
<1>2. ASSUME NEW g \in Handlers, Handle(g), g # h PROVE Idles(h)
  BY Zenon, <1>2, HandlerMoves, Different DEF Moves, Idles
<1>3. CASE \/ LockExpires \/ DedupeWindowCloses \/ WorkerReports \/ UNCHANGED all
           \/ \E d \in Drainers : DrainStart(d) \/ DrainChecks(d) \/ DrainAck(d)
           \/ AuditStart \/ AuditRead \/ EmitDLQ(Auditor) \/ Release(Auditor)
           \/ CancelStart \/ CancelReturns \/ TimeoutListed \/ TimeoutRefused
  BY Zenon, <1>3, RestMoves, Different DEF Moves, Idles
<1> QED BY Zenon, <1>1, <1>2, <1>3 DEF DispatchNext

\* The counts only grow.
LEMMA UsedGrows ==
  ASSUME Shape, [DispatchNext]_all
  PROVE  \A k \in Kinds : used[k] # 0 => used'[k] # 0
<1>1. used \in [Kinds -> Nat]
  BY Zenon DEF Shape, DispatchTypeOK
<1>2. \A k \in Kinds : used' = [used EXCEPT ![k] = @ + 1] => \A c \in Kinds : used[c] # 0 => used'[c] # 0
  BY <1>1
<1>3. used' = used \/ \E k \in Kinds : used' = [used EXCEPT ![k] = @ + 1]
  BY Zenon DEF Use, Kinds, DispatchNext, Handle, Acquire, ReadState, Decide, EmitDLQ, MarkDispatched,
         BeginMigrate, BeginFence, BeginFails, Publish, rollbackFailedDispatch, Release, Crash,
         LockExpires, DedupeWindowCloses, WorkerReports, DrainStart, DrainChecks, DrainAck,
         AuditStart, AuditRead, CancelStart, CancelReturns, TimeoutListed, TimeoutRefused, all
<1> QED BY Zenon, <1>2, <1>3

\* A process gets where an error or an intervention leads to only by using it.
LEMMA UsedStep ==
  ASSUME Shape, UsedInv, CallInv, [DispatchNext]_all
  PROVE  UsedInv'
<1> USE DEF UsedInv
<1>1. /\ used.publish # 0 => used'.publish # 0
      /\ used.job # 0 => used'.job # 0
      /\ used.attempts # 0 => used'.attempts # 0
      /\ used.timeout # 0 => used'.timeout # 0
  BY Zenon, UsedGrows DEF Kinds
<1>2. /\ used \in [Kinds -> Nat]
      /\ "publish" \in Kinds /\ "job" \in Kinds /\ "attempts" \in Kinds /\ "timeout" \in Kinds
  BY Zenon DEF Shape, DispatchTypeOK, Kinds
<1>3. ASSUME NEW h \in Handlers, pc'[h] = "rollback", pc[h] # "rollback" PROVE used'.publish # 0
  <2>1. Handle(h)
    <3>1. ASSUME StoreStep(h) PROVE FALSE
      <4>1. pc'[h] \in {"script", "legacy", "hget", "failed", cont[h]} /\ cont[h] # "rollback"
        BY Zenon, <3>1, Different
        DEF CallInv, HandlerCall, Calls, Shape, Returns, StoreStep, SetStateExists, SetStateScript,
            SetStateHGet, SetStateWithContext, ProjectMeta, ProjectZRem, ProjectZAdd,
            CancelJobExists, CancelJobMeta, MigrateRead, MigrateWrite, CancelScript
      <4> QED BY Zenon, <1>3, <4>1
    <3> QED BY Zenon, <1>3, <3>1, WhoMoves DEF Idles
  <2>2. Publish(h)
    BY Zenon, <1>3, <2>1, Different
    DEF Shape, Handle, Acquire, ReadState, Decide, ChooseWorker, RequireApproval, DenyJob, FailJob,
        CompleteGate, Requeue, EmitDLQ, MarkDispatched, BeginMigrate, MigrateRead, MigrateWrite,
        BeginFence, BeginFails, rollbackFailedDispatch, Release, Crash
  <2>3. Use("publish")
    BY Zenon, <1>3, <2>2, Different DEF Publish, Shape
  <2> QED BY Zenon, <1>2, <2>3, UseCounts
<1>4. CASE pc'[Canceller] = pc[Canceller] /\ pc'[Reconciler] = pc[Reconciler]
  BY Zenon, <1>1, <1>3, <1>4
<1>5. CASE CancelStart
  <2>1. \/ used'.job # 0 /\ pc'[Canceller] = "cancel"
        \/ used'.attempts # 0 /\ pc'[Canceller] = "cancel_read"
    <3>1. \/ Use("job") /\ pc'[Canceller] = "cancel"
          \/ Use("attempts") /\ pc'[Canceller] = "cancel_read"
      BY Zenon, <1>5, Different DEF CancelStart, Shape
    <3> QED BY Zenon, <1>2, <3>1, UseCounts
  <2>2. pc'[Reconciler] = pc[Reconciler]
    BY Zenon, <1>5, RestMoves, Different DEF Moves
  <2> QED BY Zenon, <1>1, <1>3, <2>1, <2>2
<1>6. CASE CancelReturns \/ TimeoutRefused
  <2>1. \/ pc'[Canceller] = pc[Canceller] /\ pc'[Reconciler] = "idle"
        \/ pc'[Canceller] = "idle" /\ pc'[Reconciler] = pc[Reconciler]
    BY Zenon, <1>6, Different DEF CancelReturns, TimeoutRefused, Shape
  <2> QED BY Zenon, <1>1, <1>3, <2>1
<1>7. CASE TimeoutListed
  <2>1. used'.timeout # 0
    BY Zenon, <1>2, <1>7, UseCounts DEF TimeoutListed
  <2>2. pc'[Canceller] = pc[Canceller]
    BY Zenon, <1>7, RestMoves, Different DEF Moves
  <2> QED BY Zenon, <1>1, <1>3, <2>1, <2>2
<1>8. CASE StoreStep(Canceller) \/ StoreStep(Reconciler)
  <2>1. pc[Canceller] = "idle" => pc'[Canceller] = "idle"
    BY Zenon, <1>8, StoreMoves, Different DEF Moves
  <2>2. pc[Reconciler] = "idle" => pc'[Reconciler] = "idle"
    BY Zenon, <1>8, StoreMoves, Different DEF Moves
  <2>3. pc'[Canceller] \in {"cancel", "cancel_meta"} => pc[Canceller] \in {"cancel", "cancel_meta"}
    <3>1. CASE StoreStep(Reconciler)
      BY Zenon, <3>1, StoreMoves, Different DEF Moves
    <3>2. CASE StoreStep(Canceller)
      BY Zenon, <3>2, Different
      DEF CallInv, CancellerCall, Projects, Shape, StoreStep, SetStateExists, SetStateScript,
          SetStateHGet, SetStateWithContext, ProjectMeta, ProjectZRem, ProjectZAdd,
          CancelJobExists, CancelJobMeta, MigrateRead, MigrateWrite, CancelScript
    <3> QED BY Zenon, <1>8, <3>1, <3>2
  <2> QED BY Zenon, <1>1, <1>3, <2>1, <2>2, <2>3
<1>9. CASE ~(\/ CancelStart \/ CancelReturns \/ TimeoutRefused \/ TimeoutListed
             \/ StoreStep(Canceller) \/ StoreStep(Reconciler))
  <2>1. pc'[Canceller] = pc[Canceller] /\ pc'[Reconciler] = pc[Reconciler]
    <3>1. ASSUME NEW h \in Handlers, Handle(h)
          PROVE  pc'[Canceller] = pc[Canceller] /\ pc'[Reconciler] = pc[Reconciler]
      BY Zenon, <3>1, HandlerMoves, Different DEF Moves
    <3>2. ASSUME NEW p \in Procs, StoreStep(p)
          PROVE  pc'[Canceller] = pc[Canceller] /\ pc'[Reconciler] = pc[Reconciler]
      BY <1>9, <3>2, StoreMoves, Different DEF Moves
    <3>3. CASE \/ LockExpires \/ DedupeWindowCloses \/ WorkerReports \/ UNCHANGED all
               \/ \E d \in Drainers : DrainStart(d) \/ DrainChecks(d) \/ DrainAck(d)
               \/ AuditStart \/ AuditRead \/ EmitDLQ(Auditor) \/ Release(Auditor)
      BY Zenon, <3>3, RestMoves, Different DEF Moves
    <3> QED BY Zenon, <1>9, <3>1, <3>2, <3>3 DEF DispatchNext
  <2> QED BY Zenon, <1>4, <2>1
<1> QED BY Zenon, <1>5, <1>6, <1>7, <1>8, <1>9

-----------------------------------------------------------------------------
\* The steps that change the state, the fence, the dispatches issued or the results.
Transition(p) == pc[p] = "script" /\ TransitionRuntimeState(target[p])
Migration(p) ==
  /\ \/ pc[p] = "cancel_migrate"
     \/ pc[p] = "begin_migrate" /\ p \in Handlers
  /\ seen[p] # NoState /\ Migrate(seen[p])
Revocation(h) ==
  rollbackFailedDispatch(h) /\ RollbackDispatch(disp[h].id, disp[h].attempt)
Cancellation(p) == CancelScript(p) /\ CancelAllJobAttempts
Report(m) ==
  /\ m \in Message /\ m.id \in stream /\ ApplyJobResult(m)
  /\ UNCHANGED <<legacy, calls, stream, dedupe, rolledBack, cancelled>>

\* Every step is one of them or leaves those fields alone.
LEMMA StateMoves ==
  ASSUME [DispatchNext]_all
  PROVE  \/ UNCHANGED <<state, fence, issued, applied, events>>
         \/ \E p \in Procs : Transition(p) /\ UNCHANGED <<legacy, scheduler>>
         \/ \E p \in Procs : Migration(p) /\ UNCHANGED <<legacy, scheduler>>
         \/ \E h \in Handlers : BeginFence(h)
         \/ \E h \in Handlers : Revocation(h)
         \/ \E p \in Procs : Cancellation(p) /\ UNCHANGED <<legacy, scheduler>>
         \/ \E m \in Message : Report(m)
<1>1. ASSUME NEW p \in Procs, StoreStep(p), UNCHANGED scheduler
      PROVE  \/ UNCHANGED vars
             \/ Transition(p) /\ UNCHANGED legacy
             \/ Migration(p) /\ UNCHANGED legacy
             \/ Cancellation(p) /\ UNCHANGED legacy
  BY Zenon, <1>1
  DEF Transition, Migration, Cancellation, StoreStep, SetStateExists, SetStateScript, SetStateHGet,
      SetStateWithContext, ProjectMeta, ProjectZRem, ProjectZAdd, CancelJobExists, CancelJobMeta,
      MigrateRead, MigrateWrite, CancelScript
<1>2. ASSUME NEW h \in Handlers, Handle(h)
      PROVE  \/ UNCHANGED vars \/ BeginFence(h) \/ Revocation(h)
             \/ Migration(h) /\ UNCHANGED <<legacy, scheduler>>
  BY Zenon, <1>2
  DEF Migration, Revocation, Handle, Acquire, ReadState, Decide, EmitDLQ, MarkDispatched,
      BeginMigrate, MigrateRead, MigrateWrite, BeginFails, Publish, rollbackFailedDispatch, Release,
      Crash
<1>3. CASE WorkerReports
  BY Zenon, <1>3 DEF WorkerReports, Report, Deliverable
<1>4. ASSUME NEW d \in Drainers, DrainAck(d) PROVE UNCHANGED <<state, fence, issued, applied, events>>
  BY Zenon, <1>4 DEF DrainAck, AckJobEffect, vars
<1>5. CASE \/ LockExpires \/ DedupeWindowCloses \/ UNCHANGED all
           \/ \E d \in Drainers : DrainStart(d) \/ DrainChecks(d)
           \/ AuditStart \/ AuditRead \/ EmitDLQ(Auditor) \/ Release(Auditor)
           \/ CancelStart \/ CancelReturns \/ TimeoutListed \/ TimeoutRefused
  BY Zenon, <1>5 DEF vars, LockExpires, DedupeWindowCloses, all, DrainStart, DrainChecks, AuditStart, AuditRead,
              EmitDLQ, Release, CancelStart, CancelReturns, TimeoutListed, TimeoutRefused
<1>6. UNCHANGED vars => UNCHANGED <<state, fence, issued, applied, events>>
  BY Zenon DEF vars
<1> QED BY Zenon, <1>1, <1>2, <1>3, <1>4, <1>5, <1>6, Different DEF DispatchNext

\* Who writes the stream, and who revokes a dispatch.
LEMMA StreamMoves ==
  ASSUME [DispatchNext]_all
  PROVE  /\ UNCHANGED <<stream, dedupe>> \/ (DedupeWindowCloses /\ UNCHANGED stream)
              \/ \E h \in Handlers : Publish(h)
         /\ UNCHANGED rolledBack \/ \E h \in Handlers : Revocation(h)
<1>1. ASSUME NEW h \in Handlers, Handle(h)
      PROVE  (UNCHANGED <<stream, dedupe>> \/ Publish(h)) /\ (UNCHANGED rolledBack \/ Revocation(h))
  <2>1. CASE Publish(h)
    BY Zenon, <2>1 DEF Publish
  <2>2. CASE rollbackFailedDispatch(h)
    BY Zenon, <2>2 DEF Revocation, rollbackFailedDispatch
  <2>3. CASE ~Publish(h) /\ ~rollbackFailedDispatch(h)
    BY Zenon, <1>1, <2>3
    DEF Handle, Acquire, ReadState, Decide, EmitDLQ, MarkDispatched, BeginMigrate, BeginFence,
        BeginFails, Release, Crash
  <2> QED BY Zenon, <2>1, <2>2, <2>3
<1>2. CASE DedupeWindowCloses
  BY Zenon, <1>2 DEF DedupeWindowCloses
<1>3. CASE ~DedupeWindowCloses /\ ~\E h \in Handlers : Handle(h)
  BY Zenon, <1>3
  DEF DispatchNext, EmitDLQ, Release, LockExpires, WorkerReports, DrainStart, DrainChecks, DrainAck,
      AuditStart, AuditRead, CancelStart, CancelReturns, TimeoutListed, TimeoutRefused, all
<1> QED BY Zenon, <1>1, <1>2, <1>3

\* No script but ApplyJobResult writes an event, and the hash does not expire.
LEMMA EventStep ==
  ASSUME HashInv, EventInv, [DispatchNext]_all
  PROVE  EventInv'
<1> USE DEF EventInv
<1>1. /\ issued \in Nat /\ rolledBack \subseteq 1..issued /\ applied \subseteq Message
      /\ events \in [MessageIds -> Message \cup {NoMessage}]
  BY DEF HashInv, Shape, DispatchTypeOK, FenceInv, TypeOK
<1>2. CASE UNCHANGED <<state, fence, issued, applied, events>>
  <2>1. CASE UNCHANGED rolledBack
    BY Zenon, <1>2, <2>1
  <2>2. CASE \E h \in Handlers : Revocation(h)
    BY Zenon, <1>2, <2>2 DEF Revocation, RollbackDispatch
  <2> QED BY Zenon, <2>1, <2>2, StreamMoves
<1>3. ASSUME NEW p \in Procs, Transition(p) \/ Migration(p) \/ Cancellation(p), UNCHANGED scheduler
      PROVE  EventInv'
  <2>1. state' # NoState
    BY Zenon, <1>3, TransitionsStayInJobState
    DEF Transition, TransitionRuntimeState, Migration, Migrate, Cancellation, CancelAllJobAttempts,
        HashInv, FenceInv, TypeOK, JobState, NoState
  <2>2. UNCHANGED <<issued, applied, events, rolledBack>> /\ fence' \in {fence, NoFence}
    BY Zenon, <1>3
    DEF Transition, TransitionRuntimeState, Migration, Migrate, Cancellation, CancelAllJobAttempts
  <2> QED BY Zenon, <2>1, <2>2
<1>4. ASSUME NEW h \in Handlers, BeginFence(h) PROVE EventInv'
  <2>1. UNCHANGED <<state, applied, events, rolledBack>> /\ issued' = issued + 1
    BY Zenon, <1>4 DEF BeginFence, BeginDispatch
  <2> QED BY <1>1, <2>1
<1>5. ASSUME NEW h \in Handlers, Revocation(h) PROVE EventInv'
  BY Zenon, <1>5 DEF Revocation, RollbackDispatch, NoState
<1>6. ASSUME NEW m \in Message, Report(m) PROVE EventInv'
  <2>1. /\ events' = [events EXCEPT ![m.mid] = m] /\ events[m.mid] = NoMessage
        /\ applied' = applied \cup {m} /\ UNCHANGED <<fence, issued, rolledBack>>
        /\ m.reports # Progress /\ state' = m.reports
    BY Zenon, <1>6 DEF Report, ApplyJobResult
  <2>2. m.mid \in MessageIds /\ \A n \in applied : n.mid \in MessageIds /\ n # NoMessage
    BY Zenon, <1>1, AbsentAssumption DEF Message
  <2>3. state' # NoState
    BY Zenon, <2>1, OutcomesAreTerminal DEF JobState, NoState
  <2>4. \A n \in applied' : events'[n.mid] = n
    BY Zenon, <1>1, <2>1, <2>2
  <2> QED BY Zenon, <2>1, <2>3, <2>4
<1> QED BY Zenon, <1>2, <1>3, <1>4, <1>5, <1>6, StateMoves

\* Before the first message is on the stream nobody has a reason to say RUNNING.
LEMMA RunningStep ==
  ASSUME HashInv, RunningInv, [DispatchNext]_all
  PROVE  RunningInv'
<1> SUFFICES ASSUME stream' = {} PROVE RunningInv'
  BY Zenon DEF RunningInv
<1>1. stream = {}
  BY Zenon, StreamMoves DEF Publish, DedupeWindowCloses
<1>2. /\ state # "RUNNING" /\ meta # "RUNNING" /\ dedupe = FALSE
      /\ \A p \in Procs : seen[p] # "RUNNING" /\ target[p] # "RUNNING"
  BY Zenon, <1>1 DEF RunningInv, HashInv, Shape
<1>3. state' # "RUNNING"
  <2>1. ASSUME NEW p \in Procs, Transition(p) \/ Migration(p) \/ Cancellation(p) PROVE state' # "RUNNING"
    BY Zenon, <1>2, <2>1
    DEF Transition, TransitionRuntimeState, Migration, Migrate, Cancellation, CancelAllJobAttempts
  <2>2. ASSUME NEW h \in Handlers, BeginFence(h) \/ Revocation(h) PROVE state' # "RUNNING"
    BY Zenon, <1>2, <2>2 DEF BeginFence, BeginDispatch, Revocation, RollbackDispatch
  <2>3. \A m \in Message : ~Report(m)
    BY Zenon, <1>1 DEF Report
  <2> QED BY Zenon, <1>2, <2>1, <2>2, <2>3, StateMoves
<1>4. \A h \in Handlers : Publish(h) => pc'[h] # "exists" /\ dedupe' = FALSE /\ UNCHANGED <<target, seen, meta>>
  <2> SUFFICES ASSUME NEW h \in Handlers, Publish(h)
               PROVE  pc'[h] # "exists" /\ dedupe' = FALSE /\ UNCHANGED <<target, seen, meta>>
    BY Zenon
  <2>1. PICK stored \in BOOLEAN, failed \in BOOLEAN :
          /\ ~stored => dedupe \/ failed
          /\ stream' = IF stored THEN stream \cup {disp[h].id} ELSE stream
          /\ dedupe' = (dedupe \/ stored)
          /\ \/ failed /\ Goto(h, "rollback") /\ Stay
             \/ ~failed /\ CallSetState(h, "RUNNING", "release")
    BY Zenon DEF Publish
  <2>2. stored = FALSE
    BY Zenon, <2>1
  <2>3. dedupe' = FALSE /\ failed
    BY Zenon, <1>2, <2>1, <2>2
  <2> QED BY Zenon, <2>1, <2>3, Different DEF Publish, HashInv, Shape
<1>5. ASSUME NEW p \in Procs, StoreStep(p)
      PROVE  meta' # "RUNNING" /\ \A q \in Procs : seen'[q] # "RUNNING" /\ target'[q] # "RUNNING"
  BY Zenon, <1>2, <1>5
  DEF HashInv, Shape, DispatchTypeOK, StoreTypeOK, StoreStep, SetStateExists, SetStateScript,
      SetStateHGet, SetStateWithContext, ProjectMeta, ProjectZRem, ProjectZAdd, CancelJobExists,
      CancelJobMeta, MigrateRead, MigrateWrite, CancelScript
<1>6. ASSUME NEW h \in Handlers, Handle(h)
      PROVE  meta' # "RUNNING" /\ \A q \in Procs : seen'[q] # "RUNNING" /\ target'[q] # "RUNNING"
  <2> USE DEF HashInv, Shape, DispatchTypeOK, StoreTypeOK
  <2>1. CASE Publish(h)
    BY Zenon, <1>2, <1>4, <2>1
  <2>2. CASE Decide(h)
    BY Zenon, <1>2, <2>2 DEF Decide, ChooseWorker, RequireApproval, DenyJob, FailJob, CompleteGate, Requeue
  <2>3. CASE ~Publish(h) /\ ~Decide(h)
    BY Zenon, <1>2, <1>6, <2>3
    DEF Handle, Acquire, ReadState, EmitDLQ, MarkDispatched, BeginMigrate, MigrateRead, MigrateWrite,
        BeginFence, BeginFails, rollbackFailedDispatch, Release, Crash
  <2> QED BY Zenon, <2>1, <2>2, <2>3
<1>7. ASSUME NEW d \in Drainers, DrainStart(d)
      PROVE  meta' # "RUNNING" /\ \A q \in Procs : seen'[q] # "RUNNING" /\ target'[q] # "RUNNING"
  <2>1. \A mid \in MessageIds : effects[mid] # NoMessage => effects[mid].reports # "RUNNING"
    BY Zenon, OutcomesAssumption DEF HashInv, FenceInv, EffectsAreCommittedResults, ResultInv, ResultStates
  <2> QED BY Zenon, <1>2, <1>7, <2>1 DEF DrainStart, HashInv, Shape, DispatchTypeOK, StoreTypeOK
<1>8. ASSUME \/ LockExpires \/ DedupeWindowCloses \/ WorkerReports \/ UNCHANGED all
             \/ \E d \in Drainers : DrainChecks(d) \/ DrainAck(d)
             \/ AuditStart \/ AuditRead \/ EmitDLQ(Auditor) \/ Release(Auditor)
             \/ CancelStart \/ CancelReturns \/ TimeoutListed \/ TimeoutRefused
      PROVE  meta' # "RUNNING" /\ \A q \in Procs : seen'[q] # "RUNNING" /\ target'[q] # "RUNNING"
  <2>1. meta' = meta
    BY Zenon, <1>8
    DEF LockExpires, DedupeWindowCloses, WorkerReports, all, DrainChecks, DrainAck, AuditStart,
        AuditRead, EmitDLQ, Release, CancelStart, CancelReturns, TimeoutListed, TimeoutRefused
  <2>2. \A q \in Procs : seen'[q] # "RUNNING" /\ target'[q] # "RUNNING"
    <3> USE DEF HashInv, Shape, DispatchTypeOK, StoreTypeOK, NoState
    <3>1. CASE UNCHANGED calls
      BY Zenon, <1>2, <3>1
    <3>2. CASE AuditStart \/ AuditRead \/ EmitDLQ(Auditor) \/ Release(Auditor)
      BY Zenon, <1>2, <3>2 DEF AuditStart, AuditRead, EmitDLQ, Release
    <3>3. CASE CancelStart \/ CancelReturns \/ TimeoutListed \/ TimeoutRefused
      BY Zenon, <1>2, <3>3 DEF CancelStart, CancelReturns, TimeoutListed, TimeoutRefused
    <3>4. CASE \E d \in Drainers : DrainChecks(d) \/ DrainAck(d)
      BY Zenon, <1>2, <3>4 DEF DrainChecks, DrainAck
    <3> QED BY Zenon, <1>8, <3>1, <3>2, <3>3, <3>4, RestMoves
  <2> QED BY Zenon, <1>2, <2>1, <2>2
<1>9. dedupe' = FALSE
  BY Zenon, <1>2, <1>4, StreamMoves DEF DedupeWindowCloses
<1> QED BY Zenon, <1>3, <1>5, <1>6, <1>7, <1>8, <1>9 DEF RunningInv, DispatchNext

\* A state that is there is not taken away, and a terminal one stays terminal
\* unless a dispatch that is fenced is rolled back.
LEMMA StatePersists ==
  ASSUME HashInv, [DispatchNext]_all
  PROVE  /\ state # NoState => state' # NoState
         /\ meta # NoState => meta' # NoState
         /\ state \in terminalStates =>
              state' \in terminalStates \/ \E h \in Handlers : Revocation(h)
<1> USE DEF HashInv, Shape, DispatchTypeOK, StoreTypeOK, FenceInv, TypeOK
<1>1. ASSUME NEW p \in Procs, Transition(p) \/ Migration(p) \/ Cancellation(p)
      PROVE  state' # NoState /\ (state \in terminalStates => state' \in terminalStates)
  BY Zenon, <1>1, TransitionsStayInJobState
  DEF Transition, TransitionRuntimeState, Migration, Migrate, Cancellation, CancelAllJobAttempts,
      JobState, NoState, terminalStates
<1>2. ASSUME NEW m \in Message, Report(m) PROVE state' # NoState /\ state \notin terminalStates
  BY Zenon, <1>2, OutcomesAreTerminal DEF Report, ApplyJobResult, AwaitingWorker, terminalStates, JobState, NoState
<1>3. ASSUME NEW h \in Handlers, Revocation(h) PROVE state' # NoState
  BY Zenon, <1>3 DEF Revocation, RollbackDispatch, NoState
<1>4. \A h \in Handlers : BeginFence(h) => state' = state
  BY Zenon DEF BeginFence, BeginDispatch
<1>5. meta # NoState => meta' # NoState
  <2>1. ASSUME NEW p \in Procs, StoreStep(p), meta # NoState PROVE meta' # NoState
    <3>1. isAllowedTransition(meta, target[p]) => target[p] \in JobState
      BY Zenon, TransitionsStayInJobState
    <3>2. NoState \notin JobState /\ "CANCELLED" # NoState
      BY Zenon DEF JobState, NoState
    <3> QED BY Zenon, <2>1, <3>1, <3>2
      DEF Projects, StoreStep, SetStateExists, SetStateScript, SetStateHGet, SetStateWithContext,
          ProjectMeta, ProjectZRem, ProjectZAdd, CancelJobExists, CancelJobMeta, MigrateRead,
          MigrateWrite, CancelScript
  <2>2. ASSUME NEW h \in Handlers, Handle(h) PROVE meta' = meta
    BY Zenon, <2>2
    DEF Handle, Acquire, ReadState, Decide, EmitDLQ, MarkDispatched, BeginMigrate, MigrateRead,
        MigrateWrite, BeginFence, BeginFails, Publish, rollbackFailedDispatch, Release, Crash
  <2>3. ASSUME ~\E p \in Procs : StoreStep(p), ~\E h \in Handlers : Handle(h) PROVE meta' = meta
    BY Zenon, <2>3
    DEF DispatchNext, EmitDLQ, Release, LockExpires, DedupeWindowCloses, WorkerReports, DrainStart,
        DrainChecks, DrainAck, AuditStart, AuditRead, CancelStart, CancelReturns, TimeoutListed,
        TimeoutRefused, all
  <2> QED BY Zenon, <2>1, <2>2, <2>3
<1> QED BY Zenon, <1>1, <1>2, <1>3, <1>4, <1>5, StateMoves

\* A handler that is at work while another one begins or revokes a dispatch is that
\* other one.
LEMMA OneAtWork ==
  ASSUME LockInv, NEW g \in Handlers, NEW h \in Handlers, pc[h] # "idle",
         Revocation(g) \/ BeginFence(g) \/ Publish(g) \/ pc[g] # "idle"
  PROVE  g = h
  BY Zenon DEF LockInv, Lockers, Revocation, rollbackFailedDispatch, BeginFence, Publish

\* A handler at rest keeps what it has established.
LEMMA BeginIdle ==
  ASSUME HashInv, LockInv, BeginInv, [DispatchNext]_all, NEW h \in Handlers, Idles(h)
  PROVE  /\ pc'[h] = "script" => state' # NoState
         /\ pc'[h] = "begin" => meta' # NoState
         /\ pc'[h] = "begin_migrate" => seen'[h] # NoState
         /\ pc'[h] \in {"fence", "publish", "rollback"} => state' # NoState
         /\ pc'[h] \in {"publish", "rollback"} => disp'[h].id = issued'
         /\ pc'[h] \in {"publish", "rollback"} /\ fence' = NoFence => state' \in terminalStates
<1> USE DEF BeginInv, Idles
<1>1. ASSUME pc[h] \in {"publish", "rollback"}
      PROVE  disp'[h].id = issued' /\ (fence' = NoFence => state' \in terminalStates)
  <2>1. \A g \in Handlers : ~BeginFence(g) /\ ~Revocation(g)
    <3>1. ASSUME BeginFence(h) \/ Revocation(h) PROVE FALSE
      BY Zenon, <1>1, <3>1, Different
      DEF BeginFence, Revocation, rollbackFailedDispatch, RollbackDispatch, live, HashInv, Shape
    <3> QED BY Zenon, <1>1, <3>1, OneAtWork
  <2>2. disp' = disp
    BY Zenon, <2>1
    DEF DispatchNext, Handle, Acquire, ReadState, Decide, EmitDLQ, MarkDispatched, BeginMigrate,
        BeginFails, Publish, rollbackFailedDispatch, Release, Crash, LockExpires,
        DedupeWindowCloses, WorkerReports, DrainStart, DrainChecks, DrainAck, AuditStart, AuditRead,
        CancelStart, CancelReturns, TimeoutListed, TimeoutRefused, all
  <2>3. issued' = issued /\ (fence' # fence => state' = "CANCELLED")
    BY Zenon, <2>1, StateMoves
    DEF Transition, TransitionRuntimeState, Migration, Migrate, Cancellation, CancelAllJobAttempts,
        Report, ApplyJobResult
  <2> QED BY Zenon, <1>1, <2>1, <2>2, <2>3, StatePersists DEF terminalStates
<1> QED BY Zenon, <1>1, StatePersists

\* Begin, migrate, fence, publish, in that order.
LEMMA BeginStep ==
  ASSUME HashInv, LockInv, CallInv, BeginInv, [DispatchNext]_all, HashInv'
  PROVE  BeginInv'
<1> SUFFICES ASSUME NEW h \in Handlers
             PROVE  /\ pc'[h] = "script" => state' # NoState
                    /\ pc'[h] = "begin" => meta' # NoState
                    /\ pc'[h] = "begin_migrate" => seen'[h] # NoState
                    /\ pc'[h] \in {"fence", "publish", "rollback"} => state' # NoState
                    /\ pc'[h] \in {"publish", "rollback"} => disp'[h].id = issued'
                    /\ pc'[h] \in {"publish", "rollback"} /\ fence' = NoFence => state' \in terminalStates
  BY Zenon DEF BeginInv
<1>1. CASE Idles(h)
  BY Zenon, <1>1, BeginIdle
<1>2. CASE StoreStep(h) /\ UNCHANGED scheduler
  <2>1. pc[h] \in Calls /\ <<target[h], cont[h]>> \in HandlerCalls
    BY Zenon, <1>2
    DEF CallInv, HandlerCall, Calls, Projects, StoreStep, SetStateExists, SetStateScript,
        SetStateHGet, SetStateWithContext, ProjectMeta, ProjectZRem, ProjectZAdd, CancelJobExists,
        CancelJobMeta, MigrateRead, MigrateWrite, CancelScript
  <2>2. SetStateExists(h) \/ SetStateScript(h) \/ SetStateHGet(h) \/ SetStateWithContext(h)
    BY Zenon, <1>2, <2>1
    DEF Calls, StoreStep, ProjectMeta, ProjectZRem, ProjectZAdd, CancelJobExists,
        CancelJobMeta, MigrateRead, MigrateWrite, CancelScript
  <2>3. cont[h] # "script" /\ target[h] # NoState
    BY Zenon, <2>1 DEF HandlerCalls, NoState
  <2>4. pc'[h] = "script" => state' # NoState
    BY Zenon, <2>2, <2>3, Different
    DEF HashInv, Shape, SetStateExists, SetStateScript, SetStateHGet, SetStateWithContext,
        RuntimeExists, vars
  <2>5. pc'[h] = "begin" => meta' # NoState
    BY Zenon, <2>2, <2>3, Different
    DEF HashInv, Shape, SetStateExists, SetStateScript, SetStateHGet, SetStateWithContext
  <2>6. pc'[h] \in {"script", "hget", "legacy", "failed", cont[h]}
    BY Zenon, <2>2, Different
    DEF HashInv, Shape, SetStateExists, SetStateScript, SetStateHGet, SetStateWithContext
  <2>7. cont[h] \in {"decide", "dlq", "release", "scheduled", "begin"}
    BY Zenon, <2>1 DEF HandlerCalls
  <2> QED BY Zenon, <2>4, <2>5, <2>6, <2>7
<1>3. CASE Handle(h)
  <2> USE Different DEF HashInv, Shape, BeginInv
  <2>1. CASE BeginMigrate(h)
    BY Zenon, <2>1 DEF BeginMigrate, MigrateRead, MigrateWrite, Migrate, RuntimeExists, vars,
                DispatchTypeOK, StoreTypeOK
  <2>2. CASE BeginFence(h)
    <3>1. pc'[h] = "publish" /\ disp'[h].id = issued' /\ state' = state /\ pc[h] = "fence"
      BY Zenon, <2>2 DEF BeginFence, BeginDispatch
    <3>2. fence' # NoFence
      <4>1. issued + 1 \in 1..MaxIssued
        <5>1. issued < MaxIssued
          BY Zenon, <2>2 DEF BeginFence, BeginDispatch
        <5>2. issued \in Nat
          BY MaxIssuedAssumption DEF FenceInv, TypeOK
        <5> QED BY <5>1, <5>2, MaxIssuedAssumption
      <4>2. fence' \in Fence
        <5>1. PICK w \in Workers, n \in Tenants : BeginDispatch(w, n)
          BY Zenon, <2>2 DEF BeginFence
        <5> QED BY Zenon, <4>1, <5>1 DEF BeginDispatch, Fence
      <4> QED BY Zenon, <4>2, AbsentAssumption
    <3> QED BY Zenon, <3>1, <3>2
  <2>3. CASE Publish(h)
    BY Zenon, <2>3 DEF Publish, vars
  <2>4. CASE ~BeginMigrate(h) /\ ~BeginFence(h) /\ ~Publish(h)
    BY Zenon, <1>3, <2>4
    DEF Handle, Acquire, ReadState, Decide, ChooseWorker, RequireApproval, DenyJob, FailJob,
        CompleteGate, Requeue, EmitDLQ, MarkDispatched, BeginFails, rollbackFailedDispatch, Release,
        Crash
  <2> QED BY Zenon, <2>1, <2>2, <2>3, <2>4
<1> QED BY Zenon, <1>1, <1>2, <1>3, WhoMoves DEF HashInv

\* Every step keeps the protocol.
LEMMA ProtocolStep ==
  ASSUME HashInv, ProtocolInv, [DispatchNext]_all
  PROVE  ProtocolInv'
<1>1. HashInv'
  BY Zenon, HashStep
<1> QED BY Zenon, <1>1, LockStep, CallStep, UsedStep, EventStep, RunningStep, BeginStep
        DEF ProtocolInv, HashInv

-----------------------------------------------------------------------------
\* Only a cancel call runs the cancel script, and a rollback follows an error.
LEMMA Causes ==
  ASSUME ProtocolInv
  PROVE  /\ \A p \in Procs : Cancellation(p) \/ pc[p] \in {"cancel_migrate", "cancel_meta"} => p = Canceller
         /\ \A p \in Procs : pc[p] = "project" => p = Canceller \/ p \in Drainers
         /\ \A h \in Handlers : Revocation(h) => used.publish # 0
  BY Zenon DEF ProtocolInv, CallInv, HandlerCall, AuditorCall, ReconcilerCall, DrainerCall, Calls, Projects,
         UsedInv, Procs, Cancellation, CancelScript, Revocation, rollbackFailedDispatch

\* Who writes job:meta.
LEMMA MetaMoves ==
  ASSUME [DispatchNext]_all
  PROVE  \/ meta' = meta
         \/ \E p \in Procs :
              /\ StoreStep(p) /\ UNCHANGED scheduler
              /\ \/ pc[p] = "legacy" /\ isAllowedTransition(meta, target[p]) /\ meta' = target[p]
                 \/ pc[p] \in {"project", "cancel_meta"}
<1>1. ASSUME NEW p \in Procs, StoreStep(p), UNCHANGED scheduler, meta' # meta
      PROVE  \/ pc[p] = "legacy" /\ isAllowedTransition(meta, target[p]) /\ meta' = target[p]
             \/ pc[p] \in {"project", "cancel_meta"}
  BY Zenon, <1>1
  DEF StoreStep, SetStateExists, SetStateScript, SetStateHGet, SetStateWithContext, ProjectMeta,
      ProjectZRem, ProjectZAdd, CancelJobExists, CancelJobMeta, MigrateRead, MigrateWrite,
      CancelScript
<1>2. ASSUME NEW h \in Handlers, Handle(h) PROVE meta' = meta
  BY Zenon, <1>2
  DEF Handle, Acquire, ReadState, Decide, EmitDLQ, MarkDispatched, BeginMigrate, MigrateRead,
      MigrateWrite, BeginFence, BeginFails, Publish, rollbackFailedDispatch, Release, Crash
<1>3. ASSUME ~\E p \in Procs : StoreStep(p) /\ UNCHANGED scheduler, ~\E h \in Handlers : Handle(h)
      PROVE  meta' = meta
  BY Zenon, <1>3
  DEF DispatchNext, EmitDLQ, Release, LockExpires, DedupeWindowCloses, WorkerReports, DrainStart,
      DrainChecks, DrainAck, AuditStart, AuditRead, CancelStart, CancelReturns, TimeoutListed,
      TimeoutRefused, all
<1> QED BY Zenon, <1>1, <1>2, <1>3 DEF DispatchNext

\* The table leads out of a terminal state only to quarantine a success.
LEMMA TerminalTransitions ==
  ASSUME NEW from \in terminalStates, NEW to, isAllowedTransition(from, to)
  PROVE  Quarantined(from, to)
  BY Zenon DEF isAllowedTransition, allowedTransitions, terminalStates, Quarantined, NoState

\* How a terminal state of the hash may change.
LEMMA TerminalMoves ==
  ASSUME HashInv, ProtocolInv, [DispatchNext]_all, used.publish = 0, state \in terminalStates
  PROVE  \/ state' = state
         \/ Quarantined(state, state')
         \/ QuarantineCancelled(state, state') /\ \E p \in Procs : Cancellation(p)
<1>1. ASSUME NEW p \in Procs, Transition(p) PROVE Quarantined(state, state')
  BY Zenon, <1>1, TerminalTransitions DEF Transition, TransitionRuntimeState
<1>2. ASSUME NEW p \in Procs, Cancellation(p) PROVE QuarantineCancelled(state, state')
  BY Zenon, <1>2 DEF Cancellation, CancelAllJobAttempts, cancelRefused, terminalStates, QuarantineCancelled
<1>3. \A p \in Procs : ~Migration(p)
  BY Zenon DEF Migration, Migrate, terminalStates, NoState
<1>4. \A h \in Handlers : ~Revocation(h) /\ (BeginFence(h) => state' = state)
  BY Zenon, Causes DEF BeginFence, BeginDispatch
<1>5. \A m \in Message : ~Report(m)
  BY Zenon DEF Report, ApplyJobResult, AwaitingWorker, terminalStates
<1> QED BY Zenon, <1>1, <1>2, <1>3, <1>4, <1>5, StateMoves

\* The hash is cancelled before the call answers, and stays so.
LEMMA CancelStep ==
  ASSUME HashInv, ProtocolInv, CancelInv, [DispatchNext]_all
  PROVE  CancelInv'
<1> SUFFICES ASSUME used'.job = 0, used'.publish = 0
             PROVE  /\ cancelled' => state' = "CANCELLED"
                    /\ pc'[Canceller] \in Projects \cup {"cancelled"} /\ target'[Canceller] = "CANCELLED" =>
                         state' = "CANCELLED"
  BY Zenon DEF CancelInv
<1>1. used.job = 0 /\ used.publish = 0
  BY Zenon, UsedGrows DEF Kinds, HashInv
<1>2. state = "CANCELLED" => state' = "CANCELLED"
  BY Zenon, <1>1, TerminalMoves DEF terminalStates, Quarantined, QuarantineCancelled
<1>3. cancelled' => state' = "CANCELLED"
  <2>1. CASE CancelReturns
    BY Zenon, <1>1, <1>2, <2>1 DEF CancelInv, CancelReturns
  <2>2. CASE ~CancelReturns
    <3>1. cancelled' = cancelled
      BY Zenon, <2>2
      DEF DispatchNext, Handle, Acquire, ReadState, Decide, EmitDLQ, MarkDispatched, BeginMigrate,
          BeginFence, BeginFails, Publish, rollbackFailedDispatch, Release, Crash, LockExpires,
          DedupeWindowCloses, WorkerReports, DrainStart, DrainChecks, DrainAck, AuditStart,
          AuditRead, CancelStart, TimeoutListed, TimeoutRefused, all
    <3> QED BY Zenon, <1>1, <1>2, <3>1 DEF CancelInv
  <2> QED BY Zenon, <2>1, <2>2
<1>4. ASSUME pc'[Canceller] \in Projects \cup {"cancelled"}, target'[Canceller] = "CANCELLED"
      PROVE  state' = "CANCELLED"
  <2>1. CASE StoreStep(Canceller)
    <3>1. CASE CancelScript(Canceller)
      BY Zenon, <1>4, <3>1, Different DEF CancelScript, CancelAllJobAttempts, vars, HashInv, Shape,
         DispatchTypeOK, StoreTypeOK
    <3>2. CASE ~CancelScript(Canceller)
      <4>1. pc[Canceller] # "cancel_meta"
        BY Zenon, <1>1 DEF ProtocolInv, UsedInv
      <4>2. pc[Canceller] \in Projects /\ target'[Canceller] = target[Canceller]
        BY Zenon, <1>4, <2>1, <3>2, <4>1, Different
        DEF ProtocolInv, CallInv, CancellerCall, HashInv, Shape, Projects, StoreStep, SetStateExists,
            SetStateScript, SetStateHGet, SetStateWithContext, ProjectMeta, ProjectZRem, ProjectZAdd,
            CancelJobExists, CancelJobMeta, MigrateRead, MigrateWrite
      <4> QED BY Zenon, <1>1, <1>2, <1>4, <4>2 DEF CancelInv
    <3> QED BY Zenon, <3>1, <3>2
  <2>2. CASE CancelStart \/ CancelReturns
    BY Zenon, <1>4, <2>2, Different DEF CancelStart, CancelReturns, HashInv, Shape, Projects
  <2>3. CASE ~StoreStep(Canceller) /\ ~CancelStart /\ ~CancelReturns
    <3>1. pc'[Canceller] = pc[Canceller] /\ target'[Canceller] = target[Canceller]
      BY <2>3, StoreMoves, HandlerMoves, RestMoves, Different DEF Moves, DispatchNext, HashInv
    <3> QED BY Zenon, <1>1, <1>2, <1>4, <3>1 DEF CancelInv
  <2> QED BY Zenon, <2>1, <2>2, <2>3
<1> QED BY Zenon, <1>3, <1>4

-----------------------------------------------------------------------------
\* A sum of counts is zero when each is.
LEMMA NoneCounted ==
  ASSUME NEW u \in [Kinds -> Nat]
  PROVE  u.job + u.attempts + u.timeout = 0 <=> u.job = 0 /\ u.attempts = 0 /\ u.timeout = 0
<1>1. u.job \in Nat /\ u.attempts \in Nat /\ u.timeout \in Nat
  BY Zenon DEF Kinds
<1>2. \A a, b, c \in Nat : a + b + c = 0 <=> a = 0 /\ b = 0 /\ c = 0
  OBVIOUS
<1> QED BY Zenon, <1>1, <1>2

\* While only the lock's holder writes and the hash is empty, no other process
\* touches job:meta.
LEMMA MetaIsTheHolders ==
  ASSUME HashInv, ProtocolInv, [DispatchNext]_all, OnlyLockedWriters, state = NoState
  PROVE  \/ meta' = meta
         \/ \E p \in Lockers :
              /\ StoreStep(p) /\ UNCHANGED scheduler /\ pc[p] = "legacy"
              /\ isAllowedTransition(meta, target[p]) /\ meta' = target[p]
<1>1. pc[Canceller] = "idle" /\ pc[Reconciler] = "idle"
  BY Zenon, NoneCounted DEF OnlyLockedWriters, ProtocolInv, UsedInv, HashInv, Shape, DispatchTypeOK
<1>2. \A d \in Drainers : pc[d] = "idle"
  BY Zenon DEF HashInv, DrainInv, ProtocolInv, EventInv
<1>3. ASSUME NEW p \in Procs, StoreStep(p)
      PROVE  p \in Lockers /\ pc[p] \notin {"project", "cancel_meta"}
  <2>1. pc[p] # "idle"
    BY Zenon, <1>3, StoreMoves DEF HashInv
  <2>2. p \in Lockers
    BY Zenon, <1>1, <1>2, <2>1 DEF Procs, Lockers
  <2> QED BY Zenon, <2>2, Causes, Different DEF Lockers
<1> QED BY Zenon, <1>3, MetaMoves

\* What a handler read to migrate is still job:meta.
LEMMA SeenStep ==
  ASSUME HashInv, ProtocolInv, SeenInv, [DispatchNext]_all
  PROVE  SeenInv'
<1> SUFFICES ASSUME OnlyLockedWriters', state' = NoState, NEW h \in Handlers, pc'[h] = "begin_migrate"
             PROVE  seen'[h] = meta'
  BY Zenon DEF SeenInv
<1>1. OnlyLockedWriters
  <2>1. used \in [Kinds -> Nat] /\ used' \in [Kinds -> Nat]
    BY Zenon, HashStep DEF HashInv, Shape, DispatchTypeOK
  <2>2. used'.job = 0 /\ used'.attempts = 0 /\ used'.timeout = 0
    BY Zenon, <2>1, NoneCounted DEF OnlyLockedWriters
  <2>3. used.job = 0 /\ used.attempts = 0 /\ used.timeout = 0
    BY Zenon, <2>2, UsedGrows DEF HashInv, Kinds
  <2> QED BY Zenon, <2>1, <2>3, NoneCounted DEF OnlyLockedWriters
<1>2. state = NoState
  BY Zenon, StatePersists DEF HashInv
<1>3. CASE Handle(h)
  <2>1. BeginMigrate(h)
    BY Zenon, <1>3, Different
    DEF HashInv, Shape, Handle, Acquire, ReadState, Decide, ChooseWorker, RequireApproval, DenyJob,
        FailJob, CompleteGate, Requeue, EmitDLQ, MarkDispatched, BeginFence, BeginFails, Publish,
        rollbackFailedDispatch, Release, Crash
  <2> QED BY Zenon, <2>1, Different
          DEF BeginMigrate, MigrateRead, MigrateWrite, HashInv, Shape, DispatchTypeOK, StoreTypeOK
<1>4. CASE StoreStep(h)
  <2>1. pc'[h] \in {"script", "legacy", "hget", "failed", cont[h]} /\ cont[h] # "begin_migrate"
    BY Zenon, <1>4, Different
    DEF ProtocolInv, CallInv, HandlerCall, Calls, HashInv, Shape, Returns, StoreStep, SetStateExists,
        SetStateScript, SetStateHGet, SetStateWithContext, ProjectMeta, ProjectZRem, ProjectZAdd,
        CancelJobExists, CancelJobMeta, MigrateRead, MigrateWrite, CancelScript
  <2> QED BY Zenon, <2>1
<1>5. CASE Idles(h)
  <2>1. pc[h] = "begin_migrate" /\ seen'[h] = seen[h] /\ seen[h] = meta
    BY Zenon, <1>1, <1>2, <1>5 DEF Idles, SeenInv
  <2>2. \A p \in Lockers : pc[p] = "legacy" => FALSE
    BY Zenon, <2>1, Different DEF ProtocolInv, LockInv, Lockers
  <2> QED BY Zenon, <1>1, <1>2, <2>1, <2>2, MetaIsTheHolders
<1> QED BY Zenon, <1>3, <1>4, <1>5, WhoMoves DEF HashInv

\* What GetState answers never leaves a terminal state.
LEMMA TerminalStep ==
  ASSUME HashInv, ProtocolInv, SeenInv, [DispatchNext]_all, used.publish = 0
  PROVE  /\ state \in terminalStates =>
              state' = state \/ Quarantined(state, state') \/ QuarantineCancelled(state, state')
         /\ GetState \in terminalStates /\ OnlyLockedWriters =>
              GetState' = GetState \/ Quarantined(GetState, GetState')
<1>1. state \in terminalStates =>
        state' = state \/ Quarantined(state, state') \/ QuarantineCancelled(state, state')
  BY Zenon, TerminalMoves
<1>2. ASSUME GetState \in terminalStates, OnlyLockedWriters
      PROVE  GetState' = GetState \/ Quarantined(GetState, GetState')
  <2>1. pc[Canceller] = "idle"
    BY Zenon, <1>2, NoneCounted DEF OnlyLockedWriters, ProtocolInv, UsedInv, HashInv, Shape, DispatchTypeOK
  <2>2. CASE state # NoState
    <3>1. \A p \in Procs : ~Cancellation(p)
      BY Zenon, <2>1, Causes DEF Cancellation, CancelScript
    <3>2. state \in terminalStates /\ (state' = state \/ Quarantined(state, state'))
      BY Zenon, <1>2, <2>2, <3>1, TerminalMoves DEF GetState
    <3>3. state' # NoState
      BY Zenon, <2>2, StatePersists DEF HashInv
    <3> QED BY Zenon, <2>2, <3>2, <3>3 DEF GetState
  <2>3. CASE state = NoState /\ state' = NoState
    <3>1. meta \in terminalStates
      BY Zenon, <1>2, <2>3 DEF GetState
    <3>2. meta' = meta \/ Quarantined(meta, meta')
      BY Zenon, <1>2, <2>3, <3>1, MetaIsTheHolders, TerminalTransitions
    <3> QED BY Zenon, <2>3, <3>2 DEF GetState
  <2>4. CASE state = NoState /\ state' # NoState
    <3>1. \A p \in Procs : ~Transition(p) /\ ~Cancellation(p)
      BY Zenon, <2>1, <2>4, Causes DEF Cancellation, CancelScript, Transition, TransitionRuntimeState
    <3>2. \A h \in Handlers : ~Revocation(h) /\ ~(BeginFence(h) /\ state' # state)
      BY Zenon, Causes DEF BeginFence, BeginDispatch
    <3>3. \A m \in Message : ~Report(m)
      BY Zenon, <2>4 DEF Report, ApplyJobResult, AwaitingWorker, NoState
    <3>4. PICK p \in Procs : Migration(p)
      BY Zenon, <2>4, <3>1, <3>2, <3>3, StateMoves DEF HashInv, ProtocolInv
    <3>5. p \in Handlers /\ pc[p] = "begin_migrate" /\ state' = seen[p]
      BY Zenon, <2>1, <2>4, <3>4, Causes DEF Migration, Migrate
    <3>6. seen[p] = meta
      BY Zenon, <1>2, <2>4, <3>5 DEF SeenInv
    <3> QED BY Zenon, <2>4, <3>5, <3>6 DEF GetState
  <2> QED BY Zenon, <2>2, <2>3, <2>4
<1> QED BY Zenon, <1>1, <1>2

-----------------------------------------------------------------------------
\* What was not asked for after a step was not asked for before it.
LEMMA MarkedBack ==
  ASSUME HashInv, [DispatchNext]_all
  PROVE  Marked' => Marked
<1>1. used'.attempts = 0 => used.attempts = 0
  BY Zenon, UsedGrows DEF HashInv, Kinds
<1>2. applied \subseteq applied'
  BY Zenon, MovesHash, HistoryGrows DEF HashInv
<1> QED BY Zenon, <1>1, <1>2 DEF Marked, AsksOnce

\* A retry ends an open dispatch; the worker of a dispatch that a retry has ended
\* does not ask for another one.
LEMMA RetryEndsOpen ==
  ASSUME HashInv, ProtocolInv, NEW m \in Message, Report(m), m.reports = "RETRYING", AsksOnce'
  PROVE  Open(m.id) /\ m.id = issued
<1>1. fence # NoFence /\ fence.id = m.id /\ m.id \in stream
  BY AbsentAssumption DEF Report, ApplyJobResult, FenceMatches, HashInv, FenceInv, TypeOK, Fence, Message
<1>2. m.id = issued /\ m.id \notin rolledBack
  BY Zenon, <1>1 DEF HashInv, FenceInv, FenceIsNewest, ProtocolInv, EventInv
<1>3. ASSUME NEW n \in applied, n.id = m.id, n.reports = "RETRYING" PROVE FALSE
  <2>1. events[m.mid] = NoMessage /\ events[n.mid] = n /\ n # NoMessage
    BY Zenon, AbsentAssumption
    DEF Report, ApplyJobResult, ProtocolInv, EventInv, HashInv, FenceInv, TypeOK
  <2>2. n \in applied' /\ m \in applied'
    BY Zenon DEF Report, ApplyJobResult
  <2> QED BY Zenon, <1>3, <2>1, <2>2 DEF AsksOnce
<1> QED BY Zenon, <1>1, <1>2, <1>3 DEF Open, Retried

\* While a handler is on its way to a dispatch, what stops the next handler stays.
LEMMA BlockingStays ==
  ASSUME HashInv, DispatchInv, [DispatchNext]_all, Marked', NEW h \in Handlers, Dispatching(h),
         pc[h] # "script"
  PROVE  /\ state \in Blocking => state' \in Blocking
         /\ state = NoState => state' \in Blocking \cup {NoState} \/ Migration(h)
<1>1. ProtocolInv /\ Marked /\ pc[h] \notin {"idle", "rollback"}
  BY Zenon, MarkedBack DEF DispatchInv, Dispatching, Calls
<1>2. ASSUME NEW p \in Procs, Transition(p) PROVE state # NoState /\ state' \in Blocking
  <2>1. pc[p] = "script" /\ state # NoState /\ state' = target[p]
    BY Zenon, <1>2 DEF Transition, TransitionRuntimeState
  <2>2. p \notin Lockers
    BY Zenon, <1>1, <2>1 DEF ProtocolInv, LockInv, Lockers
  <2>3. p = Reconciler
    BY Zenon, <1>1, <2>1, <2>2
    DEF Procs, Lockers, ProtocolInv, CallInv, CancellerCall, DrainerCall, Projects
  <2> QED BY Zenon, <1>1, <2>1, <2>3
          DEF ProtocolInv, CallInv, ReconcilerCall, Calls, Blocking, terminalStates
<1>3. ASSUME NEW p \in Procs, Migration(p) PROVE state = NoState /\ p = h
  <2>1. state = NoState
    BY Zenon, <1>3 DEF Migration, Migrate
  <2>2. p \in Handlers
    BY Zenon, <1>1, <1>3, <2>1, Causes DEF Migration, DispatchInv, MarkInv
  <2> QED BY Zenon, <1>1, <1>3, <2>1, <2>2, OneAtWork DEF Migration, ProtocolInv
<1>4. \A g \in Handlers : ~Revocation(g) /\ (BeginFence(g) => state' = state)
  BY Zenon, <1>1, OneAtWork
  DEF ProtocolInv, BeginFence, BeginDispatch, Revocation, rollbackFailedDispatch
<1>5. ASSUME NEW p \in Procs, Cancellation(p) PROVE state' \in Blocking
  BY Zenon, <1>5 DEF Cancellation, CancelAllJobAttempts, Blocking, terminalStates
<1>6. ASSUME NEW m \in Message, Report(m) PROVE state # NoState /\ state' \in Blocking
  <2>1. state # NoState /\ state' = m.reports /\ m.reports # Progress
    BY Zenon, <1>6 DEF Report, ApplyJobResult, AwaitingWorker, NoState
  <2>2. CASE m.reports = "RETRYING"
    <3>1. Open(m.id) /\ m.id \in stream
      BY Zenon, <1>1, <1>6, <2>2, RetryEndsOpen DEF Marked, Report
    <3> QED BY Zenon, <1>1, <3>1 DEF DispatchInv, OpenInv, StaysOpen
  <2> QED BY Zenon, <2>1, <2>2, OutcomesAreTerminal DEF Blocking
<1>7. NoState \notin Blocking
  BY Zenon DEF Blocking, AwaitingWorker, terminalStates, NoState
<1> QED BY Zenon, <1>2, <1>3, <1>4, <1>5, <1>6, <1>7, StateMoves

\* So does what job:meta says before there is a hash.
LEMMA MetaStays ==
  ASSUME HashInv, DispatchInv, [DispatchNext]_all, Marked', NEW h \in Handlers, pc[h] = "begin",
         state = NoState, meta \in Blocking
  PROVE  meta' \in Blocking
<1>1. ProtocolInv /\ Marked /\ pc[Canceller] \notin Projects
  BY Zenon, MarkedBack DEF DispatchInv, MarkInv
<1>2. \A d \in Drainers : pc[d] = "idle"
  BY Zenon, <1>1 DEF HashInv, DrainInv, ProtocolInv, EventInv
<1>3. ASSUME NEW p \in Procs, pc[p] = "legacy", meta' = target[p] PROVE meta' \in Blocking
  <2>1. p \notin Lockers
    BY Zenon, <1>1, <1>3 DEF ProtocolInv, LockInv, Lockers
  <2>2. p = Reconciler
    BY Zenon, <1>1, <1>2, <1>3, <2>1 DEF Procs, Lockers, ProtocolInv, CallInv, CancellerCall, Projects
  <2> QED BY Zenon, <1>1, <1>3, <2>2
          DEF ProtocolInv, CallInv, ReconcilerCall, Calls, Blocking, terminalStates
<1>4. ASSUME NEW p \in Procs, pc[p] = "project" PROVE FALSE
  BY Zenon, <1>1, <1>2, <1>4, Causes DEF Projects
<1>5. ASSUME NEW p \in Procs, pc[p] = "cancel_meta", StoreStep(p), meta' # meta PROVE meta' \in Blocking
  BY Zenon, <1>5
  DEF StoreStep, SetStateExists, SetStateScript, SetStateHGet, SetStateWithContext, ProjectMeta,
      ProjectZRem, ProjectZAdd, CancelJobExists, CancelJobMeta, MigrateRead, MigrateWrite,
      CancelScript, Blocking, terminalStates
<1> QED BY Zenon, <1>3, <1>4, <1>5, MetaMoves

\* A cancel call that has no budget for all attempts has seen the hash.
LEMMA CancelSeesHash ==
  ASSUME HashInv, DispatchInv, [DispatchNext]_all, Marked'
  PROVE  pc'[Canceller] \in {"cancel_read", "cancel_migrate", "cancel_script"} \cup Projects =>
           state' # NoState
<1> DEFINE Late == {"cancel_read", "cancel_migrate", "cancel_script"} \cup Projects
<1>1. pc[Canceller] \in Late => state' # NoState
  BY Zenon, MarkedBack, StatePersists DEF DispatchInv, MarkInv
<1>2. CASE StoreStep(Canceller)
  <2>1. CASE pc[Canceller] \notin Late
    <3>1. CancelJobExists(Canceller) \/ CancelJobMeta(Canceller)
      BY Zenon, <1>2, <2>1
      DEF DispatchInv, ProtocolInv, CallInv, CancellerCall, Projects, StoreStep, SetStateExists,
          SetStateScript, SetStateHGet, SetStateWithContext, ProjectMeta, ProjectZRem, ProjectZAdd,
          MigrateRead, MigrateWrite, CancelScript
    <3>2. CASE CancelJobExists(Canceller)
      BY Zenon, <3>2, Different DEF CancelJobExists, RuntimeExists, vars, HashInv, Shape, Projects
    <3>3. CASE CancelJobMeta(Canceller)
      BY Zenon, <3>3, Different
      DEF CancelJobMeta, HashInv, Shape, Projects, DispatchInv, ProtocolInv, CallInv, CancellerCall
    <3> QED BY Zenon, <3>1, <3>2, <3>3
  <2> QED BY Zenon, <1>1, <2>1
<1>3. CASE CancelStart
  <2>1. used \in [Kinds -> Nat] /\ used'.attempts = 0
    BY Zenon DEF HashInv, Shape, DispatchTypeOK, Marked
  <2>2. ~Use("attempts")
    BY Zenon, <2>1, UseCounts DEF Kinds
  <2> QED BY Zenon, <1>3, <2>2, Different DEF CancelStart, HashInv, Shape, Projects
<1>4. CASE CancelReturns
  BY Zenon, <1>4, Different DEF CancelReturns, HashInv, Shape, Projects
<1>5. CASE ~StoreStep(Canceller) /\ ~CancelStart /\ ~CancelReturns
  <2>1. pc'[Canceller] = pc[Canceller]
    BY <1>5, StoreMoves, HandlerMoves, RestMoves, Different DEF Moves, DispatchNext, HashInv
  <2> QED BY Zenon, <1>1, <2>1
<1> QED BY Zenon, <1>2, <1>3, <1>4, <1>5

\* A handler at rest keeps what it found.
LEMMA MarkIdle ==
  ASSUME HashInv, DispatchInv, [DispatchNext]_all, Marked', NEW h \in Handlers, MarkedBy(h), Idles(h)
  PROVE  MarkedBy(h)'
<1>1. ASSUME \/ pc[h] \in {"hget", "legacy"} /\ cont[h] = "begin"
             \/ pc[h] \in {"begin", "begin_migrate", "fence", "publish"}
      PROVE  MarkedBy(h)'
  <2>1. Dispatching(h) /\ pc[h] # "script"
    BY Zenon, <1>1
    DEF Dispatching, Calls, DispatchInv, ProtocolInv, CallInv, HandlerCall, HandlerCalls
  <2>2. state \in Blocking => state' \in Blocking
    BY Zenon, <2>1, BlockingStays
  <2>3. state = NoState => state' \in Blocking \cup {NoState} \/ Migration(h)
    BY Zenon, <2>1, BlockingStays
  <2>4. pc[h] = "begin" /\ state = NoState => meta' \in Blocking
    BY Zenon, MetaStays DEF MarkedBy, Blocking, AwaitingWorker, terminalStates, NoState
  <2>5. Migration(h) => pc[h] = "begin_migrate" /\ state' = seen[h]
    BY Zenon, Causes, Different DEF Migration, Migrate, DispatchInv
  <2>6. NoState \notin Blocking
    BY Zenon DEF Blocking, AwaitingWorker, terminalStates, NoState
  <2> QED BY Zenon, <1>1, <2>2, <2>3, <2>4, <2>5, <2>6 DEF MarkedBy, Idles
<1> QED BY Zenon, <1>1 DEF MarkedBy, Idles

\* DISPATCHED is written before the dispatch begins.
LEMMA MarkStep ==
  ASSUME HashInv, DispatchInv, [DispatchNext]_all
  PROVE  MarkInv'
<1> SUFFICES ASSUME Marked', NEW h \in Handlers PROVE MarkedBy(h)'
  BY Zenon, CancelSeesHash DEF MarkInv
<1>1. MarkedBy(h) /\ ProtocolInv
  BY Zenon, MarkedBack DEF DispatchInv, MarkInv
<1>2. CASE Idles(h)
  BY Zenon, <1>1, <1>2, MarkIdle
<1>3. CASE StoreStep(h) /\ UNCHANGED scheduler
  <2>1. pc[h] \in Calls /\ <<target[h], cont[h]>> \in HandlerCalls
    BY Zenon, <1>1, <1>3
    DEF ProtocolInv, CallInv, HandlerCall, Calls, Projects, StoreStep, SetStateExists, SetStateScript,
        SetStateHGet, SetStateWithContext, ProjectMeta, ProjectZRem, ProjectZAdd, CancelJobExists,
        CancelJobMeta, MigrateRead, MigrateWrite, CancelScript
  <2>2. SetStateExists(h) \/ SetStateScript(h) \/ SetStateHGet(h) \/ SetStateWithContext(h)
    BY Zenon, <1>3, <2>1
    DEF Calls, StoreStep, ProjectMeta, ProjectZRem, ProjectZAdd, CancelJobExists,
        CancelJobMeta, MigrateRead, MigrateWrite, CancelScript
  <2>3. /\ cont[h] \in {"decide", "dlq", "release", "scheduled", "begin"}
        /\ cont[h] = "begin" => target[h] \in Blocking
    BY Zenon, <2>1 DEF HandlerCalls, Blocking, AwaitingWorker
  <2> USE Different DEF HashInv, Shape
  <2>4. CASE SetStateExists(h)
    BY Zenon, <2>4 DEF SetStateExists, RuntimeExists, vars, MarkedBy
  <2>5. CASE SetStateScript(h)
    BY Zenon, <2>3, <2>5 DEF SetStateScript, TransitionRuntimeState, vars, MarkedBy
  <2>6. CASE SetStateHGet(h)
    BY Zenon, <1>1, <2>3, <2>6 DEF SetStateHGet, vars, MarkedBy
  <2>7. CASE SetStateWithContext(h)
    BY Zenon, <1>1, <2>3, <2>7 DEF SetStateWithContext, vars, MarkedBy
  <2> QED BY Zenon, <2>2, <2>4, <2>5, <2>6, <2>7
<1>4. CASE Handle(h)
  <2> USE Different DEF HashInv, Shape
  <2>1. CASE MigrateRead(h, "begin", "begin_migrate")
    BY Zenon, <1>1, <2>1 DEF MigrateRead, vars, MarkedBy, DispatchTypeOK, StoreTypeOK
  <2>2. CASE MigrateWrite(h, "begin_migrate", "fence")
    BY Zenon, <1>1, <2>2 DEF MigrateWrite, Migrate, RuntimeExists, vars, MarkedBy, Blocking, AwaitingWorker,
                      terminalStates, NoState
  <2>3. CASE BeginFence(h)
    BY Zenon, <1>1, <2>3 DEF BeginFence, BeginDispatch, MarkedBy
  <2>4. CASE ~BeginMigrate(h) /\ ~BeginFence(h)
    <3>1. pc'[h] \notin {"hget", "legacy", "begin", "begin_migrate", "fence", "publish"}
      BY Zenon, <1>4, <2>4
      DEF Handle, Acquire, ReadState, Decide, ChooseWorker, RequireApproval, DenyJob, FailJob,
          CompleteGate, Requeue, EmitDLQ, MarkDispatched, BeginFails, Publish, rollbackFailedDispatch,
          Release, Crash
    <3> QED BY Zenon, <3>1 DEF MarkedBy
  <2> QED BY Zenon, <2>1, <2>2, <2>3, <2>4 DEF BeginMigrate
<1> QED BY Zenon, <1>2, <1>3, <1>4, WhoMoves DEF HashInv

-----------------------------------------------------------------------------
\* A dispatch that is open after a step was open before it, or is the one just
\* published.
LEMMA OpenBack ==
  ASSUME HashInv, [DispatchNext]_all, NEW i \in stream', Open(i)'
  PROVE  Open(i) \/ \E h \in Handlers : Publish(h) /\ i = disp[h].id
<1>1. applied \subseteq applied'
  BY Zenon, MovesHash, HistoryGrows DEF HashInv
<1>2. rolledBack \subseteq rolledBack'
  BY Zenon, StreamMoves DEF Revocation, rollbackFailedDispatch
<1>3. i \in stream \/ \E h \in Handlers : Publish(h) /\ i = disp[h].id
  BY Zenon, StreamMoves DEF Publish, DedupeWindowCloses
<1> QED BY Zenon, <1>1, <1>2, <1>3 DEF Open, Retried

\* The dispatch just published is open, the newest, and its handler is at work on it.
LEMMA OpenPublished ==
  ASSUME HashInv, DispatchInv, NEW h \in Handlers, Publish(h), Marked' => Marked
  PROVE  /\ disp[h].id = issued' /\ state' # NoState
         /\ fence' = NoFence => state' \in terminalStates
         /\ \A g \in Handlers : ~Dispatching(g)'
         /\ \/ state' \in Blocking
            \/ ~Marked' /\ \E g \in Handlers : pc'[g] \in {"exists", "script", "rollback"}
<1>1. pc[h] = "publish" /\ UNCHANGED vars
  BY Zenon DEF Publish
<1>2. /\ disp[h].id = issued /\ state # NoState
      /\ fence = NoFence => state \in terminalStates
      /\ Marked => state \in Blocking
  BY Zenon, <1>1 DEF DispatchInv, ProtocolInv, BeginInv, MarkInv, MarkedBy
<1>3. pc'[h] = "rollback" \/ (pc'[h] = "exists" /\ target'[h] = "RUNNING")
  BY Zenon, Different DEF Publish, HashInv, Shape, DispatchTypeOK, StoreTypeOK
<1>4. ASSUME NEW g \in Handlers, g # h PROVE pc'[g] = "idle"
  <2>1. pc[g] = "idle"
    BY Zenon, <1>1, <1>4 DEF DispatchInv, ProtocolInv, LockInv, Lockers
  <2> QED BY Zenon, <1>4, <2>1, Different DEF Publish, HashInv, Shape
<1>5. \A g \in Handlers : ~Dispatching(g)'
  BY Zenon, <1>3, <1>4 DEF Dispatching, Calls
<1> QED BY Zenon, <1>1, <1>2, <1>3, <1>5 DEF vars

\* While a dispatch stays open none begins or is rolled back.
LEMMA OpenKeepsFence ==
  ASSUME HashInv, ProtocolInv, [DispatchNext]_all, NEW i \in stream, StaysOpen(i), Open(i)'
  PROVE  /\ \A h \in Handlers : ~Revocation(h) /\ ~BeginFence(h)
         /\ i = issued' /\ state' # NoState
         /\ fence' = NoFence => state' \in terminalStates
<1>1. ASSUME NEW h \in Handlers, Revocation(h) PROVE FALSE
  <2>1. disp[h].id = i
    BY Zenon, <1>1 DEF StaysOpen, ProtocolInv, BeginInv, Revocation, rollbackFailedDispatch
  <2>2. pc[h] = "rollback" /\ (rolledBack' = rolledBack \cup {disp[h].id} \/ live # disp[h].id)
    BY Zenon, <1>1 DEF Revocation, rollbackFailedDispatch
  <2>3. live = disp[h].id
    BY Zenon, <1>1 DEF Revocation, RollbackDispatch, live
  <2> QED BY Zenon, <2>1, <2>2, <2>3 DEF Open
<1>2. \A h \in Handlers : ~BeginFence(h)
  BY Zenon DEF StaysOpen, Dispatching, BeginFence
<1>3. issued' = issued /\ (fence' # fence => state' = "CANCELLED")
  BY Zenon, <1>1, <1>2, StateMoves
  DEF Transition, TransitionRuntimeState, Migration, Migrate, Cancellation, CancelAllJobAttempts,
      Report, ApplyJobResult
<1> QED BY Zenon, <1>1, <1>2, <1>3, StatePersists DEF StaysOpen, terminalStates

\* While a dispatch stays open no handler sets out for another one.
LEMMA OpenStopsHandlers ==
  ASSUME HashInv, ProtocolInv, [DispatchNext]_all, NEW i \in stream, StaysOpen(i), Open(i)',
         NEW h \in Handlers
  PROVE  ~Dispatching(h)'
<1>1. ~Dispatching(h)
  BY Zenon DEF StaysOpen
<1>2. CASE Idles(h)
  BY Zenon, <1>1, <1>2 DEF Idles, Dispatching
<1>3. CASE StoreStep(h)
  <2>1. pc[h] \in Calls /\ <<target[h], cont[h]>> \in HandlerCalls
    BY Zenon, <1>3
    DEF ProtocolInv, CallInv, HandlerCall, Calls, Projects, StoreStep, SetStateExists, SetStateScript,
        SetStateHGet, SetStateWithContext, ProjectMeta, ProjectZRem, ProjectZAdd, CancelJobExists,
        CancelJobMeta, MigrateRead, MigrateWrite, CancelScript
  <2>2. target[h] = "RUNNING" /\ cont[h] = "release"
    BY Zenon, <1>1, <2>1 DEF Dispatching, HandlerCalls
  <2>3. target'[h] = target[h] /\ pc'[h] \in {"script", "hget", "legacy", "failed", cont[h]}
    BY Zenon, <1>3, <2>1, Different
    DEF Calls, HashInv, Shape, StoreStep, SetStateExists, SetStateScript, SetStateHGet,
        SetStateWithContext, ProjectMeta, ProjectZRem, ProjectZAdd, CancelJobExists, CancelJobMeta,
        MigrateRead, MigrateWrite, CancelScript
  <2> QED BY Zenon, <2>2, <2>3 DEF Dispatching
<1>4. CASE Handle(h)
  <2> USE Different DEF HashInv, Shape
  <2>1. CASE ReadState(h)
    <3>1. state \in Blocking
      BY Zenon, <2>1, OneAtWork DEF StaysOpen, ReadState, ProtocolInv
    <3>2. GetState \in Blocking /\ Blocking \cap {NoState} = {}
      BY Zenon, <3>1 DEF GetState, Blocking, AwaitingWorker, terminalStates, NoState
    <3>3. pc'[h] \in {"dlq", "release"}
      BY Zenon, <2>1, <3>2 DEF ReadState, Blocking, AwaitingWorker, terminalStates, isActiveState
    <3> QED BY Zenon, <3>3 DEF Dispatching, Calls
  <2>2. CASE rollbackFailedDispatch(h)
    <3>1. pc'[h] = "release"
      BY Zenon, <2>2, OpenKeepsFence DEF rollbackFailedDispatch, Revocation
    <3> QED BY Zenon, <3>1 DEF Dispatching, Calls
  <2>3. CASE Acquire(h) \/ EmitDLQ(h) \/ Release(h) \/ Crash(h)
    <3>1. pc'[h] \in {"read", "release", "idle"}
      BY Zenon, <2>3 DEF Acquire, EmitDLQ, Release, Crash
    <3> QED BY Zenon, <3>1 DEF Dispatching, Calls
  <2>4. CASE Decide(h) \/ MarkDispatched(h) \/ BeginMigrate(h) \/ BeginFence(h) \/ BeginFails(h) \/ Publish(h)
    BY Zenon, <1>1, <2>4
    DEF Dispatching, Decide, MarkDispatched, BeginMigrate, MigrateRead, MigrateWrite, BeginFence,
        BeginFails, Publish
  <2> QED BY Zenon, <1>4, <2>1, <2>2, <2>3, <2>4 DEF Handle
<1> QED BY Zenon, <1>2, <1>3, <1>4, WhoMoves DEF HashInv

\* Its state goes on to stop the handlers to come.
LEMMA OpenStaysBlocking ==
  ASSUME HashInv, ProtocolInv, [DispatchNext]_all, NEW i \in stream, StaysOpen(i), Open(i)',
         state \in Blocking
  PROVE  state' \in Blocking
<1>1. ASSUME NEW p \in Procs, Transition(p) PROVE state' \in Blocking
  <2>1. pc[p] = "script" /\ state' = target[p]
    BY Zenon, <1>1 DEF Transition, TransitionRuntimeState
  <2>2. p \in Handlers \cup {Auditor, Reconciler}
    BY Zenon, <2>1 DEF Procs, ProtocolInv, CallInv, CancellerCall, DrainerCall, Projects
  <2>3. target[p] \in {"RUNNING", "OUTPUT_QUARANTINED", "TIMEOUT"}
    BY Zenon, <2>1, <2>2
    DEF StaysOpen, Dispatching, ProtocolInv, CallInv, AuditorCall, ReconcilerCall, Calls
  <2> QED BY Zenon, <2>1, <2>3 DEF Blocking, AwaitingWorker, terminalStates
<1>2. ASSUME NEW p \in Procs, Cancellation(p) PROVE state' \in Blocking
  BY Zenon, <1>2 DEF Cancellation, CancelAllJobAttempts, Blocking, terminalStates
<1>3. ASSUME NEW m \in Message, Report(m) PROVE state' \in Blocking
  <2>1. /\ fence # NoFence /\ fence.id = m.id /\ m \in applied' /\ state' = m.reports
        /\ m.reports # Progress
    BY <1>3, AbsentAssumption
    DEF Report, ApplyJobResult, FenceMatches, HashInv, FenceInv, TypeOK, Fence, Message
  <2>2. m.id = i
    BY Zenon, <2>1 DEF HashInv, FenceInv, FenceIsNewest, StaysOpen
  <2>3. m.reports # "RETRYING"
    BY Zenon, <2>1, <2>2 DEF Open, Retried
  <2> QED BY Zenon, <2>1, <2>3, OutcomesAreTerminal DEF Blocking
<1>4. \A p \in Procs : ~Migration(p)
  BY Zenon DEF Migration, Migrate, Blocking, AwaitingWorker, terminalStates, NoState
<1> QED BY Zenon, <1>1, <1>2, <1>3, <1>4, OpenKeepsFence, StateMoves

\* RUNNING may follow every state that does not stop a handler.
LEMMA RunningAllowed ==
  ASSUME NEW s \in JobState, s \notin Blocking
  PROVE  isAllowedTransition(s, "RUNNING")
<1>1. s \in {"PENDING", "APPROVAL_REQUIRED", "SCHEDULED", "RETRYING"}
  BY Zenon DEF JobState, Blocking, AwaitingWorker, terminalStates
<1>2. CASE s = "PENDING"
  BY Zenon, <1>2 DEF isAllowedTransition, allowedTransitions, NoState
<1>3. CASE s = "APPROVAL_REQUIRED"
  BY Zenon, <1>3 DEF isAllowedTransition, allowedTransitions, NoState
<1>4. CASE s = "SCHEDULED"
  BY Zenon, <1>4 DEF isAllowedTransition, allowedTransitions, NoState
<1>5. CASE s = "RETRYING"
  BY Zenon, <1>5 DEF isAllowedTransition, allowedTransitions, NoState
<1> QED BY Zenon, <1>1, <1>2, <1>3, <1>4, <1>5

\* The handler that published sees to it, unless it crashes.
LEMMA OpenIsWorkedOn ==
  ASSUME HashInv, ProtocolInv, [DispatchNext]_all, NEW i \in stream, StaysOpen(i), Open(i)',
         state \notin Blocking, used'.crash = 0,
         NEW h \in Handlers, pc[h] \in {"exists", "script", "rollback"}
  PROVE  state' \in Blocking \/ pc'[h] \in {"exists", "script", "rollback"}
<1> USE Different DEF HashInv, Shape
<1>1. CASE Idles(h)
  BY Zenon, <1>1 DEF Idles
<1>2. CASE SetStateExists(h)
  BY Zenon, <1>2 DEF SetStateExists, RuntimeExists, StaysOpen
<1>3. CASE SetStateScript(h)
  <2>1. pc[h] = "script" /\ target[h] = "RUNNING"
    BY Zenon, <1>3 DEF SetStateScript, StaysOpen, Dispatching, Calls
  <2>2. isAllowedTransition(state, "RUNNING")
    BY Zenon, RunningAllowed DEF StaysOpen, FenceInv, TypeOK
  <2> QED BY Zenon, <1>3, <2>1, <2>2
          DEF SetStateScript, TransitionRuntimeState, vars, Blocking, AwaitingWorker
<1>4. CASE Crash(h)
  <2>1. used \in [Kinds -> Nat] /\ "crash" \in Kinds
    BY Zenon DEF DispatchTypeOK, Kinds
  <2>2. used'.crash # 0
    BY Zenon, <1>4, <2>1, UseCounts DEF Crash
  <2> QED BY Zenon, <2>2
<1>5. CASE rollbackFailedDispatch(h)
  <2>1. pc[h] = "rollback" /\ live # disp[h].id
    BY Zenon, <1>5, OpenKeepsFence DEF rollbackFailedDispatch, Revocation
  <2>2. disp[h].id = issued
    BY Zenon, <2>1 DEF ProtocolInv, BeginInv
  <2>3. fence # NoFence
    BY Zenon DEF StaysOpen, Blocking
  <2> QED BY Zenon, <2>1, <2>2, <2>3 DEF live, FenceInv, FenceIsNewest
<1>6. CASE StoreStep(h) /\ ~SetStateExists(h) /\ ~SetStateScript(h)
  BY Zenon, <1>6
  DEF StoreStep, SetStateHGet, SetStateWithContext, ProjectMeta, ProjectZRem, ProjectZAdd,
      CancelJobExists, CancelJobMeta, MigrateRead, MigrateWrite, CancelScript
<1>7. CASE Handle(h) /\ ~Crash(h) /\ ~rollbackFailedDispatch(h)
  BY Zenon, <1>7
  DEF Handle, Acquire, ReadState, Decide, EmitDLQ, MarkDispatched, BeginMigrate, MigrateRead,
      MigrateWrite, BeginFence, BeginFails, Publish, Release
<1> QED BY Zenon, <1>1, <1>2, <1>3, <1>4, <1>5, <1>6, <1>7, WhoMoves

\* One open dispatch at a time, and the newest.
LEMMA OpenStep ==
  ASSUME HashInv, DispatchInv, [DispatchNext]_all
  PROVE  OpenInv'
<1> SUFFICES ASSUME used'.crash = 0 \/ Marked', NEW i \in stream', Open(i)'
             PROVE  StaysOpen(i)'
  BY Zenon DEF OpenInv
<1>1. (Marked' => Marked) /\ (used'.crash = 0 => used.crash = 0)
  BY Zenon, MarkedBack, UsedGrows DEF HashInv, Kinds
<1>2. CASE Open(i)
  <2>1. i \in stream /\ StaysOpen(i) /\ ProtocolInv
    BY Zenon, <1>1, <1>2 DEF DispatchInv, OpenInv, Open
  <2>2. /\ i = issued' /\ state' # NoState
        /\ fence' = NoFence => state' \in terminalStates
    BY Zenon, <2>1, OpenKeepsFence
  <2>3. \A h \in Handlers : ~Dispatching(h)'
    BY Zenon, <2>1, OpenStopsHandlers
  <2>4. \/ state' \in Blocking
        \/ ~Marked' /\ \E h \in Handlers : pc'[h] \in {"exists", "script", "rollback"}
    <3>1. CASE state \in Blocking
      BY Zenon, <2>1, <3>1, OpenStaysBlocking
    <3>2. CASE state \notin Blocking
      <4>1. PICK h \in Handlers : pc[h] \in {"exists", "script", "rollback"}
        BY Zenon, <2>1, <3>2 DEF StaysOpen
      <4>2. ~Marked' /\ used'.crash = 0
        BY Zenon, <1>1, <2>1, <3>2 DEF StaysOpen
      <4> QED BY Zenon, <2>1, <3>2, <4>1, <4>2, OpenIsWorkedOn
    <3> QED BY Zenon, <3>1, <3>2
  <2> QED BY Zenon, <2>2, <2>3, <2>4 DEF StaysOpen
<1>3. ASSUME NEW h \in Handlers, Publish(h), i = disp[h].id PROVE StaysOpen(i)'
  <2>1. /\ disp[h].id = issued' /\ state' # NoState
        /\ fence' = NoFence => state' \in terminalStates
        /\ \A g \in Handlers : ~Dispatching(g)'
        /\ \/ state' \in Blocking
           \/ ~Marked' /\ \E g \in Handlers : pc'[g] \in {"exists", "script", "rollback"}
    BY Zenon, <1>1, <1>3, OpenPublished
  <2> QED BY Zenon, <1>3, <2>1 DEF StaysOpen
<1> QED BY Zenon, <1>2, <1>3, OpenBack

-----------------------------------------------------------------------------
\* Every step keeps the invariant.
LEMMA DispatchStep ==
  ASSUME HashInv, DispatchInv, [DispatchNext]_all
  PROVE  DispatchInv'
  BY Zenon, ProtocolStep, CancelStep, SeenStep, MarkStep, OpenStep DEF DispatchInv

\* The invariant of the scheduler: who holds the lock, which call each process is in,
\* and what it has established, while any number of handlers, drainers, cancellations,
\* timeouts and audits interleave, crash and are redelivered.
THEOREM DispatchInvariant == DispatchSpec => []DispatchInv
  BY InitDispatch, DispatchStep, HashInvariant, PTL DEF DispatchSpec

\* handleJobRequest and processJob never put a job on the workers' stream a second
\* time unless the first dispatch was rolled back or its worker asked for a retry,
\* for any number of handlers, dispatches, redeliveries, publish errors and crashes.
THEOREM DispatchedOnce == DispatchSpec => []NoDuplicateDispatch
<1>1. ASSUME HashInv, DispatchInv PROVE NoDuplicateDispatch
  <2> SUFFICES ASSUME used.crash = 0 \/ Marked, NEW i \in stream, NEW j \in stream, i < j
               PROVE  i \in rolledBack \/ Retried(i)
    BY Zenon DEF NoDuplicateDispatch, Marked
  <2>1. ASSUME Open(i) PROVE FALSE
    <3>1. i = issued
      BY Zenon, <1>1, <2>1 DEF DispatchInv, OpenInv, StaysOpen
    <3>2. issued \in Nat /\ j \in 1..issued
      <4>1. TypeOK /\ DispatchTypeOK
        BY Zenon, <1>1 DEF HashInv, Shape, FenceInv
      <4>2. issued \in 0..MaxIssued /\ j \in 1..issued
        BY Zenon, <4>1 DEF DispatchTypeOK, TypeOK
      <4>3. 0..MaxIssued \subseteq Nat
        OBVIOUS
      <4> QED BY Zenon, <4>2, <4>3
    <3>3. issued < j
      BY Zenon, <3>1
    <3>4. \A n \in Nat : \A k \in 1..n : ~(n < k)
      OBVIOUS
    <3> QED BY Zenon, <3>2, <3>3, <3>4
  <2> QED BY Zenon, <2>1 DEF Open
<1> QED BY <1>1, HashInvariant, DispatchInvariant, PTL

\* processJob writes RUNNING only for a job that the workers' stream holds.
THEOREM RunningFollowsPublish == DispatchSpec => []RunningWasPublished
<1>1. ASSUME HashInv, DispatchInv PROVE RunningWasPublished
  <2> SUFFICES ASSUME state = "RUNNING", fence # NoFence PROVE \E i \in stream : i <= live
    BY Zenon DEF RunningWasPublished
  <2>1. PICK i \in stream : TRUE
    BY Zenon, <1>1 DEF DispatchInv, ProtocolInv, RunningInv
  <2>2. i \in 1..issued /\ issued \in Nat /\ live = issued
    BY <1>1 DEF HashInv, Shape, DispatchTypeOK, FenceInv, FenceIsNewest, TypeOK, live
  <2> QED BY <2>2
<1> QED BY <1>1, HashInvariant, DispatchInvariant, PTL

\* Once CancelAllJobAttempts answered CANCELLED the job stays cancelled, whatever
\* handlers, workers, drainers and timeouts still do.
THEOREM CancelHolds == DispatchSpec => []CancelSticks
<1>1. ASSUME DispatchInv PROVE CancelSticks
  BY Zenon, <1>1 DEF DispatchInv, CancelInv, CancelSticks, GetState, NoState
<1> QED BY <1>1, DispatchInvariant, PTL

\* No script and no SetState takes a job out of a terminal state, but for a success
\* that is quarantined and a quarantine that is cancelled.
THEOREM TerminalHolds == DispatchSpec => TerminalIsFinal
<1> DEFINE Final ==
      used.publish = 0 =>
        /\ state \in terminalStates =>
             \/ state' = state
             \/ Quarantined(state, state') \/ QuarantineCancelled(state, state')
        /\ GetState \in terminalStates /\ OnlyLockedWriters =>
             GetState' = GetState \/ Quarantined(GetState, GetState')
<1>1. HashInv /\ DispatchInv /\ [DispatchNext]_all => [Final]_all
  BY Zenon, TerminalStep DEF DispatchInv
<1>2. DispatchSpec => [][Final]_all
  BY <1>1, HashInvariant, DispatchInvariant, PTL DEF DispatchSpec
<1> QED BY Zenon, <1>2 DEF TerminalIsFinal
=============================================================================
