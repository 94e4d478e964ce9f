-------------------------- MODULE ApprovalsProofs --------------------------
(***************************************************************************)
(* Proofs about Approvals, for any number of operators and handlers and    *)
(* any bounds: nothing is admitted by an approval that nobody gave, a      *)
(* rejection stands, and what is marked as published was published.        *)
(***************************************************************************)
EXTENDS Approvals, TLAPS

\* The labels m, and the approval record a, say that the job was approved only
\* if it was, under one of the policies G.
GoodLabels(m, G) ==
  /\ DOMAIN m = {"granted", "snapshot"}
  /\ m.granted => G # {}
  /\ m.snapshot # NoSnapshot => m.snapshot \in G

GoodApproval(a, G) ==
  /\ DOMAIN a = {"status", "decision", "revision", "publish", "target"}
  /\ a.decision = "approve" \/ a.status = "approved" => G # {}

\* The notices T cover the target of a rejection.
ToldFor(target, T) ==
  /\ target \in {"dlq", "dlq_and_result"} => "dlq" \in T
  /\ target = "dlq_and_result" => "result" \in T

\* What holds of a process at the place l with the memory m: it remembers only
\* approvals that were given, its fast path was opened by one, it repairs a job
\* that awaited approval, and it marks what it published.
Local(l, m, G, g, T) ==
  /\ DOMAIN m = {"approval", "labels", "snapshot", "plan", "planned", "replay"}
  /\ GoodLabels(m.labels, G) /\ GoodApproval(m.approval, G)
  /\ m.plan \in {"approved", "fast"} => G # {}
  /\ m.plan = "fast" => g \/ m.snapshot \in G
  /\ l = "list" => m.plan = "none"
  /\ l = "apply" /\ m.plan # "replay" => m.planned = "APPROVAL_REQUIRED"
  /\ l = "submit" => m.approval.target = "submit"
  /\ l = "result" => "dlq" \in T
  /\ l = "mark" => ToldFor(m.approval.target, T)

Locals ==
  /\ pc = [p \in Processes |-> pc[p]] /\ mine = [p \in Processes |-> mine[p]]
  /\ \A p \in Processes : Local(pc[p], mine[p], granted, gate, told)

RecordsInv ==
  /\ GoodLabels(labels, granted) /\ \A m \in stream : GoodLabels(m, granted)
  /\ GoodApproval(approval, granted)
  /\ approval.publish = "published" => ToldFor(approval.target, told)
  /\ rejected => state = "DENIED"
  /\ AdmittedWasGranted

ApprovalInv == Locals /\ RecordsInv

-----------------------------------------------------------------------------
\* A DENIED job leaves that state for no other.
LEMMA DeniedIsTerminal ==
  \A to : ~isAllowedTransition("DENIED", to)
  BY Zenon DEF isAllowedTransition, allowedTransitions, NoState

\* What a process may keep stays good when approvals and notices are added.
LEMMA LocalGrows ==
  ASSUME NEW l, NEW m, NEW G, NEW H, NEW g, NEW T, NEW U, G \subseteq H, T \subseteq U,
         Local(l, m, G, g, T)
  PROVE  Local(l, m, H, g, U)
  BY Zenon DEF Local, GoodLabels, GoodApproval, ToldFor

\* A process that is idle remembers nothing.
LEMMA LocalIdle ==
  \A G, g, T : Local("idle", Nothing, G, g, T)
  BY Zenon DEF Local, Nothing, Fresh, Plain, GoodLabels, GoodApproval

\* One process goes to l with the memory m.
LEMMA OneMoves ==
  ASSUME Locals, NEW p \in Processes, NEW l, NEW m, Goto(p, l), Keep(p, m),
         granted \subseteq granted', told \subseteq told', gate' = gate,
         Local(l, m, granted', gate, told')
  PROVE  Locals'
<1>1. /\ pc' = [q \in Processes |-> IF q = p THEN l ELSE pc[q]]
      /\ mine' = [q \in Processes |-> IF q = p THEN m ELSE mine[q]]
  BY Zenon DEF Locals, Goto, Keep
<1>2. ASSUME NEW q \in Processes PROVE Local(pc'[q], mine'[q], granted', gate', told')
  <2>1. CASE q = p
    BY Zenon, <1>1, <2>1
  <2>2. CASE q # p
    <3>1. Local(pc[q], mine[q], granted', gate, told')
      BY Zenon, LocalGrows DEF Locals
    <3> QED
      BY Zenon, <1>1, <2>2, <3>1
  <2> QED
    BY Zenon, <2>1, <2>2
<1> QED
  BY Zenon, <1>1, <1>2 DEF Locals

\* A process that goes on with the memory it has.
LEMMA OneGoesOn ==
  ASSUME Locals, NEW p \in Processes, NEW l, Goto(p, l), UNCHANGED mine,
         granted \subseteq granted', told \subseteq told', gate' = gate,
         Local(l, mine[p], granted', gate, told')
  PROVE  Locals'
<1>1. Keep(p, mine[p])
  BY Zenon DEF Locals, Keep
<1> QED
  BY Zenon, <1>1, OneMoves

\* A process that finishes.
LEMMA OneFinishes ==
  ASSUME Locals, NEW p \in Processes, Finish(p),
         granted \subseteq granted', told \subseteq told', gate' = gate
  PROVE  Locals'
  BY Zenon, LocalIdle, OneMoves DEF Finish

\* Nobody moves.
LEMMA NobodyMoves ==
  ASSUME Locals, UNCHANGED <<pc, mine, granted, gate, told>>
  PROVE  Locals'
  BY Zenon DEF Locals

\* Records and history that do not change stay good.
LEMMA QuietRecords ==
  ASSUME RecordsInv, UNCHANGED <<records, stream, history>>
  PROVE  RecordsInv'
  BY Zenon DEF RecordsInv, records, history, AdmittedWasGranted

\* The place alone matters only where a process is about to write.
LEMMA LocalElsewhere ==
  ASSUME NEW k, NEW l, NEW m, NEW G, NEW g, NEW T, Local(k, m, G, g, T),
         l \notin {"list", "apply", "submit", "result", "mark"}
  PROVE  Local(l, m, G, g, T)
  BY Zenon DEF Local

\* A repair is planned from what the records say.
LEMMA PlanIsGood ==
  ASSUME RecordsInv, NEW over, NEW stale
  PROVE  LET plan == ClassifyApprovalRepair(over, stale)
         IN \A l, m, T : plan # "none" /\ Local(l, m, granted, gate, T) =>
              Local("apply", [m EXCEPT !.plan = plan, !.planned = state], granted, gate, T)
<1> DEFINE plan == ClassifyApprovalRepair(over, stale)
<1>1. /\ plan \in {"none", "replay", "approved", "rejected", "invalidate"}
      /\ plan \notin {"none", "replay"} => state = "APPROVAL_REQUIRED"
      /\ plan = "approved" => granted # {}
  BY Zenon DEF ClassifyApprovalRepair, RecordsInv, GoodApproval, GoodLabels, Awaiting
<1> HIDE DEF plan
<1>2. ASSUME NEW l, NEW m, NEW T, plan # "none", Local(l, m, granted, gate, T)
      PROVE  Local("apply", [m EXCEPT !.plan = plan, !.planned = state], granted, gate, T)
  BY Zenon, <1>1, <1>2 DEF Local
<1> QED
  BY Zenon, <1>2 DEF plan

\* The requests of operators: reading, and the drift of the policy.
LEMMA ReadingKeepsInv ==
  ASSUME ApprovalInv, NEW o \in Operators,
         \/ \E r \in {"approve", "reject", "repair"} : Begin(o, r)
         \/ ApproveRead(o) \/ ApproveList(o) \/ ApproveEvaluate(o)
         \/ ApproveRecheck(o) \/ RejectRead(o) \/ Inspect(o) \/ Return(o)
  PROVE  ApprovalInv'
<1>1. /\ o \in Processes /\ Locals /\ RecordsInv
      /\ Local(pc[o], mine[o], granted, gate, told)
  BY Zenon DEF Processes, ApprovalInv, Locals
<1>2. ASSUME NEW r \in {"approve", "reject", "repair"}, Begin(o, r) PROVE ApprovalInv'
  <2>1. UNCHANGED <<records, stream, history, gate, granted, told, mine>> /\ Goto(o, r)
    BY Zenon, <1>2 DEF Begin, records, history
  <2>2. Local(r, mine[o], granted', gate, told')
    BY Zenon, <1>1, <1>2, <2>1, LocalElsewhere
  <2> QED
    BY Zenon, <1>1, <2>1, <2>2, OneGoesOn, QuietRecords DEF ApprovalInv
<1>3. CASE ApproveRead(o)
  <2>1. UNCHANGED <<records, stream, history, gate, granted, told>>
    BY Zenon, <1>3 DEF ApproveRead, records, history
  <2>2. CASE Finish(o)
    BY Zenon, <1>1, <2>1, <2>2, OneFinishes, QuietRecords DEF ApprovalInv
  <2>3. CASE ~Finish(o)
    <3> DEFINE m == [Nothing EXCEPT !.approval = approval, !.snapshot = safety.snapshot]
               l == IF gate THEN "recheck" ELSE "list"
    <3>1. Goto(o, l) /\ Keep(o, m)
      BY Zenon, <1>3, <2>3 DEF ApproveRead
    <3>2. Local(l, m, granted', gate, told')
      BY Zenon, <1>1, <2>1 DEF Local, Nothing, Plain, GoodLabels, RecordsInv
    <3> QED
      BY Zenon, <1>1, <2>1, <3>1, <3>2, OneMoves, QuietRecords DEF ApprovalInv
  <2> QED
    BY Zenon, <2>2, <2>3
<1>4. CASE ApproveList(o)
  <2> DEFINE m == [mine[o] EXCEPT !.snapshot = policy.snapshot]
             l == IF policy.snapshot = mine[o].snapshot THEN "recheck" ELSE "evaluate"
  <2>1. /\ UNCHANGED <<records, stream, history, gate, granted, told>>
        /\ Goto(o, l) /\ Keep(o, m) /\ pc[o] = "list"
    BY Zenon, <1>4 DEF ApproveList, records, history
  <2>2. Local(l, m, granted', gate, told')
    BY Zenon, <1>1, <2>1 DEF Local
  <2> QED
    BY Zenon, <1>1, <2>1, <2>2, OneMoves, QuietRecords DEF ApprovalInv
<1>5. CASE ApproveEvaluate(o)
  <2>1. UNCHANGED <<gate, state, labels, stream, history, granted, told, rejected, admitted>>
    BY Zenon, <1>5 DEF ApproveEvaluate, history
  <2>2. CASE Finish(o) /\ UNCHANGED <<safety, approval>>
    BY Zenon, <1>1, <2>1, <2>2, OneFinishes, QuietRecords DEF ApprovalInv, records
  <2>3. CASE ~(Finish(o) /\ UNCHANGED <<safety, approval>>)
    <3>1. /\ Goto(o, "recheck") /\ UNCHANGED mine
          /\ SetSafetyDecision(policy.verdict = "require", mine[o].snapshot,
                               [mine[o].approval EXCEPT !.revision = @ + 1])
      BY Zenon, <1>5, <2>3 DEF ApproveEvaluate
    <3>2. Locals'
      BY Zenon, <1>1, <2>1, <3>1, OneGoesOn, LocalElsewhere
    <3>3. /\ GoodApproval(approval', granted')
          /\ approval'.publish = approval.publish /\ approval'.target = approval.target
      BY Zenon, <1>1, <2>1, <3>1 DEF SetSafetyDecision, RecordsInv, Local, GoodApproval
    <3> QED
      BY Zenon, <1>1, <2>1, <3>2, <3>3 DEF ApprovalInv, RecordsInv, AdmittedWasGranted
  <2> QED
    BY Zenon, <2>2, <2>3
<1>6. CASE ApproveRecheck(o)
  <2>1. UNCHANGED <<records, stream, history, gate, granted, told>>
    BY Zenon, <1>6 DEF ApproveRecheck, records, history
  <2>2. Finish(o) \/ (Goto(o, "grant") /\ UNCHANGED mine)
    BY Zenon, <1>6 DEF ApproveRecheck
  <2> QED
    BY Zenon, <1>1, <2>1, <2>2, OneFinishes, OneGoesOn, LocalElsewhere, QuietRecords DEF ApprovalInv
<1>7. CASE RejectRead(o)
  <2>1. UNCHANGED <<records, stream, history, gate, granted, told>>
    BY Zenon, <1>7 DEF RejectRead, records, history
  <2>2. Finish(o) \/ (Goto(o, "refuse") /\ UNCHANGED mine)
    BY Zenon, <1>7 DEF RejectRead
  <2> QED
    BY Zenon, <1>1, <2>1, <2>2, OneFinishes, OneGoesOn, LocalElsewhere, QuietRecords DEF ApprovalInv
<1>8. CASE Inspect(o)
  <2> DEFINE plan == ClassifyApprovalRepair(runOver, ~gate /\ Drifted(policy.snapshot))
             m == [Nothing EXCEPT !.plan = plan, !.planned = state]
  <2>1. UNCHANGED <<records, stream, history, gate, granted, told>>
    BY Zenon, <1>8 DEF Inspect, records, history
  <2>2. Finish(o) \/ (Goto(o, "apply") /\ Keep(o, m))
    BY Zenon, <1>8 DEF Inspect
  <2>3. Local("apply", m, granted', gate, told') \/ plan = "none"
    BY Zenon, <1>1, <2>1, LocalIdle, PlanIsGood
  <2>4. plan = "none" => Finish(o)
    BY Zenon, <1>8 DEF Inspect
  <2> QED
    BY Zenon, <1>1, <2>1, <2>2, <2>3, <2>4, OneFinishes, OneMoves, QuietRecords DEF ApprovalInv
<1>9. CASE Return(o)
  BY Zenon, <1>1, <1>9, OneFinishes, QuietRecords DEF Return, ApprovalInv, records, history
<1> QED
  BY Zenon, <1>2, <1>3, <1>4, <1>5, <1>6, <1>7, <1>8, <1>9

\* ResolveApproval, by an operator who approves or rejects.
LEMMA ResolvingKeepsInv ==
  ASSUME ApprovalInv, NEW o \in Operators, Grant(o) \/ Refuse(o)
  PROVE  ApprovalInv'
<1>1. /\ o \in Processes /\ Locals /\ RecordsInv
      /\ Local(pc[o], mine[o], granted, gate, told)
  BY Zenon DEF Processes, ApprovalInv, Locals
<1>2. CASE Conflict(o) /\ UNCHANGED stream
  BY Zenon, <1>1, <1>2, OneFinishes, QuietRecords DEF Conflict, ApprovalInv, records, history
<1>3. CASE Grant(o) /\ ~Conflict(o)
  <2> DEFINE m == [mine[o] EXCEPT !.approval = approval', !.labels = labels']
  <2>1. /\ Awaiting /\ state' = "PENDING" /\ granted' = granted \cup {mine[o].snapshot}
        /\ approval' = Resolved("approved", "approve", "submit")
        /\ labels' = [granted |-> TRUE, snapshot |-> mine[o].snapshot]
        /\ Goto(o, "submit") /\ Keep(o, m)
        /\ UNCHANGED <<gate, told, rejected, admitted, stream>>
    BY Zenon, <1>3 DEF Grant, Resolvable
  <2>2. /\ GoodLabels(labels', granted') /\ GoodApproval(approval', granted')
        /\ approval'.publish = "pending" /\ approval'.target = "submit"
    BY Zenon, <2>1 DEF GoodLabels, GoodApproval, Resolved
  <2>3. Local("submit", m, granted', gate, told')
    <3>1. Local("idle", mine[o], granted', gate, told')
      BY <1>1, <2>1, LocalElsewhere, LocalGrows
    <3> QED
      BY Zenon, <2>2, <3>1 DEF Local
  <2>4. Locals'
    BY Zenon, <1>1, <2>1, <2>3, OneMoves
  <2>5. \A n \in stream' : GoodLabels(n, granted')
    BY Zenon, <1>1, <2>1 DEF RecordsInv, GoodLabels
  <2>6. AdmittedWasGranted'
    BY Zenon, <1>1, <2>1 DEF RecordsInv, AdmittedWasGranted
  <2>7. ~rejected
    BY Zenon, <1>1, <2>1 DEF RecordsInv, Awaiting
  <2> QED
    BY Zenon, <2>1, <2>2, <2>4, <2>5, <2>6, <2>7 DEF ApprovalInv, RecordsInv
<1>4. CASE Refuse(o) /\ ~Conflict(o)
  <2> DEFINE m == [mine[o] EXCEPT !.approval = approval']
  <2>1. /\ state' = "DENIED" /\ approval' = Resolved("rejected", "reject", RejectTarget)
        /\ Goto(o, "dlq") /\ Keep(o, m)
        /\ UNCHANGED <<gate, labels, told, granted, admitted, stream>>
    BY Zenon, <1>4 DEF Refuse
  <2>2. GoodApproval(approval', granted') /\ approval'.publish # "published"
    BY Zenon, <2>1 DEF GoodApproval, Resolved
  <2>3. Local("dlq", m, granted', gate, told')
    BY Zenon, <1>1, <2>1, <2>2 DEF Local
  <2>4. Locals'
    BY Zenon, <1>1, <2>1, <2>3, OneMoves
  <2> QED
    BY Zenon, <1>1, <2>1, <2>2, <2>4 DEF ApprovalInv, RecordsInv, AdmittedWasGranted
<1> QED
  BY Zenon, <1>2, <1>3, <1>4 DEF Grant, Refuse

\* A repair leaves the records good, and writes only for a job that awaited
\* approval.
LEMMA RepairKeepsRecords ==
  ASSUME ApprovalInv, NEW p \in Processes, pc[p] = "apply", Repair(p),
         UNCHANGED <<gate, stream, history>>
  PROVE  /\ RecordsInv' /\ ~rejected
         /\ GoodLabels(labels', granted) /\ GoodApproval(approval', granted)
<1>1. RecordsInv /\ Local(pc[p], mine[p], granted, gate, told)
  BY Zenon DEF ApprovalInv, Locals
<1>2. state = "APPROVAL_REQUIRED" /\ Repaired(mine[p].plan)
  BY Zenon, <1>1 DEF Repair, Local
<1>3. /\ GoodLabels(labels', granted) /\ GoodApproval(approval', granted)
      /\ approval'.publish # "published"
  <2>1. GoodLabels(labels', granted)
    BY Zenon, <1>1, <1>2 DEF Repaired, RecordsInv, GoodLabels, Local
  <2>2. GoodApproval(approval', granted) /\ approval'.publish # "published"
    BY Zenon, <1>1, <1>2 DEF Repaired, Resolved, GoodApproval, Local
  <2> QED
    BY Zenon, <2>1, <2>2
<1>4. ~rejected /\ UNCHANGED <<rejected, granted, told, admitted>>
  BY Zenon, <1>1, <1>2 DEF RecordsInv, history
<1> QED
  BY Zenon, <1>1, <1>3, <1>4 DEF RecordsInv, AdmittedWasGranted

\* ApplyApprovalRepair, called by an operator or by the reconciler.
LEMMA RepairingKeepsInv ==
  ASSUME ApprovalInv, (\E o \in Operators : Apply(o)) \/ SweepApply
  PROVE  ApprovalInv'
<1>1. Locals /\ RecordsInv
  BY Zenon DEF ApprovalInv
<1>2. ASSUME NEW o \in Operators, Apply(o) PROVE ApprovalInv'
  <2>1. /\ o \in Processes /\ pc[o] = "apply" /\ Local(pc[o], mine[o], granted, gate, told)
        /\ UNCHANGED <<stream, history, granted, told>>
    BY Zenon, <1>1, <1>2 DEF Processes, Locals, Apply, history
  <2>2. CASE Finish(o) /\ UNCHANGED records
    BY Zenon, <1>1, <2>1, <2>2, OneFinishes, QuietRecords DEF ApprovalInv, records
  <2>3. CASE ~(Finish(o) /\ UNCHANGED records)
    <3> DEFINE m == [mine[o] EXCEPT !.approval = approval', !.labels = labels']
               l == Publish(approval'.target)
    <3>1. Goto(o, l) /\ Keep(o, m) /\ gate' = gate
      BY Zenon, <1>2, <2>3 DEF Apply, records
    <3>2. /\ RecordsInv' /\ GoodLabels(labels', granted) /\ GoodApproval(approval', granted)
      <4>1. CASE mine[o].plan # "replay"
        BY Zenon, <1>2, <2>1, <2>3, <3>1, <4>1, RepairKeepsRecords DEF Apply
      <4>2. CASE mine[o].plan = "replay"
        <5>1. UNCHANGED records
          BY Zenon, <1>2, <2>3, <4>2 DEF Apply
        <5> QED
          BY Zenon, <1>1, <2>1, <5>1, QuietRecords DEF records, RecordsInv
      <4> QED
        BY Zenon, <4>1, <4>2
    <3>3. Local(l, m, granted', gate, told')
      BY Zenon, <2>1, <3>2 DEF Local, Publish
    <3> QED
      BY Zenon, <1>1, <2>1, <3>1, <3>2, <3>3, OneMoves DEF ApprovalInv
  <2> QED
    BY Zenon, <2>2, <2>3
<1>3. CASE SweepApply
  <2>1. /\ Reconciler \in Processes /\ pc[Reconciler] = "apply" /\ Finish(Reconciler)
        /\ UNCHANGED <<stream, history, granted, told, gate>>
    BY Zenon, <1>3 DEF Processes, SweepApply, history, records
  <2>2. Locals'
    BY Zenon, <1>1, <2>1, OneFinishes
  <2>3. CASE UNCHANGED records
    BY Zenon, <1>1, <2>1, <2>2, <2>3, QuietRecords DEF ApprovalInv
  <2>4. CASE Repair(Reconciler)
    BY Zenon, <2>1, <2>2, <2>4, RepairKeepsRecords DEF ApprovalInv
  <2> QED
    BY Zenon, <1>3, <2>3, <2>4 DEF SweepApply
<1> QED
  BY Zenon, <1>2, <1>3

\* Publishing, marking, failing and dying.
LEMMA PublishingKeepsInv ==
  ASSUME ApprovalInv, NEW p \in Processes,
         \/ PublishSubmit(p) \/ PublishDLQ(p) \/ PublishResult(p)
         \/ PublishFails(p) \/ Mark(p) \/ Crash(p)
  PROVE  ApprovalInv'
<1>1. Locals /\ RecordsInv /\ Local(pc[p], mine[p], granted, gate, told)
  BY Zenon DEF ApprovalInv, Locals
<1>2. CASE PublishSubmit(p)
  <2>1. /\ pc[p] = "submit" /\ Goto(p, "mark")
        /\ UNCHANGED <<records, gate, mine, history, granted, told>>
        /\ stream' \subseteq stream \cup {mine[p].labels}
    BY Zenon, <1>2 DEF PublishSubmit, records, history
  <2>2. Local("mark", mine[p], granted', gate, told')
    BY Zenon, <1>1, <2>1 DEF Local, ToldFor
  <2>3. Locals'
    BY Zenon, <1>1, <2>1, <2>2, OneGoesOn
  <2>4. GoodLabels(mine[p].labels, granted)
    BY Zenon, <1>1 DEF Local
  <2> QED
    BY <1>1, <2>1, <2>3, <2>4 DEF ApprovalInv, RecordsInv, AdmittedWasGranted, records, history
<1>3. CASE PublishDLQ(p)
  <2> DEFINE l == IF mine[p].approval.target = "dlq_and_result" THEN "result" ELSE "mark"
  <2>1. /\ Goto(p, l) /\ told' = told \cup {"dlq"}
        /\ UNCHANGED <<records, stream, gate, mine, granted, rejected, admitted>>
    BY Zenon, <1>3 DEF PublishDLQ, records
  <2>2. Local(l, mine[p], granted', gate, told')
    BY Zenon, <1>1, <2>1 DEF Local, ToldFor
  <2>3. Locals'
    BY Zenon, <1>1, <2>1, <2>2, OneGoesOn
  <2> QED
    BY <1>1, <2>1, <2>3 DEF ApprovalInv, RecordsInv, AdmittedWasGranted, records, ToldFor
<1>4. CASE PublishResult(p)
  <2>1. /\ Goto(p, "mark") /\ told' = told \cup {"result"} /\ pc[p] = "result"
        /\ UNCHANGED <<records, stream, gate, mine, granted, rejected, admitted>>
    BY Zenon, <1>4 DEF PublishResult, records
  <2>2. Local("mark", mine[p], granted', gate, told')
    BY Zenon, <1>1, <2>1 DEF Local, ToldFor
  <2>3. Locals'
    BY Zenon, <1>1, <2>1, <2>2, OneGoesOn
  <2> QED
    BY <1>1, <2>1, <2>3 DEF ApprovalInv, RecordsInv, AdmittedWasGranted, records, ToldFor
<1>5. CASE Mark(p)
  <2>1. /\ pc[p] = "mark" /\ MarkApprovalPublishComplete(p) /\ Finish(p)
        /\ UNCHANGED <<gate, state, labels, stream, granted, told, rejected, admitted>>
    BY Zenon, <1>5 DEF Mark, history
  <2>2. /\ GoodApproval(approval', granted)
        /\ approval'.publish = "published" => ToldFor(approval'.target, told)
    BY Zenon, <1>1, <2>1 DEF MarkApprovalPublishComplete, RecordsInv, GoodApproval, Local
  <2>3. Locals'
    BY Zenon, <1>1, <2>1, OneFinishes
  <2> QED
    BY Zenon, <1>1, <2>1, <2>2, <2>3 DEF ApprovalInv, RecordsInv, AdmittedWasGranted
<1>6. CASE PublishFails(p) \/ Crash(p)
  BY Zenon, <1>1, <1>6, OneFinishes, QuietRecords
     DEF PublishFails, Crash, ApprovalInv, records, history
<1> QED
  BY Zenon, <1>2, <1>3, <1>4, <1>5, <1>6

\* The scheduler's handler, up to the decision it stores.
LEMMA CheckingKeepsInv ==
  ASSUME ApprovalInv, policy.verdict \in Verdicts, NEW h \in Handlers,
         \/ Deliver(h) \/ Replay(h) \/ HandlerLock(h) \/ HandlerRead(h)
         \/ Decide(h) \/ Record(h)
  PROVE  ApprovalInv'
<1>1. /\ h \in Processes /\ Locals /\ RecordsInv
      /\ Local(pc[h], mine[h], granted, gate, told)
  BY Zenon DEF Processes, ApprovalInv, Locals
<1>2. ASSUME NEW m \in stream \cup {labels}, NEW r,
             Goto(h, "lock"), Keep(h, [Nothing EXCEPT !.labels = m, !.replay = r]),
             UNCHANGED <<records, stream, history>>
      PROVE  ApprovalInv'
  <2>1. UNCHANGED <<gate, granted, told>> /\ GoodLabels(m, granted)
    BY Zenon, <1>1, <1>2 DEF records, history, RecordsInv
  <2>2. Local("lock", [Nothing EXCEPT !.labels = m, !.replay = r], granted', gate, told')
    BY Zenon, <1>2, <2>1 DEF Local, Nothing, Fresh, GoodApproval
  <2> QED
    BY Zenon, <1>1, <1>2, <2>1, <2>2, OneMoves, QuietRecords DEF ApprovalInv
<1>3. CASE Deliver(h)
  BY Zenon, <1>2, <1>3 DEF Deliver
<1>4. CASE Replay(h)
  BY Zenon, <1>2, <1>4 DEF Replay
<1>5. CASE HandlerLock(h)
  <2>1. Goto(h, "read") /\ UNCHANGED <<records, stream, history, gate, granted, told, mine>>
    BY Zenon, <1>5 DEF HandlerLock, records, history
  <2> QED
    BY Zenon, <1>1, <2>1, OneGoesOn, LocalElsewhere, QuietRecords DEF ApprovalInv
<1>6. CASE HandlerRead(h)
  <2>1. /\ UNCHANGED <<gate, state, approval, stream, granted, told, rejected, admitted>>
        /\ labels' = labels \/ labels' = mine[h].labels
    BY Zenon, <1>6 DEF HandlerRead, history
  <2>2. Finish(h) \/ \E l \in {"check", "replayed"} : Goto(h, l) /\ UNCHANGED mine
    BY Zenon, <1>6 DEF HandlerRead, Done
  <2>3. Locals'
    BY Zenon, <1>1, <2>1, <2>2, OneFinishes, OneGoesOn, LocalElsewhere
  <2> QED
    BY Zenon, <1>1, <2>1, <2>3 DEF ApprovalInv, RecordsInv, AdmittedWasGranted, Local
<1>7. CASE Decide(h)
  <2>1. Goto(h, "record") /\ UNCHANGED <<records, stream, history, gate, granted, told>>
    BY Zenon, <1>7 DEF Decide, records, history
  <2>2. CASE FastPath(h)
    <3> DEFINE m == [mine[h] EXCEPT !.plan = "fast", !.snapshot = safety.snapshot]
    <3>1. Keep(h, m)
      BY Zenon, <1>7, <2>2 DEF Decide
    <3>2. Local("record", m, granted', gate, told')
      BY Zenon, <1>1, <2>1, <2>2 DEF FastPath, Local, GoodLabels
    <3> QED
      BY Zenon, <1>1, <2>1, <3>1, <3>2, OneMoves, QuietRecords DEF ApprovalInv
  <2>3. CASE ~FastPath(h)
    <3>3. CASE Keep(h, [mine[h] EXCEPT !.plan = policy.verdict, !.snapshot = policy.snapshot])
      <4>1. policy.verdict \notin {"approved", "fast"}
        BY Zenon DEF Verdicts
      <4>2. Local("record", [mine[h] EXCEPT !.plan = policy.verdict,
                                            !.snapshot = policy.snapshot], granted', gate, told')
        BY Zenon, <1>1, <2>1, <4>1 DEF Local
      <4> QED
        BY Zenon, <1>1, <2>1, <3>3, <4>2, OneMoves, QuietRecords DEF ApprovalInv
    <3>4. ASSUME NEW s, Keep(h, [mine[h] EXCEPT !.plan = "retry", !.snapshot = s])
          PROVE  ApprovalInv'
      <4>1. Local("record", [mine[h] EXCEPT !.plan = "retry", !.snapshot = s], granted', gate, told')
        BY Zenon, <1>1, <2>1 DEF Local
      <4> QED
        BY Zenon, <1>1, <2>1, <3>4, <4>1, OneMoves, QuietRecords DEF ApprovalInv
    <3> QED
      BY Zenon, <1>7, <2>3, <3>3, <3>4 DEF Decide
  <2> QED
    BY Zenon, <2>2, <2>3
<1>8. CASE Record(h)
  <2>1. /\ SetSafetyDecision(mine[h].plan = "require", mine[h].snapshot, Fresh)
        /\ UNCHANGED <<gate, state, labels, stream, granted, told, rejected, admitted>>
    BY Zenon, <1>8 DEF Record, history
  <2>2. /\ GoodApproval(approval', granted)
        /\ approval'.publish = approval.publish /\ approval'.target = approval.target
    BY Zenon, <1>1, <2>1 DEF SetSafetyDecision, Fresh, RecordsInv, GoodApproval
  <2>3. Finish(h) \/ (Goto(h, "outcome") /\ UNCHANGED mine)
    BY Zenon, <1>8 DEF Record
  <2>4. Locals'
    BY Zenon, <1>1, <2>1, <2>3, OneFinishes, OneGoesOn, LocalElsewhere
  <2> QED
    BY Zenon, <1>1, <2>1, <2>2, <2>4 DEF ApprovalInv, RecordsInv, AdmittedWasGranted
<1> QED
  BY Zenon, <1>3, <1>4, <1>5, <1>6, <1>7, <1>8

\* The scheduler's handler, from the stored decision to the outcome.
LEMMA AdmittingKeepsInv ==
  ASSUME ApprovalInv, NEW h \in Handlers,
         \/ Withhold(h) \/ Admit(h) \/ NoWorker(h) \/ GateResult(h)
         \/ GateComplete(h) \/ Replayed(h)
  PROVE  ApprovalInv'
<1>1. /\ h \in Processes /\ Locals /\ RecordsInv
      /\ Local(pc[h], mine[h], granted, gate, told)
  BY Zenon DEF Processes, ApprovalInv, Locals
<1>2. ASSUME Done(h) \/ Finish(h), UNCHANGED <<granted, told, gate>> PROVE Locals'
  <2>1. Finish(h) \/ (Goto(h, "replayed") /\ UNCHANGED mine)
    BY Zenon, <1>2 DEF Done
  <2> QED
    BY Zenon, <1>1, <1>2, <2>1, OneFinishes, OneGoesOn, LocalElsewhere
<1>3. ASSUME NEW to, SetState(h, to),
             UNCHANGED <<gate, approval, labels, stream, granted, told, rejected>>
      PROVE  Locals' /\ (rejected => state' = "DENIED")
  <2>1. Locals'
    BY Zenon, <1>2, <1>3 DEF SetState
  <2>2. ~isAllowedTransition("DENIED", to)
    BY Zenon, DeniedIsTerminal
  <2> QED
    BY Zenon, <1>1, <1>3, <2>1, <2>2 DEF SetState, RecordsInv
<1>4. CASE Withhold(h) \/ GateComplete(h)
  <2>1. PICK to : SetState(h, to)
    BY Zenon, <1>4 DEF Withhold, GateComplete
  <2>2. UNCHANGED <<gate, approval, labels, stream, granted, told, rejected, admitted>>
    BY Zenon, <1>4 DEF Withhold, GateComplete, history
  <2> QED
    BY Zenon, <1>1, <1>3, <2>1, <2>2 DEF ApprovalInv, RecordsInv, AdmittedWasGranted
<1>5. CASE Admit(h)
  <2>1. /\ SetState(h, "DISPATCHED") /\ Admissible(h)
        /\ admitted' \subseteq NewlyAdmitted(h)
        /\ UNCHANGED <<gate, approval, labels, stream, granted, told, rejected>>
    BY Zenon, <1>5 DEF Admit, NewlyAdmitted
  <2>2. AdmittedWasGranted'
    BY <1>1, <2>1 DEF AdmittedWasGranted, NewlyAdmitted, RecordsInv, Local
  <2> QED
    BY Zenon, <1>1, <1>3, <2>1, <2>2 DEF ApprovalInv, RecordsInv
<1>6. CASE NoWorker(h)
  <2>1. Done(h) /\ UNCHANGED <<records, stream, history, granted, told, gate>>
    BY Zenon, <1>6 DEF NoWorker, records, history
  <2> QED
    BY Zenon, <1>1, <1>2, <2>1, QuietRecords DEF ApprovalInv
<1>7. CASE GateResult(h)
  <2>1. CASE Finish(h) /\ UNCHANGED <<told, admitted>>
    <3>1. UNCHANGED <<records, stream, history, granted, told, gate>>
      BY Zenon, <1>7, <2>1 DEF GateResult, records, history
    <3> QED
      BY Zenon, <1>1, <1>2, <2>1, <3>1, QuietRecords DEF ApprovalInv
  <2>2. CASE ~(Finish(h) /\ UNCHANGED <<told, admitted>>)
    <3>1. /\ told' = told \cup {"success"} /\ admitted' = NewlyAdmitted(h)
          /\ Goto(h, "complete") /\ UNCHANGED mine
          /\ UNCHANGED <<gate, state, approval, labels, stream, granted, rejected>>
      BY Zenon, <1>7, <2>2 DEF GateResult, records
    <3>2. Local("complete", mine[h], granted', gate, told')
      BY Zenon, <1>1, <3>1, LocalElsewhere, LocalGrows
    <3>3. Locals'
      BY Zenon, <1>1, <3>1, <3>2, OneGoesOn
    <3>4. AdmittedWasGranted'
      BY <1>1, <3>1 DEF AdmittedWasGranted, NewlyAdmitted, RecordsInv, Local
    <3> QED
      BY Zenon, <1>1, <3>1, <3>3, <3>4 DEF ApprovalInv, RecordsInv, ToldFor
  <2> QED
    BY Zenon, <2>1, <2>2
<1>8. CASE Replayed(h)
  <2>1. UNCHANGED <<records, stream, history, granted, told, gate>>
    BY Zenon, <1>8 DEF Replayed, records, history
  <2>2. CASE Finish(h)
    BY Zenon, <1>1, <2>1, <2>2, OneFinishes, QuietRecords DEF ApprovalInv
  <2>3. CASE ~Finish(h)
    <3>1. /\ approval.target = "submit"
          /\ Goto(h, "mark") /\ Keep(h, [Nothing EXCEPT !.approval = approval])
      BY Zenon, <1>8, <2>3 DEF Replayed
    <3>2. Local("mark", [Nothing EXCEPT !.approval = approval], granted', gate, told')
      BY Zenon, <1>1, <2>1, <3>1 DEF Local, Nothing, Plain, GoodLabels, RecordsInv, ToldFor
    <3> QED
      BY Zenon, <1>1, <2>1, <3>1, <3>2, OneMoves, QuietRecords DEF ApprovalInv
  <2> QED
    BY Zenon, <2>2, <2>3
<1> QED
  BY Zenon, <1>4, <1>5, <1>6, <1>7, <1>8

\* The sweeps of the reconciler and of the replayer, and what happens around.
LEMMA OthersKeepInv ==
  ASSUME ApprovalInv,
         \/ Sweep \/ SweepInspect \/ ReplayRejected
         \/ PolicyChanges \/ RunEnds \/ Ending \/ \E o \in Operators : LockExpires(o)
  PROVE  ApprovalInv'
<1>1. /\ Locals /\ RecordsInv /\ Reconciler \in Processes /\ Replayer \in Processes
      /\ Local(pc[Reconciler], mine[Reconciler], granted, gate, told)
  BY Zenon DEF Processes, ApprovalInv, Locals
<1>2. CASE Sweep
  <2> DEFINE m == [Nothing EXCEPT !.snapshot = policy.snapshot]
  <2>1. /\ Goto(Reconciler, "inspect") /\ Keep(Reconciler, m)
        /\ UNCHANGED <<records, stream, history, granted, told, gate>>
    BY Zenon, <1>2 DEF Sweep, records, history
  <2>2. Local("inspect", m, granted', gate, told')
    BY Zenon, <2>1 DEF Local, Nothing, Plain, Fresh, GoodLabels, GoodApproval
  <2> QED
    BY Zenon, <1>1, <2>1, <2>2, OneMoves, QuietRecords DEF ApprovalInv
<1>3. CASE SweepInspect
  <2> DEFINE plan == ClassifyApprovalRepair(FALSE, Drifted(mine[Reconciler].snapshot))
             m == [mine[Reconciler] EXCEPT !.plan = plan, !.planned = state]
  <2>1. UNCHANGED <<records, stream, history, granted, told, gate>>
    BY Zenon, <1>3 DEF SweepInspect, records, history
  <2>2. Finish(Reconciler) \/ (plan # "none" /\ Goto(Reconciler, "apply") /\ Keep(Reconciler, m))
    BY Zenon, <1>3 DEF SweepInspect
  <2>3. plan # "none" => Local("apply", m, granted', gate, told')
    BY Zenon, <1>1, <2>1, PlanIsGood
  <2> QED
    BY Zenon, <1>1, <2>1, <2>2, <2>3, OneFinishes, OneMoves, QuietRecords DEF ApprovalInv
<1>4. CASE ReplayRejected
  <2> DEFINE m == [Nothing EXCEPT !.approval = approval]
  <2>1. /\ Goto(Replayer, "dlq") /\ Keep(Replayer, m)
        /\ UNCHANGED <<records, stream, history, granted, told, gate>>
    BY Zenon, <1>4 DEF ReplayRejected, records, history
  <2>2. Local("dlq", m, granted', gate, told')
    BY Zenon, <1>1, <2>1 DEF Local, Nothing, Plain, GoodLabels, RecordsInv
  <2> QED
    BY Zenon, <1>1, <2>1, <2>2, OneMoves, QuietRecords DEF ApprovalInv
<1>5. CASE PolicyChanges \/ RunEnds \/ \E o \in Operators : LockExpires(o)
  <2>1. UNCHANGED <<records, stream, history, granted, told, gate, pc, mine>>
    BY Zenon, <1>5 DEF PolicyChanges, RunEnds, LockExpires, records, history
  <2> QED
    BY Zenon, <1>1, <2>1, NobodyMoves, QuietRecords DEF ApprovalInv
<1>6. CASE Ending
  <2>1. /\ state # "DENIED"
        /\ UNCHANGED <<gate, approval, labels, stream, pc, mine, granted, told, rejected, admitted>>
    BY Zenon, <1>6 DEF Ending, history
  <2> QED
    BY Zenon, <1>1, <2>1, NobodyMoves DEF ApprovalInv, RecordsInv, AdmittedWasGranted
<1> QED
  BY Zenon, <1>2, <1>3, <1>4, <1>5, <1>6

-----------------------------------------------------------------------------
\* The policy always has one of the verdicts.
LEMMA VerdictStep ==
  ASSUME policy.verdict \in Verdicts, [Next]_vars
  PROVE  policy'.verdict \in Verdicts
<1>1. CASE PolicyChanges
  BY <1>1 DEF PolicyChanges
<1>2. CASE UNCHANGED policy
  BY Zenon, <1>2
<1>3. PolicyChanges \/ UNCHANGED policy
  <2>1. ASSUME NEW o \in Operators,
               \/ \E r \in {"approve", "reject", "repair"} : Begin(o, r)
               \/ OperatorStep(o) \/ LockExpires(o)
        PROVE  UNCHANGED policy
    BY Zenon, <2>1 DEF Begin, OperatorStep, LockExpires, ApproveRead, ApproveList,
         ApproveEvaluate, ApproveRecheck, Grant, RejectRead, Refuse, Inspect, Apply,
         Return, PublishSubmit, PublishDLQ, PublishResult, Mark
  <2>2. ASSUME NEW h \in Handlers,
               Deliver(h) \/ Replay(h) \/ HandlerLock(h) \/ HandlerStep(h) \/ NoWorker(h)
        PROVE  UNCHANGED policy
    BY Zenon, <2>2 DEF Deliver, Replay, HandlerLock, HandlerStep, NoWorker, HandlerRead,
         Decide, Record, Withhold, Admit, GateResult, GateComplete, Replayed, Mark
  <2>3. ASSUME ReconcilerStep \/ ReplayerStep \/ RunEnds \/ Ending PROVE UNCHANGED policy
    BY Zenon, <2>3 DEF ReconcilerStep, ReplayerStep, RunEnds, Ending, Sweep, SweepInspect,
         SweepApply, ReplayRejected, PublishDLQ, PublishResult, Mark
  <2>4. ASSUME NEW p \in Processes, PublishFails(p) \/ Crash(p) PROVE UNCHANGED policy
    BY Zenon, <2>4 DEF PublishFails, Crash
  <2> QED
    BY Zenon, <2>1, <2>2, <2>3, <2>4 DEF Next, vars
<1> QED
  BY Zenon, <1>1, <1>2, <1>3

\* The invariant is inductive.
LEMMA InvStep ==
  ASSUME ApprovalInv, policy.verdict \in Verdicts, [Next]_vars
  PROVE  ApprovalInv'
<1>1. CASE UNCHANGED vars
  BY Zenon, <1>1, NobodyMoves, QuietRecords DEF vars, ApprovalInv, records, history
<1>2. ASSUME NEW o \in Operators,
             \/ \E r \in {"approve", "reject", "repair"} : Begin(o, r)
             \/ OperatorStep(o) \/ LockExpires(o)
      PROVE  ApprovalInv'
  BY Zenon, <1>2, ReadingKeepsInv, ResolvingKeepsInv, RepairingKeepsInv, PublishingKeepsInv,
     OthersKeepInv DEF OperatorStep, Processes
<1>3. ASSUME NEW h \in Handlers,
             Deliver(h) \/ Replay(h) \/ HandlerLock(h) \/ HandlerStep(h) \/ NoWorker(h)
      PROVE  ApprovalInv'
  BY Zenon, <1>3, CheckingKeepsInv, AdmittingKeepsInv, PublishingKeepsInv DEF HandlerStep, Processes
<1>4. CASE ReconcilerStep \/ ReplayerStep \/ PolicyChanges \/ RunEnds \/ Ending
  BY Zenon, <1>4, OthersKeepInv, RepairingKeepsInv, PublishingKeepsInv
     DEF ReconcilerStep, ReplayerStep, Processes
<1>5. ASSUME NEW p \in Processes, PublishFails(p) \/ Crash(p) PROVE ApprovalInv'
  BY Zenon, <1>5, PublishingKeepsInv
<1> QED
  BY Zenon, <1>1, <1>2, <1>3, <1>4, <1>5 DEF Next

\* The invariant holds at the start.
LEMMA InvInit ==
  ApprovalInit => ApprovalInv /\ policy.verdict \in Verdicts
<1> SUFFICES ASSUME ApprovalInit PROVE ApprovalInv /\ policy.verdict \in Verdicts
  BY Zenon
<1>1. Locals
  BY Zenon, LocalIdle DEF ApprovalInit, Locals
<1>2. RecordsInv
  <2>1. GoodLabels(Plain, {})
    BY Zenon DEF Plain, GoodLabels
  <2>2. GoodApproval(Fresh, {}) /\ Fresh.publish # "published"
    BY Zenon DEF Fresh, GoodApproval
  <2> QED
    BY Zenon, <2>1, <2>2 DEF ApprovalInit, RecordsInv, AdmittedWasGranted
<1>3. policy.verdict \in Verdicts
  BY Zenon DEF ApprovalInit, Verdicts
<1> QED
  BY Zenon, <1>1, <1>2, <1>3 DEF ApprovalInv

\* The inductive invariant holds in every reachable state.
THEOREM ApprovalInvariant == Spec => []ApprovalInv
<1> DEFINE I == ApprovalInv /\ policy.verdict \in Verdicts
<1>1. ApprovalInit => I
  BY Zenon, InvInit
<1>2. I /\ [Next]_vars => I'
  BY Zenon, InvStep, VerdictStep
<1>3. I => ApprovalInv
  BY Zenon
<1> QED
  BY <1>1, <1>2, <1>3, PTL DEF Spec

\* The scheduler's fast path admits only what an operator approved, under a
\* policy they approved it under: for any number of operators, handlers,
\* redeliveries, repairs, policy changes and crashes.
THEOREM FastPathWasGranted == Spec => []AdmittedWasGranted
<1>1. ApprovalInv => AdmittedWasGranted
  BY Zenon DEF ApprovalInv, RecordsInv
<1> QED
  BY <1>1, ApprovalInvariant, PTL

\* A rejection is marked published only after its notices were published.
THEOREM MarkedIsTold == Spec => []PublishedMeansTold
<1>1. ApprovalInv => PublishedMeansTold
  BY Zenon DEF ApprovalInv, RecordsInv, PublishedMeansTold, ToldFor
<1> QED
  BY <1>1, ApprovalInvariant, PTL

\* A rejection is not taken back, and nothing but a gate that was already being
\* answered gets past the check after it.
LEMMA RefusalStep ==
  ASSUME ApprovalInv, rejected, [Next]_vars
  PROVE  rejected' /\ (gate \/ admitted' = admitted)
<1>1. ASSUME NEW o \in Operators,
             \/ \E r \in {"approve", "reject", "repair"} : Begin(o, r)
             \/ OperatorStep(o) \/ LockExpires(o)
      PROVE  rejected' /\ admitted' = admitted
  BY Zenon, <1>1 DEF Begin, OperatorStep, LockExpires, ApproveRead, ApproveList,
       ApproveEvaluate, ApproveRecheck, Grant, Conflict, RejectRead, Refuse, Inspect,
       Apply, Return, PublishSubmit, PublishDLQ, PublishResult, Mark, history
<1>2. ASSUME NEW h \in Handlers,
             Deliver(h) \/ Replay(h) \/ HandlerLock(h) \/ HandlerStep(h) \/ NoWorker(h)
      PROVE  rejected' /\ (gate \/ admitted' = admitted)
  <2>1. CASE Admit(h)
    <3>1. state = "DENIED" /\ ~isAllowedTransition("DENIED", "DISPATCHED")
      BY Zenon, DeniedIsTerminal DEF ApprovalInv, RecordsInv
    <3> QED
      BY Zenon, <2>1, <3>1 DEF Admit, SetState
  <2>2. CASE ~Admit(h)
    BY Zenon, <1>2, <2>2 DEF Deliver, Replay, HandlerLock, HandlerStep, NoWorker, HandlerRead,
       Decide, Record, Withhold, GateResult, Admissible, GateComplete, Replayed, Mark, history
  <2> QED
    BY Zenon, <2>1, <2>2
<1>3. ASSUME \/ ReconcilerStep \/ ReplayerStep \/ PolicyChanges \/ RunEnds \/ Ending
             \/ UNCHANGED vars
      PROVE  rejected' /\ admitted' = admitted
  BY Zenon, <1>3 DEF ReconcilerStep, ReplayerStep, PolicyChanges, RunEnds, Ending, Sweep,
     SweepInspect, SweepApply, ReplayRejected, PublishDLQ, PublishResult, Mark, history, vars
<1>4. ASSUME NEW p \in Processes, PublishFails(p) \/ Crash(p)
      PROVE  rejected' /\ admitted' = admitted
  BY Zenon, <1>4 DEF PublishFails, Crash, history
<1> QED
  BY Zenon, <1>1, <1>2, <1>3, <1>4 DEF Next

\* A committed rejection stands.
THEOREM RefusalStands == Spec => RefusalIsFinal
<1> DEFINE I == ApprovalInv /\ policy.verdict \in Verdicts
<1>1. ApprovalInit => I
  BY Zenon, InvInit
<1>2. I /\ [Next]_vars => I'
  BY Zenon, InvStep, VerdictStep
<1>3. I /\ [Next]_vars =>
        [rejected => state' = "DENIED" /\ (gate \/ admitted' = admitted)]_vars
  <2> SUFFICES ASSUME I, [Next]_vars, rejected
               PROVE  state' = "DENIED" /\ (gate \/ admitted' = admitted)
    BY Zenon
  <2>1. ApprovalInv' /\ rejected' /\ (gate \/ admitted' = admitted)
    BY Zenon, <1>2, RefusalStep
  <2> QED
    BY Zenon, <2>1 DEF ApprovalInv, RecordsInv
<1> QED
  BY <1>1, <1>2, <1>3, PTL DEF Spec, RefusalIsFinal
=============================================================================
