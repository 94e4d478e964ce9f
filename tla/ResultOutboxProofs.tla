------------------------- MODULE ResultOutboxProofs -------------------------
(***************************************************************************)
(* Proofs about the outbox and its saga, for any jobs, any number of       *)
(* replicas and any number of faults.  Replicas do not coordinate, so the  *)
(* inductive invariant says of each replica what the steps it has taken    *)
(* with the effect in its hands have established, and of the saga what the *)
(* lock, the stack and the compensations under way have to do with each    *)
(* other.                                                                  *)
(***************************************************************************)
EXTENDS ResultOutbox, SequenceTheorems, FiniteSetTheorems, TLAPS

\* The types, and that a replica works on effects that were committed.
Shape ==
  /\ committed \subseteq Jobs /\ pending \subseteq committed
  /\ IsFiniteSet(pending)
  /\ todo \in [Replicas -> Seq(committed)] /\ step \in [Replicas -> Steps]
  /\ \A r \in Replicas : step[r] # "idle" => todo[r] # <<>>
  /\ completions \in [Jobs -> Nat]
  /\ locked \in BOOLEAN /\ broken \in BOOLEAN /\ faults \in Nat

\* What the steps a replica has taken with an effect have delivered.
Delivered(r) ==
  /\ step[r] \notin {"idle", "project"} => Job(r) \in projected
  /\ step[r] \in {"failure", "ack", "count"} => Job(r) \in accepted
  /\ step[r] \in {"ack", "count"} /\ Job(r) \in Fatal => Job(r) \in deadLetters

\* The replica that is about to count a completion has acknowledged its effect,
\* nobody has counted it, and nobody else is about to.
Counting ==
  /\ \A r \in Replicas : step[r] = "count" => Job(r) \in Acked /\ completions[Job(r)] = 0
  /\ \A r, q \in Replicas :
       step[r] = "count" /\ step[q] = "count" /\ Job(r) = Job(q) => r = q

DeliveryInv ==
  /\ \A r \in Replicas : Delivered(r)
  /\ Counting
  /\ AckedIsDelivered

\* The compensations: none is twice on the stack, or there again after it was
\* popped; one replica rolls back at a time, and what it has in its hands is the
\* compensation that was popped last and that was not dispatched yet.
SagaInv ==
  /\ recorded \subseteq Jobs
  /\ stack \in Seq(recorded) /\ taken \in Seq(recorded)
  /\ dispatched \in Seq(ToSet(taken))
  /\ IsInjective(stack) /\ ToSet(stack) \cap ToSet(taken) = {}
  /\ \A r \in Replicas : Rolling(r) => locked
  /\ \A r, q \in Replicas : Rolling(r) /\ Rolling(q) => r = q
  /\ \A r \in Replicas : step[r] = "dispatch" =>
       /\ taken # <<>> /\ popped[r] = <<taken[Len(taken)]>>
       /\ taken[Len(taken)] \notin ToSet(dispatched)
  /\ popped \in [Replicas -> Seq(recorded)]
  /\ DispatchedInPopOrder

\* Replica r has put the job of its effect past the saga.
Past(r, j) == step[r] \in {"publish", "failure", "ack", "count"} /\ Job(r) = j

\* Some replica has put job j past the saga, and it may be acknowledged.
Settled(j) == j \in Acked \/ \E r \in Replicas : Past(r, j)

\* A rollback that is not broken loses nothing: a compensation that was owed is
\* on the stack or was popped, one that was popped was dispatched or denied or is
\* in the hands of its replica, and a fatal failure is past the saga only when
\* nothing it is owed is on the stack, or a replica is at work on it.
RollbackInv ==
  /\ owed \in [Jobs -> SUBSET Jobs]
  /\ \A j \in Jobs : owed[j] \subseteq ToSet(stack) \cup ToSet(taken)
  /\ broken \/ \A c \in ToSet(taken) :
       \/ c \in ToSet(dispatched) \cup denied
       \/ \E r \in Replicas : step[r] = "dispatch" /\ popped[r] = <<c>>
  /\ locked => broken \/ \E r \in Replicas : Rolling(r)
  /\ \A j \in Fatal :
       Settled(j) =>
         \/ broken
         \/ owed[j] \subseteq ToSet(taken)
         \/ \E r \in Replicas : Rolling(r)

OutboxInv == Shape /\ DeliveryInv /\ SagaInv /\ RollbackInv

-----------------------------------------------------------------------------
\* The elements of a sequence without its head.
LEMMA HeadAndTail ==
  ASSUME NEW S, NEW s \in Seq(S), s # <<>>
  PROVE  /\ Head(s) \in S /\ Head(s) \in ToSet(s) /\ Tail(s) \in Seq(S)
         /\ Len(s) # 1 => Tail(s) # <<>>
         /\ ToSet(s) = {Head(s)} \cup ToSet(Tail(s))
         /\ IsInjective(s) => IsInjective(Tail(s)) /\ Head(s) \notin ToSet(Tail(s))
<1>1. /\ Len(s) \in Nat \ {0} /\ DOMAIN s = 1..Len(s) /\ Head(s) = s[1] /\ s[1] \in S
      /\ Tail(s) \in Seq(S) /\ Len(Tail(s)) = Len(s) - 1
      /\ DOMAIN Tail(s) = 1..(Len(s) - 1)
      /\ \A i \in 1..(Len(s) - 1) : Tail(s)[i] = s[i + 1]
  OBVIOUS
<1>2. \A i \in 1..Len(s) : i = 1 \/ (i - 1 \in 1..(Len(s) - 1) /\ s[i] = Tail(s)[i - 1])
  BY <1>1
<1>3. ToSet(s) = {Head(s)} \cup ToSet(Tail(s))
  <2>1. ToSet(s) \subseteq {Head(s)} \cup ToSet(Tail(s))
    <3> SUFFICES ASSUME NEW i \in 1..Len(s), i # 1 PROVE s[i] \in ToSet(Tail(s))
      BY <1>1 DEF ToSet
    <3>1. i - 1 \in DOMAIN Tail(s) /\ s[i] = Tail(s)[i - 1]
      BY Zenon, <1>1, <1>2
    <3> QED BY Zenon, <3>1 DEF ToSet
  <2>2. Head(s) \in ToSet(s)
    BY <1>1 DEF ToSet
  <2>3. ToSet(Tail(s)) \subseteq ToSet(s)
    <3> SUFFICES ASSUME NEW i \in 1..(Len(s) - 1) PROVE s[i + 1] \in ToSet(s)
      BY <1>1 DEF ToSet
    <3>1. i + 1 \in DOMAIN s
      BY <1>1
    <3> QED BY Zenon, <3>1 DEF ToSet
  <2> QED BY Zenon, <2>1, <2>2, <2>3
<1>4. IsInjective(s) => IsInjective(Tail(s)) /\ Head(s) \notin ToSet(Tail(s))
  BY <1>1 DEF ToSet, IsInjective
<1>5. Len(s) # 1 => Tail(s) # <<>>
  <2>1. Len(<<>>) = 0
    BY Zenon
  <2>2. Tail(s) = <<>> => Len(Tail(s)) = 0
    BY Zenon, <2>1
  <2> QED BY <1>1, <2>2
<1>6. Head(s) \in ToSet(s)
  BY <1>1 DEF ToSet
<1> QED BY Zenon, <1>1, <1>3, <1>4, <1>5, <1>6

\* The elements of a sequence with one more at its end.
LEMMA AppendOne ==
  ASSUME NEW S, NEW s \in Seq(S), NEW x \in S
  PROVE  /\ Append(s, x) \in Seq(S) /\ s \o <<x>> = Append(s, x)
         /\ Len(Append(s, x)) = Len(s) + 1 /\ Append(s, x)[Len(s) + 1] = x
         /\ Append(s, x) # <<>>
         /\ \A i \in 1..Len(s) : Append(s, x)[i] = s[i]
         /\ ToSet(Append(s, x)) = ToSet(s) \cup {x}
         /\ IsInjective(s) /\ x \notin ToSet(s) => IsInjective(Append(s, x))
<1>1. /\ Append(s, x) \in Seq(S) /\ Len(s) \in Nat /\ DOMAIN s = 1..Len(s)
      /\ Len(Append(s, x)) = Len(s) + 1 /\ DOMAIN Append(s, x) = 1..(Len(s) + 1)
      /\ Append(s, x)[Len(s) + 1] = x
      /\ \A i \in 1..Len(s) : Append(s, x)[i] = s[i]
  OBVIOUS
<1>2. s \o <<x>> = Append(s, x)
  BY Zenon, AppendIsConcat
<1>3. \A i \in 1..(Len(s) + 1) : i \in 1..Len(s) \/ i = Len(s) + 1
  BY <1>1
<1>4. ToSet(Append(s, x)) = ToSet(s) \cup {x}
  <2>1. ToSet(Append(s, x)) \subseteq ToSet(s) \cup {x}
    BY Zenon, <1>1, <1>3 DEF ToSet
  <2>2. ToSet(s) \subseteq ToSet(Append(s, x))
    BY <1>1 DEF ToSet
  <2>3. x \in ToSet(Append(s, x))
    BY <1>1 DEF ToSet
  <2> QED BY Zenon, <2>1, <2>2, <2>3
<1>5. IsInjective(s) /\ x \notin ToSet(s) => IsInjective(Append(s, x))
  BY <1>1, <1>3 DEF ToSet, IsInjective
<1> QED BY <1>1, <1>2, <1>4, <1>5

\* The elements of a sequence with one more in front.
LEMMA PushOne ==
  ASSUME NEW S, NEW s \in Seq(S), NEW x \in S
  PROVE  /\ <<x>> \o s \in Seq(S)
         /\ ToSet(<<x>> \o s) = ToSet(s) \cup {x}
         /\ IsInjective(s) /\ x \notin ToSet(s) => IsInjective(<<x>> \o s)
<1> DEFINE t == <<x>> \o s
<1>1. /\ t \in Seq(S) /\ Len(s) \in Nat /\ DOMAIN s = 1..Len(s)
      /\ Len(t) = Len(s) + 1 /\ DOMAIN t = 1..(Len(s) + 1)
      /\ t[1] = x
      /\ \A i \in 1..Len(s) : t[i + 1] = s[i]
  OBVIOUS
<1> HIDE DEF t
<1>2. \A i \in 1..(Len(s) + 1) : i = 1 \/ (i - 1 \in 1..Len(s) /\ t[i] = s[i - 1])
  BY <1>1
<1>3. ToSet(t) = ToSet(s) \cup {x}
  <2>1. ToSet(t) \subseteq ToSet(s) \cup {x}
    BY <1>1, <1>2 DEF ToSet
  <2>2. ToSet(s) \subseteq ToSet(t)
    <3> SUFFICES ASSUME NEW i \in 1..Len(s) PROVE s[i] \in ToSet(t)
      BY Zenon, <1>1 DEF ToSet
    <3>1. i + 1 \in DOMAIN t /\ t[i + 1] = s[i]
      BY <1>1
    <3> QED BY Zenon, <3>1 DEF ToSet
  <2>3. x \in ToSet(t)
    BY <1>1 DEF ToSet
  <2> QED BY Zenon, <2>1, <2>2, <2>3
<1>4. IsInjective(s) /\ x \notin ToSet(s) => IsInjective(t)
  <2> SUFFICES ASSUME IsInjective(s), x \notin ToSet(s), NEW i \in DOMAIN t, NEW k \in DOMAIN t,
                      t[i] = t[k]
               PROVE  i = k
    BY Zenon DEF IsInjective
  <2>1. \A n \in 1..Len(s) : s[n] # x
    BY Zenon, <1>1 DEF ToSet
  <2>2. CASE i = 1 \/ k = 1
    BY <1>1, <1>2, <2>1, <2>2
  <2>3. CASE i # 1 /\ k # 1
    <3>1. i - 1 \in DOMAIN s /\ k - 1 \in DOMAIN s /\ s[i - 1] = s[k - 1]
      BY Zenon, <1>1, <1>2, <2>3
    <3>2. i - 1 = k - 1
      BY Zenon, <3>1 DEF IsInjective
    <3> QED BY <3>2, <1>1
  <2> QED BY Zenon, <2>2, <2>3
<1> QED BY Zenon, <1>1, <1>3, <1>4 DEF t

\* The empty sequence has no elements.
LEMMA NoElements ==
  /\ ToSet(<<>>) = {}
  /\ IsInjective(<<>>)
  /\ \A S : <<>> \in Seq(S)
  BY DEF ToSet, IsInjective

\* What drainPendingJobEffects lists: the pending effects, and at least one.
LEMMA Listing ==
  ASSUME NEW S, IsFiniteSet(S), S # {}, NEW listing \in SetToSeqs(S)
  PROVE  listing \in Seq(S) /\ listing # <<>>
<1>1. Cardinality(S) \in Nat /\ Cardinality(S) # 0
  BY Zenon, FS_CardinalityType, FS_EmptySet
<1>2. listing \in [1..Cardinality(S) -> S]
  BY Zenon DEF SetToSeqs
<1>3. listing \in Seq(S) /\ Len(listing) = Cardinality(S)
  BY <1>1, <1>2, IsASeq, LenProperties
<1> QED BY Zenon, <1>1, <1>3

-----------------------------------------------------------------------------
USE DEF At, Goto, Fault, Rolling, Steps, sinks, saga

\* The saga and the faults of a pass.
Pass(r) == Drain(r) \/ Fails(r) \/ Crash(r)

\* Nothing has happened at first.
LEMMA InitOutbox == OutboxInit => OutboxInv
<1> SUFFICES ASSUME OutboxInit PROVE OutboxInv
  BY Zenon
<1> USE NoElements DEF OutboxInit
<1>1. Shape
  BY Zenon, FS_EmptySet DEF Shape
<1>2. DeliveryInv
  <2>1. \A j \in Jobs : completions[j] <= IF j \in Acked THEN 1 ELSE 0
    BY DEF Acked
  <2> QED BY Zenon, <2>1 DEF DeliveryInv, Counting, Delivered, AckedIsDelivered, Acked
<1>3. SagaInv
  BY Zenon DEF SagaInv, DispatchedInPopOrder
<1>4. RollbackInv
  BY Zenon, OutboxAssumption DEF RollbackInv, Past, Acked
<1> QED BY Zenon, <1>1, <1>2, <1>3, <1>4 DEF OutboxInv

\* ApplyJobResult adds a job that nobody has listed yet.
LEMMA ShapeApply ==
  ASSUME Shape, NEW j \in Jobs, ApplyJobResult(j)
  PROVE  Shape'
<1>1. IsFiniteSet(pending')
  BY Zenon, FS_AddElement DEF ApplyJobResult, Shape
<1>2. todo' \in [Replicas -> Seq(committed')]
  <2>1. \A r \in Replicas : todo[r] \in Seq(committed')
    BY Zenon, SeqMonotonic DEF ApplyJobResult, Shape
  <2> QED BY Zenon, <2>1 DEF ApplyJobResult, Shape
<1> QED BY Zenon, <1>1, <1>2 DEF ApplyJobResult, Shape

\* A step of a replica has a fault or not.
LEMMA FaultsOfAPass ==
  ASSUME faults \in Nat, NEW r \in Replicas, Pass(r)
  PROVE  faults' \in Nat /\ faults' \in {faults, faults + 1}
<1>1. faults' \in {faults, faults + 1}
  BY Zenon DEF Pass, Drain, PendingJobEffects, ProjectJobResult, RecordCompensation,
     Rollback, popCompensation, dispatchCompensation, PublishAccepted, processDurableFailure,
     AckJobEffect, recordDurableCompletion, Fails, Crash, EndsPass
<1> QED BY <1>1

\* A pass lists pending effects and works through them.
LEMMA ShapePass ==
  ASSUME Shape, NEW r \in Replicas, Pass(r)
  PROVE  Shape'
<1> USE DEF Shape
<1>7. faults' \in Nat
  BY Zenon, FaultsOfAPass
<1>1. CASE PendingJobEffects(r)
  <2>1. PICK listing \in SetToSeqs(pending) : todo' = [todo EXCEPT ![r] = listing]
    BY Zenon, <1>1 DEF PendingJobEffects
  <2>2. listing \in Seq(committed) /\ listing # <<>>
    <3>1. listing \in Seq(pending) /\ listing # <<>>
      BY Zenon, <1>1, Listing DEF PendingJobEffects
    <3> QED BY Zenon, <3>1, SeqMonotonic
  <2> QED BY Zenon, <1>1, <1>7, <2>1, <2>2 DEF PendingJobEffects
<1>2. CASE AckJobEffect(r)
  <2>1. IsFiniteSet(pending')
    BY <1>2, FS_RemoveElement DEF AckJobEffect
  <2>2. todo' \in [Replicas -> Seq(committed')]
    BY Zenon, <1>2, NoElements DEF AckJobEffect
  <2>3. /\ step' \in [Replicas -> Steps]
        /\ \A q \in Replicas : step'[q] # "idle" => todo'[q] # <<>>
    BY Zenon, <1>2 DEF AckJobEffect
  <2> QED BY <1>2, <1>7, <2>1, <2>2, <2>3 DEF AckJobEffect
<1>6. CASE recordDurableCompletion(r)
  <2>1. todo[r] \in Seq(committed) /\ todo[r] # <<>>
    BY Zenon, <1>6 DEF recordDurableCompletion
  <2>2. Job(r) \in committed /\ Tail(todo[r]) \in Seq(committed)
    BY Zenon, <2>1, HeadAndTail DEF Job
  <2>3. Len(todo[r]) # 1 => Tail(todo[r]) # <<>>
    BY Zenon, <2>1, HeadAndTail
  <2>4. completions' \in [Jobs -> Nat]
    BY <1>6, <2>2 DEF recordDurableCompletion
  <2>5. todo' \in [Replicas -> Seq(committed')]
    BY Zenon, <1>6, <2>2 DEF recordDurableCompletion
  <2>6. step' \in [Replicas -> Steps]
    BY Zenon, <1>6 DEF recordDurableCompletion
  <2>7. \A q \in Replicas : step'[q] # "idle" => todo'[q] # <<>>
    BY Zenon, <1>6, <2>3 DEF recordDurableCompletion
  <2> QED BY Zenon, <1>6, <1>7, <2>4, <2>5, <2>6, <2>7 DEF recordDurableCompletion
<1>3. CASE ProjectJobResult(r) \/ RecordCompensation(r) \/ Rollback(r) \/ popCompensation(r)
  BY Zenon, <1>3, <1>7 DEF ProjectJobResult, RecordCompensation, Rollback, popCompensation
<1>4. CASE dispatchCompensation(r) \/ PublishAccepted(r) \/ processDurableFailure(r)
  BY Zenon, <1>4, <1>7 DEF dispatchCompensation, PublishAccepted, processDurableFailure
<1>5. CASE Fails(r) \/ Crash(r)
  <2>1. EndsPass(r) /\ locked' \in BOOLEAN
    BY Zenon, <1>5 DEF Fails, Crash
  <2>2. todo' \in [Replicas -> Seq(committed')]
    BY Zenon, <2>1, NoElements DEF EndsPass
  <2>3. /\ step' \in [Replicas -> Steps]
        /\ \A q \in Replicas : step'[q] # "idle" => todo'[q] # <<>>
    BY Zenon, <2>1 DEF EndsPass
  <2> QED BY Zenon, <1>7, <2>1, <2>2, <2>3 DEF EndsPass
<1> QED BY Zenon, <1>1, <1>2, <1>3, <1>4, <1>5, <1>6 DEF Pass, Drain

-----------------------------------------------------------------------------
\* The effect a replica has in its hands was committed.
LEMMA JobIsCommitted ==
  ASSUME Shape, NEW r \in Replicas, step[r] # "idle"
  PROVE  Job(r) \in committed /\ Job(r) \in Jobs
<1>1. todo[r] \in Seq(committed) /\ todo[r] # <<>>
  BY Zenon DEF Shape
<1> QED BY Zenon, <1>1, HeadAndTail DEF Job, Shape

\* A step of replica r leaves the effect of another replica in its hands, and
\* keeps its own unless it takes up another one.
LEMMA JobIsKept ==
  ASSUME Shape, NEW r \in Replicas, Pass(r)
  PROVE  /\ \A q \in Replicas \ {r} : todo'[q] = todo[q] /\ step'[q] = step[q] /\ Job(q)' = Job(q)
         /\ step'[r] \notin {"idle", "project"} => Job(r)' = Job(r)
<1> USE DEF Shape, Job
<1>1. CASE PendingJobEffects(r) \/ AckJobEffect(r) \/ recordDurableCompletion(r)
  BY Zenon, <1>1 DEF PendingJobEffects, AckJobEffect, recordDurableCompletion
<1>2. CASE ProjectJobResult(r) \/ RecordCompensation(r) \/ Rollback(r) \/ popCompensation(r)
           \/ dispatchCompensation(r) \/ PublishAccepted(r) \/ processDurableFailure(r)
  BY Zenon, <1>2 DEF ProjectJobResult, RecordCompensation, Rollback, popCompensation,
              dispatchCompensation, PublishAccepted, processDurableFailure
<1>3. CASE Fails(r) \/ Crash(r)
  BY Zenon, <1>3 DEF Fails, Crash, EndsPass
<1> QED BY Zenon, <1>1, <1>2, <1>3 DEF Pass, Drain

\* The acknowledgement takes an effect out of the outbox, so nobody has counted
\* it and nobody is about to.
LEMMA CountAcked ==
  ASSUME Shape, \A q \in Replicas : Delivered(q), Counting, AckedIsDelivered,
         NEW r \in Replicas, AckJobEffect(r), Job(r) \in pending
  PROVE  Counting' /\ AckedIsDelivered'
<1>1. /\ Job(r) \in committed /\ Job(r) \in Jobs /\ Job(r) \in projected \cap accepted
      /\ Job(r) \in Fatal => Job(r) \in deadLetters
  BY Zenon, JobIsCommitted DEF Delivered, AckJobEffect
<1>2. Acked' = Acked \cup {Job(r)} /\ Job(r) \notin Acked
  BY <1>1 DEF AckJobEffect, Acked
<1>3. /\ UNCHANGED <<projected, accepted, deadLetters, completions, faults, todo>>
      /\ step' = [step EXCEPT ![r] = "count"]
  BY Zenon DEF AckJobEffect
<1>4. \A q \in Replicas : Job(q)' = Job(q) /\ (q # r => step'[q] = step[q])
  BY Zenon, <1>3 DEF Job, Shape
<1>5. step'[r] = "count"
  BY Zenon, <1>3 DEF Shape
<1>6. completions[Job(r)] = 0
  BY <1>1, <1>2 DEF AckedIsDelivered, Shape
<1>7. Counting'
  <2>1. \A q \in Replicas : step'[q] = "count" => q = r \/ (step[q] = "count" /\ Job(q) \in Acked)
    BY Zenon, <1>4 DEF Counting
  <2>2. \A q \in Replicas : step'[q] = "count" => Job(q) \in Acked' /\ completions[Job(q)] = 0
    BY Zenon, <1>2, <1>4, <1>6, <2>1 DEF Counting
  <2>3. ASSUME NEW p \in Replicas, NEW q \in Replicas, step'[p] = "count", step'[q] = "count",
               Job(p) = Job(q)
        PROVE  p = q
    BY Zenon, <1>2, <2>1, <2>3 DEF Counting
  <2>4. completions' = completions
    BY Zenon, <1>3
  <2> QED BY <1>4, <2>2, <2>3, <2>4 DEF Counting
<1>8. ASSUME NEW j \in Acked'
      PROVE  completions[j] = 1 \/ faults > 0 \/ \E q \in Replicas : step'[q] = "count" /\ Job(q)' = j
  <2>1. CASE j = Job(r)
    BY Zenon, <1>4, <1>5, <2>1
  <2>2. CASE j \in Acked
    BY Zenon, <1>4, <1>5, <2>2 DEF AckedIsDelivered
  <2> QED BY Zenon, <1>2, <2>1, <2>2
<1>9. \A j \in Jobs : completions[j] <= IF j \in Acked' THEN 1 ELSE 0
  BY <1>2 DEF AckedIsDelivered, Shape
<1>10. Acked' \subseteq projected' \cap accepted' /\ Acked' \cap Fatal \subseteq deadLetters'
  BY Zenon, <1>1, <1>2, <1>3 DEF AckedIsDelivered
<1> QED BY <1>3, <1>7, <1>8, <1>9, <1>10 DEF AckedIsDelivered

\* A completion is counted by the only replica that is about to count it.
LEMMA CountRecorded ==
  ASSUME Shape, Counting, AckedIsDelivered, NEW r \in Replicas, recordDurableCompletion(r)
  PROVE  Counting' /\ AckedIsDelivered'
<1>1. Job(r) \in Acked /\ Job(r) \in Jobs /\ completions[Job(r)] = 0 /\ step[r] = "count"
  BY Zenon, JobIsCommitted DEF Counting, recordDurableCompletion
<1>2. /\ UNCHANGED <<projected, accepted, deadLetters, faults, committed, pending>>
      /\ completions' = [completions EXCEPT ![Job(r)] = @ + 1]
  BY Zenon DEF recordDurableCompletion
<1>3. completions'[Job(r)] = 1 /\ \A j \in Jobs : j # Job(r) => completions'[j] = completions[j]
  BY <1>1, <1>2 DEF Shape
<1>4. /\ \A q \in Replicas \ {r} : step'[q] = step[q] /\ Job(q)' = Job(q)
      /\ step'[r] \in {"idle", "project"}
  BY Zenon DEF recordDurableCompletion, Shape, Job
<1>5. Acked' = Acked
  BY Zenon, <1>2 DEF Acked
<1>6. ASSUME NEW q \in Replicas, step'[q] = "count"
      PROVE  q # r /\ Job(q)' = Job(q) /\ step[q] = "count" /\ Job(q) # Job(r) /\ Job(q) \in Jobs
  BY Zenon, <1>1, <1>4, <1>6, JobIsCommitted DEF Counting
<1>7. Counting'
  BY Zenon, <1>3, <1>5, <1>6 DEF Counting
<1>8. ASSUME NEW j \in Acked
      PROVE  completions'[j] = 1 \/ faults > 0 \/ \E q \in Replicas : step'[q] = "count" /\ Job(q)' = j
  <2>1. j \in Jobs
    BY Zenon DEF Acked, Shape
  <2>2. CASE j = Job(r)
    BY Zenon, <1>3, <2>2
  <2>3. CASE j # Job(r)
    BY Zenon, <1>3, <1>4, <2>1, <2>3 DEF AckedIsDelivered
  <2> QED BY Zenon, <2>2, <2>3
<1>9. \A j \in Jobs : completions'[j] <= IF j \in Acked THEN 1 ELSE 0
  BY <1>1, <1>3 DEF AckedIsDelivered
<1> QED BY <1>2, <1>5, <1>7, <1>8, <1>9 DEF AckedIsDelivered

\* The other steps acknowledge and count nothing, and a replica that will not
\* count what it acknowledged had a fault.
LEMMA CountRest ==
  ASSUME Shape, Counting, AckedIsDelivered, NEW r \in Replicas, Pass(r),
         ~(AckJobEffect(r) /\ Job(r) \in pending), ~recordDurableCompletion(r),
         projected \subseteq projected', accepted \subseteq accepted',
         deadLetters \subseteq deadLetters'
  PROVE  Counting' /\ AckedIsDelivered'
<1>1. Acked' = Acked /\ completions' = completions
  BY Zenon DEF Acked, Pass, Drain, PendingJobEffects, ProjectJobResult, RecordCompensation,
     Rollback, popCompensation, dispatchCompensation, PublishAccepted, processDurableFailure,
     AckJobEffect, Fails, Crash, EndsPass
<1>2. step'[r] # "count"
  BY Zenon DEF Shape, Pass, Drain, PendingJobEffects, ProjectJobResult, RecordCompensation,
     Rollback, popCompensation, dispatchCompensation, PublishAccepted, processDurableFailure,
     AckJobEffect, Fails, Crash, EndsPass
<1>3. \A q \in Replicas \ {r} : step'[q] = step[q] /\ Job(q)' = Job(q)
  BY Zenon, JobIsKept
<1>4. faults \in Nat /\ faults' \in {faults, faults + 1}
  BY Zenon, FaultsOfAPass DEF Shape
<1>5. step[r] = "count" => faults' = faults + 1
  BY Zenon DEF Pass, Drain, PendingJobEffects, ProjectJobResult, RecordCompensation,
     Rollback, popCompensation, dispatchCompensation, PublishAccepted, processDurableFailure,
     AckJobEffect, Fails, Crash, EndsPass
<1>6. (faults > 0 => faults' > 0) /\ (faults' = faults + 1 => faults' > 0)
  BY <1>4
<1>7. Counting'
  BY Zenon, <1>1, <1>2, <1>3 DEF Counting
<1>8. ASSUME NEW j \in Acked
      PROVE  completions[j] = 1 \/ faults' > 0 \/ \E q \in Replicas : step'[q] = "count" /\ Job(q)' = j
  BY Zenon, <1>3, <1>5, <1>6 DEF AckedIsDelivered
<1> QED BY <1>1, <1>7, <1>8 DEF AckedIsDelivered

\* Every step of processDurableJobEffect delivers what the next one relies on.
LEMMA DeliveryPass ==
  ASSUME Shape, DeliveryInv, NEW r \in Replicas, Pass(r)
  PROVE  DeliveryInv'
<1>1. /\ projected \subseteq projected' /\ accepted \subseteq accepted'
      /\ deadLetters \subseteq deadLetters'
  BY Zenon DEF Pass, Drain, PendingJobEffects, ProjectJobResult, RecordCompensation, Rollback,
         popCompensation, dispatchCompensation, PublishAccepted, processDurableFailure,
         AckJobEffect, recordDurableCompletion, Fails, Crash, EndsPass
<1>2. ASSUME NEW q \in Replicas \ {r} PROVE Delivered(q)'
  BY Zenon, <1>1, JobIsKept DEF DeliveryInv, Delivered
<1>3. Delivered(r)'
  <2> USE JobIsKept DEF DeliveryInv, Delivered, Shape
  <2>1. CASE PendingJobEffects(r) \/ recordDurableCompletion(r)
    BY <2>1 DEF PendingJobEffects, recordDurableCompletion
  <2>7. CASE AckJobEffect(r)
    BY Zenon, <2>7 DEF AckJobEffect
  <2>2. CASE ProjectJobResult(r)
    BY Zenon, <2>2 DEF ProjectJobResult
  <2>3. CASE RecordCompensation(r) \/ Rollback(r) \/ popCompensation(r) \/ dispatchCompensation(r)
    BY Zenon, <2>3 DEF RecordCompensation, Rollback, popCompensation, dispatchCompensation
  <2>4. CASE PublishAccepted(r)
    BY Zenon, <2>4 DEF PublishAccepted
  <2>5. CASE processDurableFailure(r)
    BY Zenon, <2>5 DEF processDurableFailure
  <2>6. CASE Fails(r) \/ Crash(r)
    BY Zenon, <2>6 DEF Fails, Crash, EndsPass
  <2> QED BY <2>1, <2>2, <2>3, <2>4, <2>5, <2>6, <2>7 DEF Pass, Drain
<1>4. Counting' /\ AckedIsDelivered'
  <2>1. CASE AckJobEffect(r) /\ Job(r) \in pending
    BY <2>1, CountAcked DEF DeliveryInv
  <2>2. CASE recordDurableCompletion(r)
    BY <2>2, CountRecorded DEF DeliveryInv
  <2>3. CASE ~(AckJobEffect(r) /\ Job(r) \in pending) /\ ~recordDurableCompletion(r)
    BY <1>1, <2>3, CountRest DEF DeliveryInv
  <2> QED BY Zenon, <2>1, <2>2, <2>3
<1> QED BY Zenon, <1>2, <1>3, <1>4 DEF DeliveryInv

\* A result that is committed is not acknowledged yet.
LEMMA DeliveryApply ==
  ASSUME Shape, DeliveryInv, NEW j \in Jobs, ApplyJobResult(j)
  PROVE  DeliveryInv'
<1>1. Acked' = Acked
  BY Zenon DEF ApplyJobResult, Acked, Shape
<1> QED BY Zenon, <1>1 DEF ApplyJobResult, DeliveryInv, Counting, Delivered, AckedIsDelivered, Job

-----------------------------------------------------------------------------
\* A compensation is put on the stack when its job is recorded for the first
\* time, so it is neither there nor was it popped.
LEMMA SagaRecord ==
  ASSUME Shape, SagaInv, NEW r \in Replicas, RecordCompensation(r)
  PROVE  SagaInv'
<1> DEFINE j == Job(r)
<1>1. j \in Jobs /\ recorded' = recorded \cup {j}
  BY Zenon, JobIsCommitted DEF RecordCompensation
<1>2. stack' \in Seq(recorded') /\ IsInjective(stack') /\ ToSet(stack') \cap ToSet(taken) = {}
  <2>1. stack \in Seq(recorded') /\ taken \in Seq(recorded)
    BY Zenon, <1>1, SeqMonotonic DEF SagaInv
  <2>2. ToSet(taken) \subseteq recorded /\ ToSet(stack) \subseteq recorded
    BY DEF SagaInv, ToSet
  <2>3. CASE j \in recorded
    BY Zenon, <2>1, <2>3 DEF RecordCompensation, SagaInv
  <2>4. CASE j \notin recorded
    <3>1. stack' = <<j>> \o stack
      BY Zenon, <2>4 DEF RecordCompensation
    <3>2. /\ <<j>> \o stack \in Seq(recorded')
          /\ ToSet(<<j>> \o stack) = ToSet(stack) \cup {j}
          /\ IsInjective(stack) /\ j \notin ToSet(stack) => IsInjective(<<j>> \o stack)
      BY <1>1, <2>1, PushOne
    <3> QED BY Zenon, <3>1, <3>2, <2>2, <2>4 DEF SagaInv
  <2> QED BY Zenon, <2>3, <2>4
<1>3. taken \in Seq(recorded') /\ popped \in [Replicas -> Seq(recorded')]
  <2>1. \A q \in Replicas : popped[q] \in Seq(recorded')
    BY Zenon, <1>1, SeqMonotonic DEF SagaInv
  <2> QED BY Zenon, <1>1, <2>1, SeqMonotonic DEF SagaInv
<1>4. UNCHANGED <<locked, dispatched, taken, popped>> /\ step' = [step EXCEPT ![r] = "publish"]
  BY Zenon DEF RecordCompensation
<1>5. \A q \in Replicas : step'[q] \in {"pop", "dispatch"} => step'[q] = step[q]
  BY Zenon, <1>4 DEF Shape
<1> HIDE DEF j
<1> QED BY <1>1, <1>2, <1>3, <1>4, <1>5 DEF SagaInv, DispatchedInPopOrder

\* Rollback starts only when no other replica rolls back, for such a replica
\* would hold the lock.
LEMMA SagaRollback ==
  ASSUME Shape, SagaInv, NEW r \in Replicas, Rollback(r)
  PROVE  SagaInv'
<1>1. /\ step' = [step EXCEPT ![r] = IF locked THEN "publish" ELSE "pop"]
      /\ locked' = TRUE /\ UNCHANGED <<recorded, stack, dispatched, taken, popped>>
  BY Zenon DEF Rollback
<1>2. \A q \in Replicas : q # r => step'[q] = step[q]
  BY Zenon, <1>1 DEF Shape
<1>3. step'[r] = IF locked THEN "publish" ELSE "pop"
  BY Zenon, <1>1 DEF Shape
<1>4. \A q, s \in Replicas : Rolling(q)' /\ Rolling(s)' => q = s
  BY Zenon, <1>2, <1>3 DEF SagaInv
<1> QED BY <1>1, <1>2, <1>3, <1>4 DEF SagaInv, DispatchedInPopOrder

\* popCompensation moves the newest compensation to the end of what was taken,
\* and what was taken before was not in anybody's hands.
LEMMA SagaPop ==
  ASSUME Shape, SagaInv, NEW r \in Replicas, popCompensation(r)
  PROVE  SagaInv'
<1> USE DEF SagaInv
<1>1. CASE stack = <<>>
  <2>1. /\ step' = [step EXCEPT ![r] = "publish"]
        /\ locked' \in {FALSE, locked} /\ UNCHANGED <<recorded, stack, dispatched, taken, popped>>
    BY Zenon, <1>1 DEF popCompensation
  <2>2. \A q \in Replicas : q # r => step'[q] = step[q] /\ ~Rolling(q)
    BY Zenon, <2>1 DEF Shape, popCompensation
  <2>3. step'[r] = "publish"
    BY Zenon, <2>1 DEF Shape
  <2> QED BY <2>1, <2>2, <2>3 DEF DispatchedInPopOrder
<1>2. CASE stack # <<>>
  <2> DEFINE c == Head(stack)
  <2>1. /\ step' = [step EXCEPT ![r] = "dispatch"]
        /\ popped' = [popped EXCEPT ![r] = <<c>>]
        /\ taken' = Append(taken, c) /\ stack' = Tail(stack)
        /\ UNCHANGED <<locked, recorded, dispatched>>
    BY Zenon, <1>2 DEF popCompensation
  <2>2. /\ c \in recorded /\ c \in ToSet(stack) /\ Tail(stack) \in Seq(recorded)
        /\ ToSet(stack) = {c} \cup ToSet(Tail(stack))
        /\ IsInjective(Tail(stack)) /\ c \notin ToSet(Tail(stack))
    BY Zenon, <1>2, HeadAndTail
  <2> HIDE DEF c
  <2>3. /\ taken' \in Seq(recorded) /\ taken' # <<>>
        /\ Len(taken') = Len(taken) + 1 /\ taken'[Len(taken) + 1] = c
        /\ \A i \in 1..Len(taken) : taken'[i] = taken[i]
        /\ ToSet(taken') = ToSet(taken) \cup {c}
    BY <2>1, <2>2, AppendOne
  <2>4. ToSet(dispatched) \subseteq ToSet(taken)
    BY DEF ToSet
  <2>5. c \notin ToSet(dispatched)
    BY Zenon, <2>2, <2>4
  <2>6. dispatched' \in Seq(ToSet(taken'))
    BY Zenon, <2>1, <2>3, SeqMonotonic
  <2>7. DispatchedInPopOrder'
    <3>1. Len(taken) \in Nat /\ DOMAIN taken = 1..Len(taken) /\ DOMAIN taken' = 1..(Len(taken) + 1)
      BY <2>3
    <3>2. \A a \in DOMAIN taken : a \in DOMAIN taken' /\ taken'[a] = taken[a]
      BY <2>3, <3>1
    <3>3. IsInjective(dispatched')
      BY Zenon, <2>1 DEF DispatchedInPopOrder
    <3> QED BY <2>1, <3>2, <3>3 DEF DispatchedInPopOrder
  <2>8. \A q \in Replicas : q # r => step'[q] = step[q] /\ ~Rolling(q)
    BY Zenon, <2>1 DEF Shape, popCompensation
  <2>9. step'[r] = "dispatch" /\ step[r] = "pop" /\ popped'[r] = <<c>> /\ <<c>> \in Seq(recorded)
    BY <2>1, <2>2 DEF Shape, popCompensation
  <2>10. popped' \in [Replicas -> Seq(recorded)]
    BY Zenon, <2>1, <2>9
  <2> QED BY <2>1, <2>2, <2>3, <2>5, <2>6, <2>7, <2>8, <2>9, <2>10
<1> QED BY Zenon, <1>1, <1>2

\* dispatchCompensation appends the compensation taken last, which comes after
\* all that were dispatched before, or skips it.
LEMMA SagaDispatch ==
  ASSUME Shape, SagaInv, NEW r \in Replicas, dispatchCompensation(r)
  PROVE  SagaInv'
<1> USE DEF SagaInv
<1>1. /\ step' = [step EXCEPT ![r] = "pop"] /\ popped' = [popped EXCEPT ![r] = <<>>]
      /\ UNCHANGED <<recorded, stack, locked, taken>>
      /\ dispatched' = dispatched \o popped[r] \/ dispatched' = dispatched
      /\ step[r] = "dispatch"
  BY Zenon DEF dispatchCompensation
<1>2. \A q \in Replicas : q # r => step'[q] = step[q] /\ ~Rolling(q)
  BY Zenon, <1>1 DEF Shape
<1>3. step'[r] = "pop"
  BY Zenon, <1>1 DEF Shape
<1>4. popped' \in [Replicas -> Seq(recorded)]
  BY Zenon, <1>1, NoElements
<1>5. dispatched' \in Seq(ToSet(taken)) /\ DispatchedInPopOrder'
  <2>1. CASE dispatched' = dispatched
    BY <1>1, <2>1 DEF DispatchedInPopOrder
  <2>2. CASE dispatched' = dispatched \o popped[r]
    <3> DEFINE n == Len(taken)  m == Len(dispatched)  c == taken[n]
    <3>1. n \in Nat /\ n # 0 /\ DOMAIN taken = 1..n /\ n \in DOMAIN taken
      <4>1. n \in Nat /\ DOMAIN taken = 1..n /\ n # 0
        BY <1>1
      <4> QED BY <4>1
    <3>2. c \in ToSet(taken) /\ c \notin ToSet(dispatched) /\ popped[r] = <<c>>
      BY Zenon, <1>1, <3>1 DEF ToSet
    <3> HIDE DEF c
    <3>3. /\ dispatched' \in Seq(ToSet(taken))
          /\ Len(dispatched') = m + 1 /\ dispatched'[m + 1] = c
          /\ \A i \in 1..m : dispatched'[i] = dispatched[i]
          /\ IsInjective(dispatched) => IsInjective(dispatched')
      <4>1. dispatched' = dispatched \o <<c>>
        BY Zenon, <2>2, <3>2
      <4>2. /\ Append(dispatched, c) \in Seq(ToSet(taken)) /\ dispatched \o <<c>> = Append(dispatched, c)
            /\ Len(Append(dispatched, c)) = m + 1 /\ Append(dispatched, c)[m + 1] = c
            /\ \A i \in 1..m : Append(dispatched, c)[i] = dispatched[i]
            /\ IsInjective(dispatched) => IsInjective(Append(dispatched, c))
        BY <3>2, AppendOne
      <4> QED BY Zenon, <4>1, <4>2
    <3>4. m \in Nat /\ DOMAIN dispatched = 1..m /\ DOMAIN dispatched' = 1..(m + 1)
      BY <3>3
    <3>5. ASSUME NEW i \in DOMAIN dispatched', NEW k \in DOMAIN dispatched', i < k
          PROVE  \E a, b \in DOMAIN taken :
                   a < b /\ taken[a] = dispatched'[i] /\ taken[b] = dispatched'[k]
      <4>1. i \in 1..m /\ dispatched'[i] = dispatched[i]
        BY <3>3, <3>4, <3>5
      <4>2. CASE k \in 1..m
        BY <3>3, <3>4, <3>5, <4>1, <4>2 DEF DispatchedInPopOrder
      <4>3. CASE k = m + 1
        <5>1. dispatched[i] \in ToSet(taken) /\ dispatched[i] \in ToSet(dispatched)
          BY <3>4, <4>1 DEF ToSet
        <5>2. PICK a \in 1..n : taken[a] = dispatched[i]
          BY <3>1, <5>1 DEF ToSet
        <5>3. a # n
          BY <3>2, <5>1, <5>2 DEF c
        <5> HIDE DEF n, SagaInv
        <5>4. a < n
          BY <3>1, <5>3
        <5>5. taken[n] = dispatched'[k]
          BY Zenon, <3>3, <4>3 DEF c
        <5> QED BY <3>1, <4>1, <5>2, <5>4, <5>5
      <4> QED BY <3>4, <4>2, <4>3
    <3>6. UNCHANGED taken /\ IsInjective(dispatched')
      BY Zenon, <1>1, <3>3 DEF DispatchedInPopOrder
    <3> QED BY <3>3, <3>5, <3>6 DEF DispatchedInPopOrder
  <2> QED BY Zenon, <1>1, <2>1, <2>2
<1> QED BY <1>1, <1>2, <1>3, <1>4, <1>5

\* A pass that ends leaves the stack alone; a lock that is deleted or expires was
\* the lock of that pass or of nobody alive.
LEMMA SagaEnds ==
  ASSUME Shape, SagaInv, NEW r \in Replicas, Fails(r) \/ Crash(r)
  PROVE  SagaInv'
<1>1. /\ step' = [step EXCEPT ![r] = "idle"] /\ popped' = [popped EXCEPT ![r] = <<>>]
      /\ UNCHANGED <<recorded, stack, taken, dispatched>>
      /\ locked' = locked \/ Rolling(r)
  BY Zenon DEF Fails, Crash, EndsPass, Shape
<1>2. \A q \in Replicas : q # r => step'[q] = step[q] /\ popped'[q] = popped[q]
  BY Zenon, <1>1 DEF Shape, SagaInv
<1>3. step'[r] = "idle" /\ popped' \in [Replicas -> Seq(recorded)]
  BY Zenon, <1>1, NoElements DEF Shape, SagaInv
<1>4. \A q \in Replicas : Rolling(q)' => Rolling(q) /\ locked'
  BY <1>1, <1>2, <1>3 DEF SagaInv
<1> QED BY <1>1, <1>2, <1>3, <1>4 DEF SagaInv, DispatchedInPopOrder

\* The other steps leave the saga and whoever rolls back alone.
LEMMA SagaRest ==
  ASSUME Shape, SagaInv, NEW r \in Replicas,
         \/ PendingJobEffects(r) \/ ProjectJobResult(r) \/ PublishAccepted(r)
         \/ processDurableFailure(r) \/ AckJobEffect(r) \/ recordDurableCompletion(r)
  PROVE  SagaInv'
<1>1. /\ UNCHANGED saga /\ ~Rolling(r)
      /\ \E s \in Steps \ {"pop", "dispatch"} : step' = [step EXCEPT ![r] = s]
  BY Zenon DEF PendingJobEffects, ProjectJobResult, PublishAccepted, processDurableFailure, AckJobEffect,
         recordDurableCompletion
<1>2. \A q \in Replicas : Rolling(q)' => step'[q] = step[q]
  BY Zenon, <1>1 DEF Shape
<1> QED BY <1>1, <1>2 DEF SagaInv, DispatchedInPopOrder

\* Every step keeps the order of the compensations.
LEMMA SagaStep ==
  ASSUME Shape, SagaInv,
         \/ \E j \in Jobs : ApplyJobResult(j)
         \/ \E r \in Replicas : Pass(r)
         \/ SagaLockExpires
  PROVE  SagaInv'
<1>1. CASE \E j \in Jobs : ApplyJobResult(j)
  BY <1>1 DEF ApplyJobResult, SagaInv, DispatchedInPopOrder
<1>2. CASE SagaLockExpires
  BY <1>2 DEF SagaLockExpires, SagaInv, DispatchedInPopOrder
<1>3. ASSUME NEW r \in Replicas, Pass(r) PROVE SagaInv'
  BY <1>3, SagaRecord, SagaRollback, SagaPop, SagaDispatch, SagaEnds, SagaRest DEF Pass, Drain
<1> QED BY Zenon, <1>1, <1>2, <1>3

-----------------------------------------------------------------------------
\* A step that leaves the saga and whoever rolls back alone, and settles no
\* fatal job that was not settled.
LEMMA RollbackFrame ==
  ASSUME RollbackInv, UNCHANGED <<owed, saga>>,
         \A q \in Replicas : Rolling(q) \/ Rolling(q)' => step'[q] = step[q],
         \A j \in Fatal : Settled(j)' => Settled(j)
  PROVE  RollbackInv'
  BY Zenon DEF RollbackInv

\* A replica that is past the saga after a step of r was so before, or is r.
LEMMA PastIsKept ==
  ASSUME Shape, NEW r \in Replicas, Pass(r), NEW q \in Replicas, NEW j, Past(q, j)'
  PROVE  \/ Past(q, j)
         \/ q = r /\ step[r] \in {"saga", "pop"} /\ Job(r) = j
<1>1. CASE q # r
  BY Zenon, <1>1, JobIsKept DEF Past
<1>2. CASE q = r
  <2>1. Job(r) = j /\ step'[r] \in {"publish", "failure", "ack", "count"}
    BY Zenon, <1>2, JobIsKept DEF Past
  <2>2. step[r] \in {"publish", "failure", "ack", "saga", "pop"}
    BY Zenon, <2>1 DEF Shape, Pass, Drain, PendingJobEffects, ProjectJobResult, RecordCompensation,
           Rollback, popCompensation, dispatchCompensation, PublishAccepted,
           processDurableFailure, AckJobEffect, recordDurableCompletion, Fails, Crash, EndsPass
  <2> QED BY Zenon, <1>2, <2>1, <2>2 DEF Past
<1> QED BY <1>1, <1>2

\* A result that is committed is owed what is on the stack, and nobody has its
\* effect yet.
LEMMA RollbackApply ==
  ASSUME Shape, SagaInv, RollbackInv, NEW j \in Jobs, ApplyJobResult(j)
  PROVE  RollbackInv'
<1>1. owed' = [owed EXCEPT ![j] = ToSet(stack)] /\ UNCHANGED <<todo, step, saga>>
  BY Zenon DEF ApplyJobResult
<1>2. ToSet(stack) \subseteq Jobs
  BY DEF SagaInv, ToSet
<1>3. owed' \in [Jobs -> SUBSET Jobs]
  BY Zenon, <1>1, <1>2 DEF RollbackInv
<1>4. Acked' = Acked /\ j \notin Acked
  BY Zenon DEF ApplyJobResult, Acked, Shape
<1>5. \A i : Settled(i)' <=> Settled(i)
  BY Zenon, <1>1, <1>4 DEF Settled, Past, Job
<1>6. ~Settled(j)
  BY <1>4, JobIsCommitted DEF Settled, Past, ApplyJobResult
<1>7. \A i \in Jobs : i # j => owed'[i] = owed[i]
  BY Zenon, <1>1 DEF RollbackInv
<1>8. owed'[j] = ToSet(stack)
  BY Zenon, <1>1 DEF RollbackInv
<1> QED BY <1>1, <1>3, <1>5, <1>6, <1>7, <1>8, OutboxAssumption DEF RollbackInv

\* The steps outside the saga settle nothing that was not settled.
LEMMA RollbackRest ==
  ASSUME Shape, RollbackInv, NEW r \in Replicas,
         \/ PendingJobEffects(r) \/ ProjectJobResult(r) \/ PublishAccepted(r)
         \/ processDurableFailure(r) \/ AckJobEffect(r) \/ recordDurableCompletion(r)
  PROVE  RollbackInv'
<1>1. Pass(r)
  BY Zenon DEF Pass, Drain
<1>2. /\ UNCHANGED <<owed, saga>> /\ step[r] \notin {"pop", "dispatch", "saga"}
      /\ \E s \in Steps \ {"pop", "dispatch"} : step' = [step EXCEPT ![r] = s]
  BY Zenon DEF PendingJobEffects, ProjectJobResult, PublishAccepted, processDurableFailure, AckJobEffect,
         recordDurableCompletion
<1>3. \A q \in Replicas : Rolling(q) \/ Rolling(q)' => step'[q] = step[q]
  BY Zenon, <1>2 DEF Shape
<1>4. \A i \in Acked' : i \in Acked \/ Past(r, i)
  BY Zenon DEF Acked, Past, PendingJobEffects, ProjectJobResult, PublishAccepted,
         processDurableFailure, AckJobEffect,
         recordDurableCompletion
<1>5. \A i \in Fatal : Settled(i)' => Settled(i)
  BY Zenon, <1>1, <1>2, <1>4, PastIsKept DEF Settled
<1> QED BY <1>2, <1>3, <1>5, RollbackFrame

\* A compensation that is recorded goes on the stack, and its job is no fatal one.
LEMMA RollbackRecord ==
  ASSUME Shape, SagaInv, RollbackInv, NEW r \in Replicas, RecordCompensation(r)
  PROVE  RollbackInv'
<1>1. Pass(r)
  BY Zenon DEF Pass, Drain
<1>2. /\ UNCHANGED <<committed, pending, owed, locked, dispatched, denied, taken, popped, broken>>
      /\ step' = [step EXCEPT ![r] = "publish"] /\ step[r] = "saga" /\ Job(r) \notin Fatal
  BY Zenon DEF RecordCompensation
<1>3. \A q \in Replicas : Rolling(q) \/ Rolling(q)' => step'[q] = step[q]
  BY Zenon, <1>2 DEF Shape
<1>4. ToSet(stack) \subseteq ToSet(stack')
  <2>1. CASE Job(r) \in recorded
    BY Zenon, <2>1 DEF RecordCompensation
  <2>2. CASE Job(r) \notin recorded
    <3>1. stack' = <<Job(r)>> \o stack /\ stack \in Seq(Jobs) /\ Job(r) \in Jobs
      BY Zenon, <2>2, JobIsCommitted, SeqMonotonic DEF RecordCompensation, SagaInv
    <3> QED BY <3>1, PushOne
  <2> QED BY Zenon, <2>1, <2>2
<1>5. \A i \in Fatal : Settled(i)' => Settled(i)
  BY Zenon, <1>1, <1>2, PastIsKept DEF Settled, Acked
<1> QED BY <1>2, <1>3, <1>4, <1>5 DEF RollbackInv

\* Rollback rolls back, or leaves it to a replica that does.
LEMMA RollbackRollback ==
  ASSUME Shape, SagaInv, RollbackInv, NEW r \in Replicas, Rollback(r)
  PROVE  RollbackInv'
<1>1. /\ step' = [step EXCEPT ![r] = IF locked THEN "publish" ELSE "pop"] /\ step[r] = "saga"
      /\ UNCHANGED <<owed, stack, dispatched, denied, taken, popped, broken>>
  BY Zenon DEF Rollback
<1>2. \A q \in Replicas : q # r => step'[q] = step[q]
  BY Zenon, <1>1 DEF Shape
<1>3. step'[r] = IF locked THEN "publish" ELSE "pop"
  BY Zenon, <1>1 DEF Shape
<1>4. \A q \in Replicas : step[q] = "dispatch" => step'[q] = "dispatch"
  BY Zenon, <1>1, <1>2
<1>5. broken \/ \E q \in Replicas : Rolling(q)'
  <2>1. CASE locked
    BY Zenon, <1>1, <1>2, <2>1 DEF RollbackInv
  <2>2. CASE ~locked
    BY Zenon, <1>3, <2>2
  <2> QED BY Zenon, <2>1, <2>2
<1> QED BY Zenon, <1>1, <1>4, <1>5 DEF RollbackInv

\* popCompensation moves a compensation to what was taken, into the hands of its
\* replica; a rollback that ends leaves nothing on the stack.
LEMMA RollbackPop ==
  ASSUME Shape, SagaInv, RollbackInv, NEW r \in Replicas, popCompensation(r)
  PROVE  RollbackInv'
<1>1. step[r] = "pop" /\ UNCHANGED <<owed, dispatched, denied>>
  BY Zenon DEF popCompensation
<1>2. \A q \in Replicas : step[q] # "dispatch"
  BY Zenon, <1>1 DEF SagaInv
<1>3. broken \/ \A c \in ToSet(taken) : c \in ToSet(dispatched) \cup denied
  BY Zenon, <1>2 DEF RollbackInv
<1>4. CASE stack = <<>>
  <2>3. /\ UNCHANGED <<stack, taken, popped>>
        /\ (locked' = FALSE /\ broken' = broken) \/ broken' = TRUE
    BY Zenon, <1>4 DEF popCompensation
  <2>1. UNCHANGED <<stack, taken, popped>> /\ (locked' => broken') /\ (broken => broken')
    BY <2>3
  <2>2. \A j \in Jobs : owed[j] \subseteq ToSet(taken)
    BY Zenon, <1>4, NoElements DEF RollbackInv
  <2> QED BY <1>1, <1>3, <2>1, <2>2, OutboxAssumption DEF RollbackInv
<1>5. CASE stack # <<>>
  <2> DEFINE c == Head(stack)
  <2>1. /\ step' = [step EXCEPT ![r] = "dispatch"]
        /\ popped' = [popped EXCEPT ![r] = <<c>>]
        /\ taken' = Append(taken, c) /\ stack' = Tail(stack) /\ UNCHANGED broken
    BY Zenon, <1>5 DEF popCompensation
  <2>2. c \in recorded /\ ToSet(stack) = {c} \cup ToSet(Tail(stack))
    BY Zenon, <1>5, HeadAndTail DEF SagaInv
  <2> HIDE DEF c
  <2>3. ToSet(taken') = ToSet(taken) \cup {c}
    BY <2>1, <2>2, AppendOne DEF SagaInv
  <2>4. step'[r] = "dispatch" /\ popped'[r] = <<c>>
    BY Zenon, <2>1 DEF Shape, SagaInv
  <2>5. \A j \in Jobs : owed[j] \subseteq ToSet(stack') \cup ToSet(taken')
    BY Zenon, <2>1, <2>2, <2>3 DEF RollbackInv
  <2> QED BY <1>1, <1>3, <2>1, <2>3, <2>4, <2>5 DEF RollbackInv
<1> QED BY Zenon, <1>4, <1>5

\* dispatchCompensation publishes or denies what it has in its hands.
LEMMA RollbackDispatch ==
  ASSUME Shape, SagaInv, RollbackInv, NEW r \in Replicas, dispatchCompensation(r)
  PROVE  RollbackInv'
<1>1. /\ step[r] = "dispatch" /\ step' = [step EXCEPT ![r] = "pop"]
      /\ UNCHANGED <<owed, stack, locked, taken, broken>>
  BY Zenon DEF dispatchCompensation
<1>2. step'[r] = "pop"
  BY Zenon, <1>1 DEF Shape
<1> DEFINE c == taken[Len(taken)]
<1>3. popped[r] = <<c>> /\ taken # <<>> /\ taken \in Seq(recorded)
  BY Zenon, <1>1 DEF SagaInv
<1>4. c \in ToSet(taken)
  BY <1>3 DEF ToSet
<1>5. \A q \in Replicas : step[q] = "dispatch" => q = r
  BY Zenon, <1>1 DEF SagaInv
<1> HIDE DEF c
<1>6. ToSet(popped[r]) = {c} /\ <<c>>[1] = c
  BY <1>3 DEF ToSet
<1>7. ToSet(dispatched) \cup denied \cup {c} \subseteq ToSet(dispatched') \cup denied'
  <2>1. CASE dispatched' = dispatched \o <<c>> /\ denied' = denied
    <3>1. ToSet(dispatched') = ToSet(dispatched) \cup {c}
      <4>1. dispatched \in Seq(ToSet(taken))
        BY Zenon DEF SagaInv
      <4>2. /\ dispatched \o <<c>> = Append(dispatched, c)
            /\ ToSet(Append(dispatched, c)) = ToSet(dispatched) \cup {c}
        BY <1>4, <4>1, AppendOne
      <4> QED BY Zenon, <2>1, <4>2
    <3> QED BY Zenon, <2>1, <3>1
  <2>2. CASE dispatched' = dispatched /\ denied' = denied \cup {c}
    BY Zenon, <2>2
  <2>3. \/ dispatched' = dispatched \o popped[r] /\ denied' = denied
        \/ dispatched' = dispatched /\ denied' = denied \cup ToSet(popped[r])
    BY Zenon DEF dispatchCompensation
  <2> QED BY <1>3, <1>6, <2>1, <2>2, <2>3
<1>8. broken \/ \A d \in ToSet(taken) : d \in ToSet(dispatched) \cup denied \cup {c}
  <2> SUFFICES ASSUME ~broken, NEW d \in ToSet(taken), d \notin ToSet(dispatched) \cup denied
               PROVE  d = c
    BY Zenon
  <2>1. popped[r] = <<d>>
    BY Zenon, <1>5 DEF RollbackInv
  <2>2. <<d>>[1] = d
    BY Zenon
  <2> QED BY Zenon, <1>3, <1>6, <2>1, <2>2
<1> QED BY <1>1, <1>2, <1>7, <1>8 DEF RollbackInv

\* A fault of the replica that rolls back breaks the rollback; a fault of another
\* replica settles nothing.
LEMMA RollbackEnds ==
  ASSUME Shape, SagaInv, RollbackInv, NEW r \in Replicas, Fails(r) \/ Crash(r)
  PROVE  RollbackInv'
<1>1. /\ step' = [step EXCEPT ![r] = "idle"] /\ popped' = [popped EXCEPT ![r] = <<>>]
      /\ UNCHANGED <<committed, pending, owed, stack, taken, dispatched, denied>>
      /\ IF Rolling(r) THEN broken' ELSE broken' = broken /\ locked' = locked
  BY Zenon DEF Fails, Crash, EndsPass, Shape
<1>2. CASE Rolling(r)
  BY Zenon, <1>1, <1>2 DEF RollbackInv
<1>3. CASE ~Rolling(r)
  <2>1. \A q \in Replicas : q # r => step'[q] = step[q] /\ popped'[q] = popped[q]
    BY Zenon, <1>1 DEF Shape, SagaInv
  <2>2. step'[r] = "idle"
    BY Zenon, <1>1 DEF Shape
  <2>3. \A q \in Replicas : Rolling(q) => step'[q] = step[q] /\ popped'[q] = popped[q]
    BY Zenon, <1>3, <2>1
  <2>4. Pass(r)
    BY Zenon DEF Pass
  <2>5. \A q \in Replicas, j \in Fatal : Past(q, j)' => Past(q, j)
    BY Zenon, <2>1, <2>2, <2>4, JobIsKept DEF Past
  <2>6. \A j \in Fatal : Settled(j)' => Settled(j)
    BY Zenon, <1>1, <2>5 DEF Settled, Acked
  <2>7. broken' \/ \A c \in ToSet(taken) :
          \/ c \in ToSet(dispatched) \cup denied
          \/ \E q \in Replicas : step'[q] = "dispatch" /\ popped'[q] = <<c>>
    BY Zenon, <1>1, <1>3, <2>3 DEF RollbackInv
  <2> QED BY Zenon, <1>1, <1>3, <2>3, <2>6, <2>7 DEF RollbackInv
<1> QED BY Zenon, <1>2, <1>3

-----------------------------------------------------------------------------
\* Every step of the outbox keeps the invariant.
LEMMA OutboxStep == OutboxInv /\ [OutboxNext]_ovars => OutboxInv'
<1> SUFFICES ASSUME OutboxInv, [OutboxNext]_ovars PROVE OutboxInv'
  BY Zenon
<1> USE DEF OutboxInv
<1>1. CASE \E j \in Jobs : ApplyJobResult(j)
  BY <1>1, ShapeApply, DeliveryApply, SagaStep, RollbackApply
<1>2. ASSUME NEW r \in Replicas, Pass(r) PROVE OutboxInv'
  <2>1. RollbackInv'
    BY <1>2, RollbackRest, RollbackRecord, RollbackRollback, RollbackPop, RollbackDispatch,
       RollbackEnds DEF Pass, Drain
  <2> QED BY <1>2, <2>1, ShapePass, DeliveryPass, SagaStep
<1>3. CASE SagaLockExpires \/ UNCHANGED ovars
  <2>1. UNCHANGED <<committed, pending, owed, todo, step, recorded, stack, dispatched, denied,
                    taken, popped, broken, sinks, faults>>
    BY Zenon, <1>3 DEF SagaLockExpires, ovars
  <2>2. locked' \in {FALSE, locked}
    BY Zenon, <1>3 DEF SagaLockExpires, ovars
  <2>3. Shape'
    BY Zenon, <2>1, <2>2 DEF Shape
  <2>4. DeliveryInv'
    BY Zenon, <2>1 DEF DeliveryInv, Counting, Delivered, AckedIsDelivered, Acked, Job
  <2>5. SagaInv'
    <3>1. CASE SagaLockExpires
      BY Zenon, <3>1, SagaStep
    <3>2. CASE UNCHANGED ovars
      BY <3>2 DEF ovars, SagaInv, DispatchedInPopOrder
    <3> QED BY Zenon, <1>3, <3>1, <3>2
  <2>6. RollbackInv'
    <3>1. \A j \in Fatal : Settled(j)' <=> Settled(j)
      BY Zenon, <2>1 DEF Settled, Past, Acked, Job
    <3>2. locked' => locked
      BY Zenon, <2>2
    <3> QED BY Zenon, <2>1, <3>1, <3>2 DEF RollbackInv
  <2> QED BY Zenon, <2>3, <2>4, <2>5, <2>6
<1> QED BY Zenon, <1>1, <1>2, <1>3 DEF OutboxNext, Pass

\* The inductive invariant holds in every reachable state, with any number of
\* replicas draining, failing and dying.
THEOREM OutboxInvariant == OutboxSpec => []OutboxInv
  BY InitOutbox, OutboxStep, PTL DEF OutboxSpec

\* AckJobEffect comes after every delivery in processDurableJobEffect and deletes
\* the effect: whatever is acknowledged was projected, published and, when it
\* failed, put in the dead letter queue; its completion is counted at most once,
\* not before, and is counted unless there was a fault.
THEOREM OutboxDelivers == OutboxSpec => []AckedIsDelivered
<1>1. OutboxInv => AckedIsDelivered
  BY Zenon DEF OutboxInv, DeliveryInv
<1> QED BY <1>1, OutboxInvariant, PTL

\* recordCompensationScript pushes once per job and Rollback runs under the lock:
\* no compensation is dispatched twice, and they go out in the order of the stack.
THEOREM SagaOrder == OutboxSpec => []DispatchedInPopOrder
<1>1. OutboxInv => DispatchedInPopOrder
  BY Zenon DEF OutboxInv, SagaInv
<1> QED BY <1>1, OutboxInvariant, PTL

\* processDurableSaga comes before the acknowledgement, and a replica that finds
\* the lock taken may rely on its owner: a fatal failure that was acknowledged has
\* had its compensations dispatched or denied, or a replica is still at it, or a
\* fault ended a rollback or left its lock.
THEOREM RollbackRuns == OutboxSpec => []AckedRollbackRan
<1>1. OutboxInv => AckedRollbackRan
  <2> SUFFICES ASSUME OutboxInv, NEW j \in Acked \cap Fatal, ~broken,
                      \A r \in Replicas : ~Rolling(r)
               PROVE  owed[j] \subseteq ToSet(dispatched) \cup denied
    BY Zenon DEF AckedRollbackRan
  <2>1. owed[j] \subseteq ToSet(taken)
    BY Zenon DEF OutboxInv, RollbackInv, Settled
  <2>2. ToSet(taken) \subseteq ToSet(dispatched) \cup denied
    BY Zenon DEF OutboxInv, RollbackInv
  <2> QED BY Zenon, <2>1, <2>2
<1> QED BY <1>1, OutboxInvariant, PTL
=============================================================================
