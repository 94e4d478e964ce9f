------------------------ MODULE CompatResultProofs -------------------------
(***************************************************************************)
(* Proofs about the compatibility result path, for any number of copies of *)
(* the result, deliveries and faults.  None of the three properties is     *)
(* inductive: each needs to know what a handler inside withJobLock has     *)
(* already established, and that there is at most one such handler.        *)
(***************************************************************************)
EXTENDS CompatResult, TLAPS

\* The types the argument needs.  The lock names the handler inside it.
Shape ==
  /\ report \in Reports /\ fencing \in Fencings /\ verdict \in Verdicts
  /\ accepted \in BOOLEAN /\ pointer \in BOOLEAN /\ deadLetter \in BOOLEAN
  /\ applied \in Nat
  /\ pc \in [Messages -> Labels]
  /\ \A m \in Messages : pc[m] \in Locked => lock = m

\* The fence has let handler m through, and m has not written the outcome.
Passed(m) == pc[m] \in {"pointer", "state"}

\* What the fence remembers accounts for the handler it let through and for
\* every outcome that was written.
FenceCounts ==
  /\ fencing = "current" =>
       /\ applied <= 1
       /\ applied = 1 => accepted
       /\ \A m \in Messages : Passed(m) => accepted /\ applied = 0
  /\ fencing = "stale" => applied = 0 /\ \A m \in Messages : ~Passed(m)

\* The pointer is stored before a handler goes on to the state.
PointerFirst ==
  /\ state \in {"RUNNING", Outcome}
  /\ state # "RUNNING" => pointer
  /\ \A m \in Messages : pc[m] \in {"state", "dlq"} => pointer

\* A failure is in the DLQ, on its way there, or one of the two calls that may
\* lose it failed; and a message that is being handled is not acknowledged.
FailureIsTracked ==
  /\ \A m \in Messages : pc[m] # "idle" => m \in unacked
  /\ state \in {"FAILED", "OUTPUT_QUARANTINED"} =>
       deadLetter \/ "dlq" \in failed \/ "answer" \in failed \/ \E m \in Messages : pc[m] = "dlq"

\* What the handler of message m may do next.
Step(m) ==
  \/ Deliver(m) \/ Lock(m) \/ Check(m) \/ Fence(m) \/ SetResultPtr(m)
  \/ SetJobState(m) \/ EmitDLQ(m) \/ PublishAccepted(m) \/ Ack(m) \/ Retry(m)

CompatInv == Shape /\ FenceCounts /\ PointerFirst /\ FailureIsTracked

USE DEF Labels, Locked, Goto, Return, Fault, FaultAt, Abandon, result, store, bus, bounds

-----------------------------------------------------------------------------
\* The result begins unhandled.
LEMMA InitCompat == CompatInit => CompatInv
<1> SUFFICES ASSUME CompatInit PROVE CompatInv
  BY Zenon
<1> USE DEF CompatInit
<1>1. Shape
  BY Zenon DEF Shape
<1>2. FenceCounts
  BY DEF FenceCounts, Passed
<1>3. PointerFirst
  BY Zenon DEF PointerFirst
<1>4. FailureIsTracked
  BY Zenon DEF FailureIsTracked
<1> QED BY Zenon, <1>1, <1>2, <1>3, <1>4 DEF CompatInv

\* The types, and that only the holder of the lock is inside it.
LEMMA ShapeStep ==
  ASSUME Shape, NEW m \in Messages, Step(m)
  PROVE  Shape'
<1> USE CompatAssumption DEF Shape
<1>1. CASE Deliver(m)
  BY Zenon, <1>1 DEF Deliver
<1>2. CASE Lock(m)
  BY Zenon, <1>2 DEF Lock
<1>3. CASE Check(m)
  BY Zenon, <1>3 DEF Check
<1>4. CASE Fence(m)
  BY Zenon, <1>4 DEF Fence
<1>5. CASE SetResultPtr(m)
  BY Zenon, <1>5 DEF SetResultPtr
<1>6. CASE SetJobState(m)
  BY <1>6 DEF SetJobState
<1>7. CASE EmitDLQ(m)
  BY Zenon, <1>7 DEF EmitDLQ
<1>8. CASE PublishAccepted(m)
  BY Zenon, <1>8 DEF PublishAccepted
<1>9. CASE Ack(m)
  BY Zenon, <1>9 DEF Ack
<1>10. CASE Retry(m)
  BY Zenon, <1>10 DEF Retry
<1> QED BY Zenon, <1>1, <1>2, <1>3, <1>4, <1>5, <1>6, <1>7, <1>8, <1>9, <1>10 DEF Step

\* What the fence remembers keeps up with the handlers.  Two handlers are never
\* past the fence together, because both would hold the lock.
LEMMA FenceStep ==
  ASSUME Shape, FenceCounts, NEW m \in Messages, Step(m)
  PROVE  FenceCounts'
<1> USE DEF Shape, FenceCounts, Passed
<1>1. CASE Fence(m)
  <2>1. \A n \in Messages : n # m => ~Passed(n)
    BY Zenon, <1>1 DEF Fence
  <2> QED BY <1>1, <2>1 DEF Fence
<1>2. CASE SetJobState(m)
  <2>1. \A n \in Messages : n # m => ~Passed(n)
    BY Zenon, <1>2 DEF SetJobState
  <2> QED BY <1>2, <2>1 DEF SetJobState
<1>3. CASE SetResultPtr(m)
  BY Zenon, <1>3 DEF SetResultPtr
<1>4. CASE Deliver(m) \/ Lock(m) \/ Check(m) \/ EmitDLQ(m) \/ PublishAccepted(m) \/ Ack(m)
           \/ Retry(m)
  BY Zenon, <1>4 DEF Deliver, Lock, Check, EmitDLQ, PublishAccepted, Ack, Retry
<1> QED BY Zenon, <1>1, <1>2, <1>3, <1>4 DEF Step

\* The pointer stays where it is once it was written.
LEMMA PointerStep ==
  ASSUME Shape, PointerFirst, NEW m \in Messages, Step(m)
  PROVE  PointerFirst'
<1> USE DEF Shape, PointerFirst
<1>1. Outcome' = Outcome
  BY Zenon DEF Step, Deliver, Lock, Check, Fence, SetResultPtr, SetJobState, EmitDLQ,
         PublishAccepted, Ack, Retry, Outcome
<1>2. CASE SetResultPtr(m)
  BY Zenon, <1>1, <1>2 DEF SetResultPtr
<1>3. CASE SetJobState(m)
  BY Zenon, <1>1, <1>3 DEF SetJobState
<1>4. CASE Fence(m)
  BY Zenon, <1>1, <1>4 DEF Fence
<1>5. CASE Deliver(m) \/ Lock(m) \/ Check(m) \/ EmitDLQ(m) \/ PublishAccepted(m) \/ Ack(m)
           \/ Retry(m)
  BY Zenon, <1>1, <1>5 DEF Deliver, Lock, Check, EmitDLQ, PublishAccepted, Ack, Retry
<1> QED BY Zenon, <1>2, <1>3, <1>4, <1>5 DEF Step

\* A failure that was written is not lost sight of: the handler that wrote it
\* emits the entry, or is recorded as having failed there.
LEMMA TrackedStep ==
  ASSUME Shape, PointerFirst, FailureIsTracked, NEW m \in Messages, Step(m)
  PROVE  FailureIsTracked'
<1> USE DEF Shape, FailureIsTracked
<1>1. CASE SetJobState(m)
  BY Zenon, <1>1 DEF SetJobState
<1>2. CASE EmitDLQ(m)
  BY Zenon, <1>2 DEF EmitDLQ, PointerFirst
<1>3. CASE Retry(m)
  BY Zenon, <1>3 DEF Retry
<1>4. CASE Ack(m)
  BY Zenon, <1>4 DEF Ack
<1>5. CASE Check(m)
  BY Zenon, <1>5 DEF Check
<1>6. CASE Fence(m)
  BY Zenon, <1>6 DEF Fence
<1>7. CASE Deliver(m) \/ Lock(m) \/ SetResultPtr(m) \/ PublishAccepted(m)
  BY Zenon, <1>7 DEF Deliver, Lock, SetResultPtr, PublishAccepted
<1> QED BY Zenon, <1>1, <1>2, <1>3, <1>4, <1>5, <1>6, <1>7 DEF Step

\* A step of any handler, and a stutter, keep the invariant.
LEMMA CompatStep ==
  ASSUME CompatInv, [CompatNext]_cvars
  PROVE  CompatInv'
<1>1. ASSUME NEW m \in Messages, Step(m)
      PROVE  CompatInv'
  BY Zenon, <1>1, ShapeStep, FenceStep, PointerStep, TrackedStep DEF CompatInv
<1>2. CASE UNCHANGED cvars
  BY Zenon, <1>2 DEF cvars, CompatInv, Shape, FenceCounts, PointerFirst, FailureIsTracked, Passed,
              Outcome
<1> QED BY Zenon, <1>1, <1>2 DEF CompatNext, Step

\* CompatInv holds for any number of copies, deliveries and faults.
THEOREM CompatInvariant == CompatSpec => []CompatInv
<1> QED BY InitCompat, CompatStep, PTL DEF CompatSpec

\* AcceptJobEvent makes the handler idempotent: a result of the current dispatch
\* is applied once and one of a superseded dispatch never.
THEOREM ResultAppliesOnce == CompatSpec => []FencedAppliesOnce
<1>1. CompatInv => FencedAppliesOnce
  BY Zenon DEF CompatInv, FenceCounts, FencedAppliesOnce
<1> QED BY <1>1, CompatInvariant, PTL

\* No job has its outcome without the pointer to its result.
THEOREM PointerPrecedesOutcome == CompatSpec => []PointerBeforeOutcome
<1>1. CompatInv => PointerBeforeOutcome
  BY Zenon DEF CompatInv, PointerFirst, PointerBeforeOutcome
<1> QED BY <1>1, CompatInvariant, PTL

\* A failure or a quarantined result whose messages are all acknowledged is in
\* the DLQ, unless the emission of its entry failed or the state was stored
\* without its answer arriving.
THEOREM FailureReachesDLQ == CompatSpec => []FailureIsInDLQ
<1>1. CompatInv => FailureIsInDLQ
  BY Zenon DEF CompatInv, FailureIsTracked, FailureIsInDLQ
<1> QED BY <1>1, CompatInvariant, PTL
=============================================================================
