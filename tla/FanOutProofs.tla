---------------------------- MODULE FanOutProofs ----------------------------
(***************************************************************************)
(* The fan-out steps of FanOut, for steps of any width, limit and number   *)
(* of retries and any number of crashes and errors.                        *)
(*                                                                         *)
(* The invariant ties the handler's copy of the document to the jobs: every *)
(* job that was sent and not reported is the current job of a child that   *)
(* copy calls running, or is one the errors and the forgotten passes       *)
(* account for; a child that is not running has a job that was reported;   *)
(* and as long as nothing was forgotten, the document of a step without a  *)
(* condition holds every child that has a job and is only over when every  *)
(* child is.                                                               *)
(***************************************************************************)
EXTENDS FanOut, FiniteSetTheorems, TLAPS

\* Where a handler is, and what the document in Redis allows it to be doing.
PassInv ==
  /\ pc = "idle" => mem = run
  /\ pc # "idle" => run.status \notin Terminal
  /\ pc \in {"evaluate", "dispatch"} => mem.status \notin Terminal
  /\ pc = "dispatch" /\ step.kind = "loop" => \A c \in Children : mem.child[c].status # "running"

\* A result is of a job that was reported, and of one that succeeded if it says so.
Tells(jb, r) ==
  jb[r.job] \in Reported /\ (r.status = "SUCCEEDED" => jb[r.job] = "SUCCEEDED")

\* Results tell of their jobs, and a child succeeds with a job of its own.
WorkInv ==
  /\ \A r \in results : Tells(job, r)
  /\ \A c \in Children : run.child[c].status = "succeeded" => Succeeded(c)
  /\ \A c \in Children : mem.child[c].status = "succeeded" => Succeeded(c)

\* The children of document m whose current job may be unreported, the jobs being jb.
Busy(m, jb) ==
  {c \in Children : \/ m.child[c].status = "running"
                    \/ /\ m.child[c].status = "cancelled" /\ m.child[c].job # NoJob
                       /\ jb[<<c, m.child[c].job>>] \notin Reported}

\* The job of a child that is not running was reported, but for one the step stopped.
Settled(m, jb) ==
  \A c \in Children :
    m.child[c].job # NoJob /\ m.child[c].status # "running" =>
      \/ jb[<<c, m.child[c].job>>] \in Reported
      \/ m.child[c].status = "cancelled" /\ m.status \in Terminal /\ step.kind # "loop"

Bounded(m, jb) == Settled(m, jb) /\ Cardinality(Busy(m, jb)) <= Limit

Tracks(m, jb, j) == j[1] \in Busy(m, jb) /\ j[2] = m.child[j[1]].job

\* Every unreported job is tracked by the handler's copy, or one of a bounded set was lost.
LimitInv ==
  /\ Bounded(run, job) /\ Bounded(mem, job)
  /\ \E L \in SUBSET Jobs :
       /\ Cardinality(L) <= Limit * forgot + budget.made
       /\ \A j \in Jobs : Unreported(j) => j \in L \/ Tracks(mem, job, j)

\* What a success stands on, as the document says it.
EarnedBy(m) ==
  CASE step.kind = "foreach" -> \A c \in Children : m.child[c].status = "succeeded"
    [] step.kind = "parallel" ->
         Cardinality({c \in Children : m.child[c].status = "succeeded"}) >= step.required
    [] step.kind = "loop" ->
         \A c \in Children : m.child[c].status \in {"", "succeeded", "denied"}

\* The children of a loop come one after the other, those of another step
\* together; and a step that is over has only children that are.
Whole(m) ==
  /\ step.kind # "loop" => \A c, d \in Children : m.child[c].status = "" => m.child[d].status = ""
  /\ step.kind = "loop" => \A c, d \in Children :
       d < c /\ m.child[c].status # "" => m.child[d].status \in {"succeeded", "denied"}
  /\ m.status \in Terminal => \A c \in Children : m.child[c].status \in Terminal \cup {""}
  /\ m.status = "succeeded" => EarnedBy(m)

WholeInv ==
  forgot = 0 /\ ~step.gated =>
    /\ Whole(run) /\ Whole(mem)
    /\ \A j \in Jobs : j \in submits \/ job[j] # "none" => mem.child[j[1]].status # ""

\* An unreported job was told to stop, or is the current job of a running child.
ToldInv ==
  forgot = 0 /\ budget.made = 0 =>
    \A j \in Jobs : Unreported(j) =>
      \/ j \in cancels
      \/ mem.child[j[1]].status = "running" /\ mem.child[j[1]].job = j[2]

FanOutInv == FanOutTypeOK /\ PassInv /\ WorkInv /\ LimitInv /\ WholeInv /\ ToldInv

-----------------------------------------------------------------------------
(* Documents.                                                              *)

\* The status of the step is replaced.
LEMMA SetStep ==
  ASSUME NEW m \in Documents, NEW s \in Statuses, NEW to, to = [m EXCEPT !.status = s]
  PROVE  to \in Documents /\ to.status = s /\ to.child = m.child
  BY Zenon DEF Documents

\* The status of a StepRun is replaced.
LEMMA SetStatusOf ==
  ASSUME NEW sr \in StepRuns, NEW s \in Statuses, NEW to, to = [sr EXCEPT !.status = s]
  PROVE  /\ to \in StepRuns /\ to.status = s /\ to.job = sr.job /\ to.attempts = sr.attempts
  BY Zenon DEF StepRuns

\* What cancelForEachSiblings and cancelParallelChildren leave.
LEMMA StoppedIs ==
  ASSUME NEW m \in Documents
  PROVE  /\ Stopped(m) \in Documents
         /\ Stopped(m).status = m.status
         /\ \A c \in Children :
              /\ Stopped(m).child[c].job = m.child[c].job
              /\ Stopped(m).child[c].status =
                   IF m.child[c].status \in Terminal \cup {""} THEN m.child[c].status ELSE "cancelled"
<1> DEFINE with == [c \in Children |->
      IF c \in Unfinished(m) THEN [m.child[c] EXCEPT !.status = "cancelled"] ELSE m.child[c]]
<1>1. \A c \in Children : m.child[c] \in StepRuns
  BY Zenon DEF Documents
<1>2. "cancelled" \in Statuses
  BY Zenon DEF Statuses, Terminal
<1>3. \A c \in Children :
        /\ [m.child[c] EXCEPT !.status = "cancelled"] \in StepRuns
        /\ [m.child[c] EXCEPT !.status = "cancelled"].status = "cancelled"
        /\ [m.child[c] EXCEPT !.status = "cancelled"].job = m.child[c].job
  BY <1>1, <1>2, SetStatusOf
<1>4. with \in [Children -> StepRuns]
  BY Zenon, <1>1, <1>3
<1>5. /\ Stopped(m) \in Documents
      /\ Stopped(m).status = m.status
      /\ Stopped(m).child = with
  <2> HIDE DEF with
  <2>1. [m EXCEPT !.child = with] \in Documents
    BY Zenon, <1>4 DEF Documents
  <2>2. [m EXCEPT !.child = with].status = m.status /\ [m EXCEPT !.child = with].child = with
    BY Zenon DEF Documents
  <2> QED BY Zenon, <2>1, <2>2 DEF Stopped, with
<1>6. ASSUME NEW c \in Children
      PROVE  /\ with[c].job = m.child[c].job
             /\ with[c].status =
                  IF m.child[c].status \in Terminal \cup {""} THEN m.child[c].status ELSE "cancelled"
  <2>1. CASE c \in Unfinished(m)
    <3>1. with[c] = [m.child[c] EXCEPT !.status = "cancelled"]
      BY Zenon, <2>1
    <3>2. m.child[c].status \notin Terminal \cup {""}
      BY Zenon, <2>1 DEF Unfinished, Exists
    <3> QED BY Zenon, <1>3, <3>1, <3>2
  <2>2. CASE c \notin Unfinished(m)
    <3>1. with[c] = m.child[c]
      BY Zenon, <2>2
    <3>2. m.child[c].status \in Terminal \cup {""}
      BY Zenon, <2>2 DEF Unfinished, Exists
    <3> QED BY Zenon, <3>1, <3>2
  <2> QED BY Zenon, <2>1, <2>2
<1> QED BY Zenon, <1>5, <1>6

\* What scheduleReady leaves when it creates the children.
LEMMA CreatedIs ==
  ASSUME NEW m \in Documents
  PROVE  /\ Created(m) \in Documents
         /\ Created(m).status = "running"
         /\ \A c \in Children :
              /\ Created(m).child[c].job = m.child[c].job
              /\ Created(m).child[c].status =
                   IF m.child[c].status = "" THEN "pending" ELSE m.child[c].status
<1> DEFINE with == [c \in Children |->
      IF m.child[c].status = "" THEN [m.child[c] EXCEPT !.status = "pending"] ELSE m.child[c]]
<1>1. \A c \in Children : m.child[c] \in StepRuns
  BY Zenon DEF Documents
<1>2. "pending" \in Statuses /\ "running" \in Statuses
  BY Zenon DEF Statuses
<1>3. \A c \in Children :
        /\ [m.child[c] EXCEPT !.status = "pending"] \in StepRuns
        /\ [m.child[c] EXCEPT !.status = "pending"].status = "pending"
        /\ [m.child[c] EXCEPT !.status = "pending"].job = m.child[c].job
  BY <1>1, <1>2, SetStatusOf
<1>4. with \in [Children -> StepRuns]
  BY Zenon, <1>1, <1>3
<1>5. /\ Created(m) \in Documents
      /\ Created(m).status = "running"
      /\ Created(m).child = with
  <2> HIDE DEF with
  <2> DEFINE doc == [m EXCEPT !.status = "running", !.child = with]
  <2>1. doc \in Documents
    BY Zenon, <1>2, <1>4 DEF Documents
  <2>2. doc.status = "running" /\ doc.child = with
    BY Zenon DEF Documents
  <2>3. Created(m) = doc
    BY Zenon DEF Created, with
  <2> QED BY Zenon, <2>1, <2>2, <2>3
<1>6. ASSUME NEW c \in Children
      PROVE  /\ with[c].job = m.child[c].job
             /\ with[c].status = IF m.child[c].status = "" THEN "pending" ELSE m.child[c].status
  <2>1. CASE m.child[c].status = ""
    <3>1. with[c] = [m.child[c] EXCEPT !.status = "pending"]
      BY Zenon, <2>1
    <3> HIDE DEF with
    <3> QED BY Zenon, <1>3, <2>1, <3>1
  <2>2. CASE m.child[c].status # ""
    BY Zenon, <2>2
  <2> QED BY Zenon, <2>1, <2>2
<1> QED BY Zenon, <1>5, <1>6

\* A child that was published.
LEMMA SentIs ==
  ASSUME NEW m \in Documents, NEW c \in Children, m.child[c].attempts + 1 <= MaxAttempts
  PROVE  /\ Sent(m, c) \in Documents /\ Sent(m, c).status = m.status
         /\ \A d \in Children : d # c => Sent(m, c).child[d] = m.child[d]
         /\ Sent(m, c).child[c].status = "running"
         /\ Sent(m, c).child[c].job = m.child[c].attempts + 1
<1>1. m.child[c] \in StepRuns
  BY Zenon DEF Documents
<1>2. PICK n : n = m.child[c].attempts + 1
  BY Zenon
<1>3. n \in 0..MaxAttempts
  <2>1. m.child[c].attempts \in 0..MaxAttempts
    BY Zenon, <1>1 DEF StepRuns
  <2> QED BY <1>2, <2>1, FanOutAssumption
<1>4. PICK sr : sr = [m.child[c] EXCEPT !.status = "running", !.job = n, !.attempts = n]
  BY Zenon
<1>5. sr \in StepRuns /\ sr.status = "running" /\ sr.job = n
  BY Zenon, <1>1, <1>3, <1>4 DEF StepRuns, Statuses
<1>6. Sent(m, c) = [m EXCEPT !.child[c] = sr]
  BY Zenon, <1>2, <1>4 DEF Sent
<1> QED BY Zenon, <1>2, <1>5, <1>6 DEF Documents

\* A child whose publish reported an error.
LEMMA UnsentIs ==
  ASSUME NEW m \in Documents, NEW c \in Children
  PROVE  /\ Unsent(m, c) \in Documents /\ Unsent(m, c).status = m.status
         /\ \A d \in Children : d # c => Unsent(m, c).child[d] = m.child[d]
         /\ IF step.kind = "foreach"
              THEN Unsent(m, c).child[c].status = m.child[c].status /\ Unsent(m, c).child[c].job = NoJob
              ELSE Unsent(m, c).child[c].status = "failed" /\ Unsent(m, c).child[c].job = m.child[c].job
<1>1. CASE step.kind = "foreach"
  <2>1. m.child[c] \in StepRuns
    BY Zenon DEF Documents
  <2>2. NoJob \in 0..MaxAttempts
    BY FanOutAssumption DEF NoJob
  <2>3. PICK sr : sr = [m.child[c] EXCEPT !.job = NoJob]
    BY Zenon
  <2>4. sr \in StepRuns /\ sr.job = NoJob /\ sr.status = m.child[c].status
    BY Zenon, <2>1, <2>2, <2>3 DEF StepRuns
  <2>5. Unsent(m, c) = [m EXCEPT !.child[c] = sr]
    BY Zenon, <1>1, <2>3 DEF Unsent
  <2> QED BY Zenon, <1>1, <2>4, <2>5 DEF Documents
<1>2. CASE step.kind # "foreach"
  <2>1. m.child[c] \in StepRuns /\ "failed" \in Statuses
    BY Zenon DEF Documents, Statuses, Terminal
  <2>2. PICK sr : sr = [m.child[c] EXCEPT !.status = "failed"]
    BY Zenon
  <2>3. sr \in StepRuns /\ sr.status = "failed" /\ sr.job = m.child[c].job
    BY <2>1, <2>2, SetStatusOf
  <2>4. Unsent(m, c) = [m EXCEPT !.child[c] = sr]
    BY Zenon, <1>2, <2>2 DEF Unsent
  <2> QED BY Zenon, <1>2, <2>3, <2>4 DEF Documents
<1> QED BY Zenon, <1>1, <1>2

\* What aggregateChildren makes of the children, once there are any.
LEMMA AggregateIs ==
  ASSUME NEW m \in Documents, Exists(m) # {}
  PROVE  /\ aggregateChildren(m) \in {"failed", "denied", "running", "succeeded"}
         /\ (\E c \in Children : m.child[c].status \in {"failed", "cancelled", "timed_out"})
              => aggregateChildren(m) = "failed"
         /\ aggregateChildren(m) = "succeeded"
              => \A c \in Children : m.child[c].status \in {"", "succeeded"}
<1>1. \A c \in Children : m.child[c].status \in Statuses
  BY Zenon DEF Documents, StepRuns
<1>2. \A c \in Children : m.child[c].status \in {"failed", "cancelled", "timed_out"} => c \in Exists(m)
  BY Zenon DEF Exists
<1>3. aggregateChildren(m) = "succeeded" =>
        \A c \in Exists(m) : m.child[c].status \notin {"failed", "cancelled", "timed_out", "denied", "pending", "running"}
  BY Zenon DEF aggregateChildren
<1>4. aggregateChildren(m) = "succeeded" => \A c \in Children : m.child[c].status \in {"", "succeeded"}
  BY Zenon, <1>1, <1>3 DEF Statuses, Terminal, Exists
<1>5. aggregateChildren(m) \in {"failed", "denied", "running", "succeeded"}
  BY Zenon DEF aggregateChildren
<1>6. (\E c \in Children : m.child[c].status \in {"failed", "cancelled", "timed_out"})
        => aggregateChildren(m) = "failed"
  BY Zenon, <1>2 DEF aggregateChildren
<1> QED BY Zenon, <1>4, <1>5, <1>6

\* What applyResult makes of a child that takes a result.
LEMMA AppliedIs ==
  ASSUME NEW sr \in StepRuns, NEW wf, NEW c, NEW status \in Reports,
         NEW to, to = applyResult(wf, c, sr, status)
  PROVE  /\ to \in StepRuns /\ to.job = sr.job
         /\ to.status \in {"succeeded", "failed", "denied", "cancelled", "timed_out", "pending"}
         /\ to.status = "succeeded" => status = "SUCCEEDED"
<1> USE DEF StepRuns, Statuses, Terminal
<1>1. CASE status = "SUCCEEDED"
  <2>1. to = [sr EXCEPT !.status = "succeeded", !.backoff = FALSE]
    BY Zenon, <1>1 DEF applyResult
  <2> QED BY Zenon, <1>1, <2>1
<1>2. CASE status = "DENIED"
  <2>1. to = [sr EXCEPT !.status = "denied"]
    BY Zenon, <1>2 DEF applyResult
  <2> QED BY Zenon, <2>1
<1>3. CASE status = "CANCELLED"
  <2>1. to = [sr EXCEPT !.status = "cancelled"]
    BY Zenon, <1>3 DEF applyResult
  <2> QED BY Zenon, <2>1
<1>4. CASE status \in {"FAILED", "FAILED_RETRYABLE", "TIMEOUT"} /\ shouldRetry(wf, c, sr)
  <2>1. PICK to2 : to2 = [sr EXCEPT !.status = "pending", !.backoff = TRUE, !.recoveries = 0]
    BY Zenon
  <2>2. ASSUME NEW s \in {"FAILED", "FAILED_RETRYABLE", "TIMEOUT"}, status = s
        PROVE  to = to2
    <3>1. CASE s = "FAILED"
      BY Zenon, <1>4, <2>1, <2>2, <3>1 DEF applyResult
    <3>2. CASE s = "FAILED_RETRYABLE"
      BY Zenon, <1>4, <2>1, <2>2, <3>2 DEF applyResult
    <3>3. CASE s = "TIMEOUT"
      BY Zenon, <1>4, <2>1, <2>2, <3>3 DEF applyResult
    <3> QED BY Zenon, <3>1, <3>2, <3>3
  <2> QED BY Zenon, <1>4, <2>1, <2>2
<1>5. CASE status = "TIMEOUT" /\ ~shouldRetry(wf, c, sr)
  <2>1. to = [sr EXCEPT !.status = "timed_out"]
    BY Zenon, <1>5 DEF applyResult
  <2> QED BY Zenon, <2>1
<1>6. CASE /\ status \in {"FAILED", "FAILED_RETRYABLE"} /\ ~shouldRetry(wf, c, sr)
  <2>1. to = [sr EXCEPT !.status = "failed"]
    BY Zenon, <1>6 DEF applyResult
  <2> QED BY Zenon, <2>1
<1>7. CASE status = "FAILED_FATAL"
  <2>1. to = [sr EXCEPT !.status = "failed"]
    BY Zenon, <1>7 DEF applyResult
  <2> QED BY Zenon, <2>1
<1> QED BY Zenon, <1>1, <1>2, <1>3, <1>4, <1>5, <1>6, <1>7 DEF Reports, Outcomes

\* A job names its child and its attempt.
LEMMA JobParts ==
  ASSUME NEW j \in Jobs
  PROVE  j[1] \in Children /\ j[2] \in 1..MaxAttempts /\ j = <<j[1], j[2]>>
  BY DEF Jobs

\* The child has taken the result of its job.
OfResult(j, status, m) ==
  /\ \A d \in Children : d # j[1] => m.child[d] = run.child[d]
  /\ run.child[j[1]].job = NoJob => m.child[j[1]].job = j[2]
  /\ run.child[j[1]].job # NoJob => m.child[j[1]].job = run.child[j[1]].job
  /\ m.child[j[1]].status \in {"succeeded", "failed", "denied", "cancelled", "timed_out", "pending"}
  /\ m.child[j[1]].status = "succeeded" => status = "SUCCEEDED"

\* The step has the status its kind gives it.
OfStep(m) ==
  /\ step.kind = "loop" => m.status = "running"
  /\ step.kind = "parallel" => m.status = run.status
  /\ step.kind = "foreach" =>
       /\ m.status \in {"failed", "denied", "running", "succeeded"}
       /\ (\E c \in Children : m.child[c].status \in {"failed", "cancelled", "timed_out"})
            => m.status = "failed"
       /\ m.status = "succeeded" => \A c \in Children : m.child[c].status \in {"", "succeeded"}

\* The document a result makes: one child has taken it, the step is aggregated.
LEMMA TakenIs ==
  ASSUME FanOutTypeOK, NEW j \in Jobs, NEW status \in Reports, NEW m \in Taken(j, status)
  PROVE  m \in Documents /\ OfResult(j, status, m) /\ OfStep(m)
<1> DEFINE c == j[1]
           sr == [run.child[c] EXCEPT !.job = IF @ = NoJob THEN j[2] ELSE @,
                                      !.attempts = IF j[2] > @ THEN j[2] ELSE @]
           ended == applyResult([retries |-> [d \in Children |-> step.retries]], c, sr, status)
           outputs == IF status = "SUCCEEDED" THEN {ended, [ended EXCEPT !.status = "failed"]}
                      ELSE {ended}
           with(sr2) == [run EXCEPT !.child[c] = sr2]
           parent(d) == CASE step.kind = "foreach" -> aggregateChildren(d)
                          [] step.kind = "loop" -> "running"
                          [] step.kind = "parallel" -> d.status
<1>1. c \in Children /\ j[2] \in 1..MaxAttempts /\ run \in Documents /\ step \in Steps
  BY Zenon, JobParts DEF FanOutTypeOK
<1>2. run.child[c] \in StepRuns
  BY Zenon, <1>1 DEF Documents
<1>3. /\ sr \in StepRuns
      /\ run.child[c].job = NoJob => sr.job = j[2]
      /\ run.child[c].job # NoJob => sr.job = run.child[c].job
  <2>1. PICK was : was = run.child[c]
    BY Zenon
  <2>2. PICK n : n = IF was.job = NoJob THEN j[2] ELSE was.job
    BY Zenon
  <2>3. PICK a : a = IF j[2] > was.attempts THEN j[2] ELSE was.attempts
    BY Zenon
  <2>4. n \in 0..MaxAttempts /\ a \in 0..MaxAttempts
    <3>1. was.job \in 0..MaxAttempts /\ was.attempts \in 0..MaxAttempts
      BY Zenon, <1>2, <2>1 DEF StepRuns
    <3> QED BY <1>1, <2>2, <2>3, <3>1
  <2>5. sr = [was EXCEPT !.job = n, !.attempts = a]
    BY Zenon, <2>1, <2>2, <2>3
  <2> HIDE DEF sr, c
  <2>6. sr \in StepRuns /\ sr.job = n
    BY Zenon, <1>2, <2>1, <2>4, <2>5 DEF StepRuns
  <2> QED BY Zenon, <2>1, <2>2, <2>6
<1>4. PICK sr2 \in outputs : m = [with(sr2) EXCEPT !.status = parent(with(sr2))]
  BY Zenon DEF Taken
<1>5. /\ ended \in StepRuns /\ ended.job = sr.job
      /\ ended.status \in {"succeeded", "failed", "denied", "cancelled", "timed_out", "pending"}
      /\ ended.status = "succeeded" => status = "SUCCEEDED"
  <2> HIDE DEF sr
  <2>1. PICK to : to = ended
    BY Zenon
  <2> HIDE DEF ended
  <2>2. to = applyResult([retries |-> [d \in Children |-> step.retries]], c, sr, status)
    BY Zenon, <2>1 DEF ended
  <2> QED BY <1>3, <2>1, <2>2, AppliedIs
<1>6. /\ sr2 \in StepRuns /\ sr2.job = sr.job
      /\ sr2.status \in {"succeeded", "failed", "denied", "cancelled", "timed_out", "pending"}
      /\ sr2.status = "succeeded" => status = "SUCCEEDED"
  <2> HIDE DEF sr, ended
  <2>1. CASE sr2 = ended
    BY Zenon, <2>1, <1>5
  <2>2. CASE sr2 = [ended EXCEPT !.status = "failed"]
    <3>1. "failed" \in Statuses
      BY Zenon DEF Statuses, Terminal
    <3>2. sr2 \in StepRuns /\ sr2.status = "failed" /\ sr2.job = ended.job
      BY <1>5, <2>2, <3>1, SetStatusOf
    <3> QED BY Zenon, <1>5, <3>2
  <2> QED BY Zenon, <1>4, <2>1, <2>2
<1> HIDE DEF sr, ended, outputs
<1>7. PICK doc : doc = with(sr2)
  BY Zenon
<1>8. /\ doc \in Documents /\ doc.status = run.status /\ doc.child[c] = sr2
      /\ \A d \in Children : d # c => doc.child[d] = run.child[d]
  BY Zenon, <1>1, <1>6, <1>7 DEF Documents
<1>9. Exists(doc) # {}
  <2>1. sr2.status # ""
    BY Zenon, <1>6
  <2> QED BY Zenon, <1>1, <1>8, <2>1 DEF Exists
<1>10. PICK s : s = parent(doc)
  BY Zenon
<1>11. /\ step.kind = "foreach" => s = aggregateChildren(doc)
       /\ step.kind = "loop" => s = "running"
       /\ step.kind = "parallel" => s = run.status
  BY Zenon, <1>8, <1>10
<1>12. m = [doc EXCEPT !.status = s]
  BY Zenon, <1>4, <1>7, <1>10
<1> HIDE DEF with, parent
<1>13. s \in Statuses
  <2>1. aggregateChildren(doc) \in Statuses
    BY Zenon, <1>8, <1>9, AggregateIs DEF Statuses, Terminal
  <2>2. step.kind \in {"foreach", "loop", "parallel"}
    BY Zenon, <1>1 DEF Steps
  <2>3. run.status \in Statuses /\ "running" \in Statuses
    BY Zenon, <1>1 DEF Documents, Statuses
  <2> QED BY Zenon, <1>11, <2>1, <2>2, <2>3
<1>14. m \in Documents /\ m.status = s /\ m.child = doc.child
  BY <1>8, <1>12, <1>13, SetStep
<1>15. step.kind = "foreach" =>
         /\ s \in {"failed", "denied", "running", "succeeded"}
         /\ (\E d \in Children : m.child[d].status \in {"failed", "cancelled", "timed_out"})
              => s = "failed"
         /\ s = "succeeded" => \A d \in Children : m.child[d].status \in {"", "succeeded"}
  BY Zenon, <1>8, <1>9, <1>11, <1>14, AggregateIs
<1>16. OfResult(j, status, m)
  BY Zenon, <1>1, <1>3, <1>6, <1>8, <1>14 DEF OfResult
<1>17. OfStep(m)
  BY Zenon, <1>11, <1>14, <1>15 DEF OfStep
<1> QED BY Zenon, <1>14, <1>16, <1>17

-----------------------------------------------------------------------------
(* What the actions do to the two documents.                               *)

\* An error is counted.
LEMMA FailIs ==
  ASSUME budget \in Budgets, Fail
  PROVE  budget' \in Budgets /\ budget'.made = budget.made + 1
<1>1. budget.errors - 1 \in Nat /\ budget.made + 1 \in Nat
  BY DEF Budgets, Fail
<1>2. budget' = [budget EXCEPT !.errors = budget.errors - 1, !.made = budget.made + 1]
  BY Zenon DEF Fail
<1> QED BY Zenon, <1>1, <1>2 DEF Budgets

\* Cancellations are only added, and all of them unless there is an error.
LEMMA CancelsAre ==
  ASSUME budget \in Budgets, cancels \subseteq Jobs, NEW S \in SUBSET Jobs, publishCancels(S)
  PROVE  /\ budget' \in Budgets /\ budget'.made \in {budget.made, budget.made + 1}
         /\ cancels' \subseteq Jobs /\ cancels \subseteq cancels'
         /\ budget'.made = budget.made => S \subseteq cancels'
<1>1. CASE cancels' = cancels \cup S /\ UNCHANGED budget
  BY Zenon, <1>1
<1>2. ASSUME NEW T \in SUBSET S, Fail, cancels' = cancels \cup T
      PROVE  /\ budget' \in Budgets /\ budget'.made = budget.made + 1 /\ budget.made \in Nat
             /\ cancels' \subseteq Jobs /\ cancels \subseteq cancels'
  <2>1. budget.made \in Nat
    BY Zenon DEF Budgets
  <2> QED BY Zenon, <1>2, <2>1, FailIs
<1>3. budget.made \in Nat => budget.made + 1 # budget.made
  OBVIOUS
<1> QED BY Zenon, <1>1, <1>2, <1>3 DEF publishCancels

\* A job that is cancelled is a job of the step.
LEMMA NeedsCancelIs ==
  ASSUME NEW m \in Documents
  PROVE  /\ NeedsCancel(m) \subseteq Jobs
         /\ \A c \in Children : m.child[c].status \in {"pending", "running"} /\ m.child[c].job # NoJob
              => <<c, m.child[c].job>> \in NeedsCancel(m)
<1>1. \A c \in Children : m.child[c].job \in 0..MaxAttempts
  BY Zenon DEF Documents, StepRuns
<1>2. \A c \in Children : m.child[c].job # NoJob => m.child[c].job \in 1..MaxAttempts
  BY <1>1 DEF NoJob
<1>3. \A c \in Unfinished(m) : c \in Children
  BY Zenon DEF Unfinished, Exists
<1>4. NeedsCancel(m) \subseteq Jobs
  BY <1>2, <1>3 DEF NeedsCancel, Jobs
<1>5. \A c \in Children : m.child[c].status \in {"pending", "running"} => c \in Unfinished(m)
  BY Zenon DEF Unfinished, Exists, Terminal
<1> QED BY Zenon, <1>4, <1>5 DEF NeedsCancel

\* A result ends a for_each step, and what it leaves of the document.
Ends(m) == step.kind = "foreach" /\ m.status \in {"failed", "denied"}
After(m) == IF Ends(m) THEN Stopped(m) ELSE m

\* handleJobResult writes the document with the result, or changes neither copy.
LEMMA HandleIs ==
  ASSUME FanOutTypeOK, NEW j \in Jobs, NEW status \in Reports, HandleJobResult(j, status)
  PROVE  /\ pc = "idle" /\ ~Ignored(j) /\ UNCHANGED <<step, over, submits, job, results, forgot>>
         /\ budget' \in Budgets /\ budget'.made \in {budget.made, budget.made + 1}
         /\ cancels' \subseteq Jobs /\ cancels \subseteq cancels' /\ due' \subseteq Children
         /\ \/ UNCHANGED <<run, mem, pc, next, loop>>
            \/ \E m \in Taken(j, status) :
                 /\ run' = After(m) /\ mem' = After(m)
                 /\ pc' = IF After(m).status \in Terminal THEN "idle" ELSE "evaluate"
                 /\ next' = 0 /\ loop'.pass \in {0, 1}
                 /\ budget'.made = budget.made /\ Ends(m) => NeedsCancel(m) \subseteq cancels'
<1>1. /\ pc = "idle" /\ ~Ignored(j) /\ UNCHANGED <<step, over, submits, job, results, forgot>>
  BY Zenon DEF HandleJobResult, world
<1>2. /\ budget \in Budgets /\ cancels \subseteq Jobs /\ due \subseteq Children
      /\ budget.made \in {budget.made, budget.made + 1}
  BY Zenon DEF FanOutTypeOK, Budgets
<1>3. handleJobResultLocked(j, status)
  BY Zenon DEF HandleJobResult
<1>4. PICK m \in Taken(j, status) :
        /\ due' = due \ {j[1]}
        /\ \/ /\ IF Ends(m) THEN publishCancels(NeedsCancel(m)) ELSE UNCHANGED <<cancels, budget>>
              /\ run' = After(m)
              /\ IF After(m).status \in Terminal THEN Return ELSE scheduleReady(After(m))
           \/ /\ Fail
              /\ cancels' = IF Ends(m) THEN cancels \cup NeedsCancel(m) ELSE cancels
              /\ UNCHANGED <<run, handler>>
  BY Zenon, <1>3 DEF handleJobResultLocked, Ends, After
<1>5. m \in Documents /\ NeedsCancel(m) \in SUBSET Jobs
  BY Zenon, TakenIs, NeedsCancelIs
<1>6. due' \subseteq Children
  BY Zenon, <1>2, <1>4
<1>7. CASE /\ IF Ends(m) THEN publishCancels(NeedsCancel(m)) ELSE UNCHANGED <<cancels, budget>>
           /\ run' = After(m)
           /\ IF After(m).status \in Terminal THEN Return ELSE scheduleReady(After(m))
  <2>1. /\ budget' \in Budgets /\ budget'.made \in {budget.made, budget.made + 1}
        /\ cancels' \subseteq Jobs /\ cancels \subseteq cancels'
        /\ budget'.made = budget.made /\ Ends(m) => NeedsCancel(m) \subseteq cancels'
    BY Zenon, <1>2, <1>5, <1>7, CancelsAre
  <2>2. /\ mem' = After(m) /\ next' = 0 /\ loop'.pass \in {0, 1}
        /\ pc' = IF After(m).status \in Terminal THEN "idle" ELSE "evaluate"
    <3>1. CASE After(m).status \in Terminal
      BY <1>7, <3>1 DEF Return
    <3>2. CASE After(m).status \notin Terminal
      BY <1>7, <3>2 DEF scheduleReady
    <3> QED BY Zenon, <3>1, <3>2
  <2> QED BY Zenon, <1>1, <1>6, <1>7, <2>1, <2>2
<1>8. CASE /\ Fail
           /\ cancels' = IF Ends(m) THEN cancels \cup NeedsCancel(m) ELSE cancels
           /\ UNCHANGED <<run, handler>>
  <2>1. budget' \in Budgets /\ budget'.made = budget.made + 1
    BY Zenon, <1>2, <1>8, FailIs
  <2>2. cancels' \subseteq Jobs /\ cancels \subseteq cancels'
    BY Zenon, <1>2, <1>5, <1>8
  <2>3. UNCHANGED <<run, mem, pc, next, loop>>
    BY Zenon, <1>8 DEF handler
  <2> QED BY Zenon, <1>1, <1>6, <2>1, <2>2, <2>3
<1> QED BY Zenon, <1>4, <1>7, <1>8

\* The children are finitely many, and so are those with a status.
LEMMA SomeChildren ==
  ASSUME step \in Steps, NEW S \in SUBSET Children
  PROVE  /\ IsFiniteSet(S) /\ Cardinality(S) \in Nat
         /\ Cardinality(S) <= step.width
         /\ Cardinality(S) = 0 <=> S = {}
<1>1. step.width \in Nat
  BY Zenon DEF Steps
<1>2. IsFiniteSet(Children) /\ Cardinality(Children) = step.width
  BY <1>1, FS_Interval DEF Children
<1>3. IsFiniteSet(S) /\ Cardinality(S) <= Cardinality(Children)
  BY Zenon, <1>2, FS_Subset
<1> QED BY Zenon, <1>2, <1>3, FS_CardinalityType, FS_EmptySet

LEMMA CountIs ==
  ASSUME step \in Steps, NEW m, NEW S
  PROVE  /\ Count(m, S) \in Nat
         /\ ~(Count(m, S) > 0) => \A c \in Children : m.child[c].status \notin S
         /\ Count(m, S) > 0 => \E c \in Children : m.child[c].status \in S
<1> DEFINE with == {c \in Children : m.child[c].status \in S}
<1>1. with \in SUBSET Children
  BY Zenon
<1> HIDE DEF with
<1>2. Cardinality(with) \in Nat /\ (Cardinality(with) = 0 <=> with = {})
  BY Zenon, <1>1, SomeChildren
<1>3. Count(m, S) = Cardinality(with)
  BY Zenon DEF Count, with
<1>4. ~(Count(m, S) > 0) <=> with = {}
  BY <1>2, <1>3
<1> QED BY Zenon, <1>2, <1>3, <1>4 DEF with

\* The condition ends the step and leaves the children as they are.
LEMMA GateIs ==
  ASSUME FanOutTypeOK, ConditionGate
  PROVE  /\ pc = "evaluate" /\ pc' = "end" /\ step.gated
         /\ mem' \in Documents /\ mem'.child = mem.child /\ next' \in 0..(step.width + 1)
         /\ UNCHANGED <<step, run, over, submits, job, results, cancels, due, budget, forgot, loop>>
<1>1. mem \in Documents /\ step.width \in Nat
  BY Zenon DEF FanOutTypeOK, Steps
<1>2. PICK s \in {"succeeded", "failed"} : Evaluated([mem EXCEPT !.status = s], "end", 0)
  BY Zenon DEF ConditionGate
<1>3. s \in Statuses
  BY Zenon, <1>2 DEF Statuses, Terminal
<1>4. mem' \in Documents /\ mem'.child = mem.child
  BY <1>1, <1>2, <1>3, SetStep DEF Evaluated
<1>5. next' \in 0..(step.width + 1)
  BY <1>1, <1>2 DEF Evaluated
<1> QED BY Zenon, <1>2, <1>4, <1>5 DEF ConditionGate, Evaluated, world

\* The look at a for_each step.
LEMMA ForEachIs ==
  ASSUME FanOutTypeOK, EvaluateForEach
  PROVE  /\ pc = "evaluate" /\ step.kind = "foreach" /\ mem' \in Documents
         /\ UNCHANGED <<step, run, over, submits, job, results, cancels, due, budget, forgot, loop>>
         /\ next' \in 0..(step.width + 1)
         /\ \/ /\ pc' = "end" /\ mem'.child = mem.child /\ mem'.status = "failed"
               /\ \E c \in Children : mem.child[c].status = ""
            \/ /\ pc' = "end" /\ mem'.child = mem.child /\ mem'.status = "succeeded" /\ Children = {}
            \/ pc' = "dispatch" /\ mem' = Created(mem)
<1>1. /\ pc = "evaluate" /\ step.kind = "foreach"
      /\ UNCHANGED <<step, run, over, submits, job, results, cancels, due, budget, forgot>>
  BY Zenon DEF EvaluateForEach, world
<1>2. mem \in Documents /\ step.width \in Nat
  BY Zenon DEF FanOutTypeOK, Steps
<1>3. "failed" \in Statuses /\ "succeeded" \in Statuses
  BY Zenon DEF Statuses, Terminal
<1>4. CASE Exists(mem) # Children /\ Evaluated([mem EXCEPT !.status = "failed"], "end", 0)
  <2>1. mem' \in Documents /\ mem'.status = "failed" /\ mem'.child = mem.child
    BY <1>2, <1>3, <1>4, SetStep DEF Evaluated
  <2>2. \E c \in Children : mem.child[c].status = ""
    BY Zenon, <1>4 DEF Exists
  <2>3. next' \in 0..(step.width + 1)
    BY <1>2, <1>4 DEF Evaluated
  <2> QED BY Zenon, <1>1, <1>4, <2>1, <2>2, <2>3 DEF Evaluated
<1>5. CASE Children = {} /\ Evaluated([mem EXCEPT !.status = "succeeded"], "end", 0)
  <2>1. mem' \in Documents /\ mem'.status = "succeeded" /\ mem'.child = mem.child
    BY <1>2, <1>3, <1>5, SetStep DEF Evaluated
  <2>2. next' \in 0..(step.width + 1)
    BY <1>2, <1>5 DEF Evaluated
  <2> QED BY Zenon, <1>1, <1>5, <2>1, <2>2 DEF Evaluated
<1>6. CASE Children # {} /\ Evaluated(Created(mem), "dispatch", 1)
  <2>1. next' \in 0..(step.width + 1)
    BY <1>2, <1>6 DEF Evaluated
  <2> QED BY Zenon, <1>1, <1>2, <1>6, <2>1, CreatedIs DEF Evaluated
<1> QED BY Zenon, <1>4, <1>5, <1>6 DEF EvaluateForEach

\* The look at a parallel step, and its decision.
LEMMA ParallelIs ==
  ASSUME FanOutTypeOK, EvaluateParallel
  PROVE  /\ pc = "evaluate" /\ step.kind = "parallel" /\ mem' \in Documents
         /\ UNCHANGED <<step, run, over, submits, job, results, due, forgot, loop>>
         /\ next' \in 0..(step.width + 1)
         /\ budget' \in Budgets /\ budget'.made \in {budget.made, budget.made + 1}
         /\ cancels' \subseteq Jobs /\ cancels \subseteq cancels'
         /\ \/ pc' = "dispatch" /\ mem' = Created(mem)
            \/ /\ pc' = "end" /\ mem'.child = Stopped(Created(mem)).child
               /\ mem'.status \in {"failed", "succeeded"}
               /\ mem'.status = "succeeded" => Count(Created(mem), {"succeeded"}) >= step.required
               /\ budget'.made = budget.made => NeedsCancel(Created(mem)) \subseteq cancels'
<1>1. /\ pc = "evaluate" /\ step.kind = "parallel"
      /\ UNCHANGED <<step, run, over, submits, job, results, due, forgot>>
  BY Zenon DEF EvaluateParallel, world
<1>2. /\ mem \in Documents /\ step.width \in Nat /\ budget \in Budgets /\ cancels \subseteq Jobs
  BY Zenon DEF FanOutTypeOK, Steps, Budgets
<1>3. PICK m : m = Created(mem)
  BY Zenon
<1>4. m \in Documents /\ Stopped(m) \in Documents /\ NeedsCancel(m) \in SUBSET Jobs
  BY Zenon, <1>2, <1>3, CreatedIs, StoppedIs, NeedsCancelIs
<1>5. PICK outcome : outcome = evaluateParallelOutcome(m)
  BY Zenon
<1>6. /\ outcome \in {"succeeded", "failed", "running"}
      /\ outcome = "succeeded" => Count(m, {"succeeded"}) >= step.required
  BY Zenon, <1>5 DEF evaluateParallelOutcome
<1>7. CASE outcome = "running"
  <2>1. Evaluated(m, "dispatch", 1) /\ UNCHANGED <<cancels, budget>>
    BY Zenon, <1>3, <1>5, <1>7 DEF EvaluateParallel
  <2>2. next' \in 0..(step.width + 1)
    BY <1>2, <2>1 DEF Evaluated
  <2> QED BY Zenon, <1>1, <1>2, <1>3, <1>4, <2>1, <2>2 DEF Evaluated
<1>8. CASE outcome # "running"
  <2>1. /\ \E status \in {outcome, "failed"} :
             Evaluated([Stopped(m) EXCEPT !.status = status], "end", 0)
        /\ publishCancels(NeedsCancel(m))
    BY Zenon, <1>3, <1>5, <1>8 DEF EvaluateParallel
  <2>2. PICK status \in {outcome, "failed"} :
             Evaluated([Stopped(m) EXCEPT !.status = status], "end", 0)
    BY Zenon, <2>1
  <2>3. status \in {"failed", "succeeded"} /\ (status = "succeeded" => outcome = "succeeded")
    BY Zenon, <1>6, <1>8
  <2>4. "failed" \in Statuses /\ "succeeded" \in Statuses
    BY Zenon DEF Statuses, Terminal
  <2>5. status \in Statuses
    BY Zenon, <2>3, <2>4
  <2>6. mem' = [Stopped(m) EXCEPT !.status = status] /\ pc' = "end" /\ next' = 0 /\ UNCHANGED loop
    BY Zenon, <2>2 DEF Evaluated
  <2>7. mem' \in Documents /\ mem'.status = status /\ mem'.child = Stopped(m).child
    BY <1>4, <2>5, <2>6, SetStep
  <2>8. next' \in 0..(step.width + 1)
    BY <1>2, <2>6
  <2>9. /\ budget' \in Budgets /\ budget'.made \in {budget.made, budget.made + 1}
        /\ cancels' \subseteq Jobs /\ cancels \subseteq cancels'
        /\ budget'.made = budget.made => NeedsCancel(m) \subseteq cancels'
    BY Zenon, <1>2, <1>4, <2>1, CancelsAre
  <2> QED BY Zenon, <1>1, <1>3, <1>6, <2>3, <2>6, <2>7, <2>8, <2>9
<1> QED BY Zenon, <1>7, <1>8

\* The look at a loop: it ends, waits, or has another iteration.
LEMMA LoopIs ==
  ASSUME FanOutTypeOK, EvaluateLoop
  PROVE  /\ pc = "evaluate" /\ step.kind = "loop" /\ mem' \in Documents
         /\ UNCHANGED <<step, run, over, submits, job, results, cancels, due, budget, forgot, loop>>
         /\ next' \in 0..(step.width + 1)
         /\ \/ /\ pc' = "end" /\ mem'.child = mem.child /\ mem'.status \in {"failed", "running", "succeeded"}
               /\ mem'.status = "succeeded" =>
                    \A c \in Children : mem.child[c].status \in {"", "succeeded", "denied"}
               /\ mem'.status = "failed" =>
                    \/ \E c \in Children : mem.child[c].status \in {"failed", "cancelled", "timed_out"}
                    \/ \A c \in Children : mem.child[c].status \in Terminal \cup {""}
            \/ LET k == Cardinality(Exists(mem)) + 1 IN
               /\ pc' = "dispatch" /\ k \in Children /\ mem'.status = "running"
               /\ \A d \in Children : d # k => mem'.child[d] = mem.child[d]
               /\ mem'.child[k].status = "pending" /\ mem'.child[k].job = mem.child[k].job
               /\ \A c \in Children : mem.child[c].status \in {"", "succeeded", "denied"}
<1>1. /\ pc = "evaluate" /\ step.kind = "loop"
      /\ UNCHANGED <<step, run, over, submits, job, results, cancels, due, budget, forgot>>
  BY Zenon DEF EvaluateLoop, world
<1>2. mem \in Documents /\ step \in Steps /\ step.width \in Nat
  BY Zenon DEF FanOutTypeOK, Steps
<1>3. {"failed", "running", "succeeded", "pending"} \subseteq Statuses
  BY Zenon DEF Statuses, Terminal
<1>4. PICK m : m = [mem EXCEPT !.status = "running"]
  BY Zenon
<1>5. m \in Documents /\ m.status = "running" /\ m.child = mem.child
  BY <1>2, <1>3, <1>4, SetStep
<1>6. Exists(m) = Exists(mem) /\ Exists(mem) \in SUBSET Children
  BY Zenon, <1>5 DEF Exists
<1>7. PICK n : n = Cardinality(Exists(mem))
  BY Zenon
<1>8. n \in Nat
  BY Zenon, <1>2, <1>6, <1>7, SomeChildren
<1> DEFINE done(status) == Evaluated([m EXCEPT !.status = status], "end", 0)
           bad == Count(m, {"failed", "cancelled", "timed_out"}) > 0
           active == Count(m, {"pending", "running"}) > 0
<1>9. IF bad THEN done("failed")
      ELSE IF active THEN done("running")
      ELSE IF n >= step.width THEN done(IF step.tested THEN "failed" ELSE "succeeded")
      ELSE \/ Evaluated([m EXCEPT !.child[n + 1].status = "pending"], "dispatch", n + 1)
           \/ step.tested /\ (done("succeeded") \/ done("failed"))
  BY Zenon, <1>4, <1>6, <1>7 DEF EvaluateLoop
<1>10. /\ bad => \E c \in Children : mem.child[c].status \in {"failed", "cancelled", "timed_out"}
       /\ ~bad => \A c \in Children : mem.child[c].status \notin {"failed", "cancelled", "timed_out"}
       /\ ~active => \A c \in Children : mem.child[c].status \notin {"pending", "running"}
  BY Zenon, <1>2, <1>5, CountIs
<1>11. \A c \in Children : mem.child[c].status \in Statuses
  BY Zenon, <1>2 DEF Documents, StepRuns
<1>12. ~bad /\ ~active => \A c \in Children : mem.child[c].status \in {"", "succeeded", "denied"}
  <2> HIDE DEF bad, active
  <2> QED BY Zenon, <1>10, <1>11 DEF Statuses, Terminal
<1>13. ASSUME NEW s \in {"failed", "running", "succeeded"}, done(s)
       PROVE  /\ mem' \in Documents /\ mem'.status = s /\ mem'.child = mem.child
              /\ pc' = "end" /\ next' \in 0..(step.width + 1) /\ UNCHANGED loop
  <2>1. mem' = [m EXCEPT !.status = s] /\ pc' = "end" /\ next' = 0 /\ UNCHANGED loop
    BY Zenon, <1>13 DEF Evaluated
  <2>2. s \in Statuses
    BY Zenon, <1>3
  <2>3. mem' \in Documents /\ mem'.status = s /\ mem'.child = m.child
    BY <1>5, <2>1, <2>2, SetStep
  <2>4. next' \in 0..(step.width + 1)
    BY <1>2, <2>1
  <2> QED BY Zenon, <1>5, <2>1, <2>3, <2>4
<1>14. {"", "succeeded", "denied"} \subseteq Terminal \cup {""}
  BY Zenon DEF Terminal
<1> HIDE DEF done, bad, active
<1>15. CASE bad
  BY Zenon, <1>1, <1>9, <1>10, <1>13, <1>15
<1>16. CASE ~bad /\ active
  BY Zenon, <1>1, <1>9, <1>13, <1>16
<1>17. CASE ~bad /\ ~active /\ (done("failed") \/ done("succeeded"))
  BY Zenon, <1>1, <1>12, <1>13, <1>14, <1>17
<1>18. CASE ~bad /\ ~active /\ ~(n >= step.width)
             /\ Evaluated([m EXCEPT !.child[n + 1].status = "pending"], "dispatch", n + 1)
  <2>1. n + 1 \in Children /\ n + 1 \in 0..(step.width + 1)
    BY <1>2, <1>8, <1>18 DEF Children
  <2>2. /\ mem' = [m EXCEPT !.child[n + 1].status = "pending"] /\ pc' = "dispatch"
        /\ next' = n + 1 /\ UNCHANGED loop
    BY Zenon, <1>18 DEF Evaluated
  <2>3. PICK k : k = n + 1
    BY Zenon
  <2>4. /\ mem' \in Documents /\ mem'.status = m.status
        /\ \A d \in Children : d # k => mem'.child[d] = m.child[d]
        /\ mem'.child[k].status = "pending" /\ mem'.child[k].job = m.child[k].job
    <3>1. k \in Children /\ "pending" \in Statuses /\ mem' = [m EXCEPT !.child[k].status = "pending"]
      BY Zenon, <1>3, <2>1, <2>2, <2>3
    <3>2. PICK to : to = mem'
      BY Zenon
    <3>3. to = [m EXCEPT !.child[k].status = "pending"]
      BY Zenon, <3>1, <3>2
    <3>4. /\ to \in Documents /\ to.status = m.status
          /\ \A d \in Children : d # k => to.child[d] = m.child[d]
          /\ to.child[k].status = "pending" /\ to.child[k].job = m.child[k].job
      <4>1. m.child[k] \in StepRuns
        BY Zenon, <1>5, <3>1 DEF Documents
      <4>2. PICK sr : sr = [m.child[k] EXCEPT !.status = "pending"]
        BY Zenon
      <4>3. sr \in StepRuns /\ sr.status = "pending" /\ sr.job = m.child[k].job
        BY <3>1, <4>1, <4>2, SetStatusOf
      <4>4. to = [m EXCEPT !.child[k] = sr]
        BY Zenon, <3>3, <4>2
      <4> QED BY Zenon, <1>5, <3>1, <4>3, <4>4 DEF Documents
    <3> QED BY Zenon, <3>2, <3>4
  <2> QED BY Zenon, <1>1, <1>5, <1>7, <1>12, <1>18, <2>1, <2>2, <2>3, <2>4
<1> QED BY Zenon, <1>9, <1>15, <1>16, <1>17, <1>18

\* The dispatch of a child: it is sent, or there was an error and it is not.
LEMMA DispatchIs ==
  ASSUME FanOutTypeOK, NEW c \in Children, DispatchChild(c)
  PROVE  LET j == <<c, mem.child[c].attempts + 1>> IN
         /\ pc = "dispatch" /\ ~Full(mem) /\ mem.child[c].status = "pending" /\ j \in Jobs
         /\ UNCHANGED <<step, run, over, loop, job, results, cancels, due, forgot>>
         /\ mem' \in Documents /\ mem'.status = mem.status /\ next' \in 0..(step.width + 1)
         /\ pc' \in {"dispatch", "end"} /\ (step.kind = "loop" => pc' = "end")
         /\ \A d \in Children : d # c => mem'.child[d] = mem.child[d]
         /\ \/ /\ submits' = submits \cup {j} /\ UNCHANGED budget
               /\ mem'.child[c].status = "running" /\ mem'.child[c].job = j[2]
            \/ /\ submits' \in {submits, submits \cup {j}}
               /\ budget' \in Budgets /\ budget'.made = budget.made + 1
               /\ mem'.child[c].status \in {"pending", "failed"}
               /\ mem'.child[c].job \in {NoJob, mem.child[c].job}
<1>1. PICK n : n = mem.child[c].attempts + 1
  BY Zenon
<1>2. PICK j : j = <<c, n>>
  BY Zenon
<1>3. /\ pc = "dispatch" /\ ~Full(mem) /\ c \in Ready(mem) /\ next' = c + 1
      /\ pc' = IF step.kind = "loop" THEN "end" ELSE pc
      /\ UNCHANGED <<step, run, over, loop, job, results, cancels, due, forgot>>
  BY Zenon DEF DispatchChild
<1>4. n <= MaxAttempts
  BY Zenon, <1>1 DEF DispatchChild
<1>5. mem.child[c].status = "pending"
  BY Zenon, <1>3 DEF Ready
<1>6. mem \in Documents /\ budget \in Budgets /\ step.width \in Nat
  BY Zenon DEF FanOutTypeOK, Budgets, Steps
<1>7. mem.child[c] \in StepRuns
  BY Zenon, <1>6 DEF Documents
<1>8. j \in Jobs
  <2>1. mem.child[c].attempts \in 0..MaxAttempts
    BY Zenon, <1>7 DEF StepRuns
  <2>2. n \in 1..MaxAttempts
    BY <1>1, <1>4, <2>1, FanOutAssumption
  <2> QED BY Zenon, <1>2, <2>2 DEF Jobs
<1>9. next' \in 0..(step.width + 1)
  BY <1>3, <1>6 DEF Children
<1>10. pc' \in {"dispatch", "end"} /\ (step.kind = "loop" => pc' = "end")
  BY Zenon, <1>3
<1>11. \/ submits' = submits \cup {j} /\ mem' = Sent(mem, c) /\ UNCHANGED budget
       \/ Fail /\ submits' = submits /\ mem' = [mem EXCEPT !.child[c].status = "failed"]
       \/ Fail /\ submits' \in {submits, submits \cup {j}} /\ mem' = Unsent(mem, c)
  BY Zenon, <1>1, <1>2 DEF DispatchChild
<1>12. CASE submits' = submits \cup {j} /\ mem' = Sent(mem, c) /\ UNCHANGED budget
  <2>1. mem.child[c].attempts + 1 <= MaxAttempts
    BY Zenon, <1>1, <1>4
  <2>2. /\ mem' \in Documents /\ mem'.status = mem.status
        /\ \A d \in Children : d # c => mem'.child[d] = mem.child[d]
        /\ mem'.child[c].status = "running" /\ mem'.child[c].job = n
    BY Zenon, <1>1, <1>6, <1>12, <2>1, SentIs
  <2>3. j[2] = n
    BY Zenon, <1>2
  <2> QED BY Zenon, <1>1, <1>2, <1>3, <1>5, <1>8, <1>9, <1>10, <1>12, <2>2, <2>3
<1>13. CASE Fail /\ submits' = submits /\ mem' = [mem EXCEPT !.child[c].status = "failed"]
  <2>1. budget' \in Budgets /\ budget'.made = budget.made + 1
    BY Zenon, <1>6, <1>13, FailIs
  <2>2. PICK to : to = mem'
    BY Zenon
  <2>3. PICK sr : sr = [mem.child[c] EXCEPT !.status = "failed"]
    BY Zenon
  <2>4. "failed" \in Statuses
    BY Zenon DEF Statuses, Terminal
  <2>5. sr \in StepRuns /\ sr.status = "failed" /\ sr.job = mem.child[c].job
    BY <1>7, <2>3, <2>4, SetStatusOf
  <2>6. to = [mem EXCEPT !.child[c] = sr]
    BY Zenon, <1>13, <2>2, <2>3
  <2>7. /\ to \in Documents /\ to.status = mem.status
        /\ \A d \in Children : d # c => to.child[d] = mem.child[d]
        /\ to.child[c] = sr
    BY Zenon, <1>6, <2>5, <2>6 DEF Documents
  <2> QED BY Zenon, <1>1, <1>2, <1>3, <1>5, <1>8, <1>9, <1>10, <1>13, <2>1, <2>2, <2>5, <2>7
<1>14. CASE Fail /\ submits' \in {submits, submits \cup {j}} /\ mem' = Unsent(mem, c)
  <2>1. budget' \in Budgets /\ budget'.made = budget.made + 1
    BY Zenon, <1>6, <1>14, FailIs
  <2>2. /\ mem' \in Documents /\ mem'.status = mem.status
        /\ \A d \in Children : d # c => mem'.child[d] = mem.child[d]
        /\ mem'.child[c].status \in {"pending", "failed"}
        /\ mem'.child[c].job \in {NoJob, mem.child[c].job}
    BY Zenon, <1>5, <1>6, <1>14, UnsentIs
  <2> QED BY Zenon, <1>1, <1>2, <1>3, <1>5, <1>8, <1>9, <1>10, <1>14, <2>1, <2>2
<1> QED BY Zenon, <1>11, <1>12, <1>13, <1>14

\* The handler's copy is lost, and the handler with it.
Lost ==
  /\ pc # "idle" /\ pc' = "idle" /\ run' = run /\ mem' = run /\ forgot' = Forget
  /\ UNCHANGED <<step, over, submits, job, results, cancels, due>>
  /\ budget' \in Budgets /\ budget'.made \in {budget.made, budget.made + 1}
  /\ next' = 0 /\ loop'.pass = 0

\* A handler that dies loses its copy.
LEMMA CrashIs ==
  ASSUME FanOutTypeOK, Crash
  PROVE  Lost
<1>1. budget \in Budgets /\ budget.crashes - 1 \in Nat
  BY DEF FanOutTypeOK, Budgets, Crash
<1>2. budget' = [budget EXCEPT !.crashes = budget.crashes - 1]
  BY Zenon DEF Crash
<1>3. budget' \in Budgets /\ budget'.made = budget.made
  BY Zenon, <1>1, <1>2 DEF Budgets
<1>4. loop'.pass = 0
  BY Zenon DEF Crash, Return
<1> QED BY Zenon, <1>3, <1>4 DEF Crash, Return, Lost, world

\* The end of a pass: another one, the write, or the loss of the copy.
LEMMA EndPassIs ==
  ASSUME FanOutTypeOK, EndPass
  PROVE  \/ Lost
         \/ /\ pc \in {"end", "dispatch"} /\ mem' = mem
            /\ UNCHANGED <<step, over, submits, job, results, cancels, due, budget, forgot>>
            /\ next' = 0 /\ loop'.pass \in 0..step.passes
            /\ \/ pc' = "idle" /\ run' = mem
               \/ pc' = "evaluate" /\ run' = run /\ mem.status \notin Terminal
<1>1. /\ pc \in {"end", "dispatch"} /\ UNCHANGED <<step, over, submits, job, results, cancels, due>>
  BY Zenon DEF EndPass, world
<1>2. budget \in Budgets /\ step.passes \in Nat /\ loop.pass \in 0..step.passes
  BY Zenon DEF FanOutTypeOK, Budgets, Steps
<1>3. CASE /\ loop.pass < step.passes /\ mem.status \notin Terminal
           /\ pc' = "evaluate" /\ next' = 0
           /\ loop' = [pass |-> loop.pass + 1, before |-> countTerminal(mem)]
           /\ UNCHANGED <<run, mem, budget, forgot>>
  <2>1. loop'.pass \in 0..step.passes
    BY <1>2, <1>3
  <2> QED BY Zenon, <1>1, <1>3, <2>1
<1>4. CASE run' = mem /\ UNCHANGED <<budget, forgot>> /\ Return
  <2>1. loop'.pass \in 0..step.passes
    BY <1>2, <1>4 DEF Return
  <2> QED BY Zenon, <1>1, <1>4, <2>1 DEF Return
<1>5. CASE Fail /\ run' = run /\ forgot' = Forget /\ Return
  <2>1. loop'.pass = 0
    BY Zenon, <1>5 DEF Return
  <2>2. pc # "idle"
    BY Zenon, <1>1
  <2> QED BY Zenon, <1>1, <1>2, <1>5, <2>1, <2>2, FailIs DEF Return, Lost
<1> QED BY Zenon, <1>3, <1>4, <1>5 DEF EndPass

\* StartRun takes a copy.
LEMMA StartIs ==
  ASSUME StartRun
  PROVE  /\ pc = "idle" /\ pc' = "evaluate" /\ run.status \notin Terminal
         /\ run' = run /\ mem' = run /\ next' = 0 /\ loop'.pass = 1
         /\ UNCHANGED <<step, over, submits, job, results, cancels, due, budget, forgot>>
<1>1. loop'.pass = 1
  BY Zenon DEF StartRun, scheduleReady
<1> QED BY Zenon, <1>1 DEF StartRun, scheduleReady, world

\* The rest of the system leaves both copies alone.
Outside ==
  \/ \E r \in results : AckResult(r)
  \/ \E j \in Jobs : AcceptJob(j) \/ RedeliverJob(j) \/ \E status \in Reports : EndJob(j, status)
  \/ \E c \in Children : BackoffElapses(c)
  \/ RestEnds
  \/ UNCHANGED vars

LEMMA OutsideIs ==
  ASSUME FanOutTypeOK, Outside
  PROVE  /\ UNCHANGED <<step, run, pc, mem, next, loop, cancels, forgot>>
         /\ budget' \in Budgets /\ budget'.made = budget.made
<1>1. UNCHANGED <<step, run, pc, mem, next, loop, cancels, forgot>>
  BY Zenon DEF Outside, AckResult, AcceptJob, RedeliverJob, EndJob, BackoffElapses, RestEnds, vars,
               handler, world
<1>2. budget \in Budgets
  BY Zenon DEF FanOutTypeOK
<1>3. ASSUME NEW j \in Jobs, RedeliverJob(j) PROVE budget' \in Budgets /\ budget'.made = budget.made
  <2>1. budget.lost - 1 \in Nat
    BY <1>2, <1>3 DEF Budgets, RedeliverJob
  <2>2. budget' = [budget EXCEPT !.lost = budget.lost - 1]
    BY Zenon, <1>3 DEF RedeliverJob
  <2> QED BY Zenon, <1>2, <2>1, <2>2 DEF Budgets
<1>4. budget' = budget \/ \E j \in Jobs : RedeliverJob(j)
  BY Zenon DEF Outside, AckResult, AcceptJob, EndJob, BackoffElapses, RestEnds, vars
<1> QED BY Zenon, <1>1, <1>2, <1>3, <1>4

\* The cases of a step.
LEMMA Cases ==
  ASSUME FanOutTypeOK, [Next]_vars
  PROVE  \/ Outside \/ Lost \/ StartRun
         \/ \E j \in Jobs : \E status \in Reports : HandleJobResult(j, status)
         \/ ConditionGate \/ EvaluateForEach \/ EvaluateParallel \/ EvaluateLoop
         \/ \E c \in Children : DispatchChild(c)
         \/ EndPass /\ ~Lost
  BY Zenon, CrashIs DEF Next, Work, Outside

\* The definition of the step is fixed.
LEMMA StepFixed ==
  ASSUME FanOutTypeOK, [Next]_vars
  PROVE  /\ step' = step /\ Children' = Children /\ Jobs' = Jobs /\ Documents' = Documents
         /\ Limit' = Limit
<1>1. step' = step
  BY Zenon, Cases, OutsideIs, StartIs, HandleIs, GateIs, ForEachIs, ParallelIs, LoopIs, DispatchIs, EndPassIs DEF Lost
<1> QED BY Zenon, <1>1 DEF Children, Jobs, Documents, Limit

-----------------------------------------------------------------------------
(* Types.                                                                  *)

JobStatuses == Reported \cup {"none", "active"}

\* FanOutTypeOK one step later, the step being the same.
TypedNext ==
  /\ run' \in Documents /\ mem' \in Documents /\ over' \in BOOLEAN
  /\ pc' \in {"idle", "evaluate", "dispatch", "end"}
  /\ next' \in 0..(step.width + 1) /\ loop'.pass \in 0..step.passes
  /\ submits' \subseteq Jobs /\ cancels' \subseteq Jobs /\ due' \subseteq Children
  /\ job' \in [Jobs -> JobStatuses] /\ results' \subseteq [job : Jobs, status : Reports]
  /\ budget' \in Budgets /\ forgot' \in Nat

LEMMA TypedNow ==
  ASSUME FanOutTypeOK
  PROVE  /\ run \in Documents /\ mem \in Documents /\ over \in BOOLEAN
         /\ pc \in {"idle", "evaluate", "dispatch", "end"}
         /\ next \in 0..(step.width + 1) /\ loop.pass \in 0..step.passes
         /\ submits \subseteq Jobs /\ cancels \subseteq Jobs /\ due \subseteq Children
         /\ job \in [Jobs -> JobStatuses] /\ results \subseteq [job : Jobs, status : Reports]
         /\ budget \in Budgets /\ forgot \in Nat /\ step \in Steps
         /\ 0 \in 0..(step.width + 1) /\ 0 \in 0..step.passes /\ 1 \in 0..step.passes
<1>1. step.width \in Nat /\ step.passes \in Nat \ {0}
  BY Zenon DEF FanOutTypeOK, Steps
<1>2. 0 \in 0..(step.width + 1) /\ 0 \in 0..step.passes /\ 1 \in 0..step.passes
  BY <1>1
<1> QED BY Zenon, <1>2 DEF FanOutTypeOK, JobStatuses, Budgets

\* What a job is left in has been reported, and is a success if that was.
LEMMA StoredIs ==
  ASSUME NEW status \in Reports
  PROVE  Stored(status) \in Reported /\ (status = "SUCCEEDED" => Stored(status) = "SUCCEEDED")
<1>1. CASE status = "FAILED_RETRYABLE"
  BY Zenon, <1>1 DEF Stored, Reported
<1>2. CASE status = "FAILED_FATAL"
  BY Zenon, <1>2 DEF Stored, Reported, Ended
<1>3. CASE status \in {"SUCCEEDED", "FAILED", "DENIED", "TIMEOUT", "CANCELLED"}
  <2>1. Stored(status) = status
    BY Zenon, <1>3 DEF Stored
  <2> QED BY Zenon, <1>3, <2>1 DEF Reported, Ended
<1> QED BY Zenon, <1>1, <1>2, <1>3 DEF Reports, Outcomes

\* The rest of the system keeps the types of the jobs and the results.
LEMMA OutsideTyped ==
  ASSUME FanOutTypeOK, Outside
  PROVE  /\ submits' \subseteq submits /\ due' \subseteq Children /\ over' \in BOOLEAN
         /\ job' \in [Jobs -> JobStatuses] /\ results' \subseteq [job : Jobs, status : Reports]
<1>1. /\ submits \subseteq Jobs /\ due \subseteq Children /\ over \in BOOLEAN
      /\ job \in [Jobs -> JobStatuses] /\ results \subseteq [job : Jobs, status : Reports]
  BY Zenon, TypedNow
<1>2. ASSUME NEW r \in results, AckResult(r)
      PROVE  results' = results \ {r} /\ UNCHANGED <<submits, job, due, over>>
  BY Zenon, <1>2 DEF AckResult
<1>3. ASSUME NEW j \in Jobs, AcceptJob(j)
      PROVE  /\ submits' \subseteq submits /\ UNCHANGED <<results, due, over>>
             /\ job' \in [Jobs -> JobStatuses]
  <2>1. submits' \subseteq submits /\ UNCHANGED <<results, due, over>>
    BY Zenon, <1>3 DEF AcceptJob
  <2>2. job' = [job EXCEPT ![j] = "active"] \/ job' = [job EXCEPT ![j] = "again"] \/ job' = job
    BY Zenon, <1>3 DEF AcceptJob
  <2>3. job' \in [Jobs -> JobStatuses]
    BY Zenon, <1>1, <2>2 DEF JobStatuses, Reported
  <2> QED BY Zenon, <2>1, <2>3
<1>8. ASSUME NEW j \in Jobs, RedeliverJob(j)
      PROVE  UNCHANGED <<submits, results, due, over>> /\ job' \in [Jobs -> JobStatuses]
  <2>1. job' = [job EXCEPT ![j] = "again"] /\ UNCHANGED <<submits, results, due, over>>
    BY Zenon, <1>8 DEF RedeliverJob
  <2> QED BY Zenon, <1>1, <2>1 DEF JobStatuses, Reported
<1>4. ASSUME NEW j \in Jobs, NEW status \in Reports, EndJob(j, status)
      PROVE  /\ UNCHANGED <<submits, due, over>> /\ job' \in [Jobs -> JobStatuses]
             /\ results' \subseteq [job : Jobs, status : Reports]
  <2>1. /\ UNCHANGED <<submits, due, over>> /\ job' = [job EXCEPT ![j] = Stored(status)]
        /\ results' = results \cup {[job |-> j, status |-> status]}
    BY Zenon, <1>4 DEF EndJob
  <2>2. Stored(status) \in JobStatuses
    BY Zenon, StoredIs DEF JobStatuses
  <2>3. job' \in [Jobs -> JobStatuses]
    BY Zenon, <1>1, <2>1, <2>2
  <2>4. results' \subseteq [job : Jobs, status : Reports]
    BY <1>1, <2>1
  <2> QED BY Zenon, <2>1, <2>3, <2>4
<1>5. ASSUME NEW c \in Children, BackoffElapses(c)
      PROVE  due' = due \cup {c} /\ UNCHANGED <<submits, job, results, over>>
  BY Zenon, <1>5 DEF BackoffElapses, world
<1>6. CASE RestEnds
  BY Zenon, <1>1, <1>6 DEF RestEnds, world
<1>7. CASE UNCHANGED vars
  BY Zenon, <1>1, <1>7 DEF vars, world
<1> QED BY Zenon, <1>1, <1>2, <1>3, <1>4, <1>5, <1>6, <1>7, <1>8 DEF Outside

LEMMA TypeStep ==
  ASSUME FanOutTypeOK, [Next]_vars
  PROVE  FanOutTypeOK'
<1>1. /\ run \in Documents /\ mem \in Documents /\ over \in BOOLEAN
      /\ pc \in {"idle", "evaluate", "dispatch", "end"}
      /\ next \in 0..(step.width + 1) /\ loop.pass \in 0..step.passes
      /\ submits \subseteq Jobs /\ cancels \subseteq Jobs /\ due \subseteq Children
      /\ job \in [Jobs -> JobStatuses] /\ results \subseteq [job : Jobs, status : Reports]
      /\ budget \in Budgets /\ forgot \in Nat /\ step \in Steps
      /\ 0 \in 0..(step.width + 1) /\ 0 \in 0..step.passes /\ 1 \in 0..step.passes
  BY Zenon, TypedNow
<1> SUFFICES TypedNext
  BY Zenon, <1>1, StepFixed DEF FanOutTypeOK, TypedNext, JobStatuses, Budgets
<1>2. CASE Outside
  BY Zenon, <1>1, <1>2, OutsideIs, OutsideTyped DEF TypedNext
<1>3. CASE Lost
  <2>1. forgot' \in Nat
    BY <1>1, <1>3 DEF Lost, Forget
  <2> QED BY Zenon, <1>1, <1>3, <2>1 DEF Lost, TypedNext
<1>4. CASE StartRun
  BY Zenon, <1>1, <1>4, StartIs DEF TypedNext
<1>5. ASSUME NEW j \in Jobs, NEW status \in Reports, HandleJobResult(j, status) PROVE TypedNext
  <2>1. /\ UNCHANGED <<step, over, submits, job, results, forgot>>
        /\ budget' \in Budgets /\ cancels' \subseteq Jobs /\ due' \subseteq Children
    BY Zenon, <1>5, HandleIs
  <2>2. CASE UNCHANGED <<run, mem, pc, next, loop>>
    BY Zenon, <1>1, <2>1, <2>2 DEF TypedNext
  <2>3. ASSUME NEW m \in Taken(j, status), run' = After(m), mem' = After(m),
               pc' = IF After(m).status \in Terminal THEN "idle" ELSE "evaluate",
               next' = 0, loop'.pass \in {0, 1}
        PROVE  TypedNext
    <3>1. After(m) \in Documents
      BY Zenon, TakenIs, StoppedIs DEF After
    <3> QED BY Zenon, <1>1, <2>1, <2>3, <3>1 DEF TypedNext
  <2> QED BY Zenon, <1>5, <2>2, <2>3, HandleIs
<1>6. CASE EvaluateForEach
  BY Zenon, <1>1, <1>6, ForEachIs DEF TypedNext
<1>7. CASE EvaluateParallel
  BY Zenon, <1>1, <1>7, ParallelIs DEF TypedNext
<1>8. CASE EvaluateLoop
  BY Zenon, <1>1, <1>8, LoopIs DEF TypedNext
<1>9. ASSUME NEW c \in Children, DispatchChild(c) PROVE TypedNext
  <2>1. submits' \subseteq Jobs /\ budget' \in Budgets
    BY Zenon, <1>1, <1>9, DispatchIs
  <2> QED BY Zenon, <1>1, <1>9, <2>1, DispatchIs DEF TypedNext
<1>10. CASE EndPass /\ ~Lost
  BY Zenon, <1>1, <1>10, EndPassIs DEF TypedNext
<1>11. CASE ConditionGate
  BY Zenon, <1>1, <1>11, GateIs DEF TypedNext
<1> QED BY Zenon, <1>11, <1>2, <1>3, <1>4, <1>5, <1>6, <1>7, <1>8, <1>9, <1>10, Cases

-----------------------------------------------------------------------------
(* The handler and its copy.                                               *)

LEMMA PassStep ==
  ASSUME FanOutTypeOK, PassInv, [Next]_vars
  PROVE  PassInv'
<1> USE DEF PassInv
<1>1. step' = step /\ Children' = Children /\ mem \in Documents /\ run \in Documents
  BY Zenon, StepFixed, TypedNow
<1>2. "running" \notin Terminal
  BY Zenon DEF Terminal
<1>3. CASE Outside
  BY Zenon, <1>1, <1>3, OutsideIs
<1>4. CASE Lost
  BY Zenon, <1>4 DEF Lost
<1>5. CASE StartRun
  BY Zenon, <1>5, StartIs
<1>6. ASSUME NEW j \in Jobs, NEW status \in Reports, HandleJobResult(j, status) PROVE PassInv'
  <2>1. CASE UNCHANGED <<run, mem, pc, next, loop>>
    BY Zenon, <1>1, <2>1
  <2>2. ASSUME NEW m \in Taken(j, status), run' = After(m), mem' = After(m),
               pc' = IF After(m).status \in Terminal THEN "idle" ELSE "evaluate"
        PROVE  PassInv'
    BY Zenon, <2>2
  <2> QED BY Zenon, <1>6, <2>1, <2>2, HandleIs
<1>7. CASE EvaluateForEach
  <2>1. /\ pc = "evaluate" /\ step.kind = "foreach" /\ run' = run
        /\ pc' = "end" \/ (pc' = "dispatch" /\ mem' = Created(mem))
    BY Zenon, <1>7, ForEachIs
  <2> QED BY Zenon, <1>1, <1>2, <2>1, CreatedIs
<1>8. CASE EvaluateParallel
  <2>1. /\ pc = "evaluate" /\ step.kind = "parallel" /\ run' = run
        /\ pc' = "end" \/ (pc' = "dispatch" /\ mem' = Created(mem))
    BY Zenon, <1>8, ParallelIs
  <2> QED BY Zenon, <1>1, <1>2, <2>1, CreatedIs
<1>9. CASE EvaluateLoop
  <2>1. pc = "evaluate" /\ run' = run
    BY Zenon, <1>9, LoopIs
  <2>2. CASE pc' = "end"
    BY Zenon, <2>1, <2>2
  <2>3. CASE pc' # "end"
    <3>1. PICK k \in Children :
            /\ pc' = "dispatch" /\ mem'.status = "running" /\ mem'.child[k].status = "pending"
            /\ \A d \in Children : d # k => mem'.child[d] = mem.child[d]
            /\ \A c \in Children : mem.child[c].status \in {"", "succeeded", "denied"}
      BY Zenon, <1>9, <2>3, LoopIs
    <3>2. \A c \in Children : mem'.child[c].status # "running"
      BY Zenon, <3>1
    <3> QED BY Zenon, <1>1, <1>2, <2>1, <3>1, <3>2
  <2> QED BY Zenon, <2>2, <2>3
<1>10. ASSUME NEW c \in Children, DispatchChild(c) PROVE PassInv'
  <2>1. /\ pc = "dispatch" /\ run' = run /\ mem'.status = mem.status
        /\ pc' \in {"dispatch", "end"} /\ (step.kind = "loop" => pc' = "end")
    BY Zenon, <1>10, DispatchIs
  <2> QED BY Zenon, <1>1, <2>1
<1>11. CASE EndPass /\ ~Lost
  <2>1. /\ pc \in {"end", "dispatch"} /\ mem' = mem
        /\ \/ pc' = "idle" /\ run' = mem
           \/ pc' = "evaluate" /\ run' = run /\ mem.status \notin Terminal
    BY Zenon, <1>11, EndPassIs
  <2> QED BY Zenon, <2>1
<1>12. CASE ConditionGate
  BY Zenon, <1>12, GateIs
<1> QED BY Zenon, <1>3, <1>4, <1>5, <1>6, <1>7, <1>8, <1>9, <1>10, <1>11, <1>12, Cases

\* What becomes of the jobs outside the engine: a job that was reported stays
\* so, and one that succeeded as it is; none is unreported that was not; and
\* the results still tell of their jobs.
JobsKept ==
  /\ \A j \in Jobs : job[j] \in Reported => job'[j] \in Reported
  /\ \A j \in Jobs : job[j] = "SUCCEEDED" => job'[j] = "SUCCEEDED"
  /\ \A j \in Jobs : job'[j] = "active" \/ (j \in submits' /\ job'[j] = "none") => Unreported(j)
  /\ \A j \in Jobs : j \in submits' \/ job'[j] # "none" => j \in submits \/ job[j] # "none"
  /\ (\A r \in results : Tells(job, r)) => \A r \in results' : Tells(job', r)

\* One job moves on.
LEMMA OneJobMoves ==
  ASSUME FanOutTypeOK, NEW j \in Jobs, NEW to \in Reported \cup {"active"},
         job' = [job EXCEPT ![j] = to], submits' \subseteq submits,
         job[j] # "SUCCEEDED", job[j] \in Reported => to \in Reported,
         to = "active" => Unreported(j), j \in submits \/ job[j] # "none",
         \A r \in results' : r \in results \/ (r.job = j /\ Tells(job', r))
  PROVE  JobsKept
<1>1. job \in [Jobs -> JobStatuses] /\ results \subseteq [job : Jobs, status : Reports]
  BY Zenon, TypedNow
<1>2. job'[j] = to /\ \A i \in Jobs : i # j => job'[i] = job[i]
  BY Zenon, <1>1
<1>3. "none" \notin Reported /\ "active" \notin Reported /\ "active" # "none"
  BY Zenon DEF Reported, Ended
<1>4. to # "none"
  BY Zenon, <1>3
<1>5. \A i \in Jobs : job[i] \in Reported => job'[i] \in Reported
  BY Zenon, <1>2
<1>6. \A i \in Jobs : job[i] = "SUCCEEDED" => job'[i] = "SUCCEEDED"
  BY Zenon, <1>2
<1>7. ASSUME NEW i \in Jobs, job'[i] = "active" \/ (i \in submits' /\ job'[i] = "none")
      PROVE  Unreported(i)
  BY Zenon, <1>2, <1>4, <1>7 DEF Unreported
<1>8. \A i \in Jobs : i \in submits' \/ job'[i] # "none" => i \in submits \/ job[i] # "none"
  BY Zenon, <1>2
<1>9. ASSUME \A r \in results : Tells(job, r), NEW r \in results' PROVE Tells(job', r)
  <2>1. CASE r \in results
    <3>1. r.job \in Jobs
      BY Zenon, <1>1, <2>1
    <3> QED BY Zenon, <1>5, <1>6, <1>9, <2>1, <3>1 DEF Tells
  <2> QED BY Zenon, <2>1
<1> QED BY Zenon, <1>5, <1>6, <1>7, <1>8, <1>9 DEF JobsKept

LEMMA OutsideJobs ==
  ASSUME FanOutTypeOK, Outside
  PROVE  JobsKept
<1>1. job \in [Jobs -> JobStatuses] /\ results \subseteq [job : Jobs, status : Reports]
  BY Zenon, TypedNow
<1>2. /\ "none" \notin Reported /\ "active" \notin Reported /\ "again" \in Reported
      /\ "again" # "active"
  BY Zenon DEF Reported, Ended
<1>3. CASE UNCHANGED job /\ results' \subseteq results /\ submits' \subseteq submits
  BY Zenon, <1>3 DEF Unreported, JobsKept
<1>4. ASSUME NEW j \in Jobs, AcceptJob(j) PROVE JobsKept
  <2>1. j \in submits /\ submits' \subseteq submits /\ results' = results
    BY Zenon, <1>4 DEF AcceptJob
  <2>2. CASE job[j] = "none"
    <3>1. job' = [job EXCEPT ![j] = "active"] /\ Unreported(j)
      BY Zenon, <1>4, <2>1, <2>2 DEF AcceptJob, Unreported
    <3> QED BY Zenon, <1>2, <2>1, <2>2, <3>1, OneJobMoves
  <2>3. CASE job[j] = "RETRYING"
    <3>1. job' = [job EXCEPT ![j] = "again"]
      BY Zenon, <1>4, <2>3 DEF AcceptJob
    <3> QED BY Zenon, <1>2, <2>1, <2>3, <3>1, OneJobMoves
  <2>4. CASE job[j] # "none" /\ job[j] # "RETRYING"
    <3>1. job' = job
      BY Zenon, <1>4, <2>4 DEF AcceptJob
    <3> QED BY Zenon, <1>3, <2>1, <3>1
  <2> QED BY Zenon, <2>2, <2>3, <2>4
<1>5. ASSUME NEW j \in Jobs, RedeliverJob(j) PROVE JobsKept
  <2>1. /\ job[j] = "RETRYING" /\ job' = [job EXCEPT ![j] = "again"]
        /\ submits' = submits /\ results' = results
    BY Zenon, <1>5 DEF RedeliverJob
  <2> QED BY Zenon, <1>2, <2>1, OneJobMoves
<1>6. ASSUME NEW j \in Jobs, NEW status \in Reports, EndJob(j, status) PROVE JobsKept
  <2>1. /\ job[j] \in {"active", "again", "RETRYING"} /\ submits' = submits
        /\ job' = [job EXCEPT ![j] = Stored(status)]
        /\ results' = results \cup {[job |-> j, status |-> status]}
    BY Zenon, <1>6 DEF EndJob
  <2>2. Stored(status) \in Reported /\ (status = "SUCCEEDED" => Stored(status) = "SUCCEEDED")
    BY Zenon, StoredIs
  <2>3. job'[j] = Stored(status)
    BY Zenon, <1>1, <2>1
  <2>4. \A r \in results' : r \in results \/ (r.job = j /\ r.status = status)
    BY <2>1
  <2>5. \A r \in results' : r \in results \/ (r.job = j /\ Tells(job', r))
    BY Zenon, <2>2, <2>3, <2>4 DEF Tells
  <2>6. job[j] # "none" /\ job[j] # "SUCCEEDED"
    BY Zenon, <2>1
  <2>7. Stored(status) # "active"
    BY Zenon, <1>2, <2>2
  <2> QED BY Zenon, <2>1, <2>2, <2>5, <2>6, <2>7, OneJobMoves
<1>7. CASE \E r \in results : AckResult(r)
  BY Zenon, <1>3, <1>7 DEF AckResult
<1>8. CASE (\E c \in Children : BackoffElapses(c)) \/ RestEnds \/ UNCHANGED vars
  BY Zenon, <1>3, <1>8 DEF BackoffElapses, RestEnds, vars, world
<1> QED BY Zenon, <1>4, <1>5, <1>6, <1>7, <1>8 DEF Outside

\* handleJobResult is given what was reported of the job.
LEMMA HandledIs ==
  ASSUME FanOutTypeOK, WorkInv, NEW j \in Jobs, NEW status \in Reports, HandleJobResult(j, status)
  PROVE  job[j] \in Reported /\ (status = "SUCCEEDED" => job[j] = "SUCCEEDED")
<1>1. \/ [job |-> j, status |-> status] \in results
      \/ job[j] = status
  BY Zenon DEF HandleJobResult
<1>2. [job |-> j, status |-> status].job = j /\ [job |-> j, status |-> status].status = status
  BY Zenon
<1>3. CASE [job |-> j, status |-> status] \in results
  BY Zenon, <1>2, <1>3 DEF WorkInv, Tells
<1>4. CASE job[j] = status
  <2>2. job[j] \in JobStatuses
    BY Zenon, TypedNow
  <2>3. status # "none" /\ status # "active"
    BY Zenon DEF Reports, Outcomes
  <2>1. job[j] \in Reported
    BY Zenon, <1>4, <2>2, <2>3 DEF JobStatuses
  <2> QED BY Zenon, <1>4, <2>1
<1> QED BY Zenon, <1>1, <1>3, <1>4

\* What After leaves of the children.
LEMMA AfterIs ==
  ASSUME FanOutTypeOK, NEW j \in Jobs, NEW status \in Reports, NEW m \in Taken(j, status)
  PROVE  /\ After(m) \in Documents /\ After(m).status = m.status
         /\ \A c \in Children :
              /\ After(m).child[c].job = m.child[c].job
              /\ \/ After(m).child[c].status = m.child[c].status
                 \/ /\ Ends(m) /\ m.child[c].status \notin Terminal \cup {""}
                    /\ After(m).child[c].status = "cancelled"
              /\ Ends(m) => After(m).child[c].status \in Terminal \cup {""}
<1>1. m \in Documents
  BY Zenon, TakenIs
<1>2. "cancelled" \in Terminal
  BY Zenon DEF Terminal
<1> QED BY Zenon, <1>1, <1>2, StoppedIs DEF After

LEMMA WorkStep ==
  ASSUME FanOutTypeOK, PassInv, WorkInv, [Next]_vars
  PROVE  WorkInv'
<1>1. /\ Children' = Children /\ mem \in Documents /\ run \in Documents
      /\ \A c \in Children : \A n \in 1..MaxAttempts : <<c, n>> \in Jobs
  BY Zenon, StepFixed, TypedNow DEF Jobs
<1>2. CASE Outside
  <2>1. \A c \in Children : Succeeded(c) => Succeeded(c)'
    BY Zenon, <1>1, <1>2, OutsideJobs DEF Succeeded, JobsKept
  <2>2. \A r \in results' : Tells(job', r)
    BY Zenon, <1>2, OutsideJobs DEF WorkInv, JobsKept
  <2> QED BY Zenon, <1>1, <1>2, <2>1, <2>2, OutsideIs DEF WorkInv, Tells
<1>3. ASSUME results' = results, job' = job,
             \A c \in Children : run'.child[c].status = "succeeded" => Succeeded(c),
             \A c \in Children : mem'.child[c].status = "succeeded" => Succeeded(c)
      PROVE  WorkInv'
  BY Zenon, <1>1, <1>3 DEF WorkInv, Succeeded, Tells
<1>4. /\ \A c \in Children : run.child[c].status = "succeeded" => Succeeded(c)
      /\ \A c \in Children : mem.child[c].status = "succeeded" => Succeeded(c)
  BY Zenon DEF WorkInv
<1>5. CASE Lost \/ StartRun
  BY Zenon, <1>3, <1>4, <1>5, StartIs DEF Lost
<1>6. ASSUME NEW j \in Jobs, NEW status \in Reports, HandleJobResult(j, status) PROVE WorkInv'
  <2>1. /\ status = "SUCCEEDED" => job[j] = "SUCCEEDED"
        /\ UNCHANGED <<job, results>> /\ j = <<j[1], j[2]>> /\ j[2] \in 1..MaxAttempts
    BY Zenon, <1>6, HandledIs, HandleIs, JobParts
  <2>2. CASE UNCHANGED <<run, mem, pc, next, loop>>
    BY Zenon, <1>3, <1>4, <2>1, <2>2
  <2>3. ASSUME NEW m \in Taken(j, status), run' = After(m), mem' = After(m) PROVE WorkInv'
    <3>9. /\ \A d \in Children : d # j[1] => m.child[d] = run.child[d]
          /\ m.child[j[1]].status = "succeeded" => status = "SUCCEEDED"
      <4>1. OfResult(j, status, m)
        BY Zenon, TakenIs
      <4> QED BY Zenon, <4>1 DEF OfResult
    <3>1. ASSUME NEW c \in Children, m.child[c].status = "succeeded" PROVE Succeeded(c)
      <4>1. CASE c = j[1]
        <5>1. job[<<c, j[2]>>] = "SUCCEEDED"
          BY Zenon, <2>1, <3>9, <3>1, <4>1
        <5> QED BY Zenon, <2>1, <5>1 DEF Succeeded
      <4>2. CASE c # j[1]
        BY Zenon, <1>4, <3>9, <3>1, <4>2
      <4> QED BY Zenon, <4>1, <4>2
    <3>2. \A c \in Children : After(m).child[c].status = "succeeded" => m.child[c].status = "succeeded"
      BY Zenon, AfterIs
    <3> QED BY Zenon, <1>3, <2>1, <2>3, <3>1, <3>2
  <2> QED BY Zenon, <1>6, <2>2, <2>3, HandleIs
<1>7. ASSUME results' = results, job' = job, run' = run,
             \A c \in Children : mem'.child[c].status = "succeeded" => mem.child[c].status = "succeeded"
      PROVE  WorkInv'
  BY Zenon, <1>3, <1>4, <1>7
<1>8. \A c \in Children : Created(mem).child[c].status = "succeeded" => mem.child[c].status = "succeeded"
  BY Zenon, <1>1, CreatedIs
<1>9. CASE EvaluateForEach
  BY Zenon, <1>7, <1>8, <1>9, ForEachIs
<1>10. CASE EvaluateParallel
  <2>1. \A c \in Children : Stopped(Created(mem)).child[c].status = "succeeded" =>
                              mem.child[c].status = "succeeded"
    <3>1. PICK m : m = Created(mem)
      BY Zenon
    <3>2. m \in Documents
      BY Zenon, <1>1, <3>1, CreatedIs
    <3>3. \A c \in Children : Stopped(m).child[c].status = "succeeded" => m.child[c].status = "succeeded"
      BY Zenon, <3>2, StoppedIs
    <3> QED BY Zenon, <1>8, <3>1, <3>3
  <2> QED BY Zenon, <1>7, <1>8, <1>10, <2>1, ParallelIs
<1>11. CASE EvaluateLoop
  <2>1. /\ UNCHANGED <<results, job, run>>
        /\ \/ mem'.child = mem.child
           \/ \E k \in Children : mem'.child[k].status = "pending" /\
                \A d \in Children : d # k => mem'.child[d] = mem.child[d]
    BY Zenon, <1>11, LoopIs
  <2> QED BY Zenon, <1>7, <2>1
<1>12. ASSUME NEW c \in Children, DispatchChild(c) PROVE WorkInv'
  <2>1. /\ UNCHANGED <<results, job, run>> /\ mem'.child[c].status # "succeeded"
        /\ \A d \in Children : d # c => mem'.child[d] = mem.child[d]
    BY Zenon, <1>12, DispatchIs
  <2> QED BY Zenon, <1>7, <2>1
<1>13. CASE EndPass /\ ~Lost
  BY Zenon, <1>3, <1>4, <1>13, EndPassIs
<1>14. CASE ConditionGate
  BY Zenon, <1>7, <1>14, GateIs
<1> QED BY Zenon, <1>14, <1>2, <1>5, <1>6, <1>9, <1>10, <1>11, <1>12, <1>13, Cases

-----------------------------------------------------------------------------
(* The document as long as nothing was forgotten.                          *)

\* A set of iterations without gaps ends where its number says.
LEMMA Prefix ==
  ASSUME step \in Steps, NEW S \in SUBSET Children,
         \A c \in S : \A d \in Children : d < c => d \in S
  PROVE  /\ Cardinality(S) + 1 \notin S
         /\ \A d \in Children : d < Cardinality(S) + 1 => d \in S
         /\ \A d \in Children : Cardinality(S) + 1 < d => d \notin S
<1>1. step.width \in Nat /\ Cardinality(S) \in Nat /\ IsFiniteSet(S) /\ Cardinality(S) <= step.width
  <2>1. step.width \in Nat
    BY Zenon DEF Steps
  <2> QED BY Zenon, <2>1, SomeChildren
<1>2. PICK n \in Nat : n = Cardinality(S) /\ n <= step.width
  BY Zenon, <1>1
<1>3. \A c \in Children : c \in Nat /\ 1 <= c /\ c <= step.width
  BY <1>1 DEF Children
<1>4. n + 1 \notin S
  <2> SUFFICES ASSUME n + 1 \in S PROVE FALSE
    BY Zenon
  <2>1. n + 1 \in Children
    BY Zenon
  <2>2. 1..(n + 1) \in SUBSET S
    <3>1. ASSUME NEW d \in 1..(n + 1) PROVE d \in S
      <4>1. d \in Children /\ (d < n + 1 \/ d = n + 1)
        BY <1>1, <1>2, <1>3, <2>1 DEF Children
      <4> QED BY Zenon, <4>1
    <3> QED BY Zenon, <3>1
  <2>3. Cardinality(1..(n + 1)) = n + 1
    <3>1. 1 \in Int /\ n + 1 \in Int /\ ~(1 > n + 1) /\ n + 1 - 1 + 1 = n + 1
      BY <1>2
    <3> QED BY <3>1, FS_Interval
  <2>4. Cardinality(1..(n + 1)) <= n
    BY Zenon, <1>1, <1>2, <2>2, FS_Subset
  <2> QED BY <1>2, <2>3, <2>4
<1>5. S \in SUBSET (1..n)
  <2>1. ASSUME NEW c \in S PROVE c \in 1..n
    <3>1. c \in Children /\ (c \in 1..n \/ n + 1 < c \/ n + 1 = c)
      BY <1>2, <1>3
    <3>2. CASE n + 1 < c
      <4>1. n + 1 \in Children
        BY <1>1, <1>2, <1>3, <3>1, <3>2 DEF Children
      <4> QED BY Zenon, <1>4, <3>2, <4>1
    <3> QED BY Zenon, <1>4, <3>1, <3>2
  <2> QED BY Zenon, <2>1
<1>6. S = 1..n
  <2>1. IsFiniteSet(1..n) /\ Cardinality(1..n) = n
    BY <1>2, FS_Interval
  <2> QED BY Zenon, <1>2, <1>5, <2>1, FS_Subset
<1>7. \A d \in Children : d < n + 1 => d \in 1..n
  BY <1>2, <1>3
<1>8. \A d \in Children : n + 1 < d => d \notin 1..n
  BY <1>2, <1>3
<1> QED BY Zenon, <1>2, <1>4, <1>6, <1>7, <1>8

\* The order of the children.
LEMMA Order ==
  ASSUME step \in Steps
  PROVE  \A c, d \in Children : ~(c < c) /\ (c < d \/ d < c \/ c = d)
<1>1. \A c \in Children : c \in Nat
  BY DEF Steps, Children
<1> QED BY <1>1

\* A document is whole or not whatever the step of the specification.
LEMMA WholeNext ==
  ASSUME step' = step
  PROVE  (Whole(run)' <=> Whole(run')) /\ (Whole(mem)' <=> Whole(mem'))
  BY Zenon DEF Whole, EarnedBy, Children

\* The children as Created leaves them.
LEMMA WholeCreated ==
  ASSUME NEW m \in Documents, step.kind # "loop"
  PROVE  Whole(Created(m)) /\ \A c \in Children : Created(m).child[c].status # ""
<1>1. Created(m).status = "running" /\ \A c \in Children : Created(m).child[c].status # ""
  BY Zenon, CreatedIs
<1>2. "running" \notin Terminal /\ "running" # "succeeded"
  BY Zenon DEF Terminal
<1> QED BY Zenon, <1>1, <1>2 DEF Whole

\* A child of a document without gaps is dispatched.
LEMMA WholeDispatch ==
  ASSUME step \in Steps, NEW m \in Documents, NEW to \in Documents, NEW c \in Children, Whole(m),
         m.status \notin Terminal, to.status = m.status, m.child[c].status = "pending",
         to.child[c].status # "", \A d \in Children : d # c => to.child[d] = m.child[d]
  PROVE  Whole(to)
<1>1. to.status \notin Terminal /\ to.status # "succeeded"
  BY Zenon DEF Terminal
<1>2. ASSUME step.kind # "loop", NEW x \in Children, NEW y \in Children, to.child[x].status = ""
      PROVE  to.child[y].status = ""
  BY Zenon, <1>2 DEF Whole
<1>3. ASSUME step.kind = "loop", NEW x \in Children, NEW y \in Children, y < x, to.child[x].status # ""
      PROVE  to.child[y].status \in {"succeeded", "denied"}
  <2>1. m.child[x].status # ""
    BY Zenon, <1>3
  <2>2. m.child[y].status \in {"succeeded", "denied"}
    BY Zenon, <1>3, <2>1 DEF Whole
  <2>3. y # c
    BY Zenon, <2>2
  <2> QED BY Zenon, <2>2, <2>3
<1> QED BY Zenon, <1>1, <1>2, <1>3 DEF Whole

\* Known jobs are of children the document has; the child of a result is under
\* way, or the result would be ignored.
LEMMA TakenFrom ==
  ASSUME FanOutTypeOK, PassInv, WorkInv, WholeInv, forgot = 0, ~step.gated,
         NEW j \in Jobs, NEW status \in Reports, HandleJobResult(j, status)
  PROVE  /\ j[1] \in Children /\ mem = run /\ Whole(run)
         /\ run.child[j[1]].status \notin Terminal \cup {""}
         /\ run.status \notin Terminal
<1>1. /\ j[1] \in Children /\ pc = "idle" /\ ~Ignored(j) /\ job[j] \in Reported
  BY Zenon, JobParts, HandleIs, HandledIs
<1>2. mem = run /\ Whole(run)
  BY Zenon, <1>1 DEF PassInv, WholeInv
<1>3. "none" \notin Reported
  BY Zenon DEF Reported, Ended
<1>4. run.child[j[1]].status # ""
  BY Zenon, <1>1, <1>2, <1>3 DEF WholeInv
<1>5. run.child[j[1]].status \notin Terminal
  BY Zenon, <1>1 DEF Ignored, shouldIgnoreProcessedResult
<1> QED BY Zenon, <1>1, <1>2, <1>4, <1>5 DEF Whole

LEMMA WholeHandle ==
  ASSUME FanOutTypeOK, PassInv, WorkInv, WholeInv, forgot = 0, ~step.gated,
         NEW j \in Jobs, NEW status \in Reports, HandleJobResult(j, status),
         NEW m \in Taken(j, status)
  PROVE  /\ Whole(After(m))
         /\ \A c \in Children : mem.child[c].status # "" => After(m).child[c].status # ""
<1> DEFINE k == j[1]
<1>1. /\ k \in Children /\ mem = run /\ Whole(run)
      /\ run.child[k].status \notin Terminal \cup {""} /\ run.status \notin Terminal
  BY Zenon, TakenFrom
<1>2. OfResult(j, status, m) /\ OfStep(m)
  BY Zenon, TakenIs
<1>3. /\ \A d \in Children : d # k => m.child[d] = run.child[d]
      /\ m.child[k].status # ""
  BY Zenon, <1>2 DEF OfResult
<1>4. /\ After(m).status = m.status
      /\ \A c \in Children :
           /\ After(m).child[c].status # "" <=> m.child[c].status # ""
           /\ ~Ends(m) => After(m).child[c].status = m.child[c].status
           /\ Ends(m) => After(m).child[c].status \in Terminal \cup {""}
  <2>1. After(m).status = m.status
    BY Zenon, AfterIs
  <2>2. \A c \in Children :
          /\ After(m).child[c].job = m.child[c].job
          /\ \/ After(m).child[c].status = m.child[c].status
             \/ /\ Ends(m) /\ m.child[c].status \notin Terminal \cup {""}
                /\ After(m).child[c].status = "cancelled"
          /\ Ends(m) => After(m).child[c].status \in Terminal \cup {""}
    BY Zenon, AfterIs
  <2>3. ASSUME NEW c \in Children
        PROVE  After(m).child[c].status # "" <=> m.child[c].status # ""
    <3>1. CASE After(m).child[c].status = m.child[c].status
      BY Zenon, <3>1
    <3>2. CASE m.child[c].status \notin Terminal \cup {""} /\ After(m).child[c].status = "cancelled"
      <4>1. m.child[c].status # "" /\ After(m).child[c].status # ""
        BY Zenon, <3>2
      <4> QED BY Zenon, <4>1
    <3> QED BY Zenon, <2>2, <3>1, <3>2
  <2> QED BY Zenon, <2>1, <2>2, <2>3
<1> HIDE DEF k
<1>5. \A c \in Children : run.child[c].status # "" => After(m).child[c].status # ""
  BY Zenon, <1>3, <1>4
<1>6. step.kind # "loop" => \A c \in Children : After(m).child[c].status # ""
  BY Zenon, <1>1, <1>5 DEF Whole
<1>7. ASSUME step.kind = "loop", NEW c \in Children, NEW d \in Children, d < c,
             After(m).child[c].status # ""
      PROVE  After(m).child[d].status \in {"succeeded", "denied"}
  <2>1. ~Ends(m)
    BY Zenon, <1>7 DEF Ends
  <2>2. run.child[c].status # ""
    BY Zenon, <1>1, <1>3, <1>4, <1>7
  <2>3. run.child[d].status \in {"succeeded", "denied"}
    BY Zenon, <1>1, <1>7, <2>2 DEF Whole
  <2>4. d # k
    BY Zenon, <1>1, <2>3 DEF Terminal
  <2> QED BY Zenon, <1>3, <1>4, <2>1, <2>3, <2>4
<1>8. step.kind \in {"foreach", "parallel", "loop"}
  BY Zenon DEF FanOutTypeOK, Steps
<1>9. ASSUME m.status \in Terminal PROVE step.kind = "foreach" /\ (Ends(m) \/ m.status = "succeeded")
  <2>1. "running" \notin Terminal
    BY Zenon DEF Terminal
  <2> QED BY Zenon, <1>1, <1>2, <1>8, <1>9, <2>1 DEF OfStep, Ends
<1>10. ASSUME m.status = "succeeded", step.kind = "foreach"
       PROVE  \A c \in Children : After(m).child[c].status = "succeeded"
  <2>1. ~Ends(m)
    BY Zenon, <1>10 DEF Ends
  <2> QED BY Zenon, <1>2, <1>4, <1>6, <1>8, <1>10, <2>1 DEF OfStep
<1>11. "succeeded" \in Terminal
  BY Zenon DEF Terminal
<1>12. After(m).status = "succeeded" => EarnedBy(After(m))
  BY Zenon, <1>4, <1>9, <1>10, <1>11 DEF EarnedBy
<1>13. After(m).status \in Terminal => \A c \in Children : After(m).child[c].status \in Terminal \cup {""}
  BY Zenon, <1>4, <1>9, <1>10, <1>11
<1> QED BY Zenon, <1>1, <1>5, <1>6, <1>7, <1>12, <1>13 DEF Whole

\* The jobs su and jb are of children that document m has.
Known(su, jb, m) == \A j \in Jobs : j \in su \/ jb[j] # "none" => m.child[j[1]].status # ""

\* Nothing forgotten after a step is nothing forgotten in it.
LEMMA NotForgotten ==
  ASSUME FanOutTypeOK, [Next]_vars, forgot' = 0
  PROVE  forgot = 0 /\ (Lost => mem = run)
<1>1. forgot \in Nat
  BY Zenon, TypedNow
<1>2. forgot' = forgot \/ (Lost /\ forgot' = Forget)
  BY Zenon, Cases, OutsideIs, StartIs, HandleIs, GateIs, ForEachIs, ParallelIs, LoopIs, DispatchIs, EndPassIs DEF Lost
<1>3. Lost => forgot' = Forget
  BY Zenon DEF Lost
<1>4. forgot + 1 # 0
  BY <1>1
<1> QED BY Zenon, <1>1, <1>2, <1>3, <1>4 DEF Forget

\* A look at a parallel step that decides it.
LEMMA WholeDecided ==
  ASSUME FanOutTypeOK, step.kind = "parallel", mem' \in Documents,
         mem'.child = Stopped(Created(mem)).child,
         mem'.status = "succeeded" => Count(Created(mem), {"succeeded"}) >= step.required
  PROVE  Whole(mem') /\ \A c \in Children : mem'.child[c].status # ""
<1>1. mem \in Documents
  BY Zenon, TypedNow
<1>2. PICK m : m = Created(mem)
  BY Zenon
<1>3. m \in Documents /\ \A c \in Children : m.child[c].status # ""
  BY Zenon, <1>1, <1>2, CreatedIs
<1>4. \A c \in Children : mem'.child[c].status =
         IF m.child[c].status \in Terminal \cup {""} THEN m.child[c].status ELSE "cancelled"
  <2>1. \A c \in Children :
          /\ Stopped(m).child[c].job = m.child[c].job
          /\ Stopped(m).child[c].status =
               IF m.child[c].status \in Terminal \cup {""} THEN m.child[c].status ELSE "cancelled"
    BY Zenon, <1>3, StoppedIs
  <2> QED BY Zenon, <1>2, <2>1
<1>5. "cancelled" \in Terminal /\ "succeeded" \in Terminal
  BY Zenon DEF Terminal
<1>6. \A c \in Children : mem'.child[c].status # "" /\ mem'.child[c].status \in Terminal \cup {""}
  BY Zenon, <1>3, <1>4, <1>5
<1>7. {c \in Children : mem'.child[c].status = "succeeded"} =
        {c \in Children : m.child[c].status \in {"succeeded"}}
  BY Zenon, <1>4, <1>5
<1>8. mem'.status = "succeeded" => EarnedBy(mem')
  BY Zenon, <1>2, <1>7 DEF EarnedBy, Count
<1> QED BY Zenon, <1>6, <1>8 DEF Whole

\* A look at a loop that ends it or leaves it waiting.
LEMMA WholeLoopEnds ==
  ASSUME FanOutTypeOK, EvaluateLoop, Whole(mem), pc' = "end"
  PROVE  Whole(mem') /\ mem'.child = mem.child
<1>1. step \in Steps /\ step.kind = "loop"
  BY Zenon, TypedNow, LoopIs
<1>2. /\ mem'.child = mem.child
      /\ mem'.status = "succeeded" =>
           \A c \in Children : mem.child[c].status \in {"", "succeeded", "denied"}
      /\ mem'.status = "failed" =>
           \/ \E c \in Children : mem.child[c].status \in {"failed", "cancelled", "timed_out"}
           \/ \A c \in Children : mem.child[c].status \in Terminal \cup {""}
      /\ mem'.status \in {"failed", "running", "succeeded"}
  BY Zenon, LoopIs
<1>3. /\ "running" \notin Terminal
      /\ \A s : s \in {"", "succeeded", "denied"} => s \in Terminal \cup {""}
      /\ \A s : s \in {"failed", "cancelled", "timed_out"} => s \in Terminal \cup {""}
  BY Zenon DEF Terminal
<1>4. ASSUME NEW c \in Children, mem.child[c].status \in {"failed", "cancelled", "timed_out"},
             NEW d \in Children
      PROVE  mem.child[d].status \in Terminal \cup {""}
  <2>1. c < d \/ d < c \/ c = d
    BY Zenon, <1>1, Order
  <2>2. CASE c < d
    <3>1. mem.child[d].status = ""
      BY Zenon, <1>1, <1>4, <2>2 DEF Whole
    <3> QED BY Zenon, <1>3, <3>1
  <2>3. CASE d < c
    <3>1. mem.child[d].status \in {"succeeded", "denied"}
      BY Zenon, <1>1, <1>4, <2>3 DEF Whole
    <3> QED BY Zenon, <1>3, <3>1
  <2> QED BY Zenon, <1>3, <1>4, <2>1, <2>2, <2>3
<1>5. mem'.status \in Terminal => \A c \in Children : mem.child[c].status \in Terminal \cup {""}
  BY Zenon, <1>2, <1>3, <1>4
<1>6. mem'.status = "succeeded" => EarnedBy(mem')
  BY Zenon, <1>1, <1>2 DEF EarnedBy
<1> QED BY Zenon, <1>1, <1>2, <1>5, <1>6 DEF Whole

\* A look at a loop that adds an iteration.
LEMMA WholeLoopGrows ==
  ASSUME FanOutTypeOK, EvaluateLoop, Whole(mem), pc' = "dispatch"
  PROVE  Whole(mem') /\ \A c \in Children : mem.child[c].status # "" => mem'.child[c].status # ""
<1>1. step \in Steps /\ step.kind = "loop"
  BY Zenon, TypedNow, LoopIs
<1>2. PICK k : k = Cardinality(Exists(mem)) + 1
  BY Zenon
<1>3. /\ k \in Children /\ mem'.status = "running"
      /\ \A d \in Children : d # k => mem'.child[d] = mem.child[d]
      /\ mem'.child[k].status = "pending"
      /\ \A c \in Children : mem.child[c].status \in {"", "succeeded", "denied"}
  BY Zenon, <1>2, LoopIs
<1>4. Exists(mem) \in SUBSET Children /\ \A c \in Children : c \in Exists(mem) <=> mem.child[c].status # ""
  BY Zenon DEF Exists
<1>5. \A c \in Exists(mem) : \A d \in Children : d < c => d \in Exists(mem)
  BY Zenon, <1>1, <1>4 DEF Whole
<1>6. /\ k \notin Exists(mem)
      /\ \A d \in Children : d < k => d \in Exists(mem)
      /\ \A d \in Children : k < d => d \notin Exists(mem)
  BY Zenon, <1>1, <1>2, <1>4, <1>5, Prefix
<1>7. ASSUME NEW c \in Children, NEW d \in Children, d < c, mem'.child[c].status # ""
      PROVE  mem'.child[d].status \in {"succeeded", "denied"}
  <2>1. d # k
    <3> SUFFICES ASSUME d = k PROVE FALSE
      BY Zenon
    <3>1. c # k
      BY Zenon, <1>1, <1>7, Order
    <3> QED BY Zenon, <1>3, <1>4, <1>6, <1>7, <3>1
  <2>2. d \in Exists(mem)
    BY Zenon, <1>3, <1>4, <1>5, <1>6, <1>7
  <2> QED BY Zenon, <1>3, <1>4, <2>1, <2>2
<1>8. "running" \notin Terminal /\ "running" # "succeeded"
  BY Zenon DEF Terminal
<1> QED BY Zenon, <1>1, <1>3, <1>7, <1>8 DEF Whole

LEMMA WholeStep ==
  ASSUME FanOutTypeOK, PassInv, WorkInv, WholeInv, [Next]_vars
  PROVE  WholeInv'
<1> SUFFICES ASSUME forgot' = 0, ~step.gated PROVE Whole(run') /\ Whole(mem') /\ Known(submits', job', mem')
  BY Zenon, StepFixed, WholeNext DEF WholeInv, Known
<1>1. /\ forgot = 0 /\ (Lost => mem = run)
      /\ mem \in Documents /\ run \in Documents /\ step \in Steps
  BY Zenon, NotForgotten, TypedNow
<1>2. Whole(run) /\ Whole(mem) /\ Known(submits, job, mem)
  BY Zenon, <1>1 DEF WholeInv, Known
<1>3. pc = "idle" => mem = run
  BY Zenon DEF PassInv
<1>4. ASSUME submits' = submits, job' = job,
             \A c \in Children : mem.child[c].status # "" => mem'.child[c].status # ""
      PROVE  Known(submits', job', mem')
  BY Zenon, <1>2, <1>4, JobParts DEF Known
<1>5. CASE Outside
  <2>1. run' = run /\ mem' = mem
    BY Zenon, <1>5, OutsideIs
  <2>2. \A j \in Jobs : j \in submits' \/ job'[j] # "none" => j \in submits \/ job[j] # "none"
    BY Zenon, <1>5, OutsideJobs DEF JobsKept
  <2> QED BY Zenon, <1>2, <2>1, <2>2 DEF Known
<1>6. CASE Lost \/ StartRun
  <2>1. run' = run /\ mem' = mem /\ UNCHANGED <<submits, job>>
    BY Zenon, <1>1, <1>3, <1>6, StartIs DEF Lost
  <2> QED BY Zenon, <1>2, <1>4, <2>1
<1>7. ASSUME NEW j \in Jobs, NEW status \in Reports, HandleJobResult(j, status)
      PROVE  Whole(run') /\ Whole(mem') /\ Known(submits', job', mem')
  <2>1. UNCHANGED <<submits, job>>
    BY Zenon, <1>7, HandleIs
  <2>2. CASE UNCHANGED <<run, mem, pc, next, loop>>
    BY Zenon, <1>2, <1>4, <2>1, <2>2
  <2>3. ASSUME NEW m \in Taken(j, status), run' = After(m), mem' = After(m)
        PROVE  Whole(run') /\ Whole(mem') /\ Known(submits', job', mem')
    <3>1. /\ Whole(After(m))
          /\ \A c \in Children : mem.child[c].status # "" => After(m).child[c].status # ""
      BY Zenon, <1>1, <1>7, WholeHandle
    <3> QED BY Zenon, <1>4, <2>1, <2>3, <3>1
  <2> QED BY Zenon, <1>7, <2>2, <2>3, HandleIs
<1>8. CASE EvaluateForEach
  <2>1. step.kind = "foreach" /\ UNCHANGED <<run, submits, job>>
    BY Zenon, <1>8, ForEachIs
  <2>2. CASE mem' = Created(mem)
    BY Zenon, <1>1, <1>2, <1>4, <2>1, <2>2, WholeCreated
  <2>3. CASE /\ mem'.child = mem.child /\ mem'.status = "failed"
             /\ \E c \in Children : mem.child[c].status = ""
    <3>1. \A c \in Children : mem'.child[c].status = ""
      BY Zenon, <1>2, <2>1, <2>3 DEF Whole
    <3>2. Whole(mem')
      BY Zenon, <2>1, <2>3, <3>1 DEF Whole
    <3> QED BY Zenon, <1>2, <1>4, <2>1, <2>3, <3>2
  <2>4. CASE mem'.child = mem.child /\ mem'.status = "succeeded" /\ Children = {}
    <3>1. Whole(mem')
      BY Zenon, <2>1, <2>4 DEF Whole, EarnedBy
    <3> QED BY Zenon, <1>2, <1>4, <2>1, <2>4, <3>1
  <2> QED BY Zenon, <1>8, <2>2, <2>3, <2>4, ForEachIs
<1>9. CASE EvaluateParallel
  <2>1. step.kind = "parallel" /\ UNCHANGED <<run, submits, job>> /\ mem' \in Documents
    BY Zenon, <1>9, ParallelIs
  <2>2. CASE mem' = Created(mem)
    BY Zenon, <1>1, <1>2, <1>4, <2>1, <2>2, WholeCreated
  <2>3. CASE /\ mem'.child = Stopped(Created(mem)).child
             /\ mem'.status = "succeeded" => Count(Created(mem), {"succeeded"}) >= step.required
    BY Zenon, <1>2, <1>4, <2>1, <2>3, WholeDecided
  <2> QED BY Zenon, <1>9, <2>2, <2>3, ParallelIs
<1>10. CASE EvaluateLoop
  <2>1. UNCHANGED <<run, submits, job>> /\ pc' \in {"end", "dispatch"}
    BY Zenon, <1>10, LoopIs
  <2>2. Whole(mem') /\ \A c \in Children : mem.child[c].status # "" => mem'.child[c].status # ""
    BY Zenon, <1>2, <1>10, <2>1, WholeLoopEnds, WholeLoopGrows
  <2> QED BY Zenon, <1>2, <1>4, <2>1, <2>2
<1>11. ASSUME NEW c \in Children, DispatchChild(c)
       PROVE  Whole(run') /\ Whole(mem') /\ Known(submits', job', mem')
  <2>1. PICK j : j = <<c, mem.child[c].attempts + 1>>
    BY Zenon
  <2>2. /\ pc = "dispatch" /\ mem.child[c].status = "pending" /\ UNCHANGED <<run, job>>
        /\ mem' \in Documents /\ mem'.status = mem.status
        /\ \A d \in Children : d # c => mem'.child[d] = mem.child[d]
        /\ mem'.child[c].status \in {"running", "pending", "failed"}
        /\ submits' \in {submits, submits \cup {j}}
    BY Zenon, <1>11, <2>1, DispatchIs
  <2>3. mem.status \notin Terminal
    BY Zenon, <2>2 DEF PassInv
  <2>4. mem'.child[c].status # ""
    BY Zenon, <2>2
  <2>5. Whole(mem')
    BY Zenon, <1>1, <1>2, <2>2, <2>3, <2>4, WholeDispatch
  <2>6. j[1] = c
    BY Zenon, <2>1
  <2>7. Known(submits', job', mem')
    BY Zenon, <1>2, <2>2, <2>4, <2>6, JobParts DEF Known
  <2> QED BY Zenon, <1>2, <2>2, <2>5, <2>7
<1>12. CASE EndPass /\ ~Lost
  <2>1. mem' = mem /\ (run' = mem \/ run' = run) /\ UNCHANGED <<submits, job>>
    BY Zenon, <1>12, EndPassIs
  <2> QED BY Zenon, <1>2, <1>4, <2>1
<1>13. ~ConditionGate
  BY Zenon, GateIs
<1> QED BY Zenon, <1>5, <1>6, <1>7, <1>8, <1>9, <1>10, <1>11, <1>12, <1>13, Cases

-----------------------------------------------------------------------------
(* The jobs that were told to stop.                                        *)

\* Job j was told to stop, or is the current job of a running child of m.
Told(cs, m, j) == j \in cs \/ (m.child[j[1]].status = "running" /\ m.child[j[1]].job = j[2])

\* A handler that stops a child tells its job.
LEMMA ToldStopped ==
  ASSUME NEW m \in Documents, NEW cs, NEW j \in Jobs, NeedsCancel(m) \subseteq cs, Told(cs, m, j)
  PROVE  j \in cs
<1>1. j[1] \in Children /\ j[2] \in 1..MaxAttempts /\ j = <<j[1], j[2]>>
  BY Zenon, JobParts
<1>2. j[2] # NoJob
  BY <1>1 DEF NoJob
<1>3. \A c \in Children : m.child[c].status \in {"pending", "running"} /\ m.child[c].job # NoJob
        => <<c, m.child[c].job>> \in NeedsCancel(m)
  BY Zenon, NeedsCancelIs
<1> QED BY Zenon, <1>1, <1>2, <1>3 DEF Told

\* No error in a step that leaves none behind.
LEMMA NoErrors ==
  ASSUME FanOutTypeOK, [Next]_vars, budget'.made = 0
  PROVE  budget.made = 0 /\ budget'.made # budget.made + 1
<1>1. budget \in Budgets
  BY Zenon, TypedNow
<1>2. budget.made \in Nat
  BY Zenon, <1>1 DEF Budgets
<1>3. budget'.made \in {budget.made, budget.made + 1}
  BY Zenon, Cases, OutsideIs, StartIs, HandleIs, GateIs, ForEachIs, ParallelIs, LoopIs, DispatchIs, EndPassIs DEF Lost
<1> QED BY <1>2, <1>3

\* The result of a job leaves no other unreported job of its child.
LEMMA ToldHandle ==
  ASSUME FanOutTypeOK, PassInv, WorkInv, NEW j \in Jobs, NEW status \in Reports,
         HandleJobResult(j, status), NEW m \in Taken(j, status),
         Ends(m) => NeedsCancel(m) \subseteq cancels',
         NEW i \in Jobs, Unreported(i), Told(cancels, mem, i)
  PROVE  Told(cancels', After(m), i)
<1>1. /\ job[j] \in Reported /\ pc = "idle" /\ ~Ignored(j) /\ cancels \subseteq cancels'
  BY Zenon, HandledIs, HandleIs
<1>2. mem = run
  BY Zenon, <1>1 DEF PassInv
<1> SUFFICES ASSUME i \notin cancels' PROVE Told(cancels', After(m), i)
  BY Zenon DEF Told
<1>3. /\ run.child[i[1]].status = "running" /\ run.child[i[1]].job = i[2]
  BY Zenon, <1>1, <1>2 DEF Told
<1>4. i[1] \in Children /\ i[2] \in 1..MaxAttempts /\ i = <<i[1], i[2]>> /\ j = <<j[1], j[2]>>
  BY Zenon, JobParts
<1>5. i[2] # NoJob
  BY <1>4 DEF NoJob
<1>6. "none" \notin Reported /\ "active" \notin Reported
  BY Zenon DEF Reported, Ended
<1>7. i # j
  BY Zenon, <1>1, <1>6 DEF Unreported
<1>8. i[1] # j[1]
  BY Zenon, <1>1, <1>3, <1>4, <1>5, <1>7 DEF Ignored
<1>9. m \in Documents /\ OfResult(j, status, m)
  BY Zenon, TakenIs
<1>10. m.child[i[1]] = run.child[i[1]]
  BY Zenon, <1>4, <1>8, <1>9 DEF OfResult
<1>11. Told(cancels', m, i)
  BY Zenon, <1>3, <1>10 DEF Told
<1>12. ~Ends(m)
  BY Zenon, <1>9, <1>11, ToldStopped
<1> QED BY Zenon, <1>11, <1>12 DEF After

LEMMA ToldStep ==
  ASSUME FanOutTypeOK, PassInv, WorkInv, ToldInv, [Next]_vars
  PROVE  ToldInv'
<1> SUFFICES ASSUME forgot' = 0, budget'.made = 0, NEW i \in Jobs, Unreported(i)'
             PROVE  Told(cancels', mem', i)
  BY Zenon, StepFixed DEF ToldInv, Told
<1>1. /\ forgot = 0 /\ (Lost => mem = run) /\ budget.made = 0 /\ budget'.made # budget.made + 1
      /\ mem \in Documents /\ i[1] \in Children
  BY Zenon, NotForgotten, NoErrors, TypedNow, JobParts
<1>2. Unreported(i) => Told(cancels, mem, i)
  BY Zenon, <1>1 DEF ToldInv, Told
<1>3. pc = "idle" => mem = run
  BY Zenon DEF PassInv
<1>4. submits' = submits /\ job' = job => Unreported(i)
  BY Zenon DEF Unreported
<1>5. CASE Outside
  <2>1. Unreported(i) /\ mem' = mem /\ cancels' = cancels
    BY Zenon, <1>5, OutsideJobs, OutsideIs DEF Unreported, JobsKept
  <2> QED BY Zenon, <1>2, <2>1 DEF Told
<1>6. CASE Lost \/ StartRun \/ (EndPass /\ ~Lost)
  <2>1. mem' = mem /\ UNCHANGED <<submits, job, cancels>>
    BY Zenon, <1>1, <1>3, <1>6, StartIs, EndPassIs DEF Lost
  <2> QED BY Zenon, <1>2, <1>4, <2>1 DEF Told
<1>7. ASSUME NEW j \in Jobs, NEW status \in Reports, HandleJobResult(j, status)
      PROVE  Told(cancels', mem', i)
  <2>1. Unreported(i) /\ Told(cancels, mem, i) /\ cancels \subseteq cancels' /\ budget'.made = budget.made
    BY Zenon, <1>1, <1>2, <1>4, <1>7, HandleIs
  <2>2. CASE UNCHANGED <<run, mem, pc, next, loop>>
    BY Zenon, <2>1, <2>2 DEF Told
  <2>3. ASSUME NEW m \in Taken(j, status), mem' = After(m), Ends(m) => NeedsCancel(m) \subseteq cancels'
        PROVE  Told(cancels', mem', i)
    BY Zenon, <1>7, <2>1, <2>3, ToldHandle
  <2> QED BY Zenon, <1>7, <2>1, <2>2, <2>3, HandleIs
<1>8. /\ \A c \in Children : mem.child[c].status = "running" =>
           Created(mem).child[c].status = "running" /\ Created(mem).child[c].job = mem.child[c].job
      /\ Created(mem) \in Documents
  BY Zenon, <1>1, CreatedIs
<1>9. CASE EvaluateForEach
  <2>1. /\ UNCHANGED <<submits, job, cancels>>
        /\ mem'.child = mem.child \/ mem' = Created(mem)
    BY Zenon, <1>9, ForEachIs
  <2> QED BY Zenon, <1>1, <1>2, <1>4, <1>8, <2>1 DEF Told
<1>10. CASE EvaluateParallel
  <2>1. /\ UNCHANGED <<submits, job>> /\ cancels \subseteq cancels' /\ budget'.made = budget.made
        /\ \/ mem' = Created(mem)
           \/ budget'.made = budget.made => NeedsCancel(Created(mem)) \subseteq cancels'
    BY Zenon, <1>1, <1>10, ParallelIs
  <2>2. Told(cancels', Created(mem), i)
    BY Zenon, <1>1, <1>2, <1>4, <1>8, <2>1 DEF Told
  <2>3. CASE NeedsCancel(Created(mem)) \subseteq cancels'
    <3>1. i \in cancels'
      BY Zenon, <1>8, <2>2, <2>3, ToldStopped
    <3> QED BY Zenon, <3>1 DEF Told
  <2> QED BY Zenon, <2>1, <2>2, <2>3
<1>11. CASE EvaluateLoop
  <2>1. /\ UNCHANGED <<submits, job, cancels>>
        /\ \/ mem'.child = mem.child
           \/ /\ \A c \in Children : mem.child[c].status \in {"", "succeeded", "denied"}
    BY Zenon, <1>11, LoopIs
  <2>2. Told(cancels, mem, i)
    BY Zenon, <1>2, <1>4, <2>1
  <2> QED BY Zenon, <1>1, <2>1, <2>2 DEF Told
<1>12. ASSUME NEW c \in Children, DispatchChild(c) PROVE Told(cancels', mem', i)
  <2>1. PICK j : j = <<c, mem.child[c].attempts + 1>>
    BY Zenon
  <2>2. /\ mem.child[c].status = "pending" /\ UNCHANGED <<job, cancels>>
        /\ \A d \in Children : d # c => mem'.child[d] = mem.child[d]
        /\ submits' = submits \cup {j}
        /\ mem'.child[c].status = "running" /\ mem'.child[c].job = j[2]
    BY Zenon, <1>1, <1>12, <2>1, DispatchIs
  <2>3. CASE i = j
    <3>1. i[1] = c
      BY Zenon, <2>1, <2>3
    <3> QED BY Zenon, <2>2, <2>3, <3>1 DEF Told
  <2>4. CASE i # j
    <3>1. Unreported(i)
      BY Zenon, <2>2, <2>4 DEF Unreported
    <3> QED BY Zenon, <1>1, <1>2, <2>2, <3>1 DEF Told
  <2> QED BY Zenon, <2>3, <2>4
<1>13. CASE ConditionGate
  <2>1. mem'.child = mem.child /\ UNCHANGED <<submits, job, cancels>>
    BY Zenon, <1>13, GateIs
  <2> QED BY Zenon, <1>2, <1>4, <2>1 DEF Told
<1> QED BY Zenon, <1>5, <1>6, <1>7, <1>9, <1>10, <1>11, <1>12, <1>13, Cases

-----------------------------------------------------------------------------
(* The limit.                                                              *)

\* A set of jobs that f forgotten passes and n errors account for.
Accounts(L, f, n) == L \in SUBSET Jobs /\ Cardinality(L) <= Limit * f + n

\* An unreported job is in L, or the document tracks it.
Covers(L, m, su, jb) ==
  \A j \in Jobs : (j \in su /\ jb[j] = "none") \/ jb[j] = "active" => j \in L \/ Tracks(m, jb, j)

\* LimitInv one step later, the step being the same.
LimitNext ==
  /\ Bounded(run', job') /\ Bounded(mem', job')
  /\ \E L : Accounts(L, forgot', budget'.made) /\ Covers(L, mem', submits', job')

LEMMA LimitNextIs ==
  ASSUME step' = step, Children' = Children, Jobs' = Jobs, Limit' = Limit, LimitNext
  PROVE  LimitInv'
<1>1. Bounded(run, job)' /\ Bounded(mem, job)'
  BY Zenon DEF LimitNext, Bounded, Settled, Busy
<1>2. \A j : Tracks(mem', job', j) => Tracks(mem, job, j)'
  BY Zenon DEF Tracks, Busy
<1> QED BY Zenon, <1>1, <1>2 DEF LimitInv, LimitNext, Accounts, Covers, Unreported

\* The numbers of children and of jobs.
LEMMA LimitIs ==
  ASSUME step \in Steps
  PROVE  /\ Limit \in Nat /\ (step.kind # "loop" /\ ~(step.limit > 0) => Limit = step.width)
         /\ (step.kind = "loop" => Limit = 1)
         /\ (step.kind # "loop" /\ step.limit > 0 => Limit = step.limit /\ step.limit \in Nat)
  BY Zenon DEF Steps, Limit

LEMMA JobsFinite ==
  ASSUME step \in Steps, NEW L \in SUBSET Jobs
  PROVE  IsFiniteSet(L) /\ Cardinality(L) \in Nat
<1>1. IsFiniteSet(Children)
  BY Zenon, SomeChildren
<1>2. IsFiniteSet(1..MaxAttempts)
  BY FanOutAssumption, FS_Interval
<1>3. IsFiniteSet(Jobs)
  BY Zenon, <1>1, <1>2, FS_Product DEF Jobs
<1> QED BY Zenon, <1>3, FS_Subset, FS_CardinalityType

\* What was accounted for stays so after an error.
LEMMA AccountsMore ==
  ASSUME step \in Steps, NEW f \in Nat, NEW n \in Nat, NEW L, Accounts(L, f, n),
         NEW n2 \in {n, n + 1}
  PROVE  Accounts(L, f, n2)
<1>1. PICK x : x = Limit * f
  BY Zenon
<1>2. x \in Nat
  <2>1. Limit \in Nat
    BY Zenon, LimitIs
  <2> QED BY <1>1, <2>1
<1>3. PICK s : s = Cardinality(L)
  BY Zenon
<1>4. s \in Nat /\ s <= x + n /\ L \in SUBSET Jobs
  BY Zenon, <1>1, <1>3, JobsFinite DEF Accounts
<1>5. s <= x + n2
  BY <1>2, <1>4
<1> QED BY Zenon, <1>1, <1>3, <1>4, <1>5 DEF Accounts

\* An error accounts for one more job.
LEMMA AccountsError ==
  ASSUME step \in Steps, NEW f \in Nat, NEW n \in Nat, NEW L, Accounts(L, f, n), NEW j \in Jobs
  PROVE  Accounts(L \cup {j}, f, n + 1)
<1>1. PICK x : x = Limit * f
  BY Zenon
<1>2. x \in Nat
  <2>1. Limit \in Nat
    BY Zenon, LimitIs
  <2> QED BY <1>1, <2>1
<1>3. PICK s : s = Cardinality(L)
  BY Zenon
<1>4. s \in Nat /\ s <= x + n /\ L \in SUBSET Jobs /\ IsFiniteSet(L)
  BY Zenon, <1>1, <1>3, JobsFinite DEF Accounts
<1>5. PICK t : t = Cardinality(L \cup {j})
  BY Zenon
<1>6. t = s \/ t = s + 1
  BY Zenon, <1>3, <1>4, <1>5, FS_AddElement
<1>7. t <= x + (n + 1)
  BY <1>2, <1>4, <1>6
<1> QED BY Zenon, <1>1, <1>4, <1>5, <1>7 DEF Accounts

\* A document tracks one job for each busy child.
LEMMA TrackedFew ==
  ASSUME step \in Steps, NEW m, NEW jb, NEW T, T = {j \in Jobs : Tracks(m, jb, j)}
  PROVE  /\ T \in SUBSET Jobs /\ IsFiniteSet(T) /\ Cardinality(T) \in Nat
         /\ Cardinality(T) <= Cardinality(Busy(m, jb))
<1>1. T \in SUBSET Jobs /\ Busy(m, jb) \in SUBSET Children
  BY Zenon DEF Busy
<1>2. IsFiniteSet(T) /\ Cardinality(T) \in Nat /\ IsFiniteSet(Busy(m, jb))
  BY Zenon, <1>1, JobsFinite, SomeChildren
<1>3. PICK f : f = [j \in T |-> j[1]]
  BY Zenon
<1>4. f \in [T -> Busy(m, jb)]
  BY Zenon, <1>3 DEF Tracks
<1>5. ASSUME NEW i \in T, NEW j \in T, f[i] = f[j] PROVE i = j
  <2>1. i[1] = j[1]
    BY Zenon, <1>3, <1>5
  <2>2. i[2] = j[2]
    BY Zenon, <2>1 DEF Tracks
  <2> QED BY Zenon, <1>1, <2>1, <2>2, JobParts
<1>6. f \in Injection(T, Busy(m, jb))
  BY Zenon, <1>4, <1>5 DEF Injection, IsInjective
<1> QED BY Zenon, <1>1, <1>2, <1>6, FS_Injection

\* A forgotten pass accounts for the jobs it tracked.
LEMMA AccountsForgotten ==
  ASSUME step \in Steps, NEW f \in Nat, NEW n \in Nat, NEW L, Accounts(L, f, n),
         NEW m, NEW jb, Bounded(m, jb), NEW T, T = {j \in Jobs : Tracks(m, jb, j)}
  PROVE  Accounts(L \cup T, f + 1, n)
<1>0. PICK l : l = Limit
  BY Zenon
<1>1. PICK x : x = l * f
  BY Zenon
<1>2. l \in Nat
  BY Zenon, <1>0, LimitIs
<1>3. x \in Nat /\ l * (f + 1) = x + l
  BY <1>1, <1>2
<1>4. PICK s : s = Cardinality(L)
  BY Zenon
<1>5. s \in Nat /\ s <= x + n /\ L \in SUBSET Jobs /\ IsFiniteSet(L)
  BY Zenon, <1>0, <1>1, <1>4, JobsFinite DEF Accounts
<1>6. PICK t : t = Cardinality(T)
  BY Zenon
<1>7. PICK b : b = Cardinality(Busy(m, jb))
  BY Zenon
<1>8. /\ T \in SUBSET Jobs /\ IsFiniteSet(T) /\ t \in Nat /\ t <= b /\ b <= l
  BY Zenon, <1>0, <1>6, <1>7, TrackedFew DEF Bounded
<1>9. b \in Nat
  BY Zenon, <1>7, SomeChildren DEF Busy
<1>10. PICK u : u = Cardinality(L \cup T)
  BY Zenon
<1>11. PICK v : v = Cardinality(L \cap T)
  BY Zenon
<1>12. u = s + t - v
  BY Zenon, <1>4, <1>5, <1>6, <1>8, <1>10, <1>11, FS_Union
<1>13. v \in Nat
  BY Zenon, <1>5, <1>11, JobsFinite
<1>14. u <= x + l + n
  BY <1>2, <1>3, <1>5, <1>8, <1>9, <1>12, <1>13
<1>15. L \cup T \in SUBSET Jobs
  BY Zenon, <1>5, <1>8
<1> QED BY Zenon, <1>0, <1>3, <1>10, <1>14, <1>15 DEF Accounts

\* Fewer busy children are bounded as well.
LEMMA BoundedLess ==
  ASSUME step \in Steps, NEW m, NEW jb, NEW to, NEW jb2, Bounded(m, jb),
         Settled(to, jb2), Busy(to, jb2) \subseteq Busy(m, jb)
  PROVE  Bounded(to, jb2)
<1>1. PICK a : a = Cardinality(Busy(to, jb2))
  BY Zenon
<1>2. PICK b : b = Cardinality(Busy(m, jb))
  BY Zenon
<1>3. PICK l : l = Limit
  BY Zenon
<1>4. a \in Nat /\ b \in Nat /\ l \in Nat /\ IsFiniteSet(Busy(m, jb))
  <2>1. Busy(m, jb) \in SUBSET Children /\ Busy(to, jb2) \in SUBSET Children
    BY Zenon DEF Busy
  <2> QED BY Zenon, <1>1, <1>2, <1>3, <2>1, SomeChildren, LimitIs
<1>5. a <= b
  BY Zenon, <1>1, <1>2, <1>4, FS_Subset
<1>6. b <= l
  BY Zenon, <1>2, <1>3 DEF Bounded
<1>7. a <= l
  BY <1>4, <1>5, <1>6
<1> QED BY Zenon, <1>1, <1>3, <1>7 DEF Bounded

\* The current job of a child is one of the step's.
LEMMA JobOf ==
  ASSUME NEW m \in Documents, NEW c \in Children, m.child[c].job # NoJob
  PROVE  <<c, m.child[c].job>> \in Jobs
<1>1. m.child[c].job \in 0..MaxAttempts
  BY Zenon DEF Documents, StepRuns
<1>2. m.child[c].job \in 1..MaxAttempts
  BY <1>1 DEF NoJob
<1> QED BY Zenon, <1>2 DEF Jobs

\* The rest of the system only ends jobs.
LEMMA LimitOutside ==
  ASSUME FanOutTypeOK, Outside, NEW m \in Documents, Bounded(m, job)
  PROVE  /\ Bounded(m, job')
         /\ \A j \in Jobs : Tracks(m, job, j) /\ job'[j] \notin Reported => Tracks(m, job', j)
<1>1. step \in Steps /\ \A j \in Jobs : job[j] \in Reported => job'[j] \in Reported
  BY Zenon, TypedNow, OutsideJobs DEF JobsKept
<1>2. \A c \in Children : m.child[c].job # NoJob => <<c, m.child[c].job>> \in Jobs
  BY Zenon, JobOf
<1>3. Settled(m, job')
  BY Zenon, <1>1, <1>2 DEF Bounded, Settled
<1>4. Busy(m, job') \subseteq Busy(m, job)
  BY Zenon, <1>1, <1>2 DEF Busy
<1>5. Bounded(m, job')
  BY Zenon, <1>1, <1>3, <1>4, BoundedLess
<1>6. ASSUME NEW j \in Jobs, Tracks(m, job, j), job'[j] \notin Reported PROVE Tracks(m, job', j)
  <2>1. j = <<j[1], m.child[j[1]].job>> /\ j[1] \in Children
    BY Zenon, <1>6, JobParts DEF Tracks
  <2>2. job'[<<j[1], m.child[j[1]].job>>] \notin Reported
    BY Zenon, <1>6, <2>1
  <2>3. j[1] \in Busy(m, job')
    BY Zenon, <1>6, <2>1, <2>2 DEF Tracks, Busy
  <2> QED BY Zenon, <1>6, <2>3 DEF Tracks
<1> QED BY Zenon, <1>5, <1>6

\* Before a step is over, a busy child is a running one.
LEMMA Quiet ==
  ASSUME NEW m, NEW jb, Settled(m, jb), m.status \notin Terminal
  PROVE  /\ \A c \in Children : m.child[c].status # "running" /\ m.child[c].job # NoJob
              => jb[<<c, m.child[c].job>>] \in Reported
         /\ \A c \in Children : c \in Busy(m, jb) <=> m.child[c].status = "running"
<1>1. \A c \in Children : m.child[c].status # "running" /\ m.child[c].job # NoJob
              => jb[<<c, m.child[c].job>>] \in Reported
  BY Zenon DEF Settled
<1>2. \A c \in Children : c \in Busy(m, jb) <=> m.child[c].status = "running"
  BY Zenon, <1>1 DEF Busy
<1> QED BY Zenon, <1>1, <1>2

\* A document that keeps the jobs of the children, the running children and
\* those whose jobs are unreported tracks what the one before did.
LEMMA LimitKept ==
  ASSUME step \in Steps, NEW m \in Documents, NEW to \in Documents, NEW jb,
         Bounded(m, jb), m.status \notin Terminal,
         \A c \in Children : to.child[c].job = m.child[c].job,
         \A c \in Children :
           \/ to.child[c].status = m.child[c].status
           \/ m.child[c].status # "running" /\ to.child[c].status # "running"
           \/ /\ to.child[c].status = "cancelled" /\ to.status \in Terminal /\ step.kind # "loop"
  PROVE  /\ Bounded(to, jb)
         /\ \A j \in Jobs : Tracks(m, jb, j) /\ jb[j] \notin Reported => Tracks(to, jb, j)
<1>1. /\ \A c \in Children : m.child[c].status # "running" /\ m.child[c].job # NoJob
           => jb[<<c, m.child[c].job>>] \in Reported
      /\ \A c \in Children : c \in Busy(m, jb) <=> m.child[c].status = "running"
  BY Zenon, Quiet DEF Bounded
<1>2. Settled(to, jb)
  <2>1. ASSUME NEW c \in Children, to.child[c].job # NoJob, to.child[c].status # "running"
        PROVE  \/ jb[<<c, to.child[c].job>>] \in Reported
               \/ to.child[c].status = "cancelled" /\ to.status \in Terminal /\ step.kind # "loop"
    BY Zenon, <1>1, <2>1
  <2> QED BY Zenon, <2>1 DEF Settled
<1>3. Busy(to, jb) \subseteq Busy(m, jb)
  <2>1. ASSUME NEW c \in Children, c \in Busy(to, jb), m.child[c].status # "running" PROVE FALSE
    <3>1. to.child[c].status # "running"
      BY Zenon, <2>1
    <3>2. to.child[c].job # NoJob /\ jb[<<c, to.child[c].job>>] \notin Reported
      BY Zenon, <2>1, <3>1 DEF Busy
    <3> QED BY Zenon, <1>1, <2>1, <3>2
  <2>2. \A c \in Busy(to, jb) : c \in Children
    BY Zenon DEF Busy
  <2> QED BY Zenon, <1>1, <2>1, <2>2
<1>4. Bounded(to, jb)
  BY Zenon, <1>2, <1>3, BoundedLess
<1>5. ASSUME NEW j \in Jobs, Tracks(m, jb, j), jb[j] \notin Reported PROVE Tracks(to, jb, j)
  <2>1. /\ j[1] \in Children /\ j[2] = m.child[j[1]].job /\ j = <<j[1], to.child[j[1]].job>>
        /\ m.child[j[1]].status = "running" /\ to.child[j[1]].job = j[2] /\ j[2] \in 1..MaxAttempts
    BY Zenon, <1>1, <1>5, JobParts DEF Tracks
  <2>2. j[2] # NoJob
    BY <2>1 DEF NoJob
  <2>3. to.child[j[1]].status \in {"running", "cancelled"}
    BY Zenon, <2>1
  <2>4. jb[<<j[1], to.child[j[1]].job>>] \notin Reported
    BY Zenon, <1>5, <2>1
  <2>5. j[1] \in Busy(to, jb)
    BY Zenon, <2>1, <2>2, <2>3, <2>4 DEF Busy
  <2> QED BY Zenon, <2>1, <2>5 DEF Tracks
<1> QED BY Zenon, <1>4, <1>5

\* A result: its job was reported, and a child that is stopped was running or has
\* a job that was reported.
LEMMA LimitHandle ==
  ASSUME FanOutTypeOK, PassInv, WorkInv, Bounded(run, job), NEW j \in Jobs, NEW status \in Reports,
         HandleJobResult(j, status), NEW m \in Taken(j, status)
  PROVE  /\ Bounded(After(m), job)
         /\ \A i \in Jobs : Tracks(run, job, i) /\ job[i] \notin Reported => Tracks(After(m), job, i)
<1> DEFINE k == j[1]
           to == After(m)
<1>1. /\ job[j] \in Reported /\ pc = "idle" /\ ~Ignored(j) /\ k \in Children /\ step \in Steps
      /\ j = <<k, j[2]>>
  BY Zenon, HandledIs, HandleIs, JobParts, TypedNow
<1>2. OfResult(j, status, m) /\ OfStep(m)
  BY Zenon, TakenIs
<1>3. \A c \in Children :
        /\ to.child[c].job = m.child[c].job
        /\ \/ to.child[c].status = m.child[c].status
           \/ /\ Ends(m) /\ m.child[c].status \notin Terminal \cup {""}
              /\ to.child[c].status = "cancelled"
        /\ Ends(m) => to.child[c].status \in Terminal \cup {""}
  BY Zenon, AfterIs
<1>4. /\ \A d \in Children : d # k => m.child[d] = run.child[d]
      /\ m.child[k].status # "running" /\ m.child[k].job = j[2]
  <2>1. run.child[k].job # NoJob => run.child[k].job = j[2]
    BY Zenon, <1>1 DEF Ignored
  <2> QED BY Zenon, <1>2, <2>1 DEF OfResult
<1>5. to.status = m.status
  BY Zenon, AfterIs
<1> HIDE DEF k, to
<1>6. to.child[k].status # "running" /\ job[<<k, to.child[k].job>>] \in Reported
  <2>1. <<k, to.child[k].job>> = j
    BY Zenon, <1>1, <1>3, <1>4
  <2>2. to.child[k].status # "running"
    BY Zenon, <1>1, <1>3, <1>4
  <2> QED BY Zenon, <1>1, <2>1, <2>2
<1>7. \A c \in Children : c # k => to.child[c].job = run.child[c].job
  BY Zenon, <1>3, <1>4
<1>8. \A c \in Children : c # k =>
        \/ to.child[c].status = run.child[c].status
        \/ /\ Ends(m) /\ run.child[c].status \notin Terminal \cup {""}
           /\ to.child[c].status = "cancelled"
  BY Zenon, <1>3, <1>4
<1>9. {"failed", "denied", "cancelled"} \subseteq Terminal
  BY Zenon DEF Terminal
<1>10. ASSUME NEW c \in Children, c # k, to.child[c].job # NoJob, to.child[c].status # "running"
       PROVE  \/ job[<<c, to.child[c].job>>] \in Reported
              \/ to.child[c].status = "cancelled" /\ to.status \in Terminal /\ step.kind # "loop"
  <2>1. CASE Ends(m) /\ to.child[c].status = "cancelled"
    BY Zenon, <1>5, <1>9, <2>1 DEF Ends
  <2>2. CASE to.child[c].status = run.child[c].status
    <3>1. \/ job[<<c, to.child[c].job>>] \in Reported
          \/ run.child[c].status = "cancelled" /\ run.status \in Terminal /\ step.kind # "loop"
      BY Zenon, <1>7, <1>10, <2>2 DEF Bounded, Settled
    <3>2. ASSUME run.child[c].status = "cancelled", run.status \in Terminal, step.kind # "loop"
          PROVE  to.status \in Terminal
      <4>1. step.kind \in {"foreach", "parallel"}
        BY Zenon, <1>1, <3>2 DEF Steps
      <4>2. m.child[c].status = "cancelled"
        BY Zenon, <1>4, <1>10, <3>2
      <4>3. step.kind = "foreach" => m.status = "failed"
        BY Zenon, <1>2, <4>2 DEF OfStep
      <4>4. step.kind = "parallel" => m.status = run.status
        BY Zenon, <1>2 DEF OfStep
      <4> QED BY Zenon, <1>5, <1>9, <3>2, <4>1, <4>3, <4>4
    <3> QED BY Zenon, <2>2, <3>1, <3>2
  <2> QED BY Zenon, <1>8, <1>10, <2>1, <2>2
<1>11. Settled(to, job)
  BY Zenon, <1>6, <1>10 DEF Settled
<1>12. ASSUME NEW c \in Children, c \in Busy(to, job) PROVE c \in Busy(run, job)
  <2>1. c # k
    BY Zenon, <1>6, <1>12 DEF Busy
  <2>2. CASE to.child[c].status = run.child[c].status
    BY Zenon, <1>7, <1>12, <2>1, <2>2 DEF Busy
  <2>3. CASE run.child[c].status \notin Terminal \cup {""} /\ to.child[c].status = "cancelled"
    <3>1. to.child[c].job # NoJob /\ job[<<c, to.child[c].job>>] \notin Reported
      BY Zenon, <1>12, <2>3 DEF Busy
    <3>2. run.child[c].status # "cancelled"
      BY Zenon, <1>9, <2>3
    <3>3. run.child[c].status = "running"
      BY Zenon, <1>7, <2>1, <3>1, <3>2 DEF Bounded, Settled
    <3> QED BY Zenon, <3>3 DEF Busy
  <2> QED BY Zenon, <1>8, <2>1, <2>2, <2>3
<1>13. Busy(to, job) \subseteq Busy(run, job)
  <2>1. \A c \in Busy(to, job) : c \in Children
    BY Zenon DEF Busy
  <2> QED BY Zenon, <1>12, <2>1
<1>14. Bounded(to, job)
  BY Zenon, <1>1, <1>11, <1>13, BoundedLess
<1>15. ASSUME NEW i \in Jobs, Tracks(run, job, i), job[i] \notin Reported PROVE Tracks(to, job, i)
  <2>1. /\ i[1] \in Children /\ i[2] = run.child[i[1]].job /\ i = <<i[1], i[2]>>
        /\ i[2] \in 1..MaxAttempts /\ i[1] \in Busy(run, job)
    BY Zenon, <1>15, JobParts DEF Tracks
  <2>2. i[2] # NoJob
    BY <2>1 DEF NoJob
  <2>3. i # j
    BY Zenon, <1>1, <1>15
  <2>4. i[1] # k
    <3> SUFFICES ASSUME i[1] = k PROVE FALSE
      BY Zenon
    <3>1. i[2] = j[2]
      BY Zenon, <1>1, <2>1, <2>2 DEF Ignored, k
    <3> QED BY Zenon, <1>1, <2>1, <2>3, <3>1
  <2>5. to.child[i[1]].job = i[2] /\ job[<<i[1], to.child[i[1]].job>>] \notin Reported
    BY Zenon, <1>7, <1>15, <2>1, <2>4
  <2>6. run.child[i[1]].status \in {"running", "cancelled"}
    BY Zenon, <2>1 DEF Busy
  <2>7. to.child[i[1]].status \in {"running", "cancelled"}
    BY Zenon, <1>8, <2>1, <2>4, <2>6
  <2>8. i[1] \in Busy(to, job)
    BY Zenon, <2>1, <2>2, <2>5, <2>7 DEF Busy
  <2> QED BY Zenon, <2>5, <2>8 DEF Tracks
<1> QED BY Zenon, <1>14, <1>15 DEF to

\* A child is dispatched only when there is room for it.
LEMMA LimitSent ==
  ASSUME FanOutTypeOK, PassInv, Bounded(mem, job), NEW c \in Children, DispatchChild(c),
         mem'.child[c].status = "running"
  PROVE  Bounded(mem', job) /\ \A j \in Jobs : Tracks(mem, job, j) => Tracks(mem', job, j)
<1>1. /\ pc = "dispatch" /\ ~Full(mem) /\ mem.child[c].status = "pending" /\ mem'.status = mem.status
      /\ \A d \in Children : d # c => mem'.child[d] = mem.child[d]
  BY Zenon, DispatchIs
<1>2. step \in Steps /\ mem.status \notin Terminal
  BY Zenon, <1>1, TypedNow DEF PassInv
<1>3. /\ \A d \in Children : mem.child[d].status # "running" /\ mem.child[d].job # NoJob
           => job[<<d, mem.child[d].job>>] \in Reported
      /\ \A d \in Children : d \in Busy(mem, job) <=> mem.child[d].status = "running"
  BY Zenon, <1>2, Quiet DEF Bounded
<1>4. Settled(mem', job)
  BY Zenon, <1>1, <1>3 DEF Settled
<1>5. Busy(mem', job) \in SUBSET Children /\ Busy(mem, job) \in SUBSET Children
  BY Zenon DEF Busy
<1>6. Busy(mem', job) \subseteq Busy(mem, job) \cup {c}
  <2>1. ASSUME NEW d \in Children, d \in Busy(mem', job), d # c PROVE d \in Busy(mem, job)
    <3>1. mem'.child[d] = mem.child[d]
      BY Zenon, <1>1, <2>1
    <3> QED BY Zenon, <2>1, <3>1 DEF Busy
  <2> QED BY Zenon, <1>5, <2>1
<1>7. PICK a : a = Cardinality(Busy(mem', job))
  BY Zenon
<1>8. PICK b : b = Cardinality(Busy(mem, job))
  BY Zenon
<1>9. PICK l : l = Limit
  BY Zenon
<1>10. a \in Nat /\ b \in Nat /\ l \in Nat /\ a <= step.width /\ IsFiniteSet(Busy(mem, job))
  BY Zenon, <1>2, <1>5, <1>7, <1>8, <1>9, SomeChildren, LimitIs
<1>11. a <= b + 1
  <2>1. PICK u : u = Cardinality(Busy(mem, job) \cup {c})
    BY Zenon
  <2>2. IsFiniteSet(Busy(mem, job) \cup {c}) /\ (u = b \/ u = b + 1)
    BY Zenon, <1>8, <1>10, <2>1, FS_AddElement
  <2>3. a <= u
    BY Zenon, <1>6, <1>7, <2>1, <2>2, FS_Subset
  <2> QED BY <1>10, <2>2, <2>3
<1>12. a <= l
  <2>1. CASE step.kind = "loop"
    <3>1. Busy(mem, job) = {}
      BY Zenon, <1>1, <1>3, <1>5, <2>1 DEF PassInv
    <3>2. b = 0 /\ l = 1
      BY Zenon, <1>2, <1>8, <1>9, <2>1, <3>1, FS_EmptySet, LimitIs
    <3> QED BY <1>10, <1>11, <3>2
  <2>2. CASE step.kind # "loop" /\ ~(step.limit > 0)
    BY Zenon, <1>2, <1>9, <1>10, <2>2, LimitIs
  <2>3. CASE step.kind # "loop" /\ step.limit > 0
    <3>1. l = step.limit
      BY Zenon, <1>2, <1>9, <2>3, LimitIs
    <3>2. Busy(mem, job) = {d \in Children : mem.child[d].status \in {"running"}}
      BY Zenon, <1>3, <1>5
    <3>3. ~(b >= l)
      BY Zenon, <1>1, <1>8, <2>3, <3>1, <3>2 DEF Full, Count
    <3> QED BY <1>10, <1>11, <3>3
  <2> QED BY Zenon, <2>1, <2>2, <2>3
<1>13. ASSUME NEW j \in Jobs, Tracks(mem, job, j) PROVE Tracks(mem', job, j)
  <2>1. j[1] \in Children /\ mem.child[j[1]].status = "running" /\ j[2] = mem.child[j[1]].job
    BY Zenon, <1>3, <1>13, JobParts DEF Tracks
  <2>2. mem'.child[j[1]] = mem.child[j[1]]
    BY Zenon, <1>1, <2>1
  <2> QED BY Zenon, <2>1, <2>2 DEF Tracks, Busy
<1> QED BY Zenon, <1>4, <1>7, <1>9, <1>12, <1>13 DEF Bounded

\* A child that could not be dispatched is not busy.
LEMMA LimitUnsent ==
  ASSUME FanOutTypeOK, PassInv, Bounded(mem, job), NEW c \in Children, DispatchChild(c),
         mem'.child[c].status \in {"pending", "failed"},
         mem'.child[c].job \in {NoJob, mem.child[c].job}
  PROVE  Bounded(mem', job) /\ \A j \in Jobs : Tracks(mem, job, j) => Tracks(mem', job, j)
<1>1. /\ pc = "dispatch" /\ mem.child[c].status = "pending" /\ mem'.status = mem.status
      /\ \A d \in Children : d # c => mem'.child[d] = mem.child[d]
  BY Zenon, DispatchIs
<1>2. step \in Steps /\ mem.status \notin Terminal
  BY Zenon, <1>1, TypedNow DEF PassInv
<1>3. /\ \A d \in Children : mem.child[d].status # "running" /\ mem.child[d].job # NoJob
           => job[<<d, mem.child[d].job>>] \in Reported
      /\ \A d \in Children : d \in Busy(mem, job) <=> mem.child[d].status = "running"
  BY Zenon, <1>2, Quiet DEF Bounded
<1>4. mem'.child[c].job # NoJob => job[<<c, mem'.child[c].job>>] \in Reported
  <2>1. mem.child[c].status # "running"
    BY Zenon, <1>1
  <2> QED BY Zenon, <1>3, <2>1
<1>5. Settled(mem', job)
  <2>1. \A d \in Children : d # c /\ mem'.child[d].job # NoJob /\ mem'.child[d].status # "running"
                             => job[<<d, mem'.child[d].job>>] \in Reported
    BY Zenon, <1>1, <1>3
  <2> QED BY Zenon, <1>4, <2>1 DEF Settled
<1>6. Busy(mem', job) \subseteq Busy(mem, job)
  <2>1. ASSUME NEW d \in Children, d \in Busy(mem', job) PROVE d \in Busy(mem, job)
    <3>1. d # c
      BY Zenon, <2>1 DEF Busy
    <3>2. mem'.child[d] = mem.child[d]
      BY Zenon, <1>1, <3>1
    <3> QED BY Zenon, <2>1, <3>2 DEF Busy
  <2>2. \A d \in Busy(mem', job) : d \in Children
    BY Zenon DEF Busy
  <2> QED BY Zenon, <2>1, <2>2
<1>7. Bounded(mem', job)
  BY Zenon, <1>2, <1>5, <1>6, BoundedLess
<1>8. ASSUME NEW j \in Jobs, Tracks(mem, job, j) PROVE Tracks(mem', job, j)
  <2>1. j[1] \in Children /\ mem.child[j[1]].status = "running" /\ j[2] = mem.child[j[1]].job
    BY Zenon, <1>3, <1>8, JobParts DEF Tracks
  <2>2. mem'.child[j[1]] = mem.child[j[1]]
    BY Zenon, <1>1, <2>1
  <2> QED BY Zenon, <2>1, <2>2 DEF Tracks, Busy
<1> QED BY Zenon, <1>7, <1>8

LEMMA LimitStep ==
  ASSUME FanOutTypeOK, PassInv, WorkInv, LimitInv, [Next]_vars
  PROVE  LimitInv'
<1> SUFFICES LimitNext
  BY Zenon, StepFixed, LimitNextIs
<1>1. /\ mem \in Documents /\ run \in Documents /\ step \in Steps /\ forgot \in Nat
      /\ budget \in Budgets /\ Bounded(run, job) /\ Bounded(mem, job)
  BY Zenon, TypedNow DEF LimitInv
<1>2. budget.made \in Nat
  BY Zenon, <1>1 DEF Budgets
<1>3. PICK L : Accounts(L, forgot, budget.made) /\ Covers(L, mem, submits, job)
  BY Zenon DEF LimitInv, Accounts, Covers, Unreported
<1>4. \A j \in Jobs : j \in L \/ Tracks(mem, job, j) \/ ~Unreported(j)
  BY Zenon, <1>3 DEF Covers, Unreported
<1>5. \A j \in Jobs : Unreported(j) => job[j] \notin Reported
  <2>1. "none" \notin Reported /\ "active" \notin Reported
    BY Zenon DEF Reported, Ended
  <2> QED BY Zenon, <2>1 DEF Unreported
<1>6. ASSUME NEW to, job' = job, submits' = submits, mem' = to, forgot' = forgot,
             budget'.made \in {budget.made, budget.made + 1},
             Bounded(run', job), Bounded(to, job),
             \A j \in Jobs : Tracks(mem, job, j) /\ job[j] \notin Reported => Tracks(to, job, j)
      PROVE  LimitNext
  <2>1. Accounts(L, forgot, budget'.made)
    BY Zenon, <1>1, <1>2, <1>3, <1>6, AccountsMore
  <2>2. Covers(L, to, submits, job)
    BY Zenon, <1>4, <1>5, <1>6 DEF Covers, Unreported
  <2> QED BY Zenon, <1>6, <2>1, <2>2 DEF LimitNext
<1>7. pc = "idle" => mem = run
  BY Zenon DEF PassInv
<1>8. CASE Outside
  <2>1. UNCHANGED <<run, mem, forgot>> /\ budget'.made = budget.made
    BY Zenon, <1>8, OutsideIs
  <2>2. /\ Bounded(run, job') /\ Bounded(mem, job')
        /\ \A j \in Jobs : Tracks(mem, job, j) /\ job'[j] \notin Reported => Tracks(mem, job', j)
    BY Zenon, <1>1, <1>8, LimitOutside
  <2>3. ASSUME NEW j \in Jobs, (j \in submits' /\ job'[j] = "none") \/ job'[j] = "active"
        PROVE  j \in L \/ Tracks(mem, job', j)
    <3>1. Unreported(j)
      BY Zenon, <1>8, <2>3, OutsideJobs DEF JobsKept
    <3>2. "none" \notin Reported /\ "active" \notin Reported
      BY Zenon DEF Reported, Ended
    <3>3. job'[j] \notin Reported
      BY Zenon, <2>3, <3>2
    <3> QED BY Zenon, <1>4, <2>2, <3>1, <3>3
  <2> QED BY Zenon, <1>3, <2>1, <2>2, <2>3 DEF LimitNext, Covers
<1>9. CASE Lost
  <2>1. /\ run' = run /\ mem' = run /\ job' = job /\ submits' = submits /\ forgot' = Forget
        /\ budget'.made \in {budget.made, budget.made + 1}
    BY Zenon, <1>9 DEF Lost
  <2>2. CASE mem = run
    <3>1. forgot' = forgot
      BY Zenon, <2>1, <2>2 DEF Forget
    <3> QED BY Zenon, <1>1, <1>6, <2>1, <2>2, <3>1
  <2>3. CASE mem # run
    <3>1. forgot' = forgot + 1 /\ forgot + 1 \in Nat
      <4>1. forgot + 1 \in Nat
        BY <1>1
      <4> QED BY Zenon, <2>1, <2>3, <4>1 DEF Forget
    <3>2. PICK T : T = {j \in Jobs : Tracks(mem, job, j)}
      BY Zenon
    <3>3. Accounts(L \cup T, forgot + 1, budget.made)
      BY Zenon, <1>1, <1>2, <1>3, <3>2, AccountsForgotten
    <3>4. Accounts(L \cup T, forgot', budget'.made)
      BY Zenon, <1>1, <1>2, <2>1, <3>1, <3>3, AccountsMore
    <3>5. Covers(L \cup T, mem', submits', job')
      BY Zenon, <1>4, <2>1, <3>2 DEF Covers, Unreported
    <3> QED BY Zenon, <1>1, <2>1, <3>4, <3>5 DEF LimitNext
  <2> QED BY Zenon, <2>2, <2>3
<1>10. CASE StartRun \/ (EndPass /\ ~Lost)
  <2>1. /\ mem' = mem /\ run' \in {run, mem} /\ UNCHANGED <<submits, job, budget, forgot>>
    BY Zenon, <1>7, <1>10, StartIs, EndPassIs
  <2> QED BY Zenon, <1>1, <1>6, <2>1
<1>11. ASSUME NEW j \in Jobs, NEW status \in Reports, HandleJobResult(j, status) PROVE LimitNext
  <2>1. /\ UNCHANGED <<submits, job, forgot>> /\ budget'.made \in {budget.made, budget.made + 1}
        /\ mem = run
    BY Zenon, <1>7, <1>11, HandleIs
  <2>2. CASE UNCHANGED <<run, mem, pc, next, loop>>
    BY Zenon, <1>1, <1>6, <2>1, <2>2
  <2>3. ASSUME NEW m \in Taken(j, status), run' = After(m), mem' = After(m) PROVE LimitNext
    <3>1. /\ Bounded(After(m), job)
          /\ \A i \in Jobs : Tracks(run, job, i) /\ job[i] \notin Reported => Tracks(After(m), job, i)
      BY Zenon, <1>1, <1>11, LimitHandle
    <3> QED BY Zenon, <1>6, <2>1, <2>3, <3>1
  <2> QED BY Zenon, <1>11, <2>2, <2>3, HandleIs
<1>12. ASSUME pc = "evaluate", UNCHANGED <<run, submits, job, forgot>>, mem' \in Documents,
              budget'.made \in {budget.made, budget.made + 1},
              \A c \in Children : mem'.child[c].job = mem.child[c].job,
              \A c \in Children :
                \/ mem'.child[c].status = mem.child[c].status
                \/ mem.child[c].status # "running" /\ mem'.child[c].status # "running"
                \/ /\ mem'.child[c].status = "cancelled" /\ mem'.status \in Terminal
                   /\ step.kind # "loop"
       PROVE  LimitNext
  <2>1. mem.status \notin Terminal
    BY Zenon, <1>12 DEF PassInv
  <2>2. /\ Bounded(mem', job)
        /\ \A j \in Jobs : Tracks(mem, job, j) /\ job[j] \notin Reported => Tracks(mem', job, j)
    BY Zenon, <1>1, <1>12, <2>1, LimitKept
  <2> QED BY Zenon, <1>1, <1>6, <1>12, <2>2
<1>13. /\ Created(mem) \in Documents
       /\ \A c \in Children :
            /\ Created(mem).child[c].job = mem.child[c].job
            /\ \/ Created(mem).child[c].status = mem.child[c].status
               \/ mem.child[c].status = "" /\ Created(mem).child[c].status = "pending"
  BY Zenon, <1>1, CreatedIs
<1>14. CASE EvaluateForEach
  <2>1. /\ pc = "evaluate" /\ UNCHANGED <<run, submits, job, forgot, budget>> /\ mem' \in Documents
        /\ mem'.child = mem.child \/ mem' = Created(mem)
    BY Zenon, <1>14, ForEachIs
  <2> QED BY Zenon, <1>12, <1>13, <2>1
<1>15. CASE EvaluateParallel
  <2>1. /\ pc = "evaluate" /\ UNCHANGED <<run, submits, job, forgot>> /\ mem' \in Documents
        /\ budget'.made \in {budget.made, budget.made + 1} /\ step.kind # "loop"
        /\ \/ mem' = Created(mem)
           \/ /\ mem'.child = Stopped(Created(mem)).child
              /\ mem'.status \in {"failed", "succeeded"}
    BY Zenon, <1>15, ParallelIs
  <2>2. CASE mem' = Created(mem)
    BY Zenon, <1>12, <1>13, <2>1, <2>2
  <2>3. CASE /\ mem'.child = Stopped(Created(mem)).child
             /\ mem'.status \in {"failed", "succeeded"}
    <3>1. PICK m : m = Created(mem)
      BY Zenon
    <3>2. \A c \in Children :
            /\ Stopped(m).child[c].job = m.child[c].job
            /\ Stopped(m).child[c].status =
                 IF m.child[c].status \in Terminal \cup {""} THEN m.child[c].status ELSE "cancelled"
      BY Zenon, <1>13, <3>1, StoppedIs
    <3>3. mem'.status \in Terminal
      BY Zenon, <2>3 DEF Terminal
    <3>4. ASSUME NEW c \in Children
          PROVE  /\ mem'.child[c].job = mem.child[c].job
                 /\ \/ mem'.child[c].status = mem.child[c].status
                    \/ mem.child[c].status # "running" /\ mem'.child[c].status # "running"
                    \/ mem'.child[c].status = "cancelled"
      <4>1. mem'.child[c].status = m.child[c].status \/ mem'.child[c].status = "cancelled"
        BY Zenon, <2>3, <3>1, <3>2
      <4>2. mem'.child[c].job = mem.child[c].job
        BY Zenon, <1>13, <2>3, <3>1, <3>2
      <4> QED BY Zenon, <1>13, <3>1, <4>1, <4>2
    <3> QED BY Zenon, <1>12, <2>1, <3>3, <3>4
  <2> QED BY Zenon, <2>1, <2>2, <2>3
<1>16. CASE EvaluateLoop
  <2>1. /\ pc = "evaluate" /\ UNCHANGED <<run, submits, job, forgot, budget>> /\ mem' \in Documents
        /\ \/ mem'.child = mem.child
           \/ \E k \in Children :
                /\ \A d \in Children : d # k => mem'.child[d] = mem.child[d]
                /\ mem'.child[k].status = "pending" /\ mem'.child[k].job = mem.child[k].job
                /\ mem.child[k].status \in {"", "succeeded", "denied"}
    BY Zenon, <1>16, LoopIs
  <2>2. CASE mem'.child = mem.child
    BY Zenon, <1>12, <2>1, <2>2
  <2>3. ASSUME NEW k \in Children, \A d \in Children : d # k => mem'.child[d] = mem.child[d],
               mem'.child[k].status = "pending", mem'.child[k].job = mem.child[k].job,
               mem.child[k].status \in {"", "succeeded", "denied"}
        PROVE  LimitNext
    <3>1. mem.child[k].status # "running" /\ mem'.child[k].status # "running"
      BY Zenon, <2>3
    <3> QED BY Zenon, <1>12, <2>1, <2>3, <3>1
  <2> QED BY Zenon, <2>1, <2>2, <2>3
<1>17. ASSUME NEW c \in Children, DispatchChild(c) PROVE LimitNext
  <2>1. PICK j : j = <<c, mem.child[c].attempts + 1>>
    BY Zenon
  <2>2. /\ UNCHANGED <<run, job, forgot>> /\ j \in Jobs
        /\ \/ /\ submits' = submits \cup {j} /\ UNCHANGED budget
              /\ mem'.child[c].status = "running" /\ mem'.child[c].job = j[2]
           \/ /\ submits' \in {submits, submits \cup {j}} /\ budget'.made = budget.made + 1
              /\ mem'.child[c].status \in {"pending", "failed"}
              /\ mem'.child[c].job \in {NoJob, mem.child[c].job}
    BY Zenon, <1>17, <2>1, DispatchIs
  <2>3. \A i \in Jobs : i # j /\ i \in submits' => i \in submits
    BY Zenon, <2>2
  <2>4. CASE /\ submits' = submits \cup {j} /\ UNCHANGED budget
             /\ mem'.child[c].status = "running" /\ mem'.child[c].job = j[2]
    <3>1. Bounded(mem', job) /\ \A i \in Jobs : Tracks(mem, job, i) => Tracks(mem', job, i)
      BY Zenon, <1>1, <1>17, <2>4, LimitSent
    <3>2. Tracks(mem', job, j)
      <4>1. j[1] = c
        BY Zenon, <2>1
      <4> QED BY Zenon, <2>4, <4>1 DEF Tracks, Busy
    <3>3. Covers(L, mem', submits', job)
      BY Zenon, <1>4, <2>3, <3>1, <3>2 DEF Covers, Unreported
    <3> QED BY Zenon, <1>1, <1>3, <2>2, <2>4, <3>1, <3>3 DEF LimitNext
  <2>5. CASE /\ submits' \in {submits, submits \cup {j}} /\ budget'.made = budget.made + 1
             /\ mem'.child[c].status \in {"pending", "failed"}
             /\ mem'.child[c].job \in {NoJob, mem.child[c].job}
    <3>1. Bounded(mem', job) /\ \A i \in Jobs : Tracks(mem, job, i) => Tracks(mem', job, i)
      BY Zenon, <1>1, <1>17, <2>5, LimitUnsent
    <3>2. Accounts(L \cup {j}, forgot', budget'.made)
      BY Zenon, <1>1, <1>2, <1>3, <2>2, <2>5, AccountsError
    <3>3. Covers(L \cup {j}, mem', submits', job)
      BY Zenon, <1>4, <2>3, <3>1 DEF Covers, Unreported
    <3> QED BY Zenon, <1>1, <2>2, <3>1, <3>2, <3>3 DEF LimitNext
  <2> QED BY Zenon, <2>2, <2>4, <2>5
<1>18. CASE ConditionGate
  <2>1. /\ pc = "evaluate" /\ UNCHANGED <<run, submits, job, forgot, budget>> /\ mem' \in Documents
        /\ mem'.child = mem.child
    BY Zenon, <1>18, GateIs
  <2> QED BY Zenon, <1>12, <2>1
<1> QED BY Zenon, <1>8, <1>9, <1>10, <1>11, <1>14, <1>15, <1>16, <1>17, <1>18, Cases

-----------------------------------------------------------------------------
(* The theorems.                                                           *)

LEMMA InitFanOut ==
  ASSUME Init
  PROVE  FanOutInv
<1>1. PICK shape \in Shapes : step = shape.step /\ budget = shape.budget
  BY Zenon DEF Init
<1>2. step \in Steps /\ budget \in Budgets /\ budget.made = 0
  BY <1>1, FanOutAssumption DEF Budgets
<1>3. step.width \in Nat /\ step.passes \in Nat
  BY Zenon, <1>2 DEF Steps
<1>4. NewStepRun \in StepRuns /\ NewStepRun.status = "" /\ NewStepRun.job = NoJob
  BY FanOutAssumption DEF NewStepRun, StepRuns, Statuses, NoJob
<1>5. PICK f : f = [c \in Children |-> NewStepRun]
  BY Zenon
<1>6. f \in [Children -> StepRuns] /\ \A c \in Children : f[c] = NewStepRun
  BY Zenon, <1>4, <1>5
<1>7. run = [status |-> "", child |-> f] /\ mem = run
  BY Zenon, <1>5 DEF Init
<1>8. run.status = "" /\ run.child = f
  BY Zenon, <1>7
<1>9. run \in Documents
  BY Zenon, <1>6, <1>7 DEF Documents, Statuses
<1>10. \A c \in Children : run.child[c].status = "" /\ run.child[c].job = NoJob
  BY Zenon, <1>4, <1>6, <1>8
<1>11. /\ pc = "idle" /\ submits = {} /\ results = {} /\ cancels = {} /\ due = {} /\ forgot = 0
       /\ over = FALSE /\ next = 0 /\ job = [j \in Jobs |-> "none"] /\ loop = [pass |-> 0, before |-> 0]
  BY Zenon DEF Init
<1>12. loop.pass = 0
  BY Zenon, <1>11
<1>13. next \in 0..(step.width + 1) /\ loop.pass \in 0..step.passes /\ forgot \in Nat
  BY <1>3, <1>11, <1>12
<1>14. FanOutTypeOK
  BY Zenon, <1>2, <1>7, <1>9, <1>11, <1>13 DEF FanOutTypeOK, Budgets
<1>15. "" \notin Terminal /\ "" # "succeeded"
  BY Zenon DEF Terminal
<1>16. PassInv /\ WorkInv
  BY Zenon, <1>7, <1>8, <1>10, <1>11, <1>15 DEF PassInv, WorkInv
<1>17. \A j \in Jobs : ~Unreported(j) /\ job[j] = "none" /\ j \notin submits
  BY Zenon, <1>11 DEF Unreported
<1>18. WholeInv /\ ToldInv
  BY Zenon, <1>7, <1>8, <1>10, <1>15, <1>17 DEF WholeInv, ToldInv, Whole
<1>19. LimitInv
  <2>1. Limit \in Nat
    BY Zenon, <1>2, LimitIs
  <2>2. Busy(run, job) = {}
    BY Zenon, <1>10 DEF Busy
  <2>3. Cardinality(Busy(run, job)) = 0 /\ Cardinality({}) = 0
    BY Zenon, <2>2, FS_EmptySet
  <2>4. 0 <= Limit /\ 0 <= Limit * 0 + 0
    BY <2>1
  <2>5. Bounded(run, job)
    BY Zenon, <1>10, <2>3, <2>4 DEF Bounded, Settled
  <2>6. {} \in SUBSET Jobs /\ Cardinality({}) <= Limit * forgot + budget.made
    BY Zenon, <1>2, <1>11, <2>3, <2>4
  <2> QED BY Zenon, <1>7, <1>17, <2>5, <2>6 DEF LimitInv
<1> QED BY Zenon, <1>14, <1>16, <1>18, <1>19 DEF FanOutInv

\* FanOutInv holds of every step with children, whatever dies, fails or is
\* repeated.
THEOREM FanOutInvariant == Spec => []FanOutInv
<1>1. Init => FanOutInv
  BY Zenon, InitFanOut
<1>2. FanOutInv /\ [Next]_vars => FanOutInv'
  BY Zenon, TypeStep, PassStep, WorkStep, LimitStep, WholeStep, ToldStep DEF FanOutInv
<1> QED BY <1>1, <1>2, PTL DEF Spec

\* The run document, the handler's copy, the jobs and the results keep their
\* types: no attempt above the bound, no child beyond the items.
THEOREM FanOutTyped == Spec => []FanOutTypeOK
<1>1. FanOutInv => FanOutTypeOK
  BY Zenon DEF FanOutInv
<1> QED BY <1>1, FanOutInvariant, PTL

\* max_parallel bounds the jobs of a for_each or parallel step that were sent
\* and not reported, one those of a loop: the jobs are those the handler's copy
\* tracks, at most Limit, and the set L that errors and forgotten passes account
\* for.
THEOREM LimitIsKept == Spec => []LimitHolds
<1>1. ASSUME FanOutInv PROVE LimitHolds
  <2>1. step \in Steps /\ forgot \in Nat /\ budget \in Budgets
    BY Zenon, <1>1, TypedNow DEF FanOutInv
  <2>2. PICK n : n = budget.made
    BY Zenon
  <2>3. n \in Nat
    BY Zenon, <2>1, <2>2 DEF Budgets
  <2>4. PICK L : Accounts(L, forgot, n) /\ \A j \in Jobs : Unreported(j) => j \in L \/ Tracks(mem, job, j)
    BY Zenon, <1>1, <2>2 DEF FanOutInv, LimitInv, Accounts
  <2>5. PICK T : T = {j \in Jobs : Tracks(mem, job, j)}
    BY Zenon
  <2>6. Bounded(mem, job)
    BY Zenon, <1>1 DEF FanOutInv, LimitInv
  <2>7. Accounts(L \cup T, forgot + 1, n)
    BY Zenon, <2>1, <2>3, <2>4, <2>5, <2>6, AccountsForgotten
  <2>8. PICK A : A = {j \in Jobs : Unreported(j)}
    BY Zenon
  <2>9. A \in SUBSET (L \cup T) /\ A \in SUBSET Jobs /\ L \cup T \in SUBSET Jobs
    BY Zenon, <2>4, <2>5, <2>7, <2>8 DEF Accounts
  <2>10. PICK a : a = Cardinality(A)
    BY Zenon
  <2>11. PICK u : u = Cardinality(L \cup T)
    BY Zenon
  <2>12. a \in Nat /\ u \in Nat /\ a <= u
    BY Zenon, <2>1, <2>9, <2>10, <2>11, JobsFinite, FS_Subset
  <2>13. PICK l : l = Limit
    BY Zenon
  <2>14. l \in Nat /\ u <= l * (forgot + 1) + n
    BY Zenon, <2>1, <2>7, <2>11, <2>13, LimitIs DEF Accounts
  <2>15. a <= l * (1 + forgot) + n
    <3>1. PICK x : x = l * (forgot + 1)
      BY Zenon
    <3>2. x \in Nat /\ l * (1 + forgot) = x
      BY <2>1, <2>14, <3>1
    <3>3. u <= x + n
      BY Zenon, <2>14, <3>1
    <3>4. a <= x + n
      BY <2>3, <2>12, <3>2, <3>3
    <3> QED BY Zenon, <3>2, <3>4
  <2> QED BY Zenon, <2>2, <2>8, <2>10, <2>13, <2>15 DEF LimitHolds
<1> QED BY <1>1, FanOutInvariant, PTL

\* A step without a condition succeeds only with the work of its children
\* behind it: what the document counts as succeeded was taken from the result
\* of a job of that child.
THEOREM SuccessEarned == Spec => []SuccessIsEarned
<1>1. ASSUME FanOutInv PROVE SuccessIsEarned
  <2> SUFFICES ASSUME run.status = "succeeded", ~step.gated, forgot = 0 PROVE Earned
    BY Zenon DEF SuccessIsEarned
  <2>1. step \in Steps /\ EarnedBy(run)
    BY Zenon, <1>1, TypedNow DEF FanOutInv, WholeInv, Whole
  <2>2. \A c \in Children : run.child[c].status = "succeeded" => Succeeded(c)
    BY Zenon, <1>1 DEF FanOutInv, WorkInv
  <2>3. CASE step.kind = "foreach"
    <3>1. \A c \in Children : run.child[c].status = "succeeded"
      BY Zenon, <2>1, <2>3 DEF EarnedBy
    <3> QED BY Zenon, <2>2, <2>3, <3>1 DEF Earned
  <2>4. CASE step.kind = "parallel"
    <3>1. PICK S : S = {c \in Children : run.child[c].status = "succeeded"}
      BY Zenon
    <3>2. PICK D : D = {c \in Children : Succeeded(c)}
      BY Zenon
    <3>3. S \in SUBSET D /\ D \in SUBSET Children /\ S \in SUBSET Children
      BY Zenon, <2>2, <3>1, <3>2
    <3>4. PICK s : s = Cardinality(S)
      BY Zenon
    <3>5. PICK d : d = Cardinality(D)
      BY Zenon
    <3>6. s \in Nat /\ d \in Nat /\ s <= d
      BY Zenon, <2>1, <3>3, <3>4, <3>5, SomeChildren, FS_Subset
    <3>7. "parallel" # "foreach"
      BY Zenon
    <3>8. s >= step.required
      BY Zenon, <2>1, <2>4, <3>1, <3>4, <3>7 DEF EarnedBy
    <3>9. step.required \in Nat
      BY Zenon, <2>1 DEF Steps
    <3>10. d >= step.required
      BY <3>6, <3>8, <3>9
    <3> QED BY Zenon, <2>4, <3>2, <3>5, <3>10 DEF Earned
  <2>5. CASE step.kind = "loop"
    <3>1. \A c \in Children : run.child[c].status \in {"", "succeeded", "denied"}
      BY Zenon, <2>1, <2>5 DEF EarnedBy
    <3>2. \A c \in Exists(run) : Succeeded(c) \/ run.child[c].status = "denied"
      BY Zenon, <2>2, <3>1 DEF Exists
    <3> QED BY Zenon, <2>5, <3>2 DEF Earned
  <2>6. step.kind \in {"foreach", "parallel", "loop"}
    BY Zenon, <2>1 DEF Steps
  <2> QED BY Zenon, <2>3, <2>4, <2>5, <2>6
<1> QED BY <1>1, FanOutInvariant, PTL

\* A step without a condition that is over leaves no unreported job behind that
\* was not told to stop: no handler is under way, so its document is the copy
\* that tracks them.
THEOREM NoneIsLeftBehind == Spec => []NoneLeftBehind
<1>1. ASSUME FanOutInv PROVE NoneLeftBehind
  <2> SUFFICES ASSUME run.status \in Terminal, ~step.gated, budget.made = 0, forgot = 0,
                      NEW j \in Jobs, Unreported(j)
               PROVE  j \in cancels
    BY Zenon DEF NoneLeftBehind
  <2>1. mem = run
    BY Zenon, <1>1 DEF FanOutInv, PassInv
  <2>2. j[1] \in Children
    BY Zenon, JobParts
  <2>3. run.child[j[1]].status \in Terminal \cup {""}
    BY Zenon, <1>1, <2>2 DEF FanOutInv, WholeInv, Whole
  <2>4. "running" \notin Terminal \cup {""}
    BY Zenon DEF Terminal
  <2> QED BY Zenon, <1>1, <2>1, <2>3, <2>4 DEF FanOutInv, ToldInv
<1> QED BY <1>1, FanOutInvariant, PTL

\* A step without a condition that is over is not reopened by a late or repeated
\* result: the child a job belongs to is over with the step, so the result is
\* ignored.
THEOREM StepStaysFinal == Spec => StepIsFinal
<1>1. ASSUME FanOutInv, [Next]_vars, run.status \in Terminal, ~step.gated, forgot' = 0 PROVE run' = run
  <2>1. FanOutTypeOK /\ PassInv /\ WorkInv /\ WholeInv /\ forgot = 0
    BY Zenon, <1>1, NotForgotten DEF FanOutInv
  <2>2. pc = "idle"
    BY Zenon, <1>1, <2>1 DEF PassInv
  <2>3. ASSUME NEW j \in Jobs, NEW status \in Reports, HandleJobResult(j, status) PROVE FALSE
    BY Zenon, <1>1, <2>1, <2>3, TakenFrom
  <2>4. Outside \/ Lost \/ StartRun => run' = run
    BY Zenon, <2>1, OutsideIs, StartIs DEF Lost
  <2>5. /\ ~ConditionGate /\ ~EvaluateForEach /\ ~EvaluateParallel /\ ~EvaluateLoop
        /\ \A c \in Children : ~DispatchChild(c)
    <3>1. "idle" # "evaluate" /\ "idle" # "dispatch"
      BY Zenon
    <3> QED BY Zenon, <2>2, <3>1 DEF ConditionGate, EvaluateForEach, EvaluateParallel, EvaluateLoop,
                                       DispatchChild
  <2>6. ~EndPass
    <3>1. "idle" # "end" /\ "idle" # "dispatch"
      BY Zenon
    <3> QED BY Zenon, <2>2, <3>1 DEF EndPass
  <2> QED BY Zenon, <1>1, <2>1, <2>3, <2>4, <2>5, <2>6, Cases
<1>2. FanOutInv /\ [Next]_vars => [run.status \in Terminal /\ ~step.gated /\ forgot' = 0
                                       => run' = run]_vars
  BY Zenon, <1>1
<1> QED BY <1>2, FanOutInvariant, PTL DEF Spec, StepIsFinal
=============================================================================
