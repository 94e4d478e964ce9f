--------------------------- MODULE MCWorkflowRun ---------------------------
(***************************************************************************)
(* WorkflowRun for small workflows that together have every kind of step.  *)
(***************************************************************************)
EXTENDS WorkflowRun

CONSTANTS a, b, c

S == {a, b, c}

\* Three worker steps without dependencies, handlers or retries, to change.
Plain ==
  [kind |-> [s \in S |-> "worker"], deps |-> [s \in S |-> {}],
   onError |-> [s \in S |-> NoStep], retries |-> [s \in S |-> 0],
   branches |-> [s \in S |-> {}], gated |-> [s \in S |-> FALSE], timeout |-> FALSE]

\* A step with one retry and a handler, and a step that follows it.
Retrying == [Plain EXCEPT !.retries[a] = 1, !.onError[a] = c, !.kind[c] = "inline",
                          !.deps[b] = {a}]

\* A worker beside an approval, and a step that waits for both.
Approving == [Plain EXCEPT !.kind[a] = "approval", !.deps[c] = {a, b}]

\* A switch between a worker and a delay, under a deadline.
Switching == [Plain EXCEPT !.kind[a] = "switch", !.branches[a] = {b, c}, !.kind[c] = "delay",
                           !.deps[b] = {a}, !.deps[c] = {a}, !.timeout = TRUE]

\* A sub-workflow, then a conditional worker, whose failure a worker handles.
Nesting == [Plain EXCEPT !.kind[a] = "subworkflow", !.deps[b] = {a}, !.gated[b] = TRUE,
                         !.onError[b] = c]

\* A step with one retry, and one that follows it: for handlers that interleave
\* freely.
Pair ==
  LET T == {a, b} IN
  [kind |-> [s \in T |-> "worker"], deps |-> [s \in T |-> IF s = b THEN {a} ELSE {}],
   onError |-> [s \in T |-> NoStep], retries |-> [s \in T |-> IF s = a THEN 1 ELSE 0],
   branches |-> [s \in T |-> {}], gated |-> [s \in T |-> FALSE], timeout |-> FALSE]

Ends == {"SUCCEEDED", "FAILED", "FAILED_FATAL", "TIMEOUT", "DENIED"}

\* A crash, a failed write, publish or acknowledgement, and a cancellation.
Trouble == [crashes |-> 1, errors |-> 1, cancels |-> 1, unlocked |-> 0, ends |-> Ends]

\* Workers that ask for a retry.
Wishes == [Trouble EXCEPT !.ends = {"SUCCEEDED", "FAILED_FATAL", "FAILED_RETRYABLE"}]

\* An output policy that quarantines.
Policy == [Trouble EXCEPT !.ends = {"SUCCEEDED", "FAILED", "OUTPUT_QUARANTINED"}]

\* One handler that works without the lock, and nothing else.
NoLock ==
  [crashes |-> 0, errors |-> 0, cancels |-> 0, unlocked |-> 1, ends |-> {"SUCCEEDED", "FAILED", "TIMEOUT"}]

MCInstances ==
  {[wf |-> w, budget |-> Trouble] : w \in {Switching, Nesting}}
    \cup {[wf |-> Retrying, budget |-> Wishes], [wf |-> Approving, budget |-> Policy],
          [wf |-> Pair, budget |-> NoLock]}
=============================================================================
