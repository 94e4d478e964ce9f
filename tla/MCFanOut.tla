------------------------------ MODULE MCFanOut ------------------------------
(***************************************************************************)
(* FanOut for small steps of each kind.                                    *)
(***************************************************************************)
EXTENDS FanOut

Step(kind, width, limit, required) ==
  [kind |-> kind, width |-> width, limit |-> limit, required |-> required,
   retries |-> 0, tested |-> FALSE, gated |-> FALSE, passes |-> 2]

\* More items than may run at once, items that are retried, and no items.
ForEachSteps ==
  {Step("foreach", 3, 2, 0), [Step("foreach", 2, 1, 0) EXCEPT !.retries = 1], Step("foreach", 0, 0, 0)}

\* The strategies all, any and n_of_m, and children that are retried.
ParallelSteps ==
  {Step("parallel", 2, 0, 2), Step("parallel", 3, 2, 1), Step("parallel", 3, 0, 2),
   [Step("parallel", 2, 1, 1) EXCEPT !.retries = 1]}

\* A fixed count, a condition, and iterations that are retried.
LoopSteps ==
  {Step("loop", 3, 0, 0), [Step("loop", 2, 0, 0) EXCEPT !.tested = TRUE],
   [Step("loop", 2, 0, 0) EXCEPT !.retries = 1]}

\* A condition that turns false or fails, with children under way.
GatedSteps ==
  {[Step(kind, 2, 0, 1) EXCEPT !.gated = TRUE] : kind \in {"foreach", "parallel", "loop"}}

Trouble ==
  [crashes |-> 1, errors |-> 1, lost |-> 0, made |-> 0, ends |-> {"SUCCEEDED", "FAILED", "DENIED"}]

\* The widest parallel steps and those with a condition meet no crash; the jobs
\* of a loop also time out.
Plain ==
  {[step |-> s,
    budget |-> [Trouble EXCEPT
                  !.crashes = IF s.gated \/ (s.kind = "parallel" /\ s.width = 3) THEN 0 ELSE 1,
                  !.ends = IF s.retries > 0 THEN {"SUCCEEDED", "FAILED"}
                           ELSE IF s.kind = "loop" THEN @ \cup {"TIMEOUT"} ELSE @]] :
     s \in ForEachSteps \cup ParallelSteps \cup LoopSteps \cup GatedSteps}

\* The workers of a retried step say whether to retry it, and a submit of one
\* of their jobs is delivered again.
Asking ==
  {[step |-> s,
    budget |-> [crashes |-> IF s.kind = "foreach" THEN 1 ELSE 0,
                errors |-> IF s.kind = "loop" THEN 1 ELSE 0, lost |-> 1, made |-> 0,
                ends |-> {"SUCCEEDED", "FAILED_RETRYABLE"} \cup
                         (IF s.kind = "loop" THEN {"FAILED_FATAL"} ELSE {})]] :
     s \in {t \in ForEachSteps \cup ParallelSteps \cup LoopSteps : t.retries > 0}}

MCShapes == Plain \cup Asking

OneForEach == {[step |-> Step("foreach", 2, 0, 0), budget |-> [Trouble EXCEPT !.crashes = 0]]}
=============================================================================
