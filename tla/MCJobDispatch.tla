--------------------------- MODULE MCJobDispatch ---------------------------
(***************************************************************************)
(* JobDispatch for two handlers.  Each set of budgets says which faults    *)
(* and interventions meet; a run is the union of its budgets.              *)
(***************************************************************************)
EXTENDS JobDispatch, TLC

Symmetry == Permutations(Handlers) \cup Permutations(Drainers)

Unlimited == 9
None == [k \in Kinds |-> 0]

\* A publish error and a crash, with workers that ask for retries; the service
\* cancel with two drainers at work; the output check with one drainer; CancelJob,
\* a timeout and a crash.
Races ==
  {"publish" :> 1 @@ "crash" :> 1 @@ "retry" :> Unlimited @@ None,
   "attempts" :> 1 @@ "replay" :> Unlimited @@ None,
   "audit" :> 1 @@ None,
   "job" :> 1 @@ "timeout" :> 1 @@ "crash" :> 1 @@ None}

\* The output check and the service cancel.
QuarantineAndCancel == {"audit" :> 1 @@ "attempts" :> 1 @@ None}
=============================================================================
