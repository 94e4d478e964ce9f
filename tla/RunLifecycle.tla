---------------------------- MODULE RunLifecycle ----------------------------
(***************************************************************************)
(* What the workflow engine promises about a run: it starts pending, works *)
(* while it is active, ends once, and from then on submits no job and      *)
(* keeps its status.  The promise holds as long as the handlers of the run *)
(* are alone with it.                                                      *)
(***************************************************************************)
CONSTANTS
  Active,    \* the statuses of a run at work
  Final      \* the statuses of a run that is over

VARIABLES
  status,    \* the status of the run
  submitted, \* the jobs it has submitted
  alone      \* no two handlers have worked on it at once

Init == status = "pending" /\ submitted = {}

\* The run is started, waits, or goes on after it waited.
Work ==
  /\ status \notin Final
  /\ status' \in Active
  /\ UNCHANGED submitted

\* A job is submitted; where the publish reports an error, the same step of
\* the engine writes the run.
Submit ==
  /\ status \in Active
  /\ status' \in Active
  /\ submitted \subseteq submitted'

End ==
  /\ status \notin Final
  /\ status' \in Final
  /\ UNCHANGED submitted

Next == alone' => Work \/ Submit \/ End

Spec == Init /\ [][Next]_<<status, submitted>>
=============================================================================
