--------------------------- MODULE DispatchLedger ---------------------------
(***************************************************************************)
(* What the runtime hash promises about the dispatches of one job, with    *)
(* every field, message and script left out.  Dispatches are numbered as   *)
(* they are issued and at most one of them, the newest, is live.  Only the *)
(* live dispatch may report; once it has reported an outcome, as opposed   *)
(* to a failure to be retried, it reports nothing more.                    *)
(***************************************************************************)
EXTENDS Naturals

CONSTANT MaxIssued \* bound on the number of dispatches ever issued

VARIABLES
  issued, \* how many dispatches were issued
  live,   \* the dispatch that may report, 0 when there is none
  landed  \* pairs <<dispatch, is it an outcome>> of the reports taken

ledger == <<issued, live, landed>>

Init == issued = 0 /\ live = 0 /\ landed = {}

Issue ==
  /\ issued < MaxIssued
  /\ issued' = issued + 1
  /\ live' = issued'
  /\ UNCHANGED landed

Revoke == live' = 0 /\ UNCHANGED <<issued, landed>>

Land(isOutcome) ==
  /\ live # 0
  /\ live = issued
  /\ <<live, TRUE>> \notin landed
  /\ landed' = landed \cup {<<live, isOutcome>>}
  /\ UNCHANGED <<issued, live>>

Next == Issue \/ Revoke \/ \E isOutcome \in BOOLEAN : Land(isOutcome)

Spec == Init /\ [][Next]_ledger
=============================================================================
