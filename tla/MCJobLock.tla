----------------------------- MODULE MCJobLock -----------------------------
(***************************************************************************)
(* JobLock for two handlers and up to three acquisitions, in units of the  *)
(* call timeout: renewal every three ticks, expiry after nine.             *)
(***************************************************************************)
EXTENDS JobLock
=============================================================================
