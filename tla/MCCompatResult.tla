--------------------------- MODULE MCCompatResult ---------------------------
(***************************************************************************)
(* CompatResult with a result its worker sent twice: two handlers contend  *)
(* for the job lock, and a few deliveries fail and are repeated.           *)
(***************************************************************************)
EXTENDS CompatResult
=============================================================================
