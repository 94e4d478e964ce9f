--------------------------- MODULE MCRuntimeFence ---------------------------
(***************************************************************************)
(* RuntimeFence on a small instance: one tenant, one worker, two message   *)
(* ids, three dispatches, so that a later dispatch can supersede, follow   *)
(* or outlive an earlier one, also one before the hash expired.            *)
(***************************************************************************)
EXTENDS RuntimeFence
=============================================================================
