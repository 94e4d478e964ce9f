--------------------------- MODULE MCResultOutbox ---------------------------
(***************************************************************************)
(* ResultOutbox for two replicas and a workflow of three jobs, the last of *)
(* which fails for good, so that two compensations have an order.          *)
(***************************************************************************)
EXTENDS ResultOutbox
=============================================================================
