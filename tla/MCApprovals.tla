---------------------------- MODULE MCApprovals ----------------------------
(* Instances of Approvals for TLC. *)
EXTENDS Approvals

CONSTANTS o1, o2, h1

TwoOperators == {o1, o2}
OneHandler == {h1}
=============================================================================
