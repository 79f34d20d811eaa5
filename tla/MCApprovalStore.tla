-------------------------- MODULE MCApprovalStore ---------------------------
(* A small instance of ApprovalStore for TLC. *)
EXTENDS ApprovalStore

CONSTANTS i1, i2, a1, a2, noagent, t1, t2, o1, o2, nobody
=============================================================================
