----------------------------- MODULE MCAuditLog ----------------------------
(* Small instances of AuditLog for TLC. *)
EXTENDS AuditLog, TLC

CONSTANTS g1, g2, deployed, deleted, anything

\* The goroutines are interchangeable, and so are the resources.
Symmetry == Permutations(Writers) \cup Permutations(Resources)
=============================================================================
