---------------------------- MODULE MCWorkloadOps ---------------------------
(* Small instances of WorkloadOps for TLC. *)
EXTENDS WorkloadOps

CONSTANTS r1, r2, w1, w2, n1, n2

\* The first workload is in the first namespace, another one in the last.
HomeOf == [w \in Workloads |-> IF w = w1 THEN n1 ELSE n2]
=============================================================================
