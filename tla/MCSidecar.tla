------------------------------ MODULE MCSidecar ------------------------------
(* Small instances of Sidecar for TLC. *)
EXTENDS Sidecar, TLC

CONSTANTS p1, p2, d1, d2, t1, t2, e1, e2

Symmetry == Permutations(Procs) \cup Permutations(Targets)
=============================================================================
