----------------------------- MODULE MCRegistry -----------------------------
(* Small instances of Registry for TLC. *)
EXTENDS Registry, TLC

CONSTANTS p1, p2, a, b, x, y

Symmetry == Permutations(Procs) \cup Permutations(Ids) \cup Permutations(Slugs)
=============================================================================
