----------------------------- MODULE MCCatalog -----------------------------
(***************************************************************************)
(* Catalog for TLC: processes, ids and names are interchangeable.          *)
(***************************************************************************)
EXTENDS Catalog, TLC

Interchangeable ==
  Permutations(Procs) \cup Permutations(Ids) \cup Permutations(Slugs)
=============================================================================
