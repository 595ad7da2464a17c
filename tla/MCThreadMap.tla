---------------------------- MODULE MCThreadMap -----------------------------
(* Model values and symmetry for the TLC runs of ThreadMap. *)
EXTENDS ThreadMap, TLC

CONSTANTS n1, n2, n3, n4

Symmetry == Permutations(Node)
=============================================================================
