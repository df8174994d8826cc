--------------------------- MODULE MCFindingsStore ---------------------------
(* FindingsStore for TLC.  Scanners, issues and secrets are interchangeable:  *)
(* no definition and no property names one of them.                           *)
EXTENDS FindingsStore, TLC

Symmetry == Permutations(Scanners) \cup Permutations(Issues)
=============================================================================
