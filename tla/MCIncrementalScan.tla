-------------------------- MODULE MCIncrementalScan --------------------------
(* IncrementalScan for TLC.  Issues and queries are interchangeable: no       *)
(* definition and no property names one of them.                              *)
EXTENDS IncrementalScan, TLC

Symmetry == Permutations(Issues) \cup Permutations(Queries)
=============================================================================
