--------------------------- MODULE MCMetricsStore ---------------------------
(* Small instances of MetricsStore for TLC. *)
EXTENDS MetricsStore, TLC

Symmetry == Permutations(Workers)
=============================================================================
