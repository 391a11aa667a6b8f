--------------------------- MODULE MCReviewService --------------------------
(* Small instances of ReviewService for TLC. *)
EXTENDS ReviewService, TLC

Symmetry == Permutations(Workers) \union Permutations(PRs)
=============================================================================
