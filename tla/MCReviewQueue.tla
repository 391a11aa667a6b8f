---------------------------- MODULE MCReviewQueue ---------------------------
(* Small instances of ReviewQueue for TLC. *)
EXTENDS ReviewQueue, TLC

CONSTANTS j1, j2, j3, p1, p2

WorkerSymmetry == Permutations(Workers)

\* j1 and j2 are two triggers for the same pull request.
MCPrOf == [j \in Jobs |-> IF j \in {j1, j2} THEN p1 ELSE p2]
=============================================================================
