------------------------- MODULE MCReviewTaskQueue -------------------------
(* Two experts and one task; two dates, one of which has come. *)
EXTENDS ReviewTaskQueue, TLC

CONSTANTS e1, e2, t1

Symmetry == Permutations(Expert)
=============================================================================
