--------------------------- MODULE MCStickyRouting ---------------------------
(* StickyRouting with two workers, two images and two segment requests. *)
EXTENDS StickyRouting, TLC

CONSTANTS w1, w2, i1, i2, q1, q2

MCWorkers == {w1, w2}
MCImages == {i1, i2}
MCRequests == {q1, q2}
MCSymmetry == Permutations(MCWorkers) \union Permutations(MCImages) \union Permutations(MCRequests)
=============================================================================
