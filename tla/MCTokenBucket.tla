---------------------------- MODULE MCTokenBucket ----------------------------
(***************************************************************************)
(* Model values and symmetry for TokenBucket.                              *)
(***************************************************************************)
EXTENDS TokenBucket, TLC

CONSTANTS r1, r2, r3

TwoRequests == {r1, r2}
ThreeRequests == {r1, r2, r3}
Symmetry2 == Permutations(TwoRequests)
Symmetry3 == Permutations(ThreeRequests)
=============================================================================
