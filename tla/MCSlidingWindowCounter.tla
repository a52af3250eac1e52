------------------------ MODULE MCSlidingWindowCounter ------------------------
(***************************************************************************)
(* Model values and symmetry for SlidingWindowCounter.                     *)
(***************************************************************************)
EXTENDS SlidingWindowCounter, TLC

CONSTANTS r1, r2

TwoRequests == {r1, r2}
Symmetry2 == Permutations(TwoRequests)
=============================================================================
