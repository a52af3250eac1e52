----------------------------- MODULE MCSlidingLog -----------------------------
(***************************************************************************)
(* Model values and symmetry for SlidingLog.                               *)
(***************************************************************************)
EXTENDS SlidingLog, TLC

CONSTANTS r1, r2

TwoRequests == {r1, r2}
Symmetry2 == Permutations(TwoRequests)
=============================================================================
