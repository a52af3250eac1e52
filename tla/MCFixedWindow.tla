---------------------------- MODULE MCFixedWindow ----------------------------
(***************************************************************************)
(* Model values and symmetry for FixedWindow.                              *)
(***************************************************************************)
EXTENDS FixedWindow, TLC

CONSTANTS r1, r2

TwoRequests == {r1, r2}
Symmetry2 == Permutations(TwoRequests)
=============================================================================
