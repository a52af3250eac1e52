---------------------------- MODULE MCLeakyBucket ----------------------------
(***************************************************************************)
(* Model values for LeakyBucket.  The run checks a temporal formula, so it *)
(* uses no symmetry.                                                       *)
(***************************************************************************)
EXTENDS LeakyBucket

CONSTANTS r1, r2

TwoRequests == {r1, r2}
=============================================================================
