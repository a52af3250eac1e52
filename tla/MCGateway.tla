------------------------------ MODULE MCGateway ------------------------------
(***************************************************************************)
(* Two families of parameters with one algorithm each, and requests that   *)
(* carry whole or fractional params for one of them or for both.           *)
(***************************************************************************)
EXTENDS Gateway

CONSTANTS fixed_window, token_bucket, window, bucket

TwoAlgorithms == {fixed_window, token_bucket}
TwoFamilies == {window, bucket}
FamilyOf == [a \in TwoAlgorithms |-> IF a = fixed_window THEN window ELSE bucket]

\* window_size_sec = limit = 1 beside a capacity of 0.5.
SomeParams == {[f \in TwoFamilies |-> IF f = window THEN 2 ELSE 1]}
=============================================================================
