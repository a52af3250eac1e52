--------------------------- MODULE MCDashboardSync ---------------------------
(***************************************************************************)
(* Two bucket dashboards and two visits: of different pages, or of the     *)
(* same page twice.                                                        *)
(***************************************************************************)
EXTENDS DashboardSync, TLC

CONSTANTS token_bucket, leaky_bucket, bucket

TwoAlgorithms == {token_bucket, leaky_bucket}
OneFamily == {bucket}
FamilyOf == [a \in TwoAlgorithms |-> bucket]

\* A capacity of 1 is what a form holds; other clients send 0.5 as well.
OneForm == {[f \in OneFamily |-> 2]}
SomeParams == OneForm \cup {[f \in OneFamily |-> 1]}

\* Nothing tells two policies, two visits or the two dashboards apart.
Alike == Permutations(Policies) \cup Permutations(Visits) \cup Permutations(TwoAlgorithms)
=============================================================================
