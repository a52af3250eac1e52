----------------------------- MODULE MCDashboard -----------------------------
(***************************************************************************)
(* Two loops, and slots for the requests of both.                          *)
(***************************************************************************)
EXTENDS Dashboard

CONSTANTS l1, l2, s1, s2, s3, s4

TwoLoops == {l1, l2}
FourSlots == {s1, s2, s3, s4}
=============================================================================
