---------------------------- MODULE MCHelperWork ----------------------------
(* Values of the constants of HelperWork for TLC.                           *)
EXTENDS HelperWork

CONSTANTS c1, c2, p1

Counter == {1}
=============================================================================
