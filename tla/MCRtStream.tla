----------------------------- MODULE MCRtStream -----------------------------
(* RtStream for TLC: the threads that stop a stream are interchangeable, but  *)
(* liveness is checked, so that no symmetry is used.                          *)
EXTENDS RtStream

CONSTANTS s1, s2

MCStoppers == {s1, s2}

MCReturns == {0, 1, 2}
=============================================================================
