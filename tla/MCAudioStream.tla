--------------------------- MODULE MCAudioStream ---------------------------
(***************************************************************************)
(* Small instances of AudioStream for TLC.                                 *)
(***************************************************************************)
EXTENDS AudioStream, TLC

\* Driver objects are interchangeable; for runs without liveness only.
Symmetry == Permutations(Drivers)
=============================================================================
