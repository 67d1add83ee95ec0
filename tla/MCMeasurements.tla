--------------------------- MODULE MCMeasurements ---------------------------
(***************************************************************************)
(* Small instances of Measurements for TLC.                                *)
(***************************************************************************)
EXTENDS Measurements, TLC

\* The threads are interchangeable.
ThreadSymmetry == Permutations(Threads)
=============================================================================
