----------------------------- MODULE MCRandomKeys -----------------------------
(***************************************************************************)
(* Small instances of RandomKeys for TLC.                                  *)
(***************************************************************************)
EXTENDS RandomKeys, TLC

\* The threads are interchangeable.
ThreadSymmetry == Permutations(Threads)
=============================================================================
