--------------------------- MODULE MCKeySequence ---------------------------
(***************************************************************************)
(* Small instances of KeySequence for TLC.                                 *)
(***************************************************************************)
EXTENDS KeySequence, TLC

\* The threads are interchangeable (sound for the safety runs).
ThreadSymmetry == Permutations(Threads)
=============================================================================
