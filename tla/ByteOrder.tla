----------------------------- MODULE ByteOrder -------------------------------
(***************************************************************************)
(* Keys as the engines see them: byte strings, here sequences of numbers,  *)
(* in the bytewise order every engine of the repository iterates in.       *)
(***************************************************************************)
EXTENDS Integers, FiniteSets, Sequences

Less(a, b) ==
  \E i \in 1 .. Len(b) :
    /\ i > Len(a) \/ a[i] < b[i]
    /\ \A j \in 1 .. i - 1 : j <= Len(a) /\ a[j] = b[j]

Sorted(S) ==
  [i \in 1 .. Cardinality(S) |->
     CHOOSE a \in S : Cardinality({b \in S : Less(b, a)}) = i - 1]

\* Where an iterator goes after Seek(k): the keys from k on, in order
From(S, k) == Sorted({a \in S : ~Less(a, k)})

\* At most the first n elements of a sequence
Take(s, n) == SubSeq(s, 1, IF n < Len(s) THEN n ELSE Len(s))
=============================================================================
