------------------------------- MODULE OpShare -------------------------------
(***************************************************************************)
(* How main() of core/ycsbc.cc divides work among its threads 0 .. n - 1:  *)
(* records in the load phase, operations and warmup operations in the      *)
(* transaction phase.                                                      *)
(***************************************************************************)
EXTENDS Integers

\* A mutant: the rest is lost
ShareDown(total, n, i) == total \div n

\* The share of thread i when total things go to n threads
Share(total, n, i) ==
  (total \div n) + (IF i < total % n THEN 1 ELSE 0)

-----------------------------------------------------------------------------
\* The first of thread i's things, were they dealt out in blocks
Offset(total, n, i) ==
  (total \div n) * i + (IF i < total % n THEN i ELSE total % n)

\* The shares cut 0 .. total - 1 into consecutive blocks: nothing is done
\* twice and nothing is left over.
SharesPartition(total, n) ==
  /\ Offset(total, n, 0) = 0
  /\ Offset(total, n, n) = total
  /\ \A i \in 0 .. n - 1 :
        Offset(total, n, i + 1) = Offset(total, n, i) + Share(total, n, i)

\* A smaller total never gives any thread a larger share: no thread warms up
\* for longer than it runs.
SharesMonotone(less, total, n) ==
  less <= total => \A i \in 0 .. n - 1 : Share(less, n, i) <= Share(total, n, i)

\* n more things are one more for every thread.
SharesGrow(total, n) ==
  \A i \in 0 .. n - 1 : Share(total + n, n, i) = Share(total, n, i) + 1
=============================================================================
