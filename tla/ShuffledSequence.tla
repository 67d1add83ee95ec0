--------------------------- MODULE ShuffledSequence ---------------------------
(***************************************************************************)
(* RandomCounterGenerator, and RandomAcknowledgedCounterGenerator, which   *)
(* has the same Next and Last: keys in an order shuffled beforehand, until *)
(* there are no more.                                                      *)
(***************************************************************************)
EXTENDS Integers

CONSTANTS Start,        \* start_
          Size          \* keys_.size()

VARIABLES keys,         \* keys_
          index,        \* index_
          last          \* last_returned_

Prepared == Start .. Start + Size - 1

\* The constructor: any order of the keys
SInit ==
  /\ keys \in {order \in [0 .. Size - 1 -> Prepared] :
                 \A i, j \in 0 .. Size - 1 : order[i] = order[j] => i = j}
  /\ index = 0
  /\ last = Start - 1

\* Next() takes an index by index_.fetch_add(1), outside the mutex, ...
Draw == index' = index + 1 /\ UNCHANGED <<keys, last>>

\* ... answers start_ when there are no more keys, ...
Exhausted(i) == i >= Size

\* A mutant: the key at the index as it is by now
FetchCurrent(i) ==
  last' = keys[IF index > Size THEN i ELSE index - 1] /\ UNCHANGED <<keys, index>>

\* ... and returns the key at its index under the mutex otherwise.
Fetch(i) == last' = keys[i] /\ UNCHANGED <<keys, index>>
=============================================================================
