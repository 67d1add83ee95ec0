------------------------------ MODULE RandomKeys ------------------------------
(***************************************************************************)
(* The key sequences of core/core_workload.cc with insertorder=random: the *)
(* keys of the load phase and those of the transaction phase come from two *)
(* shuffled sequences, and the operations on existing keys take Last() of  *)
(* the second one for the limit of what is there.                          *)
(*                                                                         *)
(* Composes ShuffledSequence twice.  KeySequence has the other two insert  *)
(* orders.                                                                 *)
(***************************************************************************)
EXTENDS Integers, FiniteSets

CONSTANTS Threads,        \* the client threads
          RecordCount,    \* recordcount
          NewKeys,        \* max_new_keys: operationcount * insertproportion * 2
          HotStart,       \* hot_data_start
          Distributions,  \* requestdistribution
          MaxInserts      \* bound: the inserts of the transaction phase

ASSUME RandomAssumption ==
  /\ Threads # {}
  /\ RecordCount \in Nat \ {0} /\ NewKeys \in Nat
  /\ HotStart \in 0 .. RecordCount - 1
  /\ Distributions \subseteq {"uniform", "zipfian", "latest"}
  /\ MaxInserts \in Nat

VARIABLES dist,           \* request_dist
          phase,          \* which phase main() is in
          loadKeys, loadIndex, loadLast,  \* insert_key_sequence_
          newKeys, newIndex, newLast,     \* transaction_insert_key_sequence_
          acknowledged,   \* its acknowledged_
          pc,             \* per thread: where it is in its operation
          drawn,          \* per thread: current_index
          key,            \* per thread: its key_num
          stored,         \* the keys in the database
          again           \* history: the keys inserted when they were stored

loadVars == <<loadKeys, loadIndex, loadLast>>
newVars == <<newKeys, newIndex, newLast>>
database == <<stored, again>>
vars == <<dist, phase, loadVars, newVars, acknowledged, pc, drawn, key, database>>

Loads == INSTANCE ShuffledSequence WITH
           Start <- 0, Size <- RecordCount,
           keys <- loadKeys, index <- loadIndex, last <- loadLast
News == INSTANCE ShuffledSequence WITH
           Start <- RecordCount, Size <- NewKeys,
           keys <- newKeys, index <- newIndex, last <- newLast

Loaded == 0 .. RecordCount - 1
Keys == 0 .. RecordCount + NewKeys

\* A mutant: no fallback for latest
ChooserKeysNoFallback ==
  IF dist = "uniform" THEN Loaded ELSE 0 .. RecordCount + NewKeys - 1

\* What key_chooser_ and hot_key_chooser_ draw from; with this insert order
\* latest falls back on uniform.
ChooserKeys ==
  IF dist = "zipfian" THEN 0 .. RecordCount + NewKeys - 1 ELSE Loaded
HotChooserKeys == {k \in ChooserKeys : k >= HotStart}

Init ==
  /\ dist \in Distributions
  /\ phase = "load"
  /\ Loads!SInit /\ News!SInit
  /\ acknowledged = {}
  /\ pc = [t \in Threads |-> "idle"]
  /\ drawn = [t \in Threads |-> 0]
  /\ key = [t \in Threads |-> 0]
  /\ stored = {} /\ again = {}

Goto(t, from, to) == pc[t] = from /\ pc' = [pc EXCEPT ![t] = to]

-----------------------------------------------------------------------------
\* The load phase.  DoInsert: Next(), in two steps, ...
LoadDraw(t) ==
  /\ phase = "load" /\ loadIndex < RecordCount
  /\ Goto(t, "idle", "loading")
  /\ drawn' = [drawn EXCEPT ![t] = loadIndex]
  /\ Loads!Draw
  /\ UNCHANGED <<dist, phase, newVars, acknowledged, key, database>>

LoadFetch(t) ==
  /\ Goto(t, "loading", "storing")
  /\ Loads!Fetch(drawn[t])
  /\ key' = [key EXCEPT ![t] = loadLast']
  /\ UNCHANGED <<dist, phase, newVars, acknowledged, drawn, database>>

StoreKey(t) ==
  /\ stored' = stored \cup {key[t]}
  /\ again' = again \cup ({key[t]} \cap stored)

\* ... and db.Insert.
LoadStore(t) ==
  /\ Goto(t, "storing", "idle")
  /\ StoreKey(t)
  /\ UNCHANGED <<dist, phase, loadVars, newVars, acknowledged, drawn, key>>

\* main() has joined the load threads.
StartTransactions ==
  /\ phase = "load" /\ loadIndex = RecordCount
  /\ \A t \in Threads : pc[t] = "idle"
  /\ phase' = "run"
  /\ UNCHANGED <<dist, loadVars, newVars, acknowledged, pc, drawn, key, database>>

-----------------------------------------------------------------------------
\* TransactionInsert: Next(), ...
InsertDraw(t) ==
  /\ phase = "run" /\ newIndex < MaxInserts
  /\ Goto(t, "idle", "fetching")
  /\ drawn' = [drawn EXCEPT ![t] = newIndex]
  /\ News!Draw
  /\ UNCHANGED <<dist, phase, loadVars, acknowledged, key, database>>

InsertFetch(t) ==
  /\ ~News!Exhausted(drawn[t])
  /\ Goto(t, "fetching", "inserting")
  /\ News!Fetch(drawn[t])
  /\ key' = [key EXCEPT ![t] = newLast']
  /\ UNCHANGED <<dist, phase, loadVars, acknowledged, drawn, database>>

\* A mutant: the keys go on.
InsertBeyond(t) ==
  /\ News!Exhausted(drawn[t])
  /\ Goto(t, "fetching", "inserting")
  /\ key' = [key EXCEPT ![t] = RecordCount + drawn[t]]
  /\ UNCHANGED <<dist, phase, loadVars, newVars, acknowledged, drawn, database>>

\* Fallback to start if exceeded: last_returned_ stays.
InsertExhausted(t) ==
  /\ News!Exhausted(drawn[t])
  /\ Goto(t, "fetching", "inserting")
  /\ key' = [key EXCEPT ![t] = RecordCount]
  /\ UNCHANGED <<dist, phase, loadVars, newVars, acknowledged, drawn, database>>

\* ... db.Insert, ...
InsertStore(t) ==
  /\ Goto(t, "inserting", "acking")
  /\ StoreKey(t)
  /\ UNCHANGED <<dist, phase, loadVars, newVars, acknowledged, drawn, key>>

\* ... Acknowledge(), to a set that nobody reads.
Acknowledge(t) ==
  /\ Goto(t, "acking", "idle")
  /\ acknowledged' = acknowledged \cup {key[t]}
  /\ UNCHANGED <<dist, phase, loadVars, newVars, drawn, key, database>>

\* NextTransactionKeyNum, for updates, and its Hot twin, for reads and scans:
\* a key ...
ChooseKey(t) ==
  /\ phase = "run"
  /\ Goto(t, "idle", "choosing")
  /\ \E k \in ChooserKeys : key' = [key EXCEPT ![t] = k]
  /\ UNCHANGED <<dist, phase, loadVars, newVars, acknowledged, drawn, database>>

ChooseHotKey(t) ==
  /\ phase = "run"
  /\ Goto(t, "idle", "choosing hot")
  /\ \E k \in HotChooserKeys : key' = [key EXCEPT ![t] = k]
  /\ UNCHANGED <<dist, phase, loadVars, newVars, acknowledged, drawn, database>>

\* ... beyond Last() is drawn again, ...
ChooseAgain(t) ==
  /\ key[t] > newLast
  /\ \/ pc[t] = "choosing" /\ \E k \in ChooserKeys : key' = [key EXCEPT ![t] = k]
     \/ pc[t] = "choosing hot"
        /\ \E k \in HotChooserKeys : key' = [key EXCEPT ![t] = k]
  /\ UNCHANGED <<dist, phase, loadVars, newVars, acknowledged, pc, drawn, database>>

\* ... and any other is accepted, ...
AcceptKey(t) ==
  /\ key[t] <= newLast
  /\ pc[t] \in {"choosing", "choosing hot"}
  /\ pc' = [pc EXCEPT ![t] = "using"]
  /\ UNCHANGED <<dist, phase, loadVars, newVars, acknowledged, drawn, key, database>>

\* ... and db.Read, db.Scan or db.Update runs on it.
UseKey(t) ==
  /\ Goto(t, "using", "idle")
  /\ UNCHANGED <<dist, phase, loadVars, newVars, acknowledged, drawn, key, database>>

Load(t) == LoadDraw(t) \/ LoadFetch(t) \/ LoadStore(t)
Insert(t) == InsertDraw(t) \/ InsertFetch(t) \/ InsertExhausted(t)
               \/ InsertStore(t) \/ Acknowledge(t)
Choose(t) == ChooseKey(t) \/ ChooseHotKey(t) \/ ChooseAgain(t) \/ AcceptKey(t)
               \/ UseKey(t)

Next == StartTransactions \/ \E t \in Threads : Load(t) \/ Insert(t) \/ Choose(t)

Spec == Init /\ [][Next]_vars

-----------------------------------------------------------------------------
States == {"idle", "loading", "storing", "fetching", "inserting", "acking",
           "choosing", "choosing hot", "using"}

TypeOK ==
  /\ dist \in Distributions /\ phase \in {"load", "run"}
  /\ loadKeys \in [0 .. RecordCount - 1 -> Loaded]
  /\ newKeys \in [0 .. NewKeys - 1 -> News!Prepared]
  /\ loadIndex \in 0 .. RecordCount /\ newIndex \in 0 .. MaxInserts
  /\ loadLast \in -1 .. RecordCount - 1
  /\ newLast \in RecordCount - 1 .. RecordCount + NewKeys - 1
  /\ pc \in [Threads -> States]
  /\ drawn \in [Threads -> Nat]
  /\ key \in [Threads -> Keys]
  /\ stored \subseteq Keys /\ again \subseteq Keys /\ acknowledged \subseteq stored

\* However the threads interleave in Next, no two of them get the same key: the
\* load phase stores every record, and until the prepared keys run out every
\* insert makes a new one.  From then on only the first new key is repeated.
KeysGivenOnce ==
  /\ phase = "run" => Loaded \subseteq stored
  /\ again \subseteq {RecordCount}
  /\ again # {} => newIndex > NewKeys

\* Last() jumps up and down with the shuffled keys, and still an operation
\* works on a loaded key, or, with zipfian, on one that is not larger than
\* some key an insert was given.
ChosenKeysIssued ==
  \A t \in Threads :
    pc[t] = "using" =>
      \/ key[t] \in stored /\ key[t] < RecordCount
      \/ /\ dist = "zipfian"
         /\ \E i \in 0 .. NewKeys - 1 : i < newIndex /\ key[t] <= newKeys[i]

-----------------------------------------------------------------------------
(* What a comment says and the code does not do. *)

\* "If the generator picks a key that is not inserted yet, we just ignore it
\* and pick another key": an operation works on a key that was inserted, or at
\* least on one whose insert has begun.
ChosenKeysGiven ==
  \A t \in Threads :
    pc[t] = "using" =>
      \/ key[t] \in stored
      \/ \E i \in 0 .. NewKeys - 1 : i < newIndex /\ key[t] = newKeys[i]

-----------------------------------------------------------------------------
(* The inductive invariant, in parts. *)

\* No key comes twice.
Shuffled(order) ==
  \A i, j \in DOMAIN order : order[i] = order[j] => i = j

\* Between the draw of an index and the end of the Insert of its key
Loading(t) == pc[t] \in {"loading", "storing"}
Inserting(t) == pc[t] \in {"fetching", "inserting"}
Choosing(t) == pc[t] \in {"choosing", "choosing hot", "using"}

\* Nothing of the transaction phase happens in the load phase, nor the other
\* way round.
PhaseInv ==
  /\ phase = "load" =>
       /\ newIndex = 0 /\ again = {} /\ acknowledged = {}
       /\ \A t \in Threads : pc[t] = "idle" \/ Loading(t)
  /\ phase = "run" => loadIndex = RecordCount /\ \A t \in Threads : ~Loading(t)

\* An index of the load phase is in one thread's hands until its key is stored.
LoadInv ==
  /\ \A t \in Threads :
        /\ Loading(t) => drawn[t] \in 0 .. loadIndex - 1
        /\ pc[t] = "storing" => key[t] = loadKeys[drawn[t]]
  /\ \A t, u \in Threads :
        Loading(t) /\ Loading(u) /\ drawn[t] = drawn[u] => t = u
  /\ \A i \in 0 .. RecordCount - 1 :
        loadKeys[i] \in stored <=>
          i < loadIndex /\ \A t \in Threads : Loading(t) => drawn[t] # i

\* So is one of the transaction phase; past the last one the key is start_.
InsertInv ==
  /\ \A t \in Threads :
        /\ Inserting(t) => drawn[t] \in 0 .. newIndex - 1
        /\ pc[t] = "inserting" =>
             key[t] = IF drawn[t] < NewKeys THEN newKeys[drawn[t]]
                                            ELSE RecordCount
        /\ pc[t] = "acking" => key[t] \in stored
  /\ \A t, u \in Threads :
        Inserting(t) /\ Inserting(u) /\ drawn[t] = drawn[u] => t = u
  /\ \A i \in 0 .. NewKeys - 1 :
        newKeys[i] \in stored =>
          \/ newKeys[i] = RecordCount /\ newIndex > NewKeys
          \/ i < newIndex /\ \A t \in Threads : Inserting(t) => drawn[t] # i

\* Last() is one below the first new key or a key whose index was drawn.
LastInv ==
  \/ newLast = RecordCount - 1
  \/ \E i \in 0 .. NewKeys - 1 : i < newIndex /\ newLast = newKeys[i]

\* A thread chooses from what its chooser draws.
ChoiceInv == \A t \in Threads : Choosing(t) => key[t] \in ChooserKeys

IInv ==
  /\ TypeOK
  /\ Shuffled(loadKeys) /\ Shuffled(newKeys)
  /\ PhaseInv /\ LoadInv /\ InsertInv /\ LastInv /\ ChoiceInv
  /\ KeysGivenOnce /\ ChosenKeysIssued
=============================================================================
