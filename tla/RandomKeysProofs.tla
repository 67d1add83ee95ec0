-------------------------- MODULE RandomKeysProofs ---------------------------
(***************************************************************************)
(* Proofs about RandomKeys, for any threads, any number of records, new    *)
(* keys and inserts, and every order the keys may be shuffled in.          *)
(***************************************************************************)
EXTENDS RandomKeys, FiniteSetTheorems, TLAPS

-----------------------------------------------------------------------------
(***************************************************************************)
(* The shuffled keys.                                                      *)
(***************************************************************************)

\* The keys of the load phase, in any order, are all the records.
LEMMA LoadKeysCover ==
  ASSUME loadKeys \in [0 .. RecordCount - 1 -> Loaded], Shuffled(loadKeys)
  PROVE  \A k \in Loaded : \E i \in 0 .. RecordCount - 1 : loadKeys[i] = k
<1>1. loadKeys \in Injection(Loaded, Loaded)
  BY DEF Shuffled, Injection, IsInjective, Loaded
<1>2. IsFiniteSet(Loaded)
  BY RandomAssumption, FS_Interval DEF Loaded
<1>3. loadKeys \in Surjection(Loaded, Loaded)
  BY <1>1, <1>2, FS_Injection
<1>4. QED
  BY <1>3 DEF Surjection, Loaded

\* The new keys lie behind the records.
LEMMA NewKeysBehind ==
  ASSUME TypeOK
  PROVE  \A i \in 0 .. NewKeys - 1 :
           newKeys[i] \in RecordCount .. RecordCount + NewKeys - 1
BY DEF TypeOK, News!Prepared

-----------------------------------------------------------------------------
(***************************************************************************)
(* The inductive invariant holds initially.                                *)
(***************************************************************************)
LEMMA InitIInv == Init => IInv
<1> SUFFICES ASSUME Init PROVE IInv
  OBVIOUS
<1> USE RandomAssumption DEF Init
<1>1. /\ loadKeys \in [0 .. RecordCount - 1 -> Loaded] /\ Shuffled(loadKeys)
      /\ loadIndex = 0 /\ loadLast = -1
  BY DEF Loads!SInit, Loads!Prepared, Loaded, Shuffled
<1>2. /\ newKeys \in [0 .. NewKeys - 1 -> News!Prepared] /\ Shuffled(newKeys)
      /\ newIndex = 0 /\ newLast = RecordCount - 1
  BY DEF News!SInit, Shuffled
<1>3. TypeOK
  <2>1. pc \in [Threads -> States]
    BY DEF States
  <2>2. QED
    BY <1>1, <1>2, <2>1 DEF TypeOK, Keys
<1>4. PhaseInv
  BY <1>2 DEF PhaseInv
<1>5. LoadInv
  BY <1>1 DEF LoadInv, Loading
<1>6. InsertInv
  BY <1>2 DEF InsertInv, Inserting
<1>7. LastInv /\ ChoiceInv /\ KeysGivenOnce /\ ChosenKeysIssued
  BY <1>2 DEF LastInv, ChoiceInv, Choosing, KeysGivenOnce, ChosenKeysIssued
<1>8. QED
  BY <1>1, <1>2, <1>3, <1>4, <1>5, <1>6, <1>7 DEF IInv

-----------------------------------------------------------------------------
(***************************************************************************)
(* The load phase.                                                         *)
(***************************************************************************)
LEMMA LoadDrawStep ==
  ASSUME IInv, NEW t \in Threads, LoadDraw(t)
  PROVE  IInv'
<1> USE RandomAssumption
<1>1. /\ phase = "load" /\ loadIndex < RecordCount /\ pc[t] = "idle"
      /\ pc' = [pc EXCEPT ![t] = "loading"]
      /\ drawn' = [drawn EXCEPT ![t] = loadIndex]
      /\ loadIndex' = loadIndex + 1
      /\ UNCHANGED <<dist, phase, loadKeys, loadLast, newKeys, newIndex,
                     newLast, acknowledged, key, stored, again>>
  BY DEF LoadDraw, Goto, Loads!Draw, newVars, database
<1>2. TypeOK
  BY DEF IInv
<1>3. TypeOK'
  <2>1. pc' \in [Threads -> States]
    BY <1>1, <1>2 DEF TypeOK, States
  <2>2. QED
    BY <1>1, <1>2, <2>1 DEF TypeOK
<1>4. PhaseInv'
  BY <1>1, <1>2 DEF TypeOK, IInv, PhaseInv, Loading
<1>5. LoadInv'
  BY <1>1, <1>2 DEF TypeOK, IInv, LoadInv, Loading
<1>6. InsertInv'
  BY <1>1, <1>2 DEF TypeOK, IInv, InsertInv, PhaseInv, Inserting, Loading
<1>7. LastInv' /\ Shuffled(loadKeys)' /\ Shuffled(newKeys)'
  BY <1>1 DEF IInv, LastInv, Shuffled
<1>8. ChoiceInv'
  BY <1>1, <1>2 DEF TypeOK, IInv, ChoiceInv, Choosing, ChooserKeys
<1>9. KeysGivenOnce' /\ ChosenKeysIssued'
  BY <1>1, <1>2 DEF TypeOK, IInv, KeysGivenOnce, ChosenKeysIssued
<1>10. QED
  BY <1>3, <1>4, <1>5, <1>6, <1>7, <1>8, <1>9 DEF IInv

LEMMA LoadFetchStep ==
  ASSUME IInv, NEW t \in Threads, LoadFetch(t)
  PROVE  IInv'
<1> USE RandomAssumption
<1>1. /\ pc[t] = "loading" /\ pc' = [pc EXCEPT ![t] = "storing"]
      /\ loadLast' = loadKeys[drawn[t]]
      /\ key' = [key EXCEPT ![t] = loadKeys[drawn[t]]]
      /\ UNCHANGED <<dist, phase, loadKeys, loadIndex, newKeys, newIndex,
                     newLast, acknowledged, drawn, stored, again>>
  BY DEF LoadFetch, Goto, Loads!Fetch, newVars, database
<1>2. TypeOK /\ Loading(t)
  BY <1>1 DEF IInv, Loading
<1>3. drawn[t] \in 0 .. RecordCount - 1 /\ loadKeys[drawn[t]] \in Loaded
  BY <1>2 DEF IInv, LoadInv, TypeOK
<1>4. TypeOK'
  <2>1. pc' \in [Threads -> States]
    BY <1>1, <1>2 DEF TypeOK, States
  <2>2. loadKeys[drawn[t]] \in -1 .. RecordCount - 1 /\ loadKeys[drawn[t]] \in Keys
    BY <1>3 DEF Loaded, Keys
  <2>3. QED
    BY <1>1, <1>2, <2>1, <2>2 DEF TypeOK
<1>5. PhaseInv'
  BY <1>1, <1>2 DEF TypeOK, IInv, PhaseInv, Loading
<1>6. LoadInv'
  BY <1>1, <1>2 DEF TypeOK, IInv, LoadInv, Loading
<1>7. InsertInv'
  BY <1>1, <1>2 DEF TypeOK, IInv, InsertInv, Inserting
<1>8. LastInv' /\ Shuffled(loadKeys)' /\ Shuffled(newKeys)'
  BY <1>1 DEF IInv, LastInv, Shuffled
<1>9. ChoiceInv'
  BY <1>1, <1>2 DEF TypeOK, IInv, ChoiceInv, Choosing, ChooserKeys
<1>10. KeysGivenOnce' /\ ChosenKeysIssued'
  BY <1>1, <1>2 DEF TypeOK, IInv, KeysGivenOnce, ChosenKeysIssued
<1>11. QED
  BY <1>4, <1>5, <1>6, <1>7, <1>8, <1>9, <1>10 DEF IInv

\* The key that is stored was not there before: its index was in this thread's
\* hands alone, and no other index has the same key.
LEMMA LoadStoreStep ==
  ASSUME IInv, NEW t \in Threads, LoadStore(t)
  PROVE  IInv'
<1> USE RandomAssumption
<1> DEFINE d == drawn[t]
<1>1. /\ pc[t] = "storing" /\ pc' = [pc EXCEPT ![t] = "idle"]
      /\ stored' = stored \cup {key[t]}
      /\ again' = again \cup ({key[t]} \cap stored)
      /\ UNCHANGED <<dist, phase, loadKeys, loadIndex, loadLast, newKeys,
                     newIndex, newLast, acknowledged, drawn, key>>
  BY DEF LoadStore, StoreKey, Goto, loadVars, newVars
<1>2. TypeOK /\ Loading(t) /\ phase = "load"
  BY <1>1 DEF IInv, PhaseInv, TypeOK, Loading
<1>3. /\ d \in 0 .. RecordCount - 1 /\ d < loadIndex
      /\ key[t] = loadKeys[d] /\ key[t] \in Loaded /\ key[t] \notin stored
  BY <1>1, <1>2 DEF IInv, LoadInv, TypeOK
<1>4. TypeOK'
  <2>1. pc' \in [Threads -> States]
    BY <1>1, <1>2 DEF TypeOK, States
  <2>2. QED
    BY <1>1, <1>2, <1>3, <2>1 DEF TypeOK, Keys, Loaded
<1>5. PhaseInv'
  BY <1>1, <1>2, <1>3 DEF TypeOK, IInv, PhaseInv, Loading
<1>6. LoadInv'
  <2>1. \A u \in Threads : Loading(u)' <=> Loading(u) /\ u # t
    BY <1>1, <1>2 DEF Loading, TypeOK
  <2>2. \A u \in Threads : Loading(u)' => drawn[u] # d
    BY <1>2, <2>1 DEF IInv, LoadInv
  <2>3. \A i \in 0 .. RecordCount - 1 : loadKeys[i] = key[t] <=> i = d
    BY <1>2, <1>3 DEF IInv, Shuffled, TypeOK
  <2>4. ASSUME NEW i \in 0 .. RecordCount - 1
        PROVE  loadKeys[i] \in stored' <=>
                 i < loadIndex /\ \A u \in Threads : Loading(u)' => drawn[u] # i
    <3>1. CASE i = d
      <4>1. loadKeys[i] \in stored'
        BY <1>1, <1>3, <3>1
      <4>2. QED
        BY <1>3, <2>2, <3>1, <4>1
    <3>2. CASE i # d
      <4>1. loadKeys[i] \in stored' <=> loadKeys[i] \in stored
        BY <1>1, <2>3, <3>2
      <4>2. (\A u \in Threads : Loading(u)' => drawn[u] # i)
            <=> (\A u \in Threads : Loading(u) => drawn[u] # i)
        BY <2>1, <3>2
      <4>3. loadKeys[i] \in stored <=>
              i < loadIndex /\ \A u \in Threads : Loading(u) => drawn[u] # i
        BY DEF IInv, LoadInv
      <4>4. QED
        BY <4>1, <4>2, <4>3
    <3>3. QED
      BY <3>1, <3>2
  <2>5. QED
    BY <1>1, <1>2, <2>1, <2>4 DEF IInv, LoadInv, TypeOK
<1>7. InsertInv'
  <2>1. \A u \in Threads : /\ ~Inserting(u) /\ pc[u] # "acking"
                           /\ ~Inserting(u)' /\ pc'[u] # "acking"
    BY <1>1, <1>2 DEF IInv, PhaseInv, Inserting, Loading, TypeOK
  <2>2. \A i \in 0 .. NewKeys - 1 : newKeys[i] # key[t]
    BY <1>2, <1>3, NewKeysBehind DEF Loaded
  <2>3. QED
    BY <1>1, <2>1, <2>2 DEF IInv, InsertInv, Inserting
<1>8. LastInv' /\ Shuffled(loadKeys)' /\ Shuffled(newKeys)'
  BY <1>1 DEF IInv, LastInv, Shuffled
<1>9. ChoiceInv'
  BY <1>1, <1>2 DEF TypeOK, IInv, ChoiceInv, Choosing, ChooserKeys
<1>10. KeysGivenOnce' /\ ChosenKeysIssued'
  BY <1>1, <1>2, <1>3 DEF TypeOK, IInv, KeysGivenOnce, ChosenKeysIssued
<1>11. QED
  BY <1>4, <1>5, <1>6, <1>7, <1>8, <1>9, <1>10 DEF IInv

\* When the load threads have been joined, every record is in the database.
LEMMA StartTransactionsStep ==
  ASSUME IInv, StartTransactions
  PROVE  IInv'
<1> USE RandomAssumption
<1>1. /\ phase = "load" /\ loadIndex = RecordCount
      /\ \A t \in Threads : pc[t] = "idle"
      /\ phase' = "run"
      /\ UNCHANGED <<dist, loadKeys, loadIndex, loadLast, newKeys, newIndex,
                     newLast, acknowledged, pc, drawn, key, stored, again>>
  BY DEF StartTransactions, loadVars, newVars, database
<1>2. TypeOK
  BY DEF IInv
<1>3. TypeOK' /\ PhaseInv' /\ LoadInv' /\ InsertInv'
  BY <1>1, <1>2
     DEF TypeOK, IInv, PhaseInv, LoadInv, InsertInv, Loading, Inserting
<1>4. LastInv' /\ Shuffled(loadKeys)' /\ Shuffled(newKeys)' /\ ChoiceInv'
  BY <1>1 DEF IInv, LastInv, Shuffled, ChoiceInv, Choosing, ChooserKeys
<1>5. Loaded \subseteq stored
  <2>1. \A i \in 0 .. RecordCount - 1 : loadKeys[i] \in stored
    BY <1>1 DEF IInv, LoadInv, Loading
  <2>2. \A k \in Loaded : \E i \in 0 .. RecordCount - 1 : loadKeys[i] = k
    BY LoadKeysCover DEF IInv, TypeOK
  <2>3. QED
    BY <2>1, <2>2
<1>6. KeysGivenOnce' /\ ChosenKeysIssued'
  BY <1>1, <1>5 DEF IInv, KeysGivenOnce, ChosenKeysIssued
<1>7. QED
  BY <1>3, <1>4, <1>6 DEF IInv

-----------------------------------------------------------------------------
(***************************************************************************)
(* Inserts of the transaction phase.                                       *)
(***************************************************************************)
LEMMA InsertDrawStep ==
  ASSUME IInv, NEW t \in Threads, InsertDraw(t)
  PROVE  IInv'
<1> USE RandomAssumption
<1>1. /\ phase = "run" /\ newIndex < MaxInserts /\ pc[t] = "idle"
      /\ pc' = [pc EXCEPT ![t] = "fetching"]
      /\ drawn' = [drawn EXCEPT ![t] = newIndex]
      /\ newIndex' = newIndex + 1
      /\ UNCHANGED <<dist, phase, loadKeys, loadIndex, loadLast, newKeys,
                     newLast, acknowledged, key, stored, again>>
  BY DEF InsertDraw, Goto, News!Draw, loadVars, database
<1>2. TypeOK
  BY DEF IInv
<1>3. TypeOK'
  <2>1. pc' \in [Threads -> States]
    BY <1>1, <1>2 DEF TypeOK, States
  <2>2. QED
    BY <1>1, <1>2, <2>1 DEF TypeOK
<1>4. \A u \in Threads : ~Loading(u) /\ ~Loading(u)'
  BY <1>1, <1>2 DEF TypeOK, IInv, PhaseInv, Loading
<1>5. PhaseInv'
  BY <1>1, <1>4 DEF IInv, PhaseInv
<1>6. LoadInv'
  BY <1>1, <1>4 DEF IInv, LoadInv, Loading
<1>7. InsertInv'
  BY <1>1, <1>2 DEF TypeOK, IInv, InsertInv, Inserting
<1>8. LastInv' /\ Shuffled(loadKeys)' /\ Shuffled(newKeys)'
  BY <1>1, <1>2 DEF TypeOK, IInv, LastInv, Shuffled
<1>9. ChoiceInv'
  BY <1>1, <1>2 DEF TypeOK, IInv, ChoiceInv, Choosing, ChooserKeys
<1>10. KeysGivenOnce' /\ ChosenKeysIssued'
  BY <1>1, <1>2 DEF TypeOK, IInv, KeysGivenOnce, ChosenKeysIssued
<1>11. QED
  BY <1>3, <1>5, <1>6, <1>7, <1>8, <1>9, <1>10 DEF IInv

\* A step of an Insert that has its index: the new key of its thread is k, and
\* newLast changes only to the key at that index.
LEMMA FetchedStep ==
  ASSUME IInv, NEW t \in Threads, NEW k \in Keys,
         pc[t] = "fetching", pc' = [pc EXCEPT ![t] = "inserting"],
         key' = [key EXCEPT ![t] = k],
         k = (IF drawn[t] < NewKeys THEN newKeys[drawn[t]] ELSE RecordCount),
         newLast' = newLast \/ (drawn[t] < NewKeys /\ newLast' = k),
         UNCHANGED <<dist, phase, loadKeys, loadIndex, loadLast, newKeys,
                     newIndex, acknowledged, drawn, stored, again>>
  PROVE  IInv'
<1> USE RandomAssumption
<1>1. TypeOK /\ Inserting(t)
  BY DEF IInv, Inserting
<1>2. /\ drawn[t] \in Nat /\ drawn[t] < newIndex /\ newIndex \in Nat
      /\ drawn[t] < NewKeys => drawn[t] \in 0 .. NewKeys - 1
  BY <1>1 DEF IInv, InsertInv, TypeOK
<1>3. newLast' \in RecordCount - 1 .. RecordCount + NewKeys - 1
  BY <1>1, <1>2, NewKeysBehind DEF TypeOK
<1>4. TypeOK'
  <2>1. pc' \in [Threads -> States]
    BY <1>1 DEF TypeOK, States
  <2>2. QED
    BY <1>1, <1>3, <2>1 DEF TypeOK
<1>5. \A u \in Threads : Loading(u)' <=> Loading(u)
  BY <1>1 DEF TypeOK, Loading
<1>6. phase = "run" /\ \A u \in Threads : ~Loading(u)
  BY <1>1 DEF IInv, PhaseInv, Inserting, Loading, TypeOK
<1>7. PhaseInv'
  BY <1>5, <1>6 DEF IInv, PhaseInv
<1>8. LoadInv'
  BY <1>5, <1>6 DEF IInv, LoadInv, Loading
<1>9. InsertInv'
  BY <1>1, <1>2 DEF TypeOK, IInv, InsertInv, Inserting
<1>10. LastInv'
  BY <1>2 DEF IInv, LastInv
<1>11. ChoiceInv' /\ Shuffled(loadKeys)' /\ Shuffled(newKeys)'
  BY <1>1 DEF TypeOK, IInv, ChoiceInv, Choosing, ChooserKeys, Shuffled
<1>12. KeysGivenOnce' /\ ChosenKeysIssued'
  BY <1>1 DEF TypeOK, IInv, KeysGivenOnce, ChosenKeysIssued
<1>13. QED
  BY <1>4, <1>7, <1>8, <1>9, <1>10, <1>11, <1>12 DEF IInv

LEMMA InsertFetchStep ==
  ASSUME IInv, NEW t \in Threads, InsertFetch(t) \/ InsertExhausted(t)
  PROVE  IInv'
<1> USE RandomAssumption
<1>1. TypeOK /\ pc[t] = "fetching" /\ Inserting(t)
  BY DEF IInv, InsertFetch, InsertExhausted, Goto, Inserting
<1>2. drawn[t] \in Nat
  BY <1>1 DEF TypeOK
<1>3. CASE InsertFetch(t)
  <2>1. drawn[t] \in 0 .. NewKeys - 1
    BY <1>2, <1>3 DEF InsertFetch, News!Exhausted
  <2>2. newKeys[drawn[t]] \in Keys
    BY <1>1, <2>1, NewKeysBehind DEF Keys
  <2>3. /\ pc' = [pc EXCEPT ![t] = "inserting"]
        /\ newLast' = newKeys[drawn[t]]
        /\ key' = [key EXCEPT ![t] = newKeys[drawn[t]]]
        /\ UNCHANGED <<dist, phase, loadKeys, loadIndex, loadLast, newKeys,
                       newIndex, acknowledged, drawn, stored, again>>
    BY <1>3 DEF InsertFetch, Goto, News!Fetch, loadVars, database
  <2>4. drawn[t] < NewKeys
    BY <2>1
  <2>5. QED
    BY <1>1, <2>2, <2>3, <2>4, FetchedStep
<1>4. CASE InsertExhausted(t)
  <2>1. ~(drawn[t] < NewKeys) /\ RecordCount \in Keys
    BY <1>2, <1>4 DEF InsertExhausted, News!Exhausted, Keys
  <2>2. /\ pc' = [pc EXCEPT ![t] = "inserting"]
        /\ key' = [key EXCEPT ![t] = RecordCount]
        /\ UNCHANGED <<dist, phase, loadKeys, loadIndex, loadLast, newKeys,
                       newIndex, newLast, acknowledged, drawn, stored, again>>
    BY <1>4 DEF InsertExhausted, Goto, loadVars, newVars, database
  <2>3. QED
    BY <1>1, <2>1, <2>2, FetchedStep
<1>5. QED
  BY <1>3, <1>4

\* The key an Insert stores was there before only if the new keys have run out.
LEMMA InsertStoreStep ==
  ASSUME IInv, NEW t \in Threads, InsertStore(t)
  PROVE  IInv'
<1> USE RandomAssumption
<1> DEFINE d == drawn[t]
           k == key[t]
<1>1. /\ pc[t] = "inserting" /\ pc' = [pc EXCEPT ![t] = "acking"]
      /\ stored' = stored \cup {k}
      /\ again' = again \cup ({k} \cap stored)
      /\ UNCHANGED <<dist, phase, loadKeys, loadIndex, loadLast, newKeys,
                     newIndex, newLast, acknowledged, drawn, key>>
  BY DEF InsertStore, StoreKey, Goto, loadVars, newVars
<1>2. TypeOK /\ Inserting(t)
  BY <1>1 DEF IInv, Inserting
<1>3. phase = "run" /\ \A u \in Threads : ~Loading(u) /\ ~Loading(u)'
  BY <1>1, <1>2 DEF IInv, PhaseInv, Inserting, Loading, TypeOK
<1>4. /\ d \in Nat /\ newIndex \in Nat /\ d < newIndex
      /\ k = IF d < NewKeys THEN newKeys[d] ELSE RecordCount
  BY <1>1, <1>2 DEF IInv, InsertInv, TypeOK
<1>5. d < NewKeys => d \in 0 .. NewKeys - 1
  BY <1>4
<1>6. k \in Keys /\ k \notin Loaded
  <2>1. k \in RecordCount .. RecordCount + NewKeys
    <3>1. CASE d < NewKeys
      <4>1. newKeys[d] \in RecordCount .. RecordCount + NewKeys - 1
        BY <1>2, <1>5, <3>1, NewKeysBehind
      <4>2. QED
        BY <1>4, <3>1, <4>1
    <3>2. CASE ~(d < NewKeys)
      BY <1>4, <3>2
    <3>3. QED
      BY <3>1, <3>2
  <2>2. QED
    BY <2>1 DEF Keys, Loaded
<1>7. k \in stored => k = RecordCount /\ newIndex > NewKeys
  BY <1>2, <1>4, <1>5 DEF IInv, InsertInv
<1>8. TypeOK'
  <2>1. pc' \in [Threads -> States]
    BY <1>1, <1>2 DEF TypeOK, States
  <2>2. QED
    BY <1>1, <1>2, <1>6, <2>1 DEF TypeOK
<1>9. PhaseInv'
  BY <1>1, <1>3 DEF IInv, PhaseInv
<1>10. LoadInv'
  <2>1. \A i \in 0 .. RecordCount - 1 : loadKeys[i] # k
    BY <1>2, <1>6 DEF TypeOK
  <2>2. QED
    BY <1>1, <1>3, <2>1 DEF IInv, LoadInv, Loading
<1>11. InsertInv'
  <2>1. \A u \in Threads : Inserting(u)' <=> Inserting(u) /\ u # t
    BY <1>1, <1>2 DEF Inserting, TypeOK
  <2>2. \A u \in Threads : Inserting(u)' => drawn[u] # d
    BY <1>2, <2>1 DEF IInv, InsertInv
  <2>3. ASSUME NEW i \in 0 .. NewKeys - 1, newKeys[i] \in stored'
        PROVE  \/ newKeys[i] = RecordCount /\ newIndex > NewKeys
               \/ /\ i < newIndex
                  /\ \A u \in Threads : Inserting(u)' => drawn[u] # i
    <3>1. CASE newKeys[i] \in stored
      BY <2>1, <3>1 DEF IInv, InsertInv
    <3>2. CASE newKeys[i] = k /\ d < NewKeys
      <4>1. i = d
        BY <1>2, <1>4, <1>5, <3>2 DEF IInv, Shuffled, TypeOK
      <4>2. QED
        BY <1>4, <2>2, <4>1
    <3>3. CASE newKeys[i] = k /\ ~(d < NewKeys)
      BY <1>4, <3>3
    <3>4. QED
      BY <1>1, <2>3, <3>1, <3>2, <3>3
  <2>4. \A u \in Threads :
           /\ Inserting(u)' => drawn[u] \in 0 .. newIndex - 1
           /\ pc'[u] = "inserting" =>
                key[u] = IF drawn[u] < NewKeys THEN newKeys[drawn[u]]
                                               ELSE RecordCount
           /\ pc'[u] = "acking" => key[u] \in stored'
    BY <1>1, <1>2, <2>1 DEF IInv, InsertInv, TypeOK
  <2>5. QED
    BY <1>1, <2>1, <2>3, <2>4 DEF IInv, InsertInv
<1>12. LastInv' /\ Shuffled(loadKeys)' /\ Shuffled(newKeys)'
  BY <1>1 DEF IInv, LastInv, Shuffled
<1>13. ChoiceInv'
  BY <1>1, <1>2 DEF TypeOK, IInv, ChoiceInv, Choosing, ChooserKeys
<1>14. KeysGivenOnce' /\ ChosenKeysIssued'
  BY <1>1, <1>2, <1>7 DEF TypeOK, IInv, KeysGivenOnce, ChosenKeysIssued
<1>15. QED
  BY <1>8, <1>9, <1>10, <1>11, <1>12, <1>13, <1>14 DEF IInv

\* A step of t that leaves its Insert or works on an existing key.
LEMMA OutsideStep ==
  ASSUME IInv, NEW t \in Threads, phase = "run", ~Inserting(t),
         NEW s \in {"idle", "choosing", "choosing hot", "using"},
         NEW k \in Keys,
         pc' = [pc EXCEPT ![t] = s], key' = [key EXCEPT ![t] = k],
         acknowledged' \subseteq stored,
         s # "idle" => k \in ChooserKeys,
         s = "using" => k <= newLast,
         UNCHANGED <<dist, phase, loadKeys, loadIndex, loadLast, newKeys,
                     newIndex, newLast, drawn, stored, again>>
  PROVE  IInv'
<1> USE RandomAssumption
<1>1. TypeOK
  BY DEF IInv
<1>2. TypeOK'
  <2>1. pc' \in [Threads -> States]
    BY <1>1 DEF TypeOK, States
  <2>2. QED
    BY <1>1, <2>1 DEF TypeOK
<1>3. \A u \in Threads : ~Loading(u) /\ ~Loading(u)'
  BY <1>1 DEF IInv, PhaseInv, Loading, TypeOK
<1>4. PhaseInv'
  BY <1>3 DEF IInv, PhaseInv
<1>5. LoadInv'
  BY <1>3 DEF IInv, LoadInv, Loading
<1>6. InsertInv'
  <2>1. \A u \in Threads : /\ Inserting(u)' <=> Inserting(u)
                           /\ pc'[u] = "inserting" => pc[u] = "inserting" /\ u # t
                           /\ pc'[u] = "acking" => pc[u] = "acking" /\ u # t
    BY <1>1 DEF TypeOK, Inserting
  <2>2. QED
    BY <1>1, <2>1 DEF TypeOK, IInv, InsertInv
<1>7. LastInv' /\ Shuffled(loadKeys)' /\ Shuffled(newKeys)' /\ KeysGivenOnce'
  BY DEF IInv, LastInv, Shuffled, KeysGivenOnce
<1>8. ChoiceInv'
  BY <1>1 DEF TypeOK, IInv, ChoiceInv, Choosing, ChooserKeys
<1>9. s = "using" => \/ k \in stored /\ k < RecordCount
                     \/ /\ dist = "zipfian"
                        /\ \E i \in 0 .. NewKeys - 1 :
                             i < newIndex /\ k <= newKeys[i]
  <2> SUFFICES ASSUME s = "using", ~(k \in stored /\ k < RecordCount)
               PROVE  /\ dist = "zipfian"
                      /\ \E i \in 0 .. NewKeys - 1 :
                           i < newIndex /\ k <= newKeys[i]
    OBVIOUS
  <2>1. k \in ChooserKeys /\ k <= newLast /\ k \in Nat
    BY DEF Keys
  <2>2. k \notin Loaded /\ ~(k < RecordCount)
    BY <2>1 DEF IInv, KeysGivenOnce, Loaded
  <2>3. dist = "zipfian"
    BY <2>1, <2>2 DEF ChooserKeys
  <2>4. newLast # RecordCount - 1
    BY <2>1, <2>2
  <2>5. QED
    BY <2>1, <2>3, <2>4 DEF IInv, LastInv
<1>10. ChosenKeysIssued'
  BY <1>1, <1>9 DEF TypeOK, IInv, ChosenKeysIssued
<1>11. QED
  BY <1>2, <1>4, <1>5, <1>6, <1>7, <1>8, <1>10 DEF IInv

\* The steps on existing keys, and the last one of an Insert.
LEMMA ChooseStep ==
  ASSUME IInv, NEW t \in Threads, Choose(t) \/ Acknowledge(t)
  PROVE  IInv'
<1> USE RandomAssumption
<1>1. /\ TypeOK
      /\ pc[t] \in {"idle", "choosing", "choosing hot", "using", "acking"}
      /\ pc[t] = "idle" => phase = "run"
  BY DEF IInv, Choose, Acknowledge, ChooseKey, ChooseHotKey, ChooseAgain,
         AcceptKey, UseKey, Goto
<1>2. phase = "run" /\ ~Inserting(t)
  BY <1>1 DEF IInv, TypeOK, PhaseInv, Loading, Inserting
<1>3. /\ key[t] \in Keys /\ key = [key EXCEPT ![t] = key[t]]
      /\ pc = [pc EXCEPT ![t] = pc[t]] /\ acknowledged \subseteq stored
      /\ Choosing(t) => key[t] \in ChooserKeys
  BY <1>1 DEF TypeOK, IInv, ChoiceInv
<1>4. ChooserKeys \subseteq Keys /\ HotChooserKeys \subseteq ChooserKeys
  BY DEF ChooserKeys, HotChooserKeys, Loaded, Keys
<1> USE DEF Goto, loadVars, newVars, database
<1>5. CASE ChooseKey(t)
  BY <1>2, <1>3, <1>4, <1>5, OutsideStep DEF ChooseKey
<1>6. CASE ChooseHotKey(t)
  BY <1>2, <1>3, <1>4, <1>6, OutsideStep DEF ChooseHotKey
<1>7. CASE ChooseAgain(t)
  BY <1>2, <1>3, <1>4, <1>7, OutsideStep DEF ChooseAgain
<1>8. CASE AcceptKey(t)
  BY <1>2, <1>3, <1>8, OutsideStep DEF AcceptKey, Choosing
<1>9. CASE UseKey(t)
  BY <1>2, <1>3, <1>9, OutsideStep DEF UseKey
<1>10. CASE Acknowledge(t)
  <2>1. key[t] \in stored
    BY <1>10 DEF Acknowledge, IInv, InsertInv
  <2>2. QED
    BY <1>2, <1>3, <1>10, <2>1, OutsideStep DEF Acknowledge
<1>11. QED
  BY <1>5, <1>6, <1>7, <1>8, <1>9, <1>10 DEF Choose

-----------------------------------------------------------------------------
(***************************************************************************)
(* The theorems.                                                           *)
(***************************************************************************)
LEMMA StutterStep ==
  ASSUME IInv, UNCHANGED vars
  PROVE  IInv'
<1> USE DEF vars, loadVars, newVars, database
<1>1. TypeOK' /\ PhaseInv' /\ LoadInv'
  BY DEF IInv, TypeOK, PhaseInv, LoadInv, Loading
<1>2. InsertInv' /\ LastInv' /\ ChoiceInv'
  BY DEF IInv, InsertInv, Inserting, LastInv, ChoiceInv, Choosing, ChooserKeys
<1>3. KeysGivenOnce' /\ ChosenKeysIssued'
  BY DEF IInv, KeysGivenOnce, ChosenKeysIssued
<1>4. Shuffled(loadKeys)' /\ Shuffled(newKeys)'
  BY DEF IInv, Shuffled
<1>5. QED
  BY <1>1, <1>2, <1>3, <1>4 DEF IInv

\* Every step preserves the inductive invariant.
LEMMA IInvStep == IInv /\ [Next]_vars => IInv'
<1> SUFFICES ASSUME IInv, [Next]_vars PROVE IInv'
  OBVIOUS
<1>1. CASE UNCHANGED vars
  BY <1>1, StutterStep
<1>2. CASE StartTransactions
  BY <1>2, StartTransactionsStep
<1>3. ASSUME NEW t \in Threads, Load(t) PROVE IInv'
  BY <1>3, LoadDrawStep, LoadFetchStep, LoadStoreStep DEF Load
<1>4. ASSUME NEW t \in Threads, Insert(t) PROVE IInv'
  BY <1>4, InsertDrawStep, InsertFetchStep, InsertStoreStep, ChooseStep DEF Insert
<1>5. ASSUME NEW t \in Threads, Choose(t) PROVE IInv'
  BY <1>5, ChooseStep
<1>6. QED
  BY <1>1, <1>2, <1>3, <1>4, <1>5 DEF Next

LEMMA Invariance == Spec => []IInv
  BY InitIInv, IInvStep, PTL DEF Spec

\* Every variable keeps its type; what Acknowledge() was called with is stored.
THEOREM TypeCorrect == Spec => []TypeOK
<1>1. IInv => TypeOK
  BY DEF IInv
<1>2. QED
  BY <1>1, Invariance, PTL

\* However the client threads interleave in Next() of the shuffled sequences,
\* no key is inserted twice before the prepared keys have run out, and the load
\* phase leaves no record out.
THEOREM GivenOnce == Spec => []KeysGivenOnce
<1>1. IInv => KeysGivenOnce
  BY DEF IInv
<1>2. QED
  BY <1>1, Invariance, PTL

\* An operation of the transaction phase works on a record of the load phase,
\* or, with zipfian, on a key not larger than one an insert was given.
THEOREM ChosenIssued == Spec => []ChosenKeysIssued
<1>1. IInv => ChosenKeysIssued
  BY DEF IInv
<1>2. QED
  BY <1>1, Invariance, PTL
=============================================================================
