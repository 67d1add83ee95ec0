-------------------------- MODULE KeySequenceProofs --------------------------
(***************************************************************************)
(* Proofs about KeySequence, for every set of threads, window size, record *)
(* count and key bound.                                                    *)
(***************************************************************************)
EXTENDS KeySequence, TLAPS

-----------------------------------------------------------------------------
(***************************************************************************)
(* Slots of the window.                                                    *)
(***************************************************************************)

\* A multiple of n strictly between -n and n is zero.
LEMMA SmallMultiple ==
  ASSUME NEW n \in Nat \ {0}, NEW q \in Int, n * q < n, n * q > -n
  PROVE  q = 0
  BY Z3

\* Division with remainder.
LEMMA Division ==
  ASSUME NEW n \in Nat \ {0}, NEW a \in Int
  PROVE  /\ a \div n \in Int
         /\ a % n \in 0 .. n - 1
         /\ a = n * (a \div n) + (a % n)
  BY Z3

\* Every key has a slot of the window.
LEMMA SlotType ==
  ASSUME NEW a \in Int
  PROVE  Slot(a) \in Slots
  BY CountAssumption, Division DEF Slot, Slots

\* Two different keys less than kWindowSize apart have different slots.
LEMMA SlotsDiffer ==
  ASSUME NEW a \in Int, NEW b \in Int, a < b, b - a < WindowSize
  PROVE  Slot(a) # Slot(b)
<1> DEFINE n == WindowSize
           q == a \div n
           r == b \div n
<1>1. /\ n \in Nat \ {0} /\ q \in Int /\ r \in Int
      /\ a % n \in Int /\ b % n \in Int
      /\ a = n * q + (a % n) /\ b = n * r + (b % n)
  BY CountAssumption, Division
<1>2. a % n = Slot(a) /\ b % n = Slot(b)
  BY DEF Slot
<1> HIDE DEF n, q, r
<1>3. SUFFICES ASSUME Slot(a) = Slot(b) PROVE FALSE
  OBVIOUS
<1>4. b - a = n * (r - q)
  BY <1>1, <1>2, <1>3
<1>5. r - q = 0
  BY <1>1, <1>4, SmallMultiple DEF n
<1>6. QED
  BY <1>1, <1>4, <1>5

\* Keys kWindowSize apart share a slot.
LEMMA SlotsWrap ==
  ASSUME NEW a \in Int
  PROVE  Slot(a) = Slot(a + WindowSize)
<1> DEFINE n == WindowSize
           b == a + n
           q == a \div n
           p == q + 1
           r == b \div n
           x == a % n
           y == b % n
<1>1. n \in Nat \ {0} /\ b \in Int /\ b = a + n
  BY CountAssumption
<1>2. x = Slot(a) /\ y = Slot(a + WindowSize)
  BY DEF Slot
<1> HIDE DEF n, b
<1>3. q \in Int /\ x \in 0 .. n - 1 /\ a = n * q + x
  BY <1>1, Division
<1>4. r \in Int /\ y \in 0 .. n - 1 /\ b = n * r + y
  BY <1>1, Division
<1> HIDE DEF q, r, x, y
<1>5. p \in Int /\ n * p = n * q + n
  BY <1>1, <1>3
<1> HIDE DEF p
<1>6. n * p + x = n * r + y
  BY <1>1, <1>3, <1>4, <1>5
<1>7. y - x = n * (p - r)
  BY <1>1, <1>3, <1>4, <1>5, <1>6
<1>8. p - r = 0
  BY <1>1, <1>3, <1>4, <1>5, <1>7, SmallMultiple
<1>9. x = y
  BY <1>1, <1>3, <1>4, <1>5, <1>7, <1>8
<1>10. QED
  BY <1>2, <1>9

-----------------------------------------------------------------------------
(***************************************************************************)
(* The inductive invariant holds initially.                                *)
(***************************************************************************)
LEMMA InitIInv == Init => IInv
<1> SUFFICES ASSUME Init PROVE IInv
  OBVIOUS
<1> USE CountAssumption DEF Init
<1>1. TypeOK
  <2>1. /\ ackWindow \in [Slots -> BOOLEAN]
        /\ key \in [Threads -> Keys]
    BY DEF Keys
  <2>2. pc \in [Threads -> {"idle", "loading", "inserting", "acking",
                            "choosing", "using"}]
    OBVIOUS
  <2>3. /\ phase \in {"load", "run"}
        /\ loadCounter \in 0 .. RecordCount
        /\ counter \in RecordCount .. MaxKey + 1
        /\ limit \in Int /\ spread \in Int
    OBVIOUS
  <2>4. stored \subseteq Keys /\ failed \subseteq Keys /\ acked \subseteq Keys
    OBVIOUS
  <2>5. exited \in BOOLEAN
    OBVIOUS
  <2>6. QED
    BY ONLY <2>1, <2>2, <2>3, <2>4, <2>5 DEF TypeOK
<1>2. LoadInv /\ IssueInv /\ StoreInv /\ UseInv /\ ThrowsOnlyOnOverrun
  BY DEF LoadInv, IssueInv, StoreInv, UseInv, ThrowsOnlyOnOverrun, Inserting,
         Tried
<1>3. WindowInv
  <2>1. \A k \in limit + 1 .. limit + WindowSize : ackWindow[Slot(k)] = FALSE
    BY SlotType
  <2>2. \A k \in limit + 1 .. limit + WindowSize :
           ackWindow[Slot(k)] <=> k \in acked
    BY <2>1
  <2>3. RecordCount .. limit \subseteq acked
    OBVIOUS
  <2>4. QED
    BY <2>2, <2>3 DEF WindowInv
<1>4. SpareInv
  BY DEF SpareInv
<1>5. RecordCount - 1 <= limit
  OBVIOUS
<1>6. QED
  BY <1>1, <1>2, <1>3, <1>4, <1>5 DEF IInv

-----------------------------------------------------------------------------
(***************************************************************************)
(* Every step preserves the types.                                         *)
(***************************************************************************)
LEMMA TypeStep == TypeOK /\ [Next]_vars => TypeOK'
<1> SUFFICES ASSUME TypeOK, [Next]_vars PROVE TypeOK'
  OBVIOUS
<1> USE CountAssumption DEF TypeOK, Goto, Keys
<1>1. ASSUME NEW t \in Threads, LoadNext(t) PROVE TypeOK'
  BY <1>1 DEF LoadNext
<1>2. ASSUME NEW t \in Threads, LoadInsert(t) PROVE TypeOK'
  BY <1>2 DEF LoadInsert, StoreKey
<1>3. CASE StartTransactions
  BY <1>3 DEF StartTransactions
<1>4. ASSUME NEW t \in Threads, InsertNext(t) PROVE TypeOK'
  BY <1>4 DEF InsertNext
<1>5. ASSUME NEW t \in Threads, InsertStore(t) PROVE TypeOK'
  BY <1>5 DEF InsertStore, StoreKey
<1>6. ASSUME NEW t \in Threads, Acknowledge(t) PROVE TypeOK'
  <2>1. PICK i \in limit + 1 .. limit + WindowSize :
          /\ ackWindow' =
               Freed([ackWindow EXCEPT ![Slot(key[t])] = TRUE], i)
          /\ limit' = i - 1
    BY <1>6 DEF Acknowledge
  <2>2. limit' \in Int
    BY <2>1
  <2>3. ackWindow' \in [Slots -> BOOLEAN]
    <3> DEFINE w == [ackWindow EXCEPT ![Slot(key[t])] = TRUE]
    <3>1. \A s \in Slots : w[s] \in BOOLEAN
      OBVIOUS
    <3> HIDE DEF w
    <3>2. ackWindow' = [s \in Slots |->
             w[s] /\ \A j \in limit + 1 .. i - 1 : s # Slot(j)]
      BY <2>1 DEF Freed, w
    <3>3. QED
      BY <3>1, <3>2, Zenon
  <2>4. spread' \in Int
    BY <1>6 DEF Acknowledge, Widest
  <2>5. QED
    BY <1>6, <2>2, <2>3, <2>4 DEF Acknowledge
<1>7. ASSUME NEW t \in Threads, AcknowledgeThrows(t) PROVE TypeOK'
  BY <1>7 DEF AcknowledgeThrows, Widest
<1>8. ASSUME NEW t \in Threads, ChooseKey(t) PROVE TypeOK'
  BY <1>8 DEF ChooseKey
<1>9. ASSUME NEW t \in Threads, ChooseAgain(t) PROVE TypeOK'
  BY <1>9 DEF ChooseAgain
<1>10. ASSUME NEW t \in Threads, AcceptKey(t) PROVE TypeOK'
  BY <1>10 DEF AcceptKey
<1>11. ASSUME NEW t \in Threads, UseKey(t) PROVE TypeOK'
  BY <1>11 DEF UseKey
<1>12. CASE UNCHANGED vars
  BY <1>12 DEF vars
<1>13. QED
  BY <1>1, <1>2, <1>3, <1>4, <1>5, <1>6, <1>7, <1>8, <1>9, <1>10, <1>11,
     <1>12 DEF Next, Load, Insert, Choose, Terminated

-----------------------------------------------------------------------------
(***************************************************************************)
(* Steps of the window.                                                    *)
(***************************************************************************)

\* Only Acknowledge touches the generator's window.
LEMMA WindowFrame ==
  ASSUME [Next]_vars
  PROVE  \/ \E t \in Threads : Acknowledge(t)
         \/ \E t \in Threads : AcknowledgeThrows(t)
         \/ UNCHANGED <<limit, ackWindow, acked, spread, exited>>
  BY DEF Next, Load, Insert, Choose, Terminated, vars, LoadNext, LoadInsert,
         StartTransactions, InsertNext, InsertStore, ChooseKey, ChooseAgain,
         AcceptKey, UseKey

\* What one Acknowledge does while no key has outrun the window: the loop
\* stops at i, and before it slots and acknowledged keys agree.
LEMMA AcknowledgeFacts ==
  ASSUME IInv, NEW t \in Threads, Acknowledge(t), spread' <= WindowSize
  PROVE  \E i \in limit + 1 .. limit + WindowSize :
           LET v == key[t]
               w == [ackWindow EXCEPT ![Slot(v)] = TRUE]
           IN  /\ limit' = i - 1 /\ ackWindow' = Freed(w, i)
               /\ StopsAt(w, i)
               /\ acked' = acked \cup {v}
               /\ limit < v /\ v <= limit + WindowSize /\ v \in Int
               /\ spread <= WindowSize
               /\ spread' < WindowSize => spread < WindowSize
               /\ spread' < WindowSize => v < limit + WindowSize
               /\ \A k \in limit + 1 .. limit + WindowSize :
                     w[Slot(k)] <=> k \in acked'
<1> USE CountAssumption
<1> DEFINE v == key[t]
           w == [ackWindow EXCEPT ![Slot(v)] = TRUE]
<1>1. PICK i \in limit + 1 .. limit + WindowSize :
        StopsAt(w, i) /\ ackWindow' = Freed(w, i) /\ limit' = i - 1
  BY DEF Acknowledge
<1>2. /\ v \in RecordCount .. counter - 1 /\ v \notin acked
      /\ limit \in Int /\ spread \in Int /\ counter \in Int
      /\ acked' = acked \cup {v}
      /\ spread' = Widest(spread, v - limit)
      /\ ackWindow \in [Slots -> BOOLEAN]
  BY DEF Acknowledge, IInv, IssueInv, Inserting, TypeOK, Goto
<1>3. /\ spread <= WindowSize /\ v - limit <= WindowSize
      /\ spread' < WindowSize =>
            spread < WindowSize /\ v - limit < WindowSize
  BY <1>2 DEF Widest
<1>4. /\ RecordCount .. limit \subseteq acked
      /\ \A k \in limit + 1 .. limit + WindowSize :
            ackWindow[Slot(k)] <=> k \in acked
  BY <1>3 DEF IInv, WindowInv
<1> HIDE DEF v
<1>5. limit < v
  BY <1>2, <1>4
<1>6. ASSUME NEW k \in limit + 1 .. limit + WindowSize
      PROVE  w[Slot(k)] <=> k \in acked'
  <2>1. Slot(k) \in Slots /\ Slot(v) \in Slots /\ k \in Int
    BY <1>2, SlotType
  <2>2. CASE k = v
    BY <1>2, <2>1, <2>2
  <2>3. CASE k # v
    <3>1. Slot(k) # Slot(v)
      BY <1>2, <1>3, <1>5, <2>1, <2>3, SlotsDiffer
    <3>2. w[Slot(k)] = ackWindow[Slot(k)]
      BY <1>2, <2>1, <3>1
    <3>3. QED
      BY <1>2, <1>4, <2>3, <3>2
  <2>4. QED
    BY <2>2, <2>3
<1>7. v <= limit + WindowSize /\ v \in Int
      /\ (spread' < WindowSize => v < limit + WindowSize)
  BY <1>2, <1>3
<1> HIDE DEF w
<1>8. QED
  BY <1>1, <1>2, <1>3, <1>5, <1>6, <1>7 DEF v, w

\* The limit only grows, by whole keys.
LEMMA LimitStep ==
  ASSUME IInv, [Next]_vars
  PROVE  limit' >= limit
<1> USE CountAssumption DEF IInv, TypeOK
<1>1. CASE \E t \in Threads : Acknowledge(t)
  BY <1>1 DEF Acknowledge
<1>2. CASE UNCHANGED limit
  BY <1>2
<1>3. QED
  BY <1>1, <1>2, WindowFrame DEF AcknowledgeThrows

\* The window keeps telling which keys are acknowledged.
LEMMA WindowStep ==
  ASSUME IInv, [Next]_vars
  PROVE  WindowInv'
<1> USE CountAssumption
<1>1. SUFFICES ASSUME spread' <= WindowSize
               PROVE  /\ RecordCount .. limit' \subseteq acked'
                      /\ \A k \in limit' + 1 .. limit' + WindowSize :
                            ackWindow'[Slot(k)] <=> k \in acked'
                      /\ \A k \in acked' : k <= limit' + WindowSize
  BY DEF WindowInv
<1>2. /\ limit \in Int /\ spread \in Int /\ limit' \in Int
      /\ RecordCount - 1 <= limit /\ WindowInv /\ WindowSize \in Nat
      /\ acked \subseteq Int
  BY TypeStep DEF IInv, TypeOK, Keys
<1>3. ASSUME NEW t \in Threads, Acknowledge(t)
      PROVE  /\ RecordCount .. limit' \subseteq acked'
             /\ \A k \in limit' + 1 .. limit' + WindowSize :
                   ackWindow'[Slot(k)] <=> k \in acked'
             /\ \A k \in acked' : k <= limit' + WindowSize
  <2> DEFINE v == key[t]
             w == [ackWindow EXCEPT ![Slot(v)] = TRUE]
  <2>1. PICK i \in limit + 1 .. limit + WindowSize :
          /\ limit' = i - 1 /\ ackWindow' = Freed(w, i) /\ StopsAt(w, i)
          /\ acked' = acked \cup {v}
          /\ limit < v /\ v <= limit + WindowSize /\ v \in Int
          /\ spread <= WindowSize
          /\ \A k \in limit + 1 .. limit + WindowSize :
                w[Slot(k)] <=> k \in acked'
    BY <1>1, <1>3, AcknowledgeFacts
  <2> HIDE DEF v, w
  <2>2. /\ RecordCount .. limit \subseteq acked
        /\ \A k \in acked : k <= limit + WindowSize
    BY <1>2, <2>1 DEF WindowInv
  <2>3. RecordCount .. limit' \subseteq acked'
    <3>1. \A j \in limit + 1 .. i - 1 : j \in acked'
      BY <1>2, <2>1 DEF StopsAt
    <3>2. \A j \in RecordCount .. i - 1 :
             j \in RecordCount .. limit \/ j \in limit + 1 .. i - 1
      BY <1>2
    <3>3. QED
      BY <2>1, <2>2, <3>1, <3>2
  <2>4. \A k \in acked' : k <= limit + WindowSize
    BY <2>1, <2>2
  <2>5. \A k \in acked' : k <= limit' + WindowSize
    BY <1>2, <2>1, <2>4
  <2>6. ASSUME NEW k \in limit' + 1 .. limit' + WindowSize
        PROVE  ackWindow'[Slot(k)] <=> k \in acked'
    <3>1. Slot(k) \in Slots /\ k \in Int /\ i <= k
      BY <1>2, <2>1, SlotType
    <3>2. ackWindow'[Slot(k)] <=>
            w[Slot(k)] /\ \A j \in limit + 1 .. i - 1 : Slot(k) # Slot(j)
      BY <2>1, <3>1 DEF Freed
    <3>3. CASE k <= limit + WindowSize
      <4>1. k \in limit + 1 .. limit + WindowSize
        BY <1>2, <2>1, <3>1, <3>3
      <4>2. ASSUME NEW j \in limit + 1 .. i - 1 PROVE Slot(k) # Slot(j)
        BY <1>2, <3>1, <3>3, SlotsDiffer
      <4>3. QED
        BY <2>1, <3>2, <4>1, <4>2
    <3>4. CASE k > limit + WindowSize
      <4> DEFINE j == k - WindowSize
      <4>1. j \in limit + 1 .. i - 1 /\ j \in Int /\ k = j + WindowSize
        BY <1>2, <2>1, <3>1, <3>4
      <4> HIDE DEF j
      <4>2. Slot(k) = Slot(j)
        BY <4>1, SlotsWrap
      <4>3. ~ackWindow'[Slot(k)]
        BY <3>2, <4>1, <4>2
      <4>4. k \notin acked'
        BY <1>2, <2>4, <3>1, <3>4
      <4>5. QED
        BY <4>3, <4>4
    <3>5. QED
      BY <1>2, <3>1, <3>3, <3>4
  <2>7. QED
    BY <2>3, <2>5, <2>6
<1>4. CASE UNCHANGED <<limit, ackWindow, acked>> /\ spread <= WindowSize
  BY <1>2, <1>4 DEF WindowInv
<1>5. ASSUME NEW t \in Threads, AcknowledgeThrows(t)
      PROVE  UNCHANGED <<limit, ackWindow, acked>> /\ spread <= WindowSize
  BY <1>1, <1>2, <1>5 DEF AcknowledgeThrows, Widest, IInv, TypeOK
<1>6. QED
  BY <1>1, <1>3, <1>4, <1>5, WindowFrame

\* While the window was never full, the limit is never short.
LEMMA SpareStep ==
  ASSUME IInv, [Next]_vars
  PROVE  SpareInv'
<1> USE CountAssumption
<1>1. SUFFICES ASSUME spread' < WindowSize
               PROVE  /\ \A k \in acked' : k < limit' + WindowSize
                      /\ limit' + 1 \notin acked'
  BY DEF SpareInv
<1>2. /\ limit \in Int /\ spread \in Int /\ limit' \in Int /\ spread' \in Int
      /\ SpareInv /\ WindowSize \in Nat /\ acked \subseteq Int
      /\ limit' >= limit
  BY TypeStep, LimitStep DEF IInv, TypeOK, Keys
<1>3. ASSUME NEW t \in Threads, Acknowledge(t)
      PROVE  /\ \A k \in acked' : k < limit' + WindowSize
             /\ limit' + 1 \notin acked'
  <2> DEFINE v == key[t]
             w == [ackWindow EXCEPT ![Slot(v)] = TRUE]
  <2>1. PICK i \in limit + 1 .. limit + WindowSize :
          /\ limit' = i - 1 /\ StopsAt(w, i)
          /\ acked' = acked \cup {v} /\ v \in Int
          /\ spread < WindowSize /\ v < limit + WindowSize
          /\ \A k \in limit + 1 .. limit + WindowSize :
                w[Slot(k)] <=> k \in acked'
    BY <1>1, <1>2, <1>3, AcknowledgeFacts
  <2> HIDE DEF v, w
  <2>2. \A k \in acked' : k < limit + WindowSize
    BY <1>2, <2>1 DEF SpareInv
  <2>3. i \notin acked'
    <3>1. CASE i < limit + WindowSize
      BY <1>2, <2>1, <3>1 DEF StopsAt
    <3>2. CASE i = limit + WindowSize
      BY <1>2, <2>2, <3>2
    <3>3. QED
      BY <1>2, <3>1, <3>2
  <2>4. limit' + 1 = i
    BY <1>2, <2>1
  <2>5. \A k \in acked' : k < limit' + WindowSize
    BY <1>2, <2>1, <2>2
  <2>6. QED
    BY <2>3, <2>4, <2>5
<1>4. CASE UNCHANGED <<limit, acked>> /\ spread < WindowSize
  BY <1>2, <1>4 DEF SpareInv
<1>5. ASSUME NEW t \in Threads, AcknowledgeThrows(t)
      PROVE  UNCHANGED <<limit, acked>> /\ spread < WindowSize
  BY <1>1, <1>2, <1>5 DEF AcknowledgeThrows, Widest, IInv, TypeOK
<1>6. QED
  BY <1>1, <1>3, <1>4, <1>5, WindowFrame

\* Acknowledge throws only once a key has outrun the window.
LEMMA ThrowStep ==
  ASSUME IInv, [Next]_vars
  PROVE  ThrowsOnlyOnOverrun'
<1> USE CountAssumption
<1>1. ASSUME NEW t \in Threads, AcknowledgeThrows(t)
      PROVE  spread' > WindowSize
  <2> DEFINE v == key[t]
  <2>1. /\ v \in RecordCount .. counter - 1 /\ v \notin acked
        /\ limit \in Int /\ spread \in Int /\ counter \in Int
        /\ spread' = Widest(spread, v - limit)
        /\ ackWindow[Slot(v)]
    BY <1>1 DEF AcknowledgeThrows, IInv, IssueInv, Inserting, TypeOK
  <2> HIDE DEF v
  <2>2. SUFFICES ASSUME spread <= WindowSize, v - limit <= WindowSize
                 PROVE  FALSE
    BY <2>1 DEF Widest
  <2>3. v \in limit + 1 .. limit + WindowSize
    BY <2>1, <2>2 DEF IInv, WindowInv
  <2>4. QED
    BY <2>1, <2>2, <2>3 DEF IInv, WindowInv
<1>2. ASSUME NEW t \in Threads, Acknowledge(t)
      PROVE  exited' = exited /\ ~exited
  BY <1>2 DEF Acknowledge, Running
<1>3. QED
  BY <1>1, <1>2, WindowFrame DEF IInv, ThrowsOnlyOnOverrun

-----------------------------------------------------------------------------
(***************************************************************************)
(* Steps of the threads.                                                   *)
(***************************************************************************)

\* No key the load phase issued is forgotten.
LEMMA LoadStep ==
  ASSUME IInv, [Next]_vars
  PROVE  LoadInv'
<1> USE CountAssumption DEF IInv, TypeOK, LoadInv, Goto, Tried
<1>1. ASSUME NEW t \in Threads, LoadNext(t) PROVE LoadInv'
  <2>1. /\ pc' = [pc EXCEPT ![t] = "loading"] /\ pc[t] = "idle"
        /\ key' = [key EXCEPT ![t] = loadCounter]
        /\ loadCounter' = loadCounter + 1
        /\ phase = "load" /\ UNCHANGED <<phase, stored, failed>>
    BY <1>1 DEF LoadNext
  <2>2. ASSUME NEW k \in 0 .. loadCounter' - 1
        PROVE  k \in Tried' \/
                 \E u \in Threads : pc'[u] = "loading" /\ key'[u] = k
    <3>1. CASE k = loadCounter
      BY <2>1, <3>1
    <3>2. CASE k \in 0 .. loadCounter - 1
      BY <2>1, <3>2
    <3>3. QED
      BY <2>1, <3>1, <3>2
  <2>3. QED
    BY <2>1, <2>2
<1>2. ASSUME NEW t \in Threads, LoadInsert(t) PROVE LoadInv'
  BY <1>2 DEF LoadInsert, StoreKey
<1>3. CASE StartTransactions
  BY <1>3 DEF StartTransactions
<1>4. ASSUME NEW t \in Threads, InsertNext(t) PROVE LoadInv'
  BY <1>4 DEF InsertNext
<1>5. ASSUME NEW t \in Threads, InsertStore(t) PROVE LoadInv'
  BY <1>5 DEF InsertStore, StoreKey
<1>6. ASSUME NEW t \in Threads, Acknowledge(t) PROVE LoadInv'
  BY <1>6 DEF Acknowledge
<1>7. ASSUME NEW t \in Threads, AcknowledgeThrows(t) PROVE LoadInv'
  BY <1>7 DEF AcknowledgeThrows
<1>8. ASSUME NEW t \in Threads, Choose(t) PROVE LoadInv'
  BY <1>8 DEF Choose, ChooseKey, ChooseAgain, AcceptKey, UseKey
<1>9. CASE UNCHANGED vars
  BY <1>9 DEF vars
<1>10. QED
  BY <1>1, <1>2, <1>3, <1>4, <1>5, <1>6, <1>7, <1>8, <1>9
     DEF Next, Load, Insert, Terminated

\* No key is given to two threads, or given again once acknowledged.
LEMMA IssueStep ==
  ASSUME IInv, [Next]_vars
  PROVE  IssueInv'
<1> USE CountAssumption DEF IInv, TypeOK, IssueInv, Inserting, Goto
<1>1. ASSUME NEW t \in Threads, Load(t) \/ Choose(t) PROVE IssueInv'
  BY <1>1 DEF Load, LoadNext, LoadInsert, Choose, ChooseKey, ChooseAgain,
              AcceptKey, UseKey
<1>2. CASE StartTransactions
  BY <1>2 DEF StartTransactions
<1>3. ASSUME NEW t \in Threads, InsertNext(t) PROVE IssueInv'
  <2>1. /\ pc' = [pc EXCEPT ![t] = "inserting"]
        /\ key' = [key EXCEPT ![t] = counter]
        /\ counter' = counter + 1 /\ acked' = acked
    BY <1>3 DEF InsertNext
  <2>2. /\ counter \in RecordCount .. counter' - 1 /\ counter \notin acked
        /\ acked' \subseteq RecordCount .. counter' - 1
    BY <2>1
  <2>3. \A u \in Threads : u # t => pc'[u] = pc[u] /\ key'[u] = key[u]
    BY <2>1
  <2>4. \A u \in Threads :
           Inserting(u)' => key'[u] \in (RecordCount .. counter' - 1) \ acked'
    BY <2>1, <2>2, <2>3
  <2>5. \A u \in Threads : u # t /\ Inserting(u)' => key'[u] # key'[t]
    BY <2>1, <2>3
  <2>6. QED
    BY <2>1, <2>2, <2>3, <2>4, <2>5
<1>4. ASSUME NEW t \in Threads, InsertStore(t) PROVE IssueInv'
  BY <1>4 DEF InsertStore
<1>5. ASSUME NEW t \in Threads, Acknowledge(t) PROVE IssueInv'
  <2>1. /\ pc' = [pc EXCEPT ![t] = "idle"] /\ pc[t] = "acking"
        /\ acked' = acked \cup {key[t]} /\ UNCHANGED <<key, counter>>
    BY <1>5 DEF Acknowledge
  <2>2. QED
    BY <2>1
<1>6. ASSUME NEW t \in Threads, AcknowledgeThrows(t) PROVE IssueInv'
  BY <1>6 DEF AcknowledgeThrows
<1>7. CASE UNCHANGED vars
  BY <1>7 DEF vars
<1>8. QED
  BY <1>1, <1>2, <1>3, <1>4, <1>5, <1>6, <1>7 DEF Next, Insert, Terminated

\* A key is acknowledged only after its db.Insert.
LEMMA StoreStep ==
  ASSUME IInv, [Next]_vars
  PROVE  StoreInv'
<1> USE DEF IInv, TypeOK, StoreInv, Tried, Goto
<1>1. ASSUME NEW t \in Threads, Load(t) PROVE StoreInv'
  BY <1>1 DEF Load, LoadNext, LoadInsert, StoreKey
<1>2. CASE StartTransactions
  BY <1>2 DEF StartTransactions
<1>3. ASSUME NEW t \in Threads, InsertNext(t) PROVE StoreInv'
  BY <1>3 DEF InsertNext
<1>4. ASSUME NEW t \in Threads, InsertStore(t) PROVE StoreInv'
  BY <1>4 DEF InsertStore, StoreKey
<1>5. ASSUME NEW t \in Threads, Acknowledge(t) PROVE StoreInv'
  BY <1>5 DEF Acknowledge
<1>6. ASSUME NEW t \in Threads, AcknowledgeThrows(t) PROVE StoreInv'
  BY <1>6 DEF AcknowledgeThrows
<1>7. ASSUME NEW t \in Threads, Choose(t) PROVE StoreInv'
  BY <1>7 DEF Choose, ChooseKey, ChooseAgain, AcceptKey, UseKey
<1>8. CASE UNCHANGED vars
  BY <1>8 DEF vars
<1>9. QED
  BY <1>1, <1>2, <1>3, <1>4, <1>5, <1>6, <1>7, <1>8
     DEF Next, Insert, Terminated

\* A key in use stays below the limit.
LEMMA UseStep ==
  ASSUME IInv, [Next]_vars
  PROVE  UseInv'
<1> USE CountAssumption DEF IInv, TypeOK, UseInv, Goto, Keys
<1>1. limit' >= limit /\ limit' \in Int
  BY LimitStep, TypeStep
<1>2. ASSUME NEW t \in Threads, Load(t) PROVE UseInv'
  BY <1>1, <1>2 DEF Load, LoadNext, LoadInsert
<1>3. CASE StartTransactions
  BY <1>3 DEF StartTransactions
<1>4. ASSUME NEW t \in Threads, Insert(t) PROVE UseInv'
  BY <1>1, <1>4 DEF Insert, InsertNext, InsertStore, Acknowledge,
                    AcknowledgeThrows
<1>5. ASSUME NEW t \in Threads, ChooseKey(t) \/ ChooseAgain(t) PROVE UseInv'
  BY <1>5 DEF ChooseKey, ChooseAgain
<1>6. ASSUME NEW t \in Threads, AcceptKey(t) PROVE UseInv'
  BY <1>6 DEF AcceptKey, Last, LoadInv
<1>7. ASSUME NEW t \in Threads, UseKey(t) PROVE UseInv'
  BY <1>7 DEF UseKey
<1>8. CASE UNCHANGED vars
  BY <1>8 DEF vars
<1>9. QED
  BY <1>2, <1>3, <1>4, <1>5, <1>6, <1>7, <1>8 DEF Next, Choose, Terminated

\* Every step preserves the inductive invariant.
LEMMA IInvStep == IInv /\ [Next]_vars => IInv'
<1> SUFFICES ASSUME IInv, [Next]_vars PROVE IInv'
  OBVIOUS
<1>1. TypeOK' /\ LoadInv' /\ IssueInv' /\ StoreInv'
  BY TypeStep, LoadStep, IssueStep, StoreStep DEF IInv
<1>2. WindowInv' /\ SpareInv' /\ UseInv' /\ ThrowsOnlyOnOverrun'
  BY WindowStep, SpareStep, UseStep, ThrowStep
<1>3. (RecordCount - 1 <= limit)'
  BY <1>1, LimitStep, CountAssumption DEF IInv, TypeOK
<1>4. QED
  BY <1>1, <1>2, <1>3 DEF IInv

-----------------------------------------------------------------------------
(***************************************************************************)
(* Theorems of the specification.                                          *)
(***************************************************************************)

\* The inductive invariant holds in every reachable state.
LEMMA Invariance == Spec => []IInv
  BY InitIInv, IInvStep, PTL DEF Spec

\* Every variable of the key sequences always has its type.
THEOREM TypeCorrect == Spec => []TypeOK
<1>1. IInv => TypeOK
  BY DEF IInv
<1>2. QED
  BY <1>1, Invariance, PTL

\* Last() is never past a key that is not acknowledged while no key was
\* acknowledged more than kWindowSize ahead of it, and is never short of an
\* acknowledged key while every key was less than kWindowSize ahead.
THEOREM LimitCorrect == Spec => []LimitIsPrefix
<1>1. IInv => LimitIsPrefix
  BY DEF IInv, WindowInv, SpareInv, LimitIsPrefix
<1>2. QED
  BY <1>1, Invariance, PTL

\* "Not enough window size" is thrown only when it is true.
THEOREM ThrowCorrect == Spec => []ThrowsOnlyOnOverrun
<1>1. IInv => ThrowsOnlyOnOverrun
  BY DEF IInv
<1>2. QED
  BY <1>1, Invariance, PTL

\* db.Insert was tried on every key an operation accepts, while no key has
\* outrun the window.
LEMMA UsedWasTried ==
  IInv /\ spread <= WindowSize =>
    \A t \in Threads : pc[t] = "using" => key[t] \in Tried
<1> SUFFICES ASSUME IInv, spread <= WindowSize,
                    NEW t \in Threads, pc[t] = "using"
             PROVE  key[t] \in Tried
  OBVIOUS
<1>1. phase = "run" /\ key[t] \in Keys /\ key[t] <= limit
  BY DEF IInv, UseInv, TypeOK
<1>2. CASE key[t] < RecordCount
  BY <1>1, <1>2, CountAssumption DEF IInv, LoadInv, Keys
<1>3. CASE key[t] >= RecordCount
  BY <1>1, <1>3, CountAssumption
     DEF IInv, WindowInv, StoreInv, Keys, TypeOK
<1>4. QED
  BY <1>1, <1>2, <1>3, CountAssumption DEF Keys

\* The key an operation accepts was inserted, or its insert has failed.
THEOREM ChosenTried == Spec => []ChosenKeysTried
<1>1. IInv => ChosenKeysTried
  BY UsedWasTried DEF ChosenKeysTried, Tried
<1>2. QED
  BY <1>1, Invariance, PTL

\* NextTransactionKeyNum lets only inserted keys through, if no insert fails
\* and no key is acknowledged more than kWindowSize ahead of the limit.
THEOREM ChosenExist ==
  ~InsertMayFail => (Spec /\ [](spread <= WindowSize) => []ChosenKeysExist)
<1> SUFFICES ASSUME ~InsertMayFail
             PROVE  Spec /\ [](spread <= WindowSize) => []ChosenKeysExist
  OBVIOUS
<1>1. IInv /\ spread <= WindowSize => ChosenKeysExist
  BY UsedWasTried DEF ChosenKeysExist, Tried, IInv, StoreInv
<1>2. QED
  BY <1>1, Invariance, PTL

\* Last() never moves back.
THEOREM LimitMonotone == Spec => LimitNeverRetreats
<1>1. IInv /\ [Next]_vars => [limit' >= limit]_vars
  BY LimitStep
<1>2. QED
  BY <1>1, Invariance, PTL DEF Spec, LimitNeverRetreats

-----------------------------------------------------------------------------
(***************************************************************************)
(* The refinement of PrefixCounter.                                        *)
(***************************************************************************)

\* The limit ends the unbroken run of acknowledged keys.
LEMMA LimitEndsPrefix ==
  IInv /\ spread < WindowSize => Prefix!EndsPrefix(acked, limit)
  BY CountAssumption
     DEF IInv, TypeOK, WindowInv, SpareInv, Prefix!EndsPrefix

\* Every step is a step of PrefixCounter or leaves it alone.
LEMMA PrefixStep ==
  ASSUME IInv, Prefix!EndsPrefix(acked, limit)', [Next]_vars
  PROVE  [Prefix!PNext]_(Prefix!pvars)
<1>1. Prefix!EndsPrefix(acked', limit')
  BY DEF Prefix!EndsPrefix
<1>2. ASSUME NEW t \in Threads, InsertNext(t) PROVE Prefix!Issue
  BY <1>2 DEF InsertNext, Prefix!Issue
<1>3. ASSUME NEW t \in Threads, Acknowledge(t)
      PROVE  \E k \in RecordCount .. counter - 1 : Prefix!Ack(k)
  <2>1. /\ key[t] \in RecordCount .. counter - 1 /\ key[t] \notin acked
        /\ acked' = acked \cup {key[t]} /\ counter' = counter
    BY <1>3 DEF Acknowledge, IInv, IssueInv, Inserting, Goto
  <2>2. QED
    BY <1>1, <2>1 DEF Prefix!Ack
<1>4. CASE UNCHANGED <<counter, acked, limit>>
  BY <1>4 DEF Prefix!pvars
<1>5. \/ \E t \in Threads : InsertNext(t) \/ Acknowledge(t)
      \/ UNCHANGED <<counter, acked, limit>>
  BY DEF Next, Load, Insert, Choose, Terminated, vars, LoadNext, LoadInsert,
         StartTransactions, InsertStore, AcknowledgeThrows, ChooseKey,
         ChooseAgain, AcceptKey, UseKey
<1>6. QED
  BY <1>2, <1>3, <1>4, <1>5 DEF Prefix!PNext

\* As long as every key is acknowledged less than kWindowSize ahead of the
\* limit, the generator implements PrefixCounter: a full window is the only
\* way its Last() can go wrong.
THEOREM ImplementsPrefixCounter ==
  Spec /\ [](spread < WindowSize) => IsPrefixCounter
<1>1. Init => Prefix!PInit
  BY DEF Init, Prefix!PInit
<1>2. IInv /\ spread < WindowSize => Prefix!EndsPrefix(acked, limit)
  BY LimitEndsPrefix
<1>3. /\ IInv /\ Prefix!EndsPrefix(acked, limit)' /\ [Next]_vars
      => [Prefix!PNext]_(Prefix!pvars)
  BY PrefixStep
<1>4. QED
  BY <1>1, <1>2, <1>3, Invariance, PTL DEF Spec, IsPrefixCounter, Prefix!PSpec
=============================================================================
