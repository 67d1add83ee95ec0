------------------------ MODULE SharedObjectProofs ---------------------------
(***************************************************************************)
(* Proofs about the two objects all client threads share.                  *)
(*                                                                         *)
(* CountDownLatch, for any threads and any count: no wait returns early,   *)
(* no wake-up is lost, and the mutex and the condition variable implement  *)
(* Latch.  DBHandle, for every finite set of clients, with Init() testing  *)
(* the reference count as LMDB and SQLite do.                              *)
(***************************************************************************)
EXTENDS CountDownLatch, DBHandle, FiniteSetTheorems, TLAPS

-----------------------------------------------------------------------------
(* The latch.                                                              *)

\* The threads that have counted down are finitely many.
LEMMA CountedFinite ==
  IsFiniteSet(Counted) /\ Cardinality(Counted) \in Nat
<1>1. IsFiniteSet(Counted)
  BY LatchAssumption, FS_Subset DEF Counted, Threads
<1>2. QED
  BY <1>1, FS_CardinalityType

LEMMA CountIsInteger == CountInv => count \in Int
BY CountedFinite, LatchAssumption DEF CountInv

\* The inductive invariant holds initially.
LEMMA InitLatchInv == Init => LatchInv
<1> SUFFICES ASSUME Init PROVE LatchInv
  OBVIOUS
<1>1. CallInv
  BY LatchAssumption DEF Init, CallInv, States, First, Threads
<1>2. Counted = {}
  BY DEF Init, Counted, First, Threads
<1>3. CountInv
  BY <1>2, FS_EmptySet, LatchAssumption DEF Init, CountInv
<1>4. Waiting = {} /\ \A t \in Threads : pc[t] # "returned"
  BY DEF Init, Waiting, First
<1>5. PassedInv
  BY <1>4, LatchAssumption DEF Init, PassedInv, Threads
<1>6. QED
  BY <1>1, <1>3, <1>4, <1>5 DEF LatchInv, NoLostWakeup

\* A step that leaves count, pc and polls alone preserves the invariant.
LEMMA QuietStep ==
  ASSUME LatchInv, UNCHANGED <<count, pc, polls>>
  PROVE  LatchInv' /\ UNCHANGED <<Counted, Passed>>
<1>1. UNCHANGED <<Counted, Waiting, Passed>> /\ (Reached' <=> Reached)
  BY DEF Counted, Waiting, Passed, Reached
<1>2. QED
  BY <1>1 DEF LatchInv, CallInv, CountInv, NoLostWakeup, PassedInv

\* CountDown() is CountDown of Latch.
LEMMA CountDownStep ==
  ASSUME LatchInv, NEW t \in Threads, CountDown(t)
  PROVE  LatchInv' /\ L!CountDown(t)
<1>1. /\ t \in Counting /\ t \notin Counted /\ pc[t] = "countDown"
      /\ count \in Int /\ count' = count - 1 /\ polls' = polls
  BY CountIsInteger DEF CountDown, LatchInv, CallInv, Counted
<1>2. /\ pc'[t] = AfterCountDown(t)
      /\ \A u \in Threads \ {t} :
           \/ pc'[u] = pc[u]
           \/ pc[u] = "waiting" /\ pc'[u] = "notified"
  BY DEF CountDown, Waiting
<1>3. Counted' = Counted \cup {t}
  BY <1>1, <1>2 DEF Counted, AfterCountDown, Threads
<1>4. CountInv'
  <2>1. Cardinality(Counted') = Cardinality(Counted) + 1
    BY <1>1, <1>3, CountedFinite, FS_AddElement
  <2>2. QED
    BY <1>1, <2>1, CountedFinite, LatchAssumption DEF LatchInv, CountInv
<1>5. CallInv'
  <2>1. pc' \in [Threads -> States] /\ polls' \in [Polling -> BOOLEAN]
    BY <1>1 DEF CountDown, LatchInv, CallInv, AfterCountDown, States
  <2>2. \A u \in Threads : pc'[u] = "countDown" => u \in Counting
    BY <1>1, <1>2 DEF LatchInv, CallInv
  <2>3. \A u \in Counting \ Awaiting : pc'[u] \in {"countDown", "returned"}
    BY <1>2 DEF LatchInv, CallInv, AfterCountDown, Threads
  <2>4. QED
    BY <2>1, <2>2, <2>3 DEF CallInv
<1>6. NoLostWakeup'
  BY <1>1 DEF CountDown, NoLostWakeup, Reached, Waiting, AfterCountDown
<1>7. Reached => Reached'
  BY <1>1 DEF Reached
<1>8. PassedInv'
  BY <1>1, <1>2, <1>7 DEF LatchInv, PassedInv, AfterCountDown, Threads
<1>9. Passed' = Passed
  BY <1>1, <1>2 DEF Passed, AfterCountDown, LatchInv, CallInv
<1>10. QED
  BY <1>1, <1>3, <1>4, <1>5, <1>6, <1>8, <1>9 DEF LatchInv, L!CountDown

\* A wait that returns is Pass of Latch.
LEMMA ReturnStep ==
  ASSUME LatchInv, NEW t \in Threads, Return(t)
  PROVE  LatchInv' /\ L!Pass(t)
<1>1. /\ Reached /\ count' = count
      /\ pc[t] \in {"await", "notified", "timedOut"}
      /\ pc' = [pc EXCEPT ![t] = "returned"]
      /\ polls' = [p \in Polling |-> IF p = t THEN TRUE ELSE polls[p]]
  BY DEF Return
<1>2. t \notin Counting \ Awaiting
  BY <1>1 DEF LatchInv, CallInv
<1>3. CallInv'
  <2>1. polls' \in [Polling -> BOOLEAN]
    BY <1>1 DEF LatchInv, CallInv
  <2>2. pc' \in [Threads -> States]
    BY <1>1 DEF LatchInv, CallInv, States
  <2>3. \A u \in Threads : pc'[u] = pc[u] \/ pc'[u] = "returned"
    BY <1>1 DEF LatchInv, CallInv
  <2>4. QED
    BY <2>1, <2>2, <2>3 DEF LatchInv, CallInv, Threads
<1>4. Counted' = Counted
  BY <1>1 DEF Counted, LatchInv, CallInv, Threads
<1>5. CountInv'
  BY <1>1, <1>4 DEF LatchInv, CountInv
<1>6. Reached'
  BY <1>1 DEF Reached
<1>7. NoLostWakeup'
  BY <1>1 DEF LatchInv, CallInv, NoLostWakeup, Waiting
<1>8. PassedInv'
  BY <1>6 DEF PassedInv
<1>9. Passed' = Passed \cup {t} /\ t \notin Passed
  BY <1>1, <1>2 DEF Passed, LatchInv, CallInv
<1>10. count <= 0
  BY <1>1 DEF Reached
<1>11. QED
  BY <1>1, <1>3, <1>4, <1>5, <1>7, <1>8, <1>9, <1>10 DEF LatchInv, L!Pass

\* The steps inside a wait: t goes to sleep, wakes up or answers false.
LEMMA InsideStep ==
  ASSUME LatchInv, NEW t \in Threads, NEW s \in States,
         UNCHANGED <<count, polls>>,
         pc' = [pc EXCEPT ![t] = s],
         pc[t] \in {"await", "waiting", "notified", "timedOut"},
         s \notin {"countDown", "returned"},
         s = "waiting" => ~Reached
  PROVE  LatchInv' /\ UNCHANGED <<count, Counted, Passed>>
<1>1. t \notin Counting \ Awaiting
  BY DEF LatchInv, CallInv
<1>2. CallInv'
  BY <1>1 DEF LatchInv, CallInv, States
<1>3. Counted' = Counted
  BY DEF Counted, LatchInv, CallInv, Threads
<1>4. Reached' <=> Reached
  BY DEF Reached
<1>5. CountInv'
  BY <1>3 DEF LatchInv, CountInv
<1>6. NoLostWakeup'
  BY <1>4 DEF LatchInv, CallInv, NoLostWakeup, Waiting
<1>7. PassedInv'
  BY <1>4 DEF LatchInv, CallInv, PassedInv, Threads
<1>8. Passed' = Passed
  BY DEF LatchInv, CallInv, Passed
<1>9. QED
  BY <1>2, <1>3, <1>5, <1>6, <1>7, <1>8 DEF LatchInv

\* Every step preserves the inductive invariant, and is a step of Latch or
\* changes nothing that Latch sees.
LEMMA LatchStep ==
  ASSUME LatchInv, [Next]_lvars
  PROVE  LatchInv' /\ [L!LNext]_<<count, Counted, Passed>>
<1> USE DEF L!LNext
<1>1. CASE UNCHANGED <<count, pc, polls>>
  BY <1>1, QuietStep
<1>2. ASSUME NEW t \in Threads, CountDown(t)
      PROVE  LatchInv' /\ L!LNext
  BY <1>2, CountDownStep
<1>3. ASSUME NEW t \in Threads, Return(t)
      PROVE  LatchInv' /\ L!LNext
  BY <1>3, ReturnStep
<1>4. ASSUME NEW t \in Threads, Wait(t) \/ WakeSpuriously(t) \/ TimeOut(t)
                                \/ AnswerFalse(t)
      PROVE  LatchInv' /\ UNCHANGED <<count, Counted, Passed>>
  <2>1. CASE Wait(t)
    BY <2>1, InsideStep DEF Wait, States
  <2>2. CASE WakeSpuriously(t)
    BY <2>2, InsideStep DEF WakeSpuriously, States
  <2>3. CASE TimeOut(t)
    BY <2>3, InsideStep DEF TimeOut, States
  <2>4. CASE AnswerFalse(t)
    BY <2>4, InsideStep DEF AnswerFalse, States
  <2>5. QED
    BY <1>4, <2>1, <2>2, <2>3, <2>4
<1>5. ASSUME NEW t \in Threads, Lock(t)
      PROVE  UNCHANGED <<count, pc, polls>>
  BY <1>5 DEF Lock
<1>6. UNCHANGED lvars \/ Finished => UNCHANGED <<count, pc, polls>>
  BY DEF lvars, Finished
<1>7. QED
  BY <1>1, <1>2, <1>3, <1>4, <1>5, <1>6 DEF Next, Step

LEMMA LatchInvariance == Spec => []LatchInv
<1>1. LatchInv /\ [Next]_lvars => LatchInv'
  BY LatchStep
<1>2. QED
  BY <1>1, InitLatchInv, PTL DEF Spec

\* The notification that ends a wait is never lost between the waiter's test
\* of the predicate and its wait: once the count is down nobody sleeps.
THEOREM WakeupsAreNotLost == Spec => []NoLostWakeup
<1>1. LatchInv => NoLostWakeup
  BY DEF LatchInv
<1>2. QED
  BY <1>1, LatchInvariance, PTL

\* Await() does not return, and AwaitFor() does not answer true, before Count
\* calls of CountDown() were made.
THEOREM WaitsAreNotShort == Spec => []NoEarlyReturn
<1>1. LatchInv => NoEarlyReturn
  <2> SUFFICES ASSUME LatchInv PROVE NoEarlyReturn
    OBVIOUS
  <2>1. Reached => Cardinality(Counted) >= Count
    BY CountedFinite, LatchAssumption DEF LatchInv, CountInv, Reached
  <2>2. QED
    BY <2>1 DEF LatchInv, PassedInv, NoEarlyReturn
<1>2. QED
  BY <1>1, LatchInvariance, PTL

\* The latch with its mutex and its condition variable implements the latch
\* ClientRun composes.
THEOREM ImplementsLatch == Spec => IsLatch
<1>1. Init => L!LInit
  <2> SUFFICES ASSUME Init PROVE L!LInit
    OBVIOUS
  <2>1. Counted = {} /\ Passed = {}
    BY DEF Init, Counted, Passed, First, Threads
  <2>2. QED
    BY <2>1 DEF Init, L!LInit
<1>2. LatchInv /\ [Next]_lvars => [L!LNext]_<<count, Counted, Passed>>
  BY LatchStep
<1>3. QED
  BY <1>1, <1>2, LatchInvariance, PTL DEF Spec, IsLatch, L!LSpec, L!lavars

\* The variables keep their types; the count goes below zero by the calls of
\* CountDown() beyond Count only.
THEOREM TypeCorrect == Spec => []TypeOK
<1> DEFINE MutexOK == mu \in Threads \cup {NoThread}
<1>1. Init => MutexOK
  BY DEF Init
<1>2. MutexOK /\ [Next]_lvars => MutexOK'
  BY DEF Next, Step, Lock, CountDown, Return, Wait, WakeSpuriously, TimeOut,
         AnswerFalse, Finished, lvars
<1>3. Spec => []MutexOK
  BY <1>1, <1>2, PTL DEF Spec
<1>4. LatchInv /\ MutexOK => TypeOK
  <2> SUFFICES ASSUME LatchInv, MutexOK PROVE TypeOK
    OBVIOUS
  <2>1. Counted \subseteq Counting /\ IsFiniteSet(Counting)
    BY LatchAssumption, FS_Subset DEF Counted, Threads
  <2>2. Cardinality(Counted) <= Cardinality(Counting) /\ Cardinality(Counting) \in Nat
    BY <2>1, FS_Subset, FS_CardinalityType
  <2>3. count \in Count - Cardinality(Counting) .. Count
    BY <2>2, CountedFinite, LatchAssumption DEF LatchInv, CountInv
  <2>4. QED
    BY <2>3 DEF LatchInv, CallInv, States, TypeOK
<1>5. QED
  BY <1>3, <1>4, LatchInvariance, PTL

-----------------------------------------------------------------------------
(* The handle.                                                             *)

\* The clients are finitely many, so the connected ones can be counted.
LEMMA ConnectedFinite ==
  IsFiniteSet(Connected) /\ Cardinality(Connected) \in Nat
<1>1. IsFiniteSet(Connected)
  BY ClientsAssumption, FS_Subset DEF Connected
<1>2. QED
  BY <1>1, FS_CardinalityType

\* The inductive invariant holds initially.
LEMMA InitHInv == HInit => HInv
<1> SUFFICES ASSUME HInit PROVE HInv
  OBVIOUS
<1>1. Connected = {}
  BY DEF HInit, Connected
<1>2. QED
  BY <1>1, FS_EmptySet DEF HInit, HInv, HTypeOK, RefCountInv

\* Init() connects one client more.
LEMMA InitDBStep ==
  ASSUME ~TestsHandle, HInv, NEW t \in Clients, InitDB(t)
  PROVE  HInv' /\ (handle' # handle => Connected = {})
<1>1. t \notin Connected /\ Connected' = Connected \cup {t}
  BY DEF InitDB, HInv, HTypeOK, Connected
<1>2. Cardinality(Connected') = Cardinality(Connected) + 1
  BY <1>1, ConnectedFinite, FS_AddElement
<1>3. handle' = "open" /\ (handle' # handle => Connected = {})
  <2>1. CASE refCnt = 0
    <3>1. Connected = {}
      BY <2>1, ConnectedFinite, FS_EmptySet DEF HInv, RefCountInv
    <3>2. QED
      BY <2>1, <3>1 DEF InitDB, MustOpen
  <2>2. CASE refCnt # 0
    <3>1. Connected # {}
      BY <2>2, FS_EmptySet DEF HInv, RefCountInv
    <3>2. QED
      BY <2>2, <3>1 DEF InitDB, MustOpen, HInv
  <2>3. QED
    BY <2>1, <2>2
<1>4. HTypeOK' /\ RefCountInv'
  BY <1>2, <1>3 DEF InitDB, HInv, HTypeOK, RefCountInv
<1>5. QED
  BY <1>1, <1>3, <1>4 DEF HInv

\* Cleanup() disconnects one client, and the last one deletes the handle.
LEMMA CleanupDBStep ==
  ASSUME HInv, NEW t \in Clients, CleanupDB(t)
  PROVE  HInv' /\ (handle' # handle => Connected' = {})
<1>1. t \in Connected /\ Connected' = Connected \ {t}
  BY DEF CleanupDB, HInv, HTypeOK, Connected
<1>2. /\ Cardinality(Connected') = Cardinality(Connected) - 1
      /\ IsFiniteSet(Connected')
  BY <1>1, ConnectedFinite, FS_RemoveElement
<1>3. refCnt' = Cardinality(Connected')
  BY <1>2 DEF CleanupDB, HInv, HTypeOK, RefCountInv
<1>4. refCnt' = 0 <=> Connected' = {}
  BY <1>2, <1>3, FS_EmptySet
<1>5. handle' = IF Connected' = {} THEN "deleted" ELSE handle
  BY <1>4 DEF CleanupDB
<1>6. handle = "open"
  BY <1>1 DEF HInv
<1>7. HTypeOK' /\ RefCountInv'
  BY <1>2, <1>3, <1>5, FS_CardinalityType DEF CleanupDB, HInv, HTypeOK, RefCountInv
<1>8. QED
  BY <1>5, <1>6, <1>7 DEF HInv

\* A stuttering step changes nothing.
LEMMA HandleStutter ==
  ASSUME HInv, UNCHANGED hvars
  PROVE  HInv' /\ handle' = handle
<1>1. Connected' = Connected
  BY DEF hvars, Connected
<1>2. QED
  BY <1>1 DEF hvars, HInv, HTypeOK, RefCountInv

\* Every step preserves the inductive invariant, and changes the handle only
\* when nobody was connected before it or nobody is after it.
LEMMA HandleStep ==
  ASSUME ~TestsHandle, HInv, [HNext]_hvars
  PROVE  HInv' /\ (handle' # handle => Connected = {} \/ Connected' = {})
<1>1. ASSUME NEW t \in Clients, InitDB(t)
      PROVE  HInv' /\ (handle' # handle => Connected = {})
  BY <1>1, InitDBStep
<1>2. ASSUME NEW t \in Clients, CleanupDB(t)
      PROVE  HInv' /\ (handle' # handle => Connected' = {})
  BY <1>2, CleanupDBStep
<1>3. CASE UNCHANGED hvars
  BY <1>3, HandleStutter
<1>4. QED
  BY <1>1, <1>2, <1>3 DEF HNext, HDone

\* With the count as the test, the inductive invariant always holds.
LEMMA HandleInvariance == ~TestsHandle => (HSpec => []HInv)
<1> SUFFICES ASSUME ~TestsHandle PROVE HSpec => []HInv
  OBVIOUS
<1>1. HInv /\ [HNext]_hvars => HInv'
  BY HandleStep
<1>2. QED
  BY <1>1, InitHInv, PTL DEF HSpec

\* Every Init() and Cleanup() keeps the count, however Init() decides.
LEMMA RefCountStep ==
  ASSUME HTypeOK, RefCountInv, [HNext]_hvars
  PROVE  HTypeOK' /\ RefCountInv'
<1>1. ASSUME NEW t \in Clients, InitDB(t) PROVE HTypeOK' /\ RefCountInv'
  <2>1. t \notin Connected /\ Connected' = Connected \cup {t}
    BY <1>1 DEF InitDB, HTypeOK, Connected
  <2>2. Cardinality(Connected') = Cardinality(Connected) + 1
    BY <2>1, ConnectedFinite, FS_AddElement
  <2>3. QED
    BY <1>1, <2>2 DEF InitDB, HTypeOK, RefCountInv
<1>2. ASSUME NEW t \in Clients, CleanupDB(t) PROVE HTypeOK' /\ RefCountInv'
  <2>1. t \in Connected /\ Connected' = Connected \ {t}
    BY <1>2 DEF CleanupDB, HTypeOK, Connected
  <2>2. /\ Cardinality(Connected') = Cardinality(Connected) - 1
        /\ Cardinality(Connected') \in Nat
    BY <2>1, ConnectedFinite, FS_RemoveElement, FS_CardinalityType
  <2>3. QED
    BY <1>2, <2>2 DEF CleanupDB, HTypeOK, RefCountInv
<1>3. CASE UNCHANGED hvars
  BY <1>3 DEF hvars, HTypeOK, RefCountInv, Connected
<1>4. QED
  BY <1>1, <1>2, <1>3 DEF HNext, HDone

\* The variables keep their types: ref_cnt_ never falls below zero, whichever
\* way Init() decides whether to open the database.
THEOREM HandleTypeCorrect == HSpec => []HTypeOK
<1>1. HInit => HTypeOK /\ RefCountInv
  <2> SUFFICES ASSUME HInit PROVE HTypeOK /\ RefCountInv
    OBVIOUS
  <2>1. Connected = {}
    BY DEF HInit, Connected
  <2>2. QED
    BY <2>1, FS_EmptySet DEF HInit, HTypeOK, RefCountInv
<1>2. QED
  BY <1>1, RefCountStep, PTL DEF HSpec

\* A client of LMDB or SQLite works on an open database from its Init to its
\* Cleanup, however the clients come and go.
THEOREM OpenWhileConnected ==
  ~TestsHandle => (HSpec => []HandleOpenWhileConnected)
<1> SUFFICES ASSUME ~TestsHandle PROVE HSpec => []HandleOpenWhileConnected
  OBVIOUS
<1>1. HInv => HandleOpenWhileConnected
  BY DEF HInv, HandleOpenWhileConnected, Connected
<1>2. QED
  BY <1>1, HandleInvariance, PTL

\* The database does not stay open after the last client has left.
THEOREM ClosedAtEnd == ~TestsHandle => (HSpec => []HandleClosedAtEnd)
<1> SUFFICES ASSUME ~TestsHandle PROVE HSpec => []HandleClosedAtEnd
  OBVIOUS
<1>1. HInv => HandleClosedAtEnd
  BY DEF HInv, HandleClosedAtEnd
<1>2. QED
  BY <1>1, HandleInvariance, PTL

\* The handle is never opened or deleted under a connected client.
THEOREM ChangesAlone == ~TestsHandle => (HSpec => HandleChangesAlone)
<1> SUFFICES ASSUME ~TestsHandle PROVE HSpec => HandleChangesAlone
  OBVIOUS
<1>1. HInv /\ [HNext]_hvars
      => [handle' # handle => Connected = {} \/ Connected' = {}]_hvars
  BY HandleStep
<1>2. QED
  BY <1>1, HandleInvariance, PTL DEF HSpec, HandleChangesAlone
=============================================================================
