--------------------------- MODULE ClientRunProofs ---------------------------
(***************************************************************************)
(* Proofs about the warmup barrier and the measurement timer of ClientRun, *)
(* for every number of threads, every set of options and every binding.    *)
(***************************************************************************)
EXTENDS ClientRun, SumProofs, FiniteSetTheorems

\* A thread's share of the warmup is a natural number.
LEMMA WarmupShareType ==
  ASSUME conf \in Configs, NEW t \in Threads
  PROVE  WarmupShare(t) \in Nat
<1>1. conf.warmup \in Nat /\ NumThreads \in Nat \ {0}
  BY RunAssumption DEF ConfigType
<1>2. conf.warmup \div NumThreads \in Nat
  BY <1>1, Division
<1>3. QED
  BY <1>2 DEF WarmupShare, Share

\* There are NumThreads threads.
LEMMA ThreadsFinite ==
  IsFiniteSet(Threads) /\ Cardinality(Threads) = NumThreads
<1>1. NumThreads \in Nat
  BY RunAssumption
<1>2. QED
  BY <1>1, FS_Interval DEF Threads

\* The counted threads are finitely many, and are all threads once the latch
\* is down.
LEMMA CountedFinite ==
  ASSUME BarrierTypes
  PROVE  /\ IsFiniteSet(warmupCounted)
         /\ Cardinality(warmupCounted) \in Nat
         /\ BarrierInv /\ warmupCount <= 0 => warmupCounted = Threads
<1>1. warmupCounted \subseteq Threads
  BY DEF BarrierTypes
<1>2. IsFiniteSet(warmupCounted)
  BY <1>1, ThreadsFinite, FS_Subset
<1>3. Cardinality(warmupCounted) \in Nat
  BY <1>2, FS_CardinalityType
<1>4. ASSUME BarrierInv, warmupCount <= 0
      PROVE  warmupCounted = Threads
  <2>1. Cardinality(warmupCounted) >= Cardinality(Threads)
    BY <1>3, <1>4, ThreadsFinite, RunAssumption DEF BarrierInv
  <2>2. QED
    BY <1>1, <1>3, <2>1, ThreadsFinite, FS_Subset, RunAssumption
<1>5. QED
  BY <1>2, <1>3, <1>4

\* Nobody is at the barrier when the run begins.
LEMMA InitMeasurement == Init => MeasurementInv
<1> SUFFICES ASSUME Init PROVE MeasurementInv
  OBVIOUS
<1>1. /\ warmupCount = NumThreads /\ warmupCounted = {}
      /\ pc = [t \in Threads |-> "start"]
      /\ index = [t \in Threads |-> 0]
      /\ started = FALSE /\ timerStarts = 0
      /\ stage \in {"load", "run"} /\ conf \in Configs
      /\ NumThreads \in Nat
  BY RunAssumption DEF Init, W!LInit
<1>2. BarrierTypes
  <2>1. started \in BOOLEAN
    BY <1>1
  <2>2. /\ conf \in Configs /\ stage \in {"load", "run", "done"}
        /\ index \in [Threads -> Nat] /\ timerStarts \in Nat
        /\ warmupCount \in Int /\ warmupCounted \subseteq Threads
    BY <1>1
  <2>3. pc \in [Threads -> {"start", "loop", "awaiting", "electing", "starting",
                            "op", "modify", "leaving", "ended"}]
    BY <1>1
  <2>4. QED
    BY ONLY <2>1, <2>2, <2>3 DEF BarrierTypes, States
<1>3. BarrierInv
  BY <1>1, FS_EmptySet DEF BarrierInv
<1>4. ElectionInv /\ WinnerInv
  BY <1>1 DEF ElectionInv, WinnerInv
<1>5. PastWarmupInv
  BY <1>1, WarmupShareType DEF PastWarmupInv
<1>6. QED
  BY <1>2, <1>3, <1>4, <1>5 DEF MeasurementInv

-----------------------------------------------------------------------------
(***************************************************************************)
(* Steps away from the barrier.                                            *)
(***************************************************************************)

\* A step that moves no thread to the barrier and no index past its warmup
\* without the election leaves the invariant alone.
LEMMA QuietStep ==
  ASSUME MeasurementInv, NEW t \in Threads,
         UNCHANGED <<conf, stage, warmupCount, warmupCounted, started,
                     timerStarts>>,
         NEW to \in {"loop", "op", "modify", "leaving", "ended"},
         pc[t] \notin {"electing", "starting"},
         pc' = [pc EXCEPT ![t] = to],
         \/ index' = index
         \/ index' = [index EXCEPT ![t] = index[t] + 1]
              /\ to = "loop" /\ pc[t] \in {"op", "modify"},
         to \in {"op", "modify"} /\ stage = "run" =>
           index[t] # WarmupShare(t) \/ pc[t] \in {"op", "modify"}
  PROVE  MeasurementInv'
<1> USE DEF MeasurementInv, BarrierTypes
<1>1. BarrierTypes'
  BY DEF States
<1>2. \A u \in Threads :
        /\ WarmupShare(u)' = WarmupShare(u) /\ WarmupShare(u) \in Nat
        /\ index'[u] >= index[u] /\ index[u] \in Nat /\ index'[u] \in Nat
        /\ u # t => pc'[u] = pc[u] /\ index'[u] = index[u]
  BY WarmupShareType DEF WarmupShare
<1>3. pc'[t] = to
  OBVIOUS
<1>4. BarrierInv'
  <2>1. \A u \in warmupCounted' : index'[u] >= WarmupShare(u)'
    BY <1>2 DEF BarrierInv
  <2>2. \A u \in Threads :
          pc'[u] \in {"electing", "starting"} =>
            pc[u] \in {"electing", "starting"}
    BY <1>2, <1>3
  <2>3. QED
    BY <2>1, <2>2 DEF BarrierInv
<1>5. ElectionInv' /\ WinnerInv'
  BY <1>2, <1>3 DEF ElectionInv, WinnerInv
<1>6. PastWarmupInv'
  <2>1. SUFFICES ASSUME stage = "run", NEW u \in Threads,
                        \/ index'[u] > WarmupShare(u)
                        \/ /\ pc'[u] \in {"op", "modify"}
                           /\ index'[u] >= WarmupShare(u)
                 PROVE  started
    BY <1>2 DEF PastWarmupInv
  <2>2. CASE u # t
    BY <1>2, <2>1, <2>2 DEF PastWarmupInv
  <2>3. CASE u = t
    <3>1. CASE index' = index
      BY <1>2, <1>3, <2>1, <2>3, <3>1 DEF PastWarmupInv
    <3>2. CASE index' # index
      <4>1. /\ index'[t] = index[t] + 1 /\ to = "loop"
            /\ pc[t] \in {"op", "modify"}
        BY <3>2
      <4>2. index[t] >= WarmupShare(t)
        BY <1>2, <1>3, <2>1, <2>3, <4>1
      <4>3. QED
        BY <2>1, <4>1, <4>2 DEF PastWarmupInv
    <3>3. QED
      BY <3>1, <3>2
  <2>4. QED
    BY <2>2, <2>3
<1>7. QED
  BY <1>1, <1>4, <1>5, <1>6

\* The steps of a client away from the barrier are quiet.
LEMMA ClientQuiet ==
  ASSUME MeasurementInv, NEW t \in Threads,
         \/ Start(t) \/ NextOp(t) \/ Operate(t) \/ SkipWarmup(t)
         \/ ReadToModify(t) \/ WriteModified(t) \/ LeaveDB(t) \/ Finish(t)
  PROVE  MeasurementInv'
<1> USE DEF Goto, warmupLatch, timerVars, MeasurementInv, BarrierTypes
<1>1. WarmupShare(t) \in Nat /\ index[t] \in Nat
  BY WarmupShareType
<1>2. CASE Start(t)
  BY <1>2, QuietStep DEF Start
<1>3. CASE NextOp(t)
  <2>1. /\ pc' = [pc EXCEPT ![t] = "op"] /\ pc[t] = "loop" /\ index' = index
        /\ UNCHANGED <<conf, stage, warmupCount, warmupCounted, started,
                       timerStarts>>
        /\ stage = "run" => index[t] # WarmupShare(t)
    BY <1>3 DEF NextOp, Loading
  <2>2. QED
    BY <2>1, QuietStep
<1>4. CASE Operate(t)
  BY <1>4, QuietStep DEF Operate
<1>10. CASE SkipWarmup(t)
  BY <1>10, QuietStep DEF SkipWarmup
<1>5. CASE ReadToModify(t)
  BY <1>5, QuietStep DEF ReadToModify
<1>6. CASE WriteModified(t)
  BY <1>6, QuietStep DEF WriteModified
<1>7. CASE LeaveDB(t)
  BY <1>7, QuietStep DEF LeaveDB
<1>8. CASE Finish(t)
  BY <1>8, QuietStep DEF Finish
<1>9. QED
  BY <1>2, <1>3, <1>4, <1>5, <1>6, <1>7, <1>8, <1>10

-----------------------------------------------------------------------------
(***************************************************************************)
(* Steps at the barrier.                                                   *)
(***************************************************************************)

\* A thread comes to the barrier when its warmup is done.
LEMMA WarmupDoneStep ==
  ASSUME MeasurementInv, NEW t \in Threads, WarmupDone(t)
  PROVE  MeasurementInv'
<1> USE DEF MeasurementInv, BarrierTypes
<1>1. /\ pc[t] = "loop" /\ pc' = [pc EXCEPT ![t] = "awaiting"]
      /\ stage # "load" /\ index[t] = WarmupShare(t)
      /\ t \notin warmupCounted
      /\ warmupCount' = warmupCount - 1
      /\ warmupCounted' = warmupCounted \cup {t}
      /\ UNCHANGED <<conf, stage, index, started, timerStarts>>
  BY DEF WarmupDone, Goto, Loading, W!CountDown, timerVars
<1>2. \A u \in Threads : /\ WarmupShare(u)' = WarmupShare(u)
                         /\ WarmupShare(u) \in Nat
  BY <1>1, WarmupShareType DEF WarmupShare
<1>3. BarrierTypes'
  BY <1>1 DEF States
<1>4. BarrierInv'
  <2>1. Cardinality(warmupCounted') = Cardinality(warmupCounted) + 1
    BY <1>1, CountedFinite, FS_AddElement
  <2>2. warmupCount' = NumThreads - Cardinality(warmupCounted')
    BY <1>1, <2>1, CountedFinite, RunAssumption DEF BarrierInv
  <2>3. \A u \in warmupCounted' : index'[u] >= WarmupShare(u)'
    BY <1>1, <1>2 DEF BarrierInv
  <2>4. QED
    BY <1>1, <2>2, <2>3 DEF BarrierInv
<1>5. ElectionInv' /\ WinnerInv'
  BY <1>1 DEF ElectionInv, WinnerInv
<1>6. PastWarmupInv'
  BY <1>1, <1>2 DEF PastWarmupInv
<1>7. QED
  BY <1>3, <1>4, <1>5, <1>6

\* A thread passes the barrier once the latch is down.
LEMMA PassBarrierStep ==
  ASSUME MeasurementInv, NEW t \in Threads, PassBarrier(t)
  PROVE  MeasurementInv'
<1> USE DEF MeasurementInv, BarrierTypes
<1>1. /\ pc[t] = "awaiting" /\ pc' = [pc EXCEPT ![t] = "electing"]
      /\ warmupCount <= 0
      /\ UNCHANGED <<conf, stage, index, started, timerStarts, warmupCount,
                     warmupCounted>>
  BY DEF PassBarrier, Goto, W!Pass, timerVars
<1>2. \A u \in Threads : WarmupShare(u)' = WarmupShare(u)
  BY <1>1 DEF WarmupShare
<1>3. stage # "load"
  <2>1. warmupCounted = Threads
    BY <1>1, CountedFinite
  <2>2. QED
    BY <2>1 DEF BarrierInv
<1>4. BarrierTypes'
  BY <1>1 DEF States
<1>5. BarrierInv'
  BY <1>1, <1>2, <1>3 DEF BarrierInv
<1>6. ElectionInv' /\ WinnerInv'
  BY <1>1 DEF ElectionInv, WinnerInv
<1>7. PastWarmupInv'
  BY <1>1, <1>2 DEF PastWarmupInv
<1>8. QED
  BY <1>4, <1>5, <1>6, <1>7

\* The first thread to exchange measurement_started is elected.
LEMMA ElectStep ==
  ASSUME MeasurementInv, NEW t \in Threads, Elect(t)
  PROVE  MeasurementInv'
<1> USE DEF MeasurementInv, BarrierTypes
<1>1. /\ pc[t] = "electing" /\ started' = TRUE
      /\ pc' = [pc EXCEPT ![t] = IF started THEN "op" ELSE "starting"]
      /\ UNCHANGED <<conf, stage, index, timerStarts, warmupCount,
                     warmupCounted>>
  BY DEF Elect, warmupLatch
<1>2. \A u \in Threads : WarmupShare(u)' = WarmupShare(u)
  BY <1>1 DEF WarmupShare
<1>3. stage # "load" /\ warmupCount <= 0
  BY <1>1 DEF BarrierInv, ElectionInv
<1>4. BarrierTypes'
  <2>1. started' \in BOOLEAN
    BY <1>1
  <2>2. QED
    BY <1>1, <2>1 DEF States
<1>5. BarrierInv'
  BY <1>1, <1>2, <1>3 DEF BarrierInv
<1>6. ElectionInv'
  BY <1>1, <1>3 DEF ElectionInv
<1>7. WinnerInv'
  <2>1. CASE started
    BY <1>1, <2>1 DEF WinnerInv
  <2>2. CASE ~started
    <3>1. \A u \in Threads : pc[u] # "starting"
      BY <2>2 DEF WinnerInv
    <3>2. timerStarts = 0
      BY <2>2 DEF WinnerInv
    <3>3. \A u \in Threads : pc'[u] = "starting" <=> u = t
      BY <1>1, <2>2, <3>1
    <3>4. QED
      BY <1>1, <3>2, <3>3 DEF WinnerInv
  <2>3. QED
    BY <2>1, <2>2
<1>8. PastWarmupInv'
  BY <1>1, <1>2 DEF PastWarmupInv
<1>9. QED
  BY <1>4, <1>5, <1>6, <1>7, <1>8

\* The winner starts the timer.
LEMMA StartTimerStep ==
  ASSUME MeasurementInv, NEW t \in Threads, StartTimer(t)
  PROVE  MeasurementInv'
<1> USE DEF MeasurementInv, BarrierTypes
<1>1. /\ pc[t] = "starting" /\ pc' = [pc EXCEPT ![t] = "op"]
      /\ timerStarts' = timerStarts + 1
      /\ UNCHANGED <<conf, stage, index, started, warmupCount, warmupCounted>>
  BY DEF StartTimer, Goto, warmupLatch
<1>2. \A u \in Threads : WarmupShare(u)' = WarmupShare(u)
  BY <1>1 DEF WarmupShare
<1>3. started /\ timerStarts = 0
      /\ \A u \in Threads : pc[u] = "starting" => u = t
  BY <1>1 DEF WinnerInv
<1>4. BarrierTypes'
  BY <1>1 DEF States
<1>5. BarrierInv'
  BY <1>1, <1>2 DEF BarrierInv
<1>6. ElectionInv'
  BY <1>1 DEF ElectionInv
<1>7. \A u \in Threads : pc'[u] # "starting"
  BY <1>1, <1>3
<1>8. WinnerInv'
  BY <1>1, <1>3, <1>7 DEF WinnerInv
<1>9. PastWarmupInv'
  BY <1>1, <1>2, <1>3 DEF PastWarmupInv
<1>10. QED
  BY <1>4, <1>5, <1>6, <1>8, <1>9

\* Between the phases nobody is at the barrier.
LEMMA JoinStep ==
  ASSUME MeasurementInv, Main
  PROVE  MeasurementInv'
<1> USE DEF MeasurementInv, BarrierTypes
<1>1. UNCHANGED <<conf, started, timerStarts, warmupCount, warmupCounted>>
  BY DEF Main, JoinLoad, JoinRun, warmupLatch, timerVars
<1>2. \A u \in Threads : /\ WarmupShare(u)' = WarmupShare(u)
                         /\ WarmupShare(u) \in Nat
  BY <1>1, WarmupShareType DEF WarmupShare
<1>3. CASE UNCHANGED <<pc, index>> /\ stage' = "done"
  <2>1. BarrierTypes'
    BY <1>1, <1>3
  <2>2. BarrierInv' /\ ElectionInv' /\ WinnerInv' /\ PastWarmupInv'
    BY <1>1, <1>2, <1>3
       DEF BarrierInv, ElectionInv, WinnerInv, PastWarmupInv
  <2>3. QED
    BY <2>1, <2>2
<1>4. CASE /\ stage = "load" /\ stage' = "run"
           /\ pc' = [u \in Threads |-> "start"]
           /\ index' = [u \in Threads |-> 0]
  <2>1. warmupCounted = {} /\ ~started
    BY <1>4 DEF BarrierInv
  <2>2. BarrierTypes'
    BY <1>1, <1>4 DEF States
  <2>3. BarrierInv'
    BY <1>1, <1>4, <2>1 DEF BarrierInv
  <2>4. ElectionInv'
    BY <1>1, <1>4, <2>1 DEF ElectionInv
  <2>5. WinnerInv'
    BY <1>1, <1>4, <2>1 DEF WinnerInv
  <2>6. PastWarmupInv'
    BY <1>1, <1>2, <1>4 DEF PastWarmupInv
  <2>7. QED
    BY <2>2, <2>3, <2>4, <2>5, <2>6
<1>5. QED
  BY <1>3, <1>4 DEF Main, JoinLoad, JoinRun

\* Every step preserves the invariant of the measurement.
LEMMA MeasurementStep == MeasurementInv /\ [Next]_vars => MeasurementInv'
<1> SUFFICES ASSUME MeasurementInv, [Next]_vars PROVE MeasurementInv'
  OBVIOUS
<1>1. ASSUME UNCHANGED <<conf, stage, pc, index, warmupCount, warmupCounted,
                         started, timerStarts>>
      PROVE  MeasurementInv'
  <2>1. \A u \in Threads : WarmupShare(u)' = WarmupShare(u)
    BY <1>1 DEF WarmupShare
  <2>2. QED
    BY <1>1, <2>1
       DEF MeasurementInv, BarrierTypes, BarrierInv, ElectionInv, WinnerInv,
           PastWarmupInv
<1>2. CASE Status
  BY <1>1, <1>2 DEF Status, PrintStatus, PollTimeout, PollDone, warmupLatch,
                    timerVars
<1>3. ASSUME NEW t \in Threads, Throw(t) PROVE MeasurementInv'
  BY <1>1, <1>3 DEF Throw, warmupLatch, timerVars
<1>4. CASE UNCHANGED vars
  BY <1>1, <1>4 DEF vars, warmupLatch, timerVars
<1>5. ASSUME NEW t \in Threads, Client(t) PROVE MeasurementInv'
  BY <1>5, ClientQuiet, WarmupDoneStep, PassBarrierStep, ElectStep,
     StartTimerStep DEF Client
<1>6. CASE Main
  BY <1>6, JoinStep
<1>7. QED
  BY <1>2, <1>3, <1>4, <1>5, <1>6 DEF Next, Gone

\* The invariant of the measurement always holds.
LEMMA MeasurementInvariance == Spec => []MeasurementInv
  BY InitMeasurement, MeasurementStep, PTL DEF Spec

\* The measurement begins only after every thread has done its warmup
\* operations, and its timer is started once.
THEOREM MeasurementTheorem == Spec => []MeasurementAfterWarmup
<1>1. MeasurementInv => MeasurementAfterWarmup
  <2> SUFFICES ASSUME MeasurementInv PROVE MeasurementAfterWarmup
    OBVIOUS
  <2>1. started => warmupCounted = Threads
    BY CountedFinite DEF MeasurementInv, ElectionInv
  <2>2. started => \A t \in Threads : index[t] >= WarmupShare(t)
    BY <2>1 DEF MeasurementInv, BarrierInv
  <2>3. QED
    BY <2>2 DEF MeasurementInv, WinnerInv, MeasurementAfterWarmup
<1>2. QED
  BY <1>1, MeasurementInvariance, PTL

\* No thread does a measured operation before the timer runs or its winner is
\* about to start it.
THEOREM TimedTheorem == Spec => []MeasuredOperationsAreTimed
<1>1. MeasurementInv => MeasuredOperationsAreTimed
  BY DEF MeasurementInv, PastWarmupInv, WinnerInv, MeasuredOperationsAreTimed
<1>2. QED
  BY <1>1, MeasurementInvariance, PTL

-----------------------------------------------------------------------------
(***************************************************************************)
(* The whole run: what a step moves.                                       *)
(***************************************************************************)

\* The moves of a thread through its client function
Move(t) ==
  \/ /\ pc[t] = "start" /\ pc'[t] = "loop"
     /\ index'[t] = index[t]
  \/ /\ pc[t] = "loop" /\ pc'[t] \in {"op", "awaiting"}
     /\ index'[t] = index[t] /\ index[t] < NumOps(t)
  \/ /\ pc[t] \in {"awaiting", "electing", "starting"}
     /\ pc'[t] \in {"electing", "starting", "op"}
     /\ index'[t] = index[t]
  \/ /\ pc[t] = "op" /\ pc'[t] = "modify"
     /\ index'[t] = index[t] /\ ~InWarmup(t)
  \/ /\ pc[t] \in {"op", "modify"} /\ pc'[t] = "loop"
     /\ index'[t] = index[t] + 1
  \/ /\ pc[t] = "loop" /\ pc'[t] = "leaving"
     /\ index'[t] = index[t] /\ index[t] >= NumOps(t)
  \/ /\ pc[t] = "leaving" /\ pc'[t] = "ended"
     /\ index'[t] = index[t]

\* A client's step moves that client only, within the phase.
LEMMA ClientMoves ==
  ASSUME BarrierTypes, NEW t \in Threads, Client(t)
  PROVE  /\ Active
         /\ UNCHANGED <<conf, stage, status, statusDone, statusSeen, exited,
                       latchPassed>>
         /\ pc' = [pc EXCEPT ![t] = pc'[t]]
         /\ index' = [index EXCEPT ![t] = index'[t]]
         /\ Move(t)
<1> DEFINE Q == /\ Active
                /\ UNCHANGED <<conf, stage, status, statusDone, statusSeen,
                              exited, latchPassed>>
                /\ pc' = [pc EXCEPT ![t] = pc'[t]]
                /\ index' = [index EXCEPT ![t] = index'[t]]
                /\ Move(t)
<1>0. index[t] \in Nat /\ DOMAIN pc = Threads /\ DOMAIN index = Threads
      /\ index = [u \in Threads |-> index[u]]
  BY DEF BarrierTypes
<1> USE <1>0 DEF Goto, Move, phaseLatch, statusVars
<1>1. ASSUME Start(t) PROVE Q
  BY <1>1 DEF Start
<1>2. ASSUME NextOp(t) PROVE Q
  BY <1>2 DEF NextOp
<1>3. ASSUME WarmupDone(t) PROVE Q
  BY <1>3 DEF WarmupDone
<1>4. ASSUME PassBarrier(t) PROVE Q
  BY <1>4 DEF PassBarrier
<1>5. ASSUME Elect(t) PROVE Q
  BY <1>5 DEF Elect
<1>6. ASSUME StartTimer(t) PROVE Q
  BY <1>6 DEF StartTimer
<1>7. ASSUME Operate(t) PROVE Q
  BY <1>7 DEF Operate
<1>8. ASSUME SkipWarmup(t) PROVE Q
  BY <1>8 DEF SkipWarmup
<1>9. ASSUME ReadToModify(t) PROVE Q
  BY <1>9 DEF ReadToModify
<1>10. ASSUME WriteModified(t) PROVE Q
  BY <1>10 DEF WriteModified
<1>11. ASSUME LeaveDB(t) PROVE Q
  BY <1>11 DEF LeaveDB
<1>12. ASSUME Finish(t) PROVE Q
  BY <1>12 DEF Finish, L!CountDown
<1>13. QED
  BY <1>1, <1>2, <1>3, <1>4, <1>5, <1>6, <1>7, <1>8, <1>9, <1>10, <1>11,
     <1>12 DEF Client

\* The other clients stay where they are.
LEMMA OthersStay ==
  ASSUME BarrierTypes, NEW t \in Threads, Client(t), NEW u \in Threads, u # t
  PROVE  pc'[u] = pc[u] /\ index'[u] = index[u]
<1>1. DOMAIN pc = Threads /\ DOMAIN index = Threads
  BY DEF BarrierTypes
<1>2. /\ pc' = [pc EXCEPT ![t] = pc'[t]]
      /\ index' = [index EXCEPT ![t] = index'[t]]
  BY ClientMoves
<1>3. QED
  BY <1>1, <1>2

\* What becomes of the reports, the connection and the barrier in a client's
\* step
LEMMA ClientFrame ==
  ASSUME BarrierTypes, NEW t \in Threads, Client(t)
  PROVE  /\ \/ UNCHANGED reports
            \/ ReportOperation(t) /\ pc[t] \in {"op", "modify"}
         /\ \/ /\ UNCHANGED handleVars
               /\ pc[t] = "start" => ~InitFlag
               /\ pc'[t] = "leaving" => ~CleanupFlag
            \/ Start(t) /\ InitFlag /\ H!InitDB(t)
            \/ LeaveDB(t) /\ CleanupFlag /\ H!CleanupDB(t)
         /\ \/ UNCHANGED phaseLatch /\ pc'[t] # "ended"
            \/ Finish(t)
         /\ \/ UNCHANGED warmupLatch
            \/ WarmupDone(t)
            \/ /\ warmupCounted' = warmupCounted
               /\ warmupPassed' = warmupPassed \cup {t}
<1> DEFINE A == \/ UNCHANGED reports
                \/ ReportOperation(t) /\ pc[t] \in {"op", "modify"}
           B == \/ /\ UNCHANGED handleVars
                   /\ pc[t] = "start" => ~InitFlag
                   /\ pc'[t] = "leaving" => ~CleanupFlag
                \/ Start(t) /\ InitFlag /\ H!InitDB(t)
                \/ LeaveDB(t) /\ CleanupFlag /\ H!CleanupDB(t)
           C == \/ UNCHANGED phaseLatch /\ pc'[t] # "ended"
                \/ Finish(t)
           D == \/ UNCHANGED warmupLatch
                \/ WarmupDone(t)
                \/ /\ warmupCounted' = warmupCounted
                   /\ warmupPassed' = warmupPassed \cup {t}
<1>0. DOMAIN pc = Threads
  BY DEF BarrierTypes
<1> USE <1>0 DEF reports, handleVars, phaseLatch, warmupLatch, Goto
<1>1. ASSUME Start(t) \/ LeaveDB(t) PROVE A /\ B /\ C /\ D
  BY <1>1 DEF Start, LeaveDB
<1>2. ASSUME NextOp(t) \/ SkipWarmup(t) \/ Elect(t) \/ StartTimer(t)
      PROVE  A /\ B /\ C /\ D
  BY <1>2 DEF NextOp, SkipWarmup, Elect, StartTimer
<1>3. ASSUME WarmupDone(t) PROVE A /\ B /\ C /\ D
  BY <1>3 DEF WarmupDone
<1>4. ASSUME PassBarrier(t) PROVE A /\ B /\ C /\ D
  BY <1>4 DEF PassBarrier, W!Pass
<1>5. ASSUME Operate(t) \/ ReadToModify(t) \/ WriteModified(t)
      PROVE  A /\ B /\ C /\ D
  BY <1>5 DEF Operate, ReadToModify, WriteModified
<1>6. ASSUME Finish(t) PROVE A /\ B /\ C /\ D
  BY <1>6 DEF Finish
<1> HIDE DEF reports, handleVars, phaseLatch, warmupLatch, Goto
<1>7. QED
  BY <1>1, <1>2, <1>3, <1>4, <1>5, <1>6 DEF Client

\* Steps that move no client: of the status thread, of a thread that throws
Aside == Status \/ (\E t \in Threads : Throw(t)) \/ UNCHANGED vars

\* What such a step leaves alone
LEMMA AsideFrame ==
  ASSUME Aside
  PROVE  /\ UNCHANGED <<conf, stage, pc, index, opCount, warmed, measured,
                       polluted, latchCount, latchCounted, warmupCounted,
                       warmupPassed, refCnt, handle, user>>
         /\ exited' = exited \/ exited' = TRUE
<1> USE DEF reports, phaseLatch, warmupLatch, handleVars
<1>1. CASE PrintStatus \/ PollTimeout
  BY <1>1 DEF PrintStatus, PollTimeout
<1>2. CASE PollDone
  BY <1>2 DEF PollDone, L!Pass
<1>3. CASE \E t \in Threads : Throw(t)
  BY <1>3 DEF Throw
<1>4. CASE UNCHANGED vars
  BY <1>4 DEF vars
<1>5. QED
  BY <1>1, <1>2, <1>3, <1>4 DEF Aside, Status

\* The kinds of steps
LEMMA NextSplit ==
  ASSUME [Next]_vars
  PROVE  (\E t \in Threads : Client(t)) \/ Aside \/ JoinLoad \/ JoinRun
BY DEF Next, Main, Aside, Gone

\* When main() has joined the threads of a phase, they have all ended.
LEMMA MainFrame ==
  /\ JoinLoad =>
       /\ stage = "load" /\ ~exited /\ \A t \in Threads : pc[t] = "ended"
       /\ warmed' = 0 /\ measured' = 0
       /\ UNCHANGED <<conf, opCount, polluted, warmupCount, warmupCounted,
                     warmupPassed, refCnt, handle, user, exited>>
       /\ IF conf.run
          THEN /\ stage' = "run"
               /\ pc' = [t \in Threads |-> "start"]
               /\ index' = [t \in Threads |-> 0]
               /\ latchCount' = NumThreads
               /\ latchCounted' = {} /\ latchPassed' = {}
               /\ status' \in {"printing", "off"}
               /\ statusDone' = FALSE /\ statusSeen' = 0
          ELSE /\ stage' = "done"
               /\ UNCHANGED <<pc, index, latchCount, latchCounted,
                             latchPassed, status, statusDone, statusSeen>>
  /\ JoinRun =>
       /\ stage = "run" /\ stage' = "done" /\ ~exited
       /\ \A t \in Threads : pc[t] = "ended"
       /\ UNCHANGED <<conf, pc, index, opCount, warmed, measured, polluted,
                     latchCount, latchCounted, latchPassed, warmupCount,
                     warmupCounted, warmupPassed, status, statusDone,
                     statusSeen, refCnt, handle, user, exited>>
BY DEF JoinLoad, JoinRun, AllJoined, Active, reports, phaseLatch,
       warmupLatch, statusVars, handleVars

-----------------------------------------------------------------------------
(***************************************************************************)
(* The parts of the invariant of the whole run, each under every step.     *)
(***************************************************************************)

\* The phases are those asked for, and the last ends with its threads.
LEMMA StageStep ==
  ASSUME RunInv, [Next]_vars
  PROVE  StageInv'
<1>1. StageInv /\ BarrierTypes
  BY DEF RunInv, MeasurementInv
<1>2. ASSUME NEW t \in Threads, Client(t) PROVE StageInv'
  <2>1. UNCHANGED <<conf, stage>> /\ stage # "done"
    BY <1>1, <1>2, ClientMoves DEF Active
  <2>2. QED
    BY <1>1, <2>1 DEF StageInv
<1>3. CASE Aside
  BY <1>1, <1>3, AsideFrame DEF StageInv
<1>4. CASE JoinLoad
  BY <1>1, <1>4, MainFrame DEF StageInv
<1>5. CASE JoinRun
  BY <1>1, <1>5, MainFrame DEF StageInv
<1>6. QED
  BY <1>2, <1>3, <1>4, <1>5, NextSplit

\* What a thread has to do is a natural number, and NumOps while a phase
\* runs.
LEMMA PhaseOpsType ==
  ASSUME BarrierTypes, StageInv, NEW t \in Threads
  PROVE  PhaseOps(t) \in Nat /\ (stage # "done" => NumOps(t) = PhaseOps(t))
<1>1. /\ conf.records \in Nat /\ conf.ops \in Nat
      /\ NumThreads \in Nat \ {0}
  BY RunAssumption DEF BarrierTypes, ConfigType
<1>2. /\ conf.records \div NumThreads \in Nat
      /\ conf.ops \div NumThreads \in Nat
  BY <1>1, Division
<1>3. PhaseOps(t) \in Nat
  BY <1>2 DEF PhaseOps, Share
<1>4. ASSUME stage # "done" PROVE NumOps(t) = PhaseOps(t)
  BY <1>4 DEF NumOps, PhaseOps, Loading, StageInv, BarrierTypes
<1>5. QED
  BY <1>3, <1>4

\* No thread does more than its share, or leaves the loop before it did it.
LEMMA OperationsStep ==
  ASSUME RunInv, [Next]_vars
  PROVE  OperationsInv'
<1>1. StageInv /\ BarrierTypes /\ OperationsInv
  BY DEF RunInv, MeasurementInv
<1>2. StageInv' /\ conf' = conf
  BY <1>1, StageStep, NextSplit, ClientMoves, AsideFrame, MainFrame
<1>3. \A u \in Threads :
        /\ PhaseOps(u) \in Nat /\ index[u] \in Nat
        /\ stage # "done" => NumOps(u) = PhaseOps(u)
  BY <1>1, PhaseOpsType DEF BarrierTypes
<1>4. ASSUME NEW t \in Threads, Client(t) PROVE OperationsInv'
  <2>1. /\ stage' = stage /\ stage # "done"
        /\ Move(t)
    BY <1>1, <1>4, ClientMoves DEF Active
  <2>2. \A u \in Threads : PhaseOps(u)' = PhaseOps(u)
    BY <1>2, <2>1 DEF PhaseOps
  <2>3. ASSUME NEW u \in Threads, u # t
        PROVE  pc'[u] = pc[u] /\ index'[u] = index[u]
    BY <1>1, <1>4, <2>3, OthersStay
  <2>4. /\ index'[t] <= PhaseOps(t)
        /\ pc'[t] \notin {"start", "loop", "leaving", "ended"} =>
             index'[t] < PhaseOps(t)
        /\ pc'[t] \in {"leaving", "ended"} => index'[t] = PhaseOps(t)
    BY <1>1, <1>3, <2>1 DEF Move, OperationsInv
  <2>5. QED
    BY <1>1, <2>2, <2>3, <2>4 DEF OperationsInv
<1>5. CASE Aside
  BY <1>1, <1>5, AsideFrame DEF OperationsInv, PhaseOps
<1>6. CASE JoinLoad /\ conf.run
  <2>1. \A u \in Threads : PhaseOps(u)' \in Nat
    <3>1. conf' \in Configs
      BY <1>1, <1>2 DEF BarrierTypes
    <3>2. /\ conf'.ops \in Nat /\ NumThreads \in Nat \ {0}
          /\ conf'.records \in Nat
      BY <3>1, RunAssumption DEF ConfigType
    <3>3. /\ conf'.records \div NumThreads \in Nat
          /\ conf'.ops \div NumThreads \in Nat
      BY <3>2, Division
    <3>4. QED
      BY <3>3 DEF PhaseOps, Share
  <2>2. QED
    BY <1>6, <2>1, MainFrame DEF OperationsInv
<1>7. CASE (JoinLoad /\ ~conf.run) \/ JoinRun
  <2>1. /\ UNCHANGED <<pc, index>>
        /\ \A u \in Threads : PhaseOps(u)' = PhaseOps(u)
    BY <1>1, <1>2, <1>7, MainFrame DEF PhaseOps, StageInv
  <2>2. QED
    BY <1>1, <2>1 DEF OperationsInv
<1>8. QED
  BY <1>4, <1>5, <1>6, <1>7, NextSplit

\* The latches count the threads that came to them, in every phase anew.
LEMMA LatchStep ==
  ASSUME RunInv, [Next]_vars
  PROVE  LatchInv'
<1>1. BarrierTypes /\ BarrierInv /\ LatchInv
  BY DEF RunInv, MeasurementInv
<1>2. ASSUME NEW t \in Threads, Client(t) PROVE LatchInv'
  <2>1. Move(t)
    BY <1>1, <1>2, ClientMoves
  <2>2. \A u \in Threads : u # t => pc'[u] = pc[u]
    BY <1>1, <1>2, OthersStay
  <2>3. pc[t] # "ended" /\ pc'[t] # "start"
    BY <2>1 DEF Move
  <2>4. \A u \in warmupCounted' : pc'[u] # "start"
    <3>1. warmupCounted' \subseteq warmupCounted \cup {t}
      BY <1>1, <1>2, ClientFrame DEF warmupLatch, WarmupDone, W!CountDown
    <3>2. QED
      BY <1>1, <2>2, <2>3, <3>1 DEF LatchInv, BarrierTypes
  <2>5. CASE UNCHANGED phaseLatch /\ pc'[t] # "ended"
    <3>1. \A u \in Threads : pc'[u] = "ended" <=> pc[u] = "ended"
      BY <2>2, <2>3, <2>5
    <3>2. QED
      BY <1>1, <2>4, <2>5, <3>1 DEF LatchInv, phaseLatch
  <2>6. CASE Finish(t)
    <3>1. /\ pc'[t] = "ended"
          /\ latchCount' = latchCount - 1
          /\ latchCounted' = latchCounted \cup {t}
      BY <1>1, <2>6 DEF Finish, Goto, L!CountDown, BarrierTypes
    <3>2. latchCounted' = {u \in Threads : pc'[u] = "ended"}
      BY <1>1, <2>2, <3>1 DEF LatchInv
    <3>3. IsFiniteSet(latchCounted)
      BY <1>1, ThreadsFinite, FS_Subset DEF LatchInv
    <3>4. /\ Cardinality(latchCounted') = Cardinality(latchCounted) + 1
          /\ Cardinality(latchCounted) \in Nat
      BY <1>1, <2>3, <3>1, <3>3, FS_AddElement, FS_CardinalityType
         DEF LatchInv
    <3>5. latchCount' = NumThreads - Cardinality(latchCounted')
      <4>1. /\ latchCount = NumThreads - Cardinality(latchCounted)
            /\ NumThreads \in Nat
        BY <1>1, RunAssumption DEF LatchInv
      <4>2. QED
        BY <3>1, <3>4, <4>1
    <3>6. QED
      BY <2>4, <3>2, <3>5 DEF LatchInv
  <2>7. QED
    BY <1>1, <1>2, <2>5, <2>6, ClientFrame
<1>3. CASE Aside
  BY <1>1, <1>3, AsideFrame DEF LatchInv
<1>4. CASE JoinLoad
  <2>1. warmupCounted = {}
    BY <1>1, <1>4, MainFrame DEF BarrierInv
  <2>2. CASE conf.run
    <3>1. NumThreads = NumThreads - Cardinality({})
      BY FS_EmptySet, RunAssumption
    <3>2. QED
      BY <1>4, <2>1, <2>2, <3>1, MainFrame DEF LatchInv
  <2>3. CASE ~conf.run
    BY <1>1, <1>4, <2>3, MainFrame DEF LatchInv
  <2>4. QED
    BY <2>2, <2>3
<1>5. CASE JoinRun
  BY <1>1, <1>5, MainFrame DEF LatchInv
<1>6. QED
  BY <1>2, <1>3, <1>4, <1>5, NextSplit

\* When the latch of a phase is down, its threads have ended.
LEMMA LatchDown ==
  ASSUME LatchInv, latchCount <= 0
  PROVE  \A t \in Threads : pc[t] = "ended"
<1>1. latchCounted \subseteq Threads
  BY DEF LatchInv
<1>2. IsFiniteSet(latchCounted) /\ Cardinality(latchCounted) \in Nat
  BY <1>1, ThreadsFinite, FS_Subset, FS_CardinalityType
<1>3. Cardinality(latchCounted) >= Cardinality(Threads)
  BY <1>2, ThreadsFinite, RunAssumption DEF LatchInv
<1>4. latchCounted = Threads
  BY <1>1, <1>2, <1>3, ThreadsFinite, FS_Subset, RunAssumption
<1>5. QED
  BY <1>4 DEF LatchInv

\* The status thread ends a phase with a message printed after its last report.
LEMMA StatusStep ==
  ASSUME RunInv, [Next]_vars
  PROVE  StatusInv'
<1>1. BarrierTypes /\ LatchInv /\ StatusInv /\ RunTypes
  BY DEF RunInv, MeasurementInv
<1>2. ASSUME NEW t \in Threads, Client(t) PROVE StatusInv'
  <2>1. ~(latchCount <= 0)
    <3>1. pc[t] # "ended"
      BY <1>1, <1>2, ClientMoves DEF Move
    <3>2. QED
      BY <1>1, <3>1, LatchDown
  <2>2. ~statusDone /\ UNCHANGED <<stage, status, statusDone>>
    BY <1>1, <1>2, <2>1, ClientMoves DEF StatusInv
  <2>3. QED
    BY <1>1, <2>2 DEF StatusInv
<1>3. CASE PrintStatus
  <2>1. /\ statusSeen' = warmed + measured
        /\ status' = IF statusDone THEN "ended" ELSE "polling"
        /\ UNCHANGED <<stage, latchCount, warmed, measured, statusDone>>
    BY <1>3 DEF PrintStatus, phaseLatch, reports
  <2>2. QED
    BY <1>1, <2>1 DEF StatusInv
<1>4. CASE PollTimeout
  BY <1>1, <1>4 DEF PollTimeout, phaseLatch, reports, StatusInv
<1>5. CASE PollDone
  <2>1. /\ latchCount <= 0 /\ status' = "printing" /\ statusDone' = TRUE
        /\ latchCount' = latchCount
    BY <1>5 DEF PollDone, L!Pass
  <2>2. QED
    BY <2>1 DEF StatusInv
<1>6. CASE (\E t \in Threads : Throw(t)) \/ UNCHANGED vars
  <2>1. UNCHANGED <<stage, latchCount, warmed, measured, status, statusDone,
                    statusSeen>>
    BY <1>6 DEF Throw, vars, phaseLatch, reports, statusVars
  <2>2. QED
    BY <1>1, <2>1 DEF StatusInv
<1>7. CASE JoinLoad \/ JoinRun
  BY <1>1, <1>7, MainFrame DEF StatusInv
<1>8. QED
  BY <1>2, <1>3, <1>4, <1>5, <1>6, <1>7, NextSplit DEF Aside, Status

\* Without a load phase the warmup operations are all reported as warmup.
LEMMA WarmupStep ==
  ASSUME RunInv, [Next]_vars
  PROVE  WarmupInv'
<1>1. BarrierTypes /\ WarmupInv /\ RunTypes
  BY DEF RunInv, MeasurementInv
<1>2. conf' = conf
  BY <1>1, NextSplit, ClientMoves, AsideFrame, MainFrame
<1>3. \A u \in Threads : /\ WarmupShare(u)' = WarmupShare(u)
                         /\ WarmupShare(u) \in Nat /\ index[u] \in Nat
                         /\ opCount[u] \in Nat
  BY <1>1, <1>2, WarmupShareType DEF WarmupShare, BarrierTypes, RunTypes
<1>4. CASE conf.load
  BY <1>2, <1>4 DEF WarmupInv
<1>5. ASSUME ~conf.load, NEW t \in Threads, Client(t) PROVE WarmupInv'
  <2>1. stage' = stage /\ Move(t)
    BY <1>1, <1>5, ClientMoves
  <2>2. \A u \in Threads : u # t => index'[u] = index[u]
    BY <1>1, <1>5, OthersStay
  <2>3. stage # "load" /\ ~polluted
        /\ \A u \in Threads : InWarmup(u) => opCount[u] <= index[u]
    BY <1>1, <1>5 DEF WarmupInv
  <2>4. CASE UNCHANGED reports
    <3>1. index'[t] >= index[t] /\ index'[t] \in Nat
      BY <1>3, <2>1 DEF Move
    <3>2. \A u \in Threads : InWarmup(u)' => opCount'[u] <= index'[u]
      BY <1>3, <2>1, <2>2, <2>3, <2>4, <3>1 DEF InWarmup, Loading, reports
    <3>3. QED
      BY <2>1, <2>3, <2>4, <3>2 DEF WarmupInv, reports
  <2>5. CASE ReportOperation(t) /\ pc[t] \in {"op", "modify"}
    <3>1. opCount' = [opCount EXCEPT ![t] = opCount[t] + 1]
      BY <2>5 DEF ReportOperation
    <3>2. \A u \in Threads :
            opCount'[u] = IF u = t THEN opCount[u] + 1 ELSE opCount[u]
      BY <1>1, <3>1 DEF RunTypes
    <3>3. InWarmup(t) => opCount[t] < conf.warmup
      <4>1. conf.warmup \in Nat /\ NumThreads \in Nat \ {0}
        BY <1>1, RunAssumption DEF BarrierTypes, ConfigType
      <4>2. WarmupShare(t) <= conf.warmup
        BY <4>1, ShareBelow DEF Threads, WarmupShare
      <4>3. QED
        BY <1>3, <2>3, <4>1, <4>2 DEF InWarmup
    <3>4. ~polluted'
      BY <2>3, <2>5, <3>3 DEF ReportOperation
    <3>5. InWarmup(t)' => /\ index'[t] = index[t] + 1
                          /\ InWarmup(t)
      <4>1. CASE index'[t] = index[t] + 1
        BY <1>3, <2>1, <4>1 DEF InWarmup, Loading
      <4>2. CASE index'[t] # index[t] + 1
        BY <1>3, <2>1, <2>5, <4>2 DEF InWarmup, Loading, Move
      <4>3. QED
        BY <4>1, <4>2
    <3>6. \A u \in Threads : u # t => (InWarmup(u)' <=> InWarmup(u))
      BY <1>3, <2>1, <2>2 DEF InWarmup, Loading
    <3>7. \A u \in Threads : InWarmup(u)' => opCount'[u] <= index'[u]
      BY <1>3, <2>2, <2>3, <3>2, <3>5, <3>6
    <3>8. QED
      BY <2>1, <2>3, <3>4, <3>7 DEF WarmupInv
  <2>6. QED
    BY <1>1, <1>5, <2>4, <2>5, ClientFrame
<1>6. CASE ~conf.load /\ Aside
  <2>1. /\ UNCHANGED <<stage, index, opCount, polluted>>
        /\ \A u \in Threads : InWarmup(u)' <=> InWarmup(u)
    BY <1>3, <1>6, AsideFrame DEF InWarmup, Loading
  <2>2. QED
    BY <1>1, <1>2, <2>1 DEF WarmupInv
<1>7. CASE ~conf.load /\ (JoinLoad \/ JoinRun)
  <2>1. /\ JoinRun /\ stage # "load" /\ stage' = "done"
        /\ UNCHANGED <<index, opCount, polluted>>
    BY <1>1, <1>7, MainFrame DEF WarmupInv
  <2>2. \A u \in Threads : InWarmup(u)' <=> InWarmup(u)
    BY <1>3, <2>1 DEF InWarmup, Loading
  <2>3. QED
    BY <1>1, <1>2, <2>1, <2>2 DEF WarmupInv
<1>8. QED
  BY <1>4, <1>5, <1>6, <1>7, NextSplit

\* The connected clients are finitely many.
LEMMA ConnectedFinite ==
  IsFiniteSet(H!Connected) /\ Cardinality(H!Connected) \in Nat
<1>1. H!Connected \subseteq Threads
  BY DEF H!Connected
<1>2. QED
  BY <1>1, ThreadsFinite, FS_Subset, FS_CardinalityType

\* A client is connected from its Init to its Cleanup, and counted.
LEMMA UserStep ==
  ASSUME RunInv, [Next]_vars
  PROVE  UserInv'
<1>1. BarrierTypes /\ RunTypes /\ StageInv /\ UserInv
  BY DEF RunInv, MeasurementInv
<1>2. ASSUME NEW t \in Threads, Client(t) PROVE UserInv'
  <2>1. Move(t) /\ (InitFlag' <=> InitFlag) /\ (CleanupFlag' <=> CleanupFlag)
    BY <1>1, <1>2, ClientMoves DEF InitFlag, CleanupFlag, Loading
  <2>2. \A u \in Threads : u # t => pc'[u] = pc[u]
    BY <1>1, <1>2, OthersStay
  <2>3. /\ refCnt = Cardinality(H!Connected)
        /\ \A u \in Threads :
             user[u] = IF pc[u] = "start" /\ InitFlag THEN "new"
                       ELSE IF pc[u] \in {"leaving", "ended"} /\ CleanupFlag
                       THEN "finished" ELSE "connected"
    BY <1>1 DEF UserInv
  <2>4. CASE /\ UNCHANGED handleVars
             /\ pc[t] = "start" => ~InitFlag
             /\ pc'[t] = "leaving" => ~CleanupFlag
    <3>1. refCnt' = Cardinality(H!Connected')
      BY <2>3, <2>4 DEF handleVars, H!Connected
    <3>2. user'[t] = IF pc'[t] = "start" /\ InitFlag THEN "new"
                     ELSE IF pc'[t] \in {"leaving", "ended"} /\ CleanupFlag
                     THEN "finished" ELSE "connected"
      BY <2>1, <2>3, <2>4 DEF handleVars, Move
    <3>3. QED
      BY <2>1, <2>2, <2>3, <2>4, <3>1, <3>2 DEF UserInv, handleVars
  <2>5. CASE Start(t) /\ InitFlag /\ H!InitDB(t)
    <3>1. /\ pc'[t] = "loop" /\ user[t] = "new"
          /\ user' = [user EXCEPT ![t] = "connected"]
          /\ refCnt' = refCnt + 1
      BY <1>1, <2>5 DEF Start, Goto, H!InitDB, BarrierTypes
    <3>2. /\ t \notin H!Connected
          /\ H!Connected' = H!Connected \cup {t}
      BY <1>1, <3>1 DEF H!Connected, RunTypes
    <3>3. refCnt' = Cardinality(H!Connected')
      BY <2>3, <3>1, <3>2, ConnectedFinite, FS_AddElement
    <3>4. \A u \in Threads :
            user'[u] = IF u = t THEN "connected" ELSE user[u]
      BY <1>1, <3>1 DEF RunTypes
    <3>5. QED
      BY <2>1, <2>2, <2>3, <3>1, <3>3, <3>4 DEF UserInv
  <2>6. CASE LeaveDB(t) /\ CleanupFlag /\ H!CleanupDB(t)
    <3>1. /\ pc'[t] = "leaving" /\ user[t] = "connected"
          /\ user' = [user EXCEPT ![t] = "finished"]
          /\ refCnt' = refCnt - 1
      BY <1>1, <2>6 DEF LeaveDB, Goto, H!CleanupDB, BarrierTypes
    <3>2. /\ t \in H!Connected
          /\ H!Connected' = H!Connected \ {t}
      BY <1>1, <3>1 DEF H!Connected, RunTypes
    <3>3. refCnt' = Cardinality(H!Connected')
      BY <2>3, <3>1, <3>2, ConnectedFinite, FS_RemoveElement
    <3>4. \A u \in Threads :
            user'[u] = IF u = t THEN "finished" ELSE user[u]
      BY <1>1, <3>1 DEF RunTypes
    <3>5. QED
      BY <2>1, <2>2, <2>3, <2>6, <3>1, <3>3, <3>4 DEF UserInv
  <2>7. QED
    BY <1>1, <1>2, <2>4, <2>5, <2>6, ClientFrame
<1>3. ASSUME UNCHANGED <<refCnt, user>>,
             \A u \in Threads :
               (IF pc'[u] = "start" /\ InitFlag' THEN "new"
                ELSE IF pc'[u] \in {"leaving", "ended"} /\ CleanupFlag'
                THEN "finished" ELSE "connected") =
               (IF pc[u] = "start" /\ InitFlag THEN "new"
                ELSE IF pc[u] \in {"leaving", "ended"} /\ CleanupFlag
                THEN "finished" ELSE "connected")
      PROVE  UserInv'
  <2>1. H!Connected' = H!Connected
    BY <1>3 DEF H!Connected
  <2>2. QED
    BY <1>1, <1>3, <2>1 DEF UserInv
<1>4. CASE Aside
  BY <1>3, <1>4, AsideFrame DEF InitFlag, CleanupFlag, Loading
<1>5. CASE JoinLoad \/ JoinRun
  BY <1>1, <1>3, <1>5, MainFrame DEF InitFlag, CleanupFlag, Loading, StageInv
<1>6. QED
  BY <1>2, <1>4, <1>5, NextSplit

\* With an operation left for everyone after the warmup, no client leaves the
\* database in the transaction phase before the last has come.
LEMMA AllComeFirst ==
  ASSUME RunInv, conf.run, EveryoneMeasures(conf), CleanupFlag,
         NEW t \in Threads, pc[t] \in {"leaving", "ended"}
  PROVE  \A u \in Threads : pc[u] # "start"
<1>1. MeasurementInv /\ BarrierTypes /\ StageInv
  BY DEF RunInv, MeasurementInv
<1>2. CASE stage = "done"
  BY <1>1, <1>2 DEF StageInv
<1>3. CASE stage # "done"
  <2>1. stage = "run"
    BY <1>1, <1>3 DEF CleanupFlag, Loading, BarrierTypes
  <2>2. index[t] = Share(conf.ops, NumThreads, t)
    BY <2>1 DEF RunInv, OperationsInv, PhaseOps
  <2>3. index[t] > WarmupShare(t)
    BY <1>1, <2>2, WarmupShareType
       DEF EveryoneMeasures, WarmupShare, BarrierTypes
  <2>4. started
    BY <1>1, <2>1, <2>3 DEF MeasurementInv, PastWarmupInv
  <2>5. warmupCounted = Threads
    BY <1>1, <2>4, CountedFinite DEF MeasurementInv, ElectionInv
  <2>6. QED
    BY <2>5 DEF RunInv, LatchInv
<1>4. QED
  BY <1>2, <1>3

\* The handle stays open for whoever is connected, however Init() decides.
LEMMA HandleStep ==
  ASSUME RunInv, [Next]_vars
  PROVE  HandleInv'
<1>1. BarrierTypes /\ RunTypes /\ UserInv /\ HandleInv
  BY DEF RunInv, MeasurementInv
<1>2. conf' = conf /\ UserInv'
  BY <1>1, NextSplit, ClientMoves, AsideFrame, MainFrame, UserStep
<1>3. SUFFICES ASSUME conf.run, EveryoneMeasures(conf)
               PROVE  /\ H!Connected' # {} => handle' = "open"
                      /\ (\A u \in Threads : user'[u] = "new") =>
                           handle' = "null"
  BY <1>2 DEF HandleInv, EveryoneMeasures
<1>4. /\ H!Connected # {} => handle = "open"
      /\ (\A u \in Threads : user[u] = "new") => handle = "null"
  BY <1>1, <1>3 DEF HandleInv
<1>5. CASE UNCHANGED <<refCnt, handle, user>>
  BY <1>4, <1>5 DEF H!Connected
<1>6. ASSUME NEW t \in Threads, Start(t), InitFlag, H!InitDB(t)
      PROVE  handle' = "open" /\ user'[t] = "connected"
  <2>1. pc[t] = "start" /\ user[t] = "new"
        /\ user' = [user EXCEPT ![t] = "connected"]
        /\ handle' = IF H!MustOpen THEN "open" ELSE handle
    BY <1>6 DEF Start, Goto, H!InitDB
  <2>2. \A u \in Threads : user[u] # "finished"
    BY <1>1, <1>3, <2>1, AllComeFirst DEF UserInv
  <2>3. CASE H!Connected # {}
    BY <1>1, <1>4, <2>1, <2>3 DEF RunTypes
  <2>4. CASE H!Connected = {}
    <3>1. \A u \in Threads : user[u] = "new"
      BY <1>1, <2>2, <2>4 DEF H!Connected, RunTypes
    <3>2. handle = "null" /\ refCnt = 0
      BY <1>1, <1>4, <2>4, <3>1, FS_EmptySet DEF UserInv
    <3>3. QED
      BY <1>1, <2>1, <3>2 DEF H!MustOpen, RunTypes
  <2>5. QED
    BY <2>3, <2>4
<1>7. ASSUME NEW t \in Threads, H!CleanupDB(t)
      PROVE  /\ H!Connected' # {} => handle' = "open"
             /\ user'[t] # "new"
  <2>1. /\ user[t] = "connected" /\ user'[t] = "finished"
        /\ handle' = IF refCnt' = 0 THEN "deleted" ELSE handle
    BY <1>1, <1>7 DEF H!CleanupDB, RunTypes
  <2>2. handle = "open"
    BY <1>4, <2>1 DEF H!Connected
  <2>3. ASSUME H!Connected' # {} PROVE refCnt' # 0
    <3>1. H!Connected' \subseteq Threads
      BY DEF H!Connected
    <3>2. IsFiniteSet(H!Connected')
      BY <3>1, ThreadsFinite, FS_Subset
    <3>3. QED
      BY <1>2, <2>3, <3>2, FS_EmptySet DEF UserInv
  <2>4. QED
    BY <2>1, <2>2, <2>3
<1>8. ASSUME NEW t \in Threads, Client(t)
      PROVE  /\ H!Connected' # {} => handle' = "open"
             /\ (\A u \in Threads : user'[u] = "new") => handle' = "null"
  BY <1>1, <1>5, <1>6, <1>7, <1>8, ClientFrame DEF handleVars
<1>9. CASE Aside \/ JoinLoad \/ JoinRun
  BY <1>5, <1>9, AsideFrame, MainFrame
<1>10. QED
  BY <1>8, <1>9, NextSplit

\* The other variables keep their types.
LEMMA RunTypesStep ==
  ASSUME RunInv, [Next]_vars
  PROVE  RunTypes'
<1>1. BarrierTypes /\ RunTypes
  BY DEF RunInv, MeasurementInv
<1>2. ASSUME NEW t \in Threads, ReportOperation(t)
      PROVE  /\ opCount' \in [Threads -> Nat] /\ warmed' \in Nat
             /\ measured' \in Nat /\ polluted' \in BOOLEAN
  <2>1. polluted' = polluted \/ polluted' = (polluted \/ InWarmup(t))
    BY <1>2 DEF ReportOperation
  <2>2. polluted' \in BOOLEAN
    BY <1>1, <2>1 DEF RunTypes
  <2>3. QED
    BY <1>1, <1>2, <2>2 DEF ReportOperation, RunTypes
<1>3. ASSUME NEW t \in Threads, Client(t) PROVE RunTypes'
  <2>1. UNCHANGED <<status, statusDone, statusSeen, exited, latchPassed>>
    BY <1>1, <1>3, ClientMoves
  <2>2. /\ opCount' \in [Threads -> Nat] /\ warmed' \in Nat
        /\ measured' \in Nat /\ polluted' \in BOOLEAN
    <3>1. CASE UNCHANGED reports
      BY <1>1, <3>1 DEF reports, RunTypes
    <3>2. CASE ReportOperation(t)
      BY <1>2, <3>2
    <3>3. QED
      BY <1>1, <1>3, <3>1, <3>2, ClientFrame
  <2>3. /\ handle' \in {"null", "open", "deleted"}
        /\ user' \in [Threads -> {"new", "connected", "finished"}]
    <3>1. UNCHANGED handleVars \/ H!InitDB(t) \/ H!CleanupDB(t)
      BY <1>1, <1>3, ClientFrame
    <3>2. QED
      BY <1>1, <3>1 DEF handleVars, H!InitDB, H!CleanupDB, RunTypes
  <2>4. warmupPassed' \subseteq Threads
    <3>1. warmupPassed' = warmupPassed \/ warmupPassed' = warmupPassed \cup {t}
      BY <1>1, <1>3, ClientFrame DEF warmupLatch, WarmupDone, W!CountDown
    <3>2. QED
      BY <1>1, <3>1 DEF RunTypes
  <2>5. QED
    BY <1>1, <2>1, <2>2, <2>3, <2>4 DEF RunTypes
<1>4. CASE Aside
  <2>1. /\ UNCHANGED <<opCount, warmed, measured, polluted, warmupPassed,
                      handle, user>>
        /\ exited' = exited \/ exited' = TRUE
    BY <1>4, AsideFrame
  <2>2. /\ latchPassed' \subseteq {StatusThread}
        /\ status' \in {"off", "printing", "polling", "ended"}
        /\ statusDone' \in BOOLEAN /\ statusSeen' \in Nat
    <3>1. CASE PrintStatus
      BY <1>1, <3>1 DEF PrintStatus, RunTypes, phaseLatch
    <3>2. CASE PollTimeout
      BY <1>1, <3>2 DEF PollTimeout, RunTypes, phaseLatch
    <3>3. CASE PollDone
      BY <1>1, <3>3 DEF PollDone, L!Pass, RunTypes
    <3>4. CASE (\E t \in Threads : Throw(t)) \/ UNCHANGED vars
      BY <1>1, <3>4 DEF Throw, vars, phaseLatch, statusVars, RunTypes
    <3>5. QED
      BY <1>4, <3>1, <3>2, <3>3, <3>4 DEF Aside, Status
  <2>3. QED
    BY <1>1, <2>1, <2>2 DEF RunTypes
<1>5. CASE JoinLoad \/ JoinRun
  <2>1. /\ UNCHANGED <<opCount, polluted, warmupPassed, handle, user, exited>>
        /\ warmed' = 0 \/ warmed' = warmed
        /\ measured' = 0 \/ measured' = measured
        /\ latchPassed' = {} \/ latchPassed' = latchPassed
        /\ status' \in {"printing", "off"} \/ status' = status
        /\ statusDone' = FALSE \/ statusDone' = statusDone
        /\ statusSeen' = 0 \/ statusSeen' = statusSeen
    BY <1>5, MainFrame
  <2>2. statusDone' \in BOOLEAN /\ exited' \in BOOLEAN /\ polluted' \in BOOLEAN
    BY <1>1, <2>1 DEF RunTypes
  <2>3. /\ opCount' \in [Threads -> Nat]
        /\ warmed' \in Nat /\ measured' \in Nat /\ statusSeen' \in Nat
        /\ latchPassed' \subseteq {StatusThread}
        /\ warmupPassed' \subseteq Threads
    BY <1>1, <2>1 DEF RunTypes
  <2>4. QED
    BY <1>1, <2>1, <2>2, <2>3 DEF RunTypes
<1>6. QED
  BY <1>3, <1>4, <1>5, NextSplit

-----------------------------------------------------------------------------
(***************************************************************************)
(* What holds of the whole run.                                            *)
(***************************************************************************)

\* The invariant of the whole run holds when main() begins.
LEMMA InitRun == Init => RunInv
<1> SUFFICES ASSUME Init PROVE RunInv
  OBVIOUS
<1>1. MeasurementInv /\ BarrierTypes
  BY InitMeasurement DEF MeasurementInv
<1>2. /\ pc = [t \in Threads |-> "start"]
      /\ index = [t \in Threads |-> 0]
      /\ opCount = [t \in Threads |-> 0]
      /\ user = [t \in Threads |-> "new"]
      /\ warmed = 0 /\ measured = 0 /\ statusSeen = 0 /\ refCnt = 0
      /\ polluted = FALSE /\ exited = FALSE /\ statusDone = FALSE
      /\ latchCount = NumThreads /\ latchCounted = {} /\ latchPassed = {}
      /\ warmupCounted = {} /\ warmupPassed = {}
      /\ status \in {"printing", "off"} /\ handle = "null"
      /\ conf \in Configs
      /\ stage = IF conf.load THEN "load" ELSE "run"
  BY DEF Init, L!LInit, W!LInit, H!HInit
<1>3. RunTypes
  BY <1>2 DEF RunTypes
<1>4. StageInv
  BY <1>2, RunAssumption DEF StageInv
<1>5. OperationsInv
  <2>1. \A t \in Threads : PhaseOps(t) \in Nat
    BY <1>1, <1>4, PhaseOpsType
  <2>2. QED
    BY <1>2, <2>1 DEF OperationsInv
<1>6. LatchInv
  <2>1. NumThreads = NumThreads - Cardinality({})
    BY FS_EmptySet, RunAssumption
  <2>2. QED
    BY <1>2, <2>1 DEF LatchInv
<1>7. StatusInv
  BY <1>2 DEF StatusInv
<1>8. WarmupInv
  BY <1>1, <1>2, WarmupShareType DEF WarmupInv, InWarmup
<1>9. UserInv /\ HandleInv
  <2>1. H!Connected = {} /\ InitFlag
    BY <1>2 DEF H!Connected, InitFlag, Loading
  <2>2. QED
    BY <1>2, <2>1, FS_EmptySet DEF UserInv, HandleInv
<1>10. QED
  BY <1>1, <1>3, <1>4, <1>5, <1>6, <1>7, <1>8, <1>9 DEF RunInv

\* Every step preserves it.
LEMMA RunStep == RunInv /\ [Next]_vars => RunInv'
<1> SUFFICES ASSUME RunInv, [Next]_vars PROVE RunInv'
  OBVIOUS
<1>1. MeasurementInv'
  BY MeasurementStep DEF RunInv
<1>2. RunTypes' /\ StageInv' /\ OperationsInv' /\ LatchInv'
  BY RunTypesStep, StageStep, OperationsStep, LatchStep
<1>3. StatusInv' /\ WarmupInv' /\ UserInv' /\ HandleInv'
  BY StatusStep, WarmupStep, UserStep, HandleStep
<1>4. QED
  BY <1>1, <1>2, <1>3 DEF RunInv

\* It always holds.
LEMMA RunInvariance == Spec => []RunInv
  BY InitRun, RunStep, PTL DEF Spec

\* A latch that some of the threads have counted down stands between zero and
\* their number.
LEMMA LatchRange ==
  ASSUME NEW S, S \subseteq Threads
  PROVE  NumThreads - Cardinality(S) \in 0 .. NumThreads
<1>1. /\ Cardinality(S) \in Nat /\ Cardinality(S) <= NumThreads
      /\ NumThreads \in Nat
  BY ThreadsFinite, FS_Subset, FS_CardinalityType, RunAssumption
<1>2. QED
  BY <1>1

\* The variables keep their types: no latch falls below zero, no thread does
\* more than its share, and the reference count of the database never does
\* fall below zero either.
THEOREM TypeCorrect == Spec => []TypeOK
<1>1. RunInv => TypeOK
  <2> SUFFICES ASSUME RunInv PROVE TypeOK
    OBVIOUS
  <2>1. BarrierTypes /\ BarrierInv /\ RunTypes /\ StageInv /\ OperationsInv
        /\ LatchInv /\ UserInv
    BY DEF RunInv, MeasurementInv
  <2>2. warmupCount \in 0 .. NumThreads
    BY <2>1, LatchRange DEF BarrierTypes, BarrierInv
  <2>3. latchCounted \subseteq Threads /\ latchCount \in 0 .. NumThreads
    BY <2>1, LatchRange DEF LatchInv
  <2>4. stage # "done" => \A t \in Threads : index[t] <= NumOps(t)
    BY <2>1, PhaseOpsType DEF OperationsInv
  <2>5. H!HTypeOK
    BY <2>1, ConnectedFinite DEF H!HTypeOK, RunTypes, UserInv
  <2>6. QED
    BY <2>1, <2>2, <2>3, <2>4, <2>5 DEF TypeOK, BarrierTypes, RunTypes
<1>2. QED
  BY <1>1, RunInvariance, PTL

\* The last status message of a phase counts every report of that phase.
THEOREM StatusTheorem == Spec => []FinalStatusComplete
<1>1. RunInv => FinalStatusComplete
  BY DEF RunInv, StatusInv, FinalStatusComplete
<1>2. QED
  BY <1>1, RunInvariance, PTL

\* Without a load phase no warmup operation is taken for a measurement,
\* however the warmup is shared out.
THEOREM WarmupTheorem == Spec => []WarmupNotMeasured
<1>1. RunInv => WarmupNotMeasured
  BY DEF RunInv, WarmupInv, WarmupNotMeasured
<1>2. QED
  BY <1>1, RunInvariance, PTL

\* In the transaction phase, when everyone has something to measure, whoever
\* is connected works on an open database, whichever test Init() makes.
THEOREM OpenTheorem == Spec => []OpenDuringRun
<1>1. RunInv => OpenDuringRun
  BY DEF RunInv, StageInv, HandleInv, OpenDuringRun, H!Connected,
         H!HandleOpenWhileConnected
<1>2. QED
  BY <1>1, RunInvariance, PTL

\* The threads together have done exactly the operations asked for, or the
\* records of a load without a transaction phase.
THEOREM OperationsTheorem == Spec => []AllOperationsDone
<1>1. RunInv => AllOperationsDone
  <2> SUFFICES ASSUME RunInv, stage = "done"
               PROVE  SumFunctionOnSet(index, Threads) =
                        IF conf.run THEN conf.ops ELSE conf.records
    BY DEF AllOperationsDone
  <2> DEFINE all == IF conf.run THEN conf.ops ELSE conf.records
  <2>1. BarrierTypes /\ StageInv /\ OperationsInv
    BY DEF RunInv, MeasurementInv
  <2>2. \A t \in Threads : index[t] = Share(all, NumThreads, t)
    BY <2>1 DEF StageInv, OperationsInv, PhaseOps
  <2>3. all \in Nat /\ NumThreads \in Nat \ {0}
    BY <2>1, RunAssumption DEF BarrierTypes, ConfigType
  <2> HIDE DEF all
  <2>4. SumFunctionOnSet(index, 0 .. NumThreads - 1) = all
    BY <2>2, <2>3, SharesAddUp DEF Threads
  <2>5. QED
    BY <2>4 DEF all, Threads
<1>2. QED
  BY <1>1, RunInvariance, PTL
=============================================================================
