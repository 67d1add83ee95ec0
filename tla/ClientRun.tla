------------------------------ MODULE ClientRun ------------------------------
(***************************************************************************)
(* A run of the benchmark: main() of core/ycsbc.cc with its load and its   *)
(* transaction phase, the client threads of core/client.h, the status      *)
(* thread, the warmup barrier and the measurement timer, and the warmup    *)
(* accounting of core/db_wrapper.h.                                        *)
(*                                                                         *)
(* Composes Latch twice (the latch of a phase and the warmup latch) and    *)
(* DBHandle (the connection the threads' DB objects share).                *)
(***************************************************************************)
EXTENDS Integers, FiniteSets, Functions, OpShare

CONSTANTS NumThreads,   \* threadcount
          Configs,      \* the option sets of a run: doload, dotransaction,
                        \* recordcount, operationcount, warmup_ops, status,
                        \* and whether scanproportion is positive
          TestsHandle,  \* the binding's way to open the database
          MayFail       \* may a call of the binding throw?

ConfigType == [load : BOOLEAN, run : BOOLEAN, records : Nat, ops : Nat,
               warmup : Nat, status : BOOLEAN, scans : BOOLEAN]

ASSUME RunAssumption ==
  /\ NumThreads \in Nat \ {0}
  /\ TestsHandle \in BOOLEAN /\ MayFail \in BOOLEAN
  /\ \A c \in Configs :
        /\ c \in ConfigType
        /\ c.load \/ c.run
        /\ c.warmup <= c.ops
        /\ ~c.run => c.warmup = 0

Threads == 0 .. NumThreads - 1
StatusThread == NumThreads

VARIABLES conf,           \* the options of this run
          stage,          \* where main() is
          pc,             \* per thread: where it is in its client function
          index,          \* per thread: i, the operations done in this phase
          opCount,        \* per thread: operation_count_ of its DBWrapper
          warmed,         \* operations reported with ReportWarmup
          measured,       \* operations reported with Report
          latchCount, latchCounted, latchPassed,      \* latch of the phase
          warmupCount, warmupCounted, warmupPassed,   \* warmup_latch
          started,        \* measurement_started
          timerStarts,    \* history: calls of measurement_timer.Start()
          status,         \* where StatusThread is
          statusDone,     \* its local variable done
          statusSeen,     \* the total of the last message it printed
          refCnt, handle, user,                       \* see DBHandle
          exited,         \* a thread called exit(1)
          polluted        \* history: a warmup operation was measured

phaseLatch == <<latchCount, latchCounted, latchPassed>>
warmupLatch == <<warmupCount, warmupCounted, warmupPassed>>
reports == <<opCount, warmed, measured, polluted>>
timerVars == <<started, timerStarts>>
statusVars == <<status, statusDone, statusSeen>>
handleVars == <<refCnt, handle, user>>
vars == <<conf, stage, pc, index, reports, phaseLatch, warmupLatch, timerVars,
          statusVars, handleVars, exited>>

L == INSTANCE Latch WITH
       Parties <- Threads \cup {StatusThread}, Count <- NumThreads,
       count <- latchCount, counted <- latchCounted, passed <- latchPassed
W == INSTANCE Latch WITH
       Parties <- Threads, Count <- NumThreads,
       count <- warmupCount, counted <- warmupCounted, passed <- warmupPassed
H == INSTANCE DBHandle WITH Clients <- Threads

-----------------------------------------------------------------------------
Loading == stage = "load"
Active == stage \in {"load", "run"} /\ ~exited

\* thread_ops and the thread's share of warmup_ops
NumOps(t) ==
  Share(IF Loading THEN conf.records ELSE conf.ops, NumThreads, t)
WarmupShare(t) == Share(conf.warmup, NumThreads, t)

\* The arguments init_db and cleanup_db of the client functions
InitFlag == Loading \/ ~conf.load
CleanupFlag == ~Loading \/ ~conf.run

Init ==
  /\ conf \in Configs
  /\ stage = IF conf.load THEN "load" ELSE "run"
  /\ pc = [t \in Threads |-> "start"]
  /\ index = [t \in Threads |-> 0]
  /\ opCount = [t \in Threads |-> 0]
  /\ warmed = 0 /\ measured = 0 /\ polluted = FALSE
  /\ L!LInit /\ W!LInit
  /\ started = FALSE /\ timerStarts = 0
  /\ status = IF conf.status THEN "printing" ELSE "off"
  /\ statusDone = FALSE /\ statusSeen = 0
  /\ H!HInit
  /\ exited = FALSE

Goto(t, from, to) == pc[t] = from /\ pc' = [pc EXCEPT ![t] = to]

-----------------------------------------------------------------------------
(* The client functions. *)

\* db->Init(), if the thread is told to
Start(t) ==
  /\ Active
  /\ Goto(t, "start", "loop")
  /\ IF InitFlag THEN H!InitDB(t) ELSE UNCHANGED handleVars
  /\ UNCHANGED <<conf, stage, index, reports, phaseLatch, warmupLatch,
                 timerVars, statusVars, exited>>

\* Mutants: one operation too many, and no stop at the barrier
NextOpOneMore(t) ==
  /\ Active
  /\ index[t] <= NumOps(t)
  /\ Loading \/ index[t] # WarmupShare(t)
  /\ Goto(t, "loop", "op")
  /\ UNCHANGED <<conf, stage, index, reports, phaseLatch, warmupLatch,
                 timerVars, statusVars, handleVars, exited>>

NextOpNoBarrier(t) ==
  /\ Active
  /\ index[t] < NumOps(t)
  /\ Goto(t, "loop", "op")
  /\ UNCHANGED <<conf, stage, index, reports, phaseLatch, warmupLatch,
                 timerVars, statusVars, handleVars, exited>>

\* The loop goes on to operation i ...
NextOp(t) ==
  /\ Active
  /\ index[t] < NumOps(t)
  /\ Loading \/ index[t] # WarmupShare(t)
  /\ Goto(t, "loop", "op")
  /\ UNCHANGED <<conf, stage, index, reports, phaseLatch, warmupLatch,
                 timerVars, statusVars, handleVars, exited>>

\* ... unless i == warmup_ops: then it counts down the warmup latch, ...
WarmupDone(t) ==
  /\ Active
  /\ ~Loading /\ index[t] < NumOps(t) /\ index[t] = WarmupShare(t)
  /\ Goto(t, "loop", "awaiting")
  /\ W!CountDown(t)
  /\ UNCHANGED <<conf, stage, index, reports, phaseLatch, timerVars,
                 statusVars, handleVars, exited>>

\* Mutants: nobody waits, and a latch for one thread more
PassAtOnce(t) ==
  /\ Active
  /\ Goto(t, "awaiting", "electing")
  /\ UNCHANGED <<conf, stage, index, reports, phaseLatch, warmupLatch,
                 timerVars, statusVars, handleVars, exited>>

PassLate(t) ==
  /\ Active /\ warmupCount < 0
  /\ Goto(t, "awaiting", "electing")
  /\ W!Pass(t)
  /\ UNCHANGED <<conf, stage, index, reports, phaseLatch, timerVars,
                 statusVars, handleVars, exited>>

\* ... waits for the others, ...
PassBarrier(t) ==
  /\ Active
  /\ Goto(t, "awaiting", "electing")
  /\ W!Pass(t)
  /\ UNCHANGED <<conf, stage, index, reports, phaseLatch, timerVars,
                 statusVars, handleVars, exited>>

\* ... and competes to start the timer by compare_exchange_strong.
Elect(t) ==
  /\ Active
  /\ pc[t] = "electing"
  /\ started' = TRUE
  /\ pc' = [pc EXCEPT ![t] = IF started THEN "op" ELSE "starting"]
  /\ UNCHANGED <<conf, stage, index, reports, phaseLatch, warmupLatch,
                 timerStarts, statusVars, handleVars, exited>>

StartTimer(t) ==
  /\ Active
  /\ Goto(t, "starting", "op")
  /\ timerStarts' = timerStarts + 1
  /\ UNCHANGED <<conf, stage, index, reports, phaseLatch, warmupLatch,
                 started, statusVars, handleVars, exited>>

InWarmup(t) == ~Loading /\ index[t] < WarmupShare(t)

\* A mutant: the count is compared after it was incremented
ReportAfter(t) ==
  /\ opCount' = [opCount EXCEPT ![t] = @ + 1]
  /\ IF opCount[t] + 1 < conf.warmup
     THEN warmed' = warmed + 1 /\ UNCHANGED <<measured, polluted>>
     ELSE /\ measured' = measured + 1
          /\ polluted' = (polluted \/ InWarmup(t))
          /\ UNCHANGED warmed

\* A call of the DBWrapper, classified by its ReportOperation
ReportOperation(t) ==
  /\ opCount' = [opCount EXCEPT ![t] = @ + 1]
  /\ IF opCount[t] < conf.warmup
     THEN warmed' = warmed + 1 /\ UNCHANGED <<measured, polluted>>
     ELSE /\ measured' = measured + 1
          /\ polluted' = (polluted \/ InWarmup(t))
          /\ UNCHANGED warmed

\* DoInsert, or DoTransaction with one call of the database
Operate(t) ==
  /\ Active
  /\ Goto(t, "op", "loop")
  /\ index' = [index EXCEPT ![t] = @ + 1]
  /\ ReportOperation(t)
  /\ UNCHANGED <<conf, stage, phaseLatch, warmupLatch, timerVars, statusVars,
                 handleVars, exited>>

\* Without scans warmup_op_chooser_ is empty: its Next answers an uninitialised
\* value, and for most values the warmup operation is none.
SkipWarmup(t) ==
  /\ Active
  /\ InWarmup(t) /\ ~conf.scans
  /\ Goto(t, "op", "loop")
  /\ index' = [index EXCEPT ![t] = @ + 1]
  /\ UNCHANGED <<conf, stage, reports, phaseLatch, warmupLatch, timerVars,
                 statusVars, handleVars, exited>>

\* The Read of TransactionReadModifyWrite, which warmup never chooses
ReadToModify(t) ==
  /\ Active
  /\ ~Loading /\ ~InWarmup(t)
  /\ Goto(t, "op", "modify")
  /\ ReportOperation(t)
  /\ UNCHANGED <<conf, stage, index, phaseLatch, warmupLatch, timerVars,
                 statusVars, handleVars, exited>>

\* ... and its Update
WriteModified(t) ==
  /\ Active
  /\ Goto(t, "modify", "loop")
  /\ index' = [index EXCEPT ![t] = @ + 1]
  /\ ReportOperation(t)
  /\ UNCHANGED <<conf, stage, phaseLatch, warmupLatch, timerVars, statusVars,
                 handleVars, exited>>

\* After the loop: db->Cleanup(), if the thread is told to, ...
LeaveDB(t) ==
  /\ Active
  /\ index[t] >= NumOps(t)
  /\ Goto(t, "loop", "leaving")
  /\ IF CleanupFlag THEN H!CleanupDB(t) ELSE UNCHANGED handleVars
  /\ UNCHANGED <<conf, stage, index, reports, phaseLatch, warmupLatch,
                 timerVars, statusVars, exited>>

\* ... latch->CountDown() and return
Finish(t) ==
  /\ Active
  /\ Goto(t, "leaving", "ended")
  /\ L!CountDown(t)
  /\ UNCHANGED <<conf, stage, index, reports, warmupLatch, timerVars,
                 statusVars, handleVars, exited>>

\* A call of the binding throws utils::Exception: exit(1).
Throw(t) ==
  /\ Active /\ MayFail
  /\ \/ pc[t] = "start" /\ InitFlag
     \/ pc[t] \in {"op", "modify"}
     \/ pc[t] = "loop" /\ index[t] >= NumOps(t) /\ CleanupFlag
  /\ exited' = TRUE
  /\ UNCHANGED <<conf, stage, pc, index, reports, phaseLatch, warmupLatch,
                 timerVars, statusVars, handleVars>>

-----------------------------------------------------------------------------
(* StatusThread. *)

\* GetStatusMsg, and out of the loop if the latch was down before it
PrintStatus ==
  /\ Active
  /\ status = "printing"
  /\ statusSeen' = warmed + measured
  /\ status' = IF statusDone THEN "ended" ELSE "polling"
  /\ UNCHANGED <<conf, stage, pc, index, reports, phaseLatch, warmupLatch,
                 timerVars, statusDone, handleVars, exited>>

\* latch->AwaitFor(interval) times out ...
PollTimeout ==
  /\ Active
  /\ status = "polling" /\ latchCount > 0
  /\ status' = "printing"
  /\ UNCHANGED <<conf, stage, pc, index, reports, phaseLatch, warmupLatch,
                 timerVars, statusDone, statusSeen, handleVars, exited>>

\* A mutant: the loop ends without a last message
PollDoneSilent ==
  /\ Active
  /\ status = "polling"
  /\ L!Pass(StatusThread)
  /\ status' = "ended"
  /\ statusDone' = TRUE
  /\ UNCHANGED <<conf, stage, pc, index, reports, warmupLatch, timerVars,
                 statusSeen, handleVars, exited>>

\* ... or answers true.
PollDone ==
  /\ Active
  /\ status = "polling"
  /\ L!Pass(StatusThread)
  /\ status' = "printing"
  /\ statusDone' = TRUE
  /\ UNCHANGED <<conf, stage, pc, index, reports, warmupLatch, timerVars,
                 statusSeen, handleVars, exited>>

-----------------------------------------------------------------------------
(* main(). *)

AllJoined ==
  /\ \A t \in Threads : pc[t] = "ended"
  /\ status \in {"off", "ended"}

\* The load threads have ended: measurements->Reset(), and the transaction
\* phase begins, with new latches and threads, if it is asked for.
JoinLoad ==
  /\ Active
  /\ stage = "load" /\ AllJoined
  /\ warmed' = 0 /\ measured' = 0
  /\ UNCHANGED <<conf, opCount, polluted, warmupLatch, timerVars, handleVars,
                 exited>>
  /\ IF conf.run
     THEN /\ stage' = "run"
          /\ pc' = [t \in Threads |-> "start"]
          /\ index' = [t \in Threads |-> 0]
          /\ latchCount' = NumThreads
          /\ latchCounted' = {} /\ latchPassed' = {}
          /\ status' = IF conf.status THEN "printing" ELSE "off"
          /\ statusDone' = FALSE /\ statusSeen' = 0
     ELSE stage' = "done" /\ UNCHANGED <<pc, index, phaseLatch, statusVars>>

\* The threads of the transaction phase have ended.
JoinRun ==
  /\ Active
  /\ stage = "run" /\ AllJoined
  /\ stage' = "done"
  /\ UNCHANGED <<conf, pc, index, reports, phaseLatch, warmupLatch, timerVars,
                 statusVars, handleVars, exited>>

\* The process is gone.
Gone == ~Active /\ UNCHANGED vars

Client(t) ==
  \/ Start(t) \/ NextOp(t) \/ WarmupDone(t) \/ PassBarrier(t) \/ Elect(t)
  \/ StartTimer(t) \/ Operate(t) \/ SkipWarmup(t) \/ ReadToModify(t)
  \/ WriteModified(t) \/ LeaveDB(t) \/ Finish(t)
Status == PrintStatus \/ PollTimeout \/ PollDone
Main == JoinLoad \/ JoinRun

Next ==
  \/ \E t \in Threads : Client(t) \/ Throw(t)
  \/ Status \/ Main \/ Gone

Spec == Init /\ [][Next]_vars

\* The scheduler runs every thread; a wait on a latch that is down returns
\* (CountDownLatch, EveryoneReturns).  No timeout is counted on.
FairSpec ==
  /\ Spec
  /\ \A t \in Threads : WF_vars(Client(t))
  /\ WF_vars(PrintStatus) /\ WF_vars(PollDone)
  /\ WF_vars(Main)

-----------------------------------------------------------------------------
States == {"start", "loop", "awaiting", "electing", "starting", "op",
           "modify", "leaving", "ended"}

TypeOK ==
  /\ conf \in Configs
  /\ stage \in {"load", "run", "done"}
  /\ pc \in [Threads -> States]
  /\ index \in [Threads -> Nat] /\ opCount \in [Threads -> Nat]
  /\ stage # "done" => \A t \in Threads : index[t] <= NumOps(t)
  /\ warmed \in Nat /\ measured \in Nat
  /\ latchCount \in 0 .. NumThreads /\ warmupCount \in 0 .. NumThreads
  /\ latchCounted \subseteq Threads /\ warmupCounted \subseteq Threads
  /\ latchPassed \subseteq {StatusThread} /\ warmupPassed \subseteq Threads
  /\ started \in BOOLEAN /\ timerStarts \in Nat
  /\ status \in {"off", "printing", "polling", "ended"}
  /\ statusDone \in BOOLEAN /\ statusSeen \in Nat
  /\ H!HTypeOK
  /\ exited \in BOOLEAN /\ polluted \in BOOLEAN

\* Does every thread have an operation left after its warmup?
EveryoneMeasures(c) ==
  \A t \in Threads :
    Share(c.warmup, NumThreads, t) < Share(c.ops, NumThreads, t)

\* The measurement begins, and is timed, only after every thread has done its
\* warmup operations, and it is elected and timed once.
MeasurementAfterWarmup ==
  /\ started => \A t \in Threads : index[t] >= WarmupShare(t)
  /\ timerStarts <= 1
  /\ timerStarts = 1 => started

\* No thread does a measured operation before the election; if the timer is
\* not running by then, the winner of the election is about to start it.
MeasuredOperationsAreTimed ==
  stage = "run" /\ (\E t \in Threads : index[t] > WarmupShare(t)) =>
    started /\ (timerStarts = 1 \/ \E u \in Threads : pc[u] = "starting")

\* The threads together have done exactly the operations asked for.
AllOperationsDone ==
  stage = "done" =>
    SumFunctionOnSet(index, Threads) =
      IF conf.run THEN conf.ops ELSE conf.records

\* The last status message of a phase counts every report of that phase.
FinalStatusComplete ==
  status = "ended" /\ stage # "done" => statusSeen = warmed + measured

\* In a run without a load phase no warmup operation is taken for a
\* measurement.
WarmupNotMeasured == ~conf.load => ~polluted

\* In the transaction phase, when every thread has something to measure, the
\* database is open for whoever is connected.
OpenDuringRun ==
  stage = "run" /\ EveryoneMeasures(conf) => H!HandleOpenWhileConnected

\* When every thread has something to measure, the run ends.
RunTerminates == EveryoneMeasures(conf) ~> (stage = "done" \/ exited)

-----------------------------------------------------------------------------
(* What the documents say and the code does not do. *)

\* The phases end, whatever the shares: "Wait for all threads to complete
\* warmup" waits for threads that will complete it.
RunAlwaysTerminates == <>(stage = "done" \/ exited)

\* "The first warmup_ratio * operation_count operations are considered
\* warmup": so many are reported as warmup.
WarmupCountExact == stage = "done" => warmed = conf.warmup

-----------------------------------------------------------------------------
(* The inductive invariant of the warmup barrier, in parts. *)

BarrierTypes ==
  /\ conf \in Configs
  /\ stage \in {"load", "run", "done"}
  /\ pc \in [Threads -> States]
  /\ index \in [Threads -> Nat]
  /\ warmupCount \in Int /\ warmupCounted \subseteq Threads
  /\ started \in BOOLEAN /\ timerStarts \in Nat

\* The latch counts the threads that came to the barrier, after their warmup.
BarrierInv ==
  /\ warmupCount = NumThreads - Cardinality(warmupCounted)
  /\ \A t \in warmupCounted : index[t] >= WarmupShare(t)
  /\ stage = "load" =>
       /\ warmupCounted = {} /\ ~started
       /\ \A t \in Threads : pc[t] \notin {"electing", "starting"}

\* The election takes place behind the barrier.
ElectionInv ==
  /\ \A t \in Threads :
       pc[t] \in {"electing", "starting"} => warmupCount <= 0
  /\ started => warmupCount <= 0

\* The election has one winner, who starts the timer once.
WinnerInv ==
  /\ \A t \in Threads : pc[t] = "starting" => started /\ timerStarts = 0
  /\ \A t, u \in Threads : pc[t] = "starting" /\ pc[u] = "starting" => t = u
  /\ timerStarts <= 1
  /\ timerStarts = 1 => started
  /\ started => timerStarts = 1 \/ \E u \in Threads : pc[u] = "starting"

\* A thread past its warmup operations has passed the election.
PastWarmupInv ==
  stage = "run" =>
    \A t \in Threads :
      \/ index[t] > WarmupShare(t)
      \/ pc[t] \in {"op", "modify"} /\ index[t] >= WarmupShare(t)
      => started

MeasurementInv ==
  BarrierTypes /\ BarrierInv /\ ElectionInv /\ WinnerInv /\ PastWarmupInv

-----------------------------------------------------------------------------
(* The inductive invariant of the whole run: the above and these parts. *)

\* The types of the variables that the barrier does not look at
RunTypes ==
  /\ opCount \in [Threads -> Nat] /\ warmed \in Nat /\ measured \in Nat
  /\ latchPassed \subseteq {StatusThread} /\ warmupPassed \subseteq Threads
  /\ status \in {"off", "printing", "polling", "ended"}
  /\ statusDone \in BOOLEAN /\ statusSeen \in Nat
  /\ handle \in {"null", "open", "deleted"}
  /\ user \in [Threads -> {"new", "connected", "finished"}]
  /\ exited \in BOOLEAN /\ polluted \in BOOLEAN

StageInv ==
  /\ stage = "load" => conf.load
  /\ stage = "run" => conf.run
  /\ stage = "done" => \A t \in Threads : pc[t] = "ended"

\* What thread t has to do in the phase that runs, or ran last
PhaseOps(t) ==
  Share(IF stage = "load" \/ ~conf.run THEN conf.records ELSE conf.ops,
        NumThreads, t)

\* A thread inside the loop has an operation left, and one that left it none.
OperationsInv ==
  \A t \in Threads :
    /\ index[t] <= PhaseOps(t)
    /\ pc[t] \notin {"start", "loop", "leaving", "ended"} =>
         index[t] < PhaseOps(t)
    /\ pc[t] \in {"leaving", "ended"} => index[t] = PhaseOps(t)

\* The latches count the threads that came to them.
LatchInv ==
  /\ latchCount = NumThreads - Cardinality(latchCounted)
  /\ latchCounted = {t \in Threads : pc[t] = "ended"}
  /\ \A t \in warmupCounted : pc[t] # "start"

\* The status thread learns of the end of a phase from its latch, and then
\* prints once more.
StatusInv ==
  /\ statusDone => latchCount <= 0
  /\ status = "polling" => ~statusDone
  /\ status = "ended" /\ stage # "done" =>
       statusDone /\ statusSeen = warmed + measured

\* Without a load phase a thread in its warmup has not called its DBWrapper
\* more often than it has begun an operation.
WarmupInv ==
  ~conf.load =>
    /\ stage # "load" /\ ~polluted
    /\ \A t \in Threads : InWarmup(t) => opCount[t] <= index[t]

\* Where a thread is in its client function says what its DB object is.
UserInv ==
  /\ refCnt = Cardinality(H!Connected)
  /\ \A t \in Threads :
       user[t] = IF pc[t] = "start" /\ InitFlag THEN "new"
                 ELSE IF pc[t] \in {"leaving", "ended"} /\ CleanupFlag
                 THEN "finished" ELSE "connected"

\* The handle is not deleted before the last thread has come.
HandleInv ==
  conf.run /\ EveryoneMeasures(conf) =>
    /\ H!Connected # {} => handle = "open"
    /\ (\A t \in Threads : user[t] = "new") => handle = "null"

RunInv ==
  /\ MeasurementInv /\ RunTypes /\ StageInv /\ OperationsInv /\ LatchInv
  /\ StatusInv /\ WarmupInv /\ UserInv /\ HandleInv
=============================================================================
