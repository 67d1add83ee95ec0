--------------------------- MODULE CountDownLatch ----------------------------
(***************************************************************************)
(* utils/countdown_latch.h: a count, a mutex and a condition variable.     *)
(*                                                                         *)
(* A thread that counts down calls CountDown() once; a thread that awaits  *)
(* calls Await() (after its CountDown, as ClientThreadWithWarmup does);    *)
(* a polling thread calls AwaitFor() until it answers true, as             *)
(* StatusThread does.  A wait may wake up spuriously, and a timed one may  *)
(* time out at any moment.                                                 *)
(***************************************************************************)
EXTENDS Integers, FiniteSets

CONSTANTS Counting,     \* the threads that count down
          Awaiting,     \* the threads that call Await()
          Polling,      \* the threads that call AwaitFor()
          Count,        \* the constructor's argument
          NoThread      \* the holder of a free mutex

Threads == Counting \cup Awaiting \cup Polling

ASSUME LatchAssumption ==
  /\ IsFiniteSet(Threads)
  /\ Count \in Nat
  /\ Polling \cap (Counting \cup Awaiting) = {}
  /\ NoThread \notin Threads

VARIABLES count,        \* count_
          mu,           \* the thread that holds mu_
          pc,           \* per thread: the call it is in and how far it is
          polls         \* per polling thread: the last answer of AwaitFor

lvars == <<count, mu, pc, polls>>

First(t) == IF t \in Counting THEN "countDown" ELSE "await"
AfterCountDown(t) == IF t \in Awaiting THEN "await" ELSE "returned"

Init ==
  /\ count = Count
  /\ mu = NoThread
  /\ pc = [t \in Threads |-> First(t)]
  /\ polls = [t \in Polling |-> FALSE]

Free == mu = NoThread
Reached == count <= 0

\* The calls begin by taking the mutex ...
Lock(t) ==
  /\ Free
  /\ pc[t] \in {"countDown", "await", "notified", "timedOut"}
  /\ mu' = t
  /\ UNCHANGED <<count, pc, polls>>

\* The threads cv_ would wake
Waiting == {t \in Threads : pc[t] = "waiting"}

\* Mutants: the count drops by two, nobody or only one is notified
CountDownByTwo(t) ==
  /\ mu = t /\ pc[t] = "countDown"
  /\ count' = count - 2
  /\ pc' = [pc EXCEPT ![t] = AfterCountDown(t)]
  /\ mu' = NoThread
  /\ UNCHANGED polls

CountDownNoNotify(t) ==
  /\ mu = t /\ pc[t] = "countDown"
  /\ count' = count - 1
  /\ pc' = [pc EXCEPT ![t] = AfterCountDown(t)]
  /\ mu' = NoThread
  /\ UNCHANGED polls

CountDownNotifyOne(t) ==
  /\ mu = t /\ pc[t] = "countDown"
  /\ count' = count - 1
  /\ LET woken == IF count' <= 0 /\ Waiting # {}
                  THEN {CHOOSE u \in Waiting : TRUE} ELSE {}
     IN  pc' = [u \in Threads |->
                  IF u = t THEN AfterCountDown(t)
                  ELSE IF u \in woken THEN "notified" ELSE pc[u]]
  /\ mu' = NoThread
  /\ UNCHANGED polls

\* ... CountDown notifies everyone once the count is down ...
CountDown(t) ==
  /\ mu = t /\ pc[t] = "countDown"
  /\ count' = count - 1
  /\ pc' = [u \in Threads |->
              IF u = t THEN AfterCountDown(t)
              ELSE IF count' <= 0 /\ u \in Waiting THEN "notified"
              ELSE pc[u]]
  /\ mu' = NoThread
  /\ UNCHANGED polls

\* A mutant: a wait without its predicate
ReturnUnchecked(t) ==
  /\ mu = t
  /\ pc[t] \in {"notified", "timedOut"} \/ (pc[t] = "await" /\ Reached)
  /\ pc' = [pc EXCEPT ![t] = "returned"]
  /\ polls' = [p \in Polling |-> IF p = t THEN TRUE ELSE polls[p]]
  /\ mu' = NoThread
  /\ UNCHANGED count

\* ... and a wait whose predicate holds returns, true if it is timed.
Return(t) ==
  /\ mu = t /\ pc[t] \in {"await", "notified", "timedOut"}
  /\ Reached
  /\ pc' = [pc EXCEPT ![t] = "returned"]
  /\ polls' = [p \in Polling |-> IF p = t THEN TRUE ELSE polls[p]]
  /\ mu' = NoThread
  /\ UNCHANGED count

\* Otherwise it gives up the mutex and waits, in one step, ...
Wait(t) ==
  /\ mu = t /\ pc[t] \in {"await", "notified"}
  /\ ~Reached
  /\ pc' = [pc EXCEPT ![t] = "waiting"]
  /\ mu' = NoThread
  /\ UNCHANGED <<count, polls>>

\* ... may wake up without having been notified ...
WakeSpuriously(t) ==
  /\ pc[t] = "waiting"
  /\ pc' = [pc EXCEPT ![t] = "notified"]
  /\ UNCHANGED <<count, mu, polls>>

\* ... and if timed may time out: then, with the mutex, it answers what the
\* predicate says.  The poller asks again.
TimeOut(t) ==
  /\ t \in Polling
  /\ pc[t] = "waiting"
  /\ pc' = [pc EXCEPT ![t] = "timedOut"]
  /\ UNCHANGED <<count, mu, polls>>

AnswerFalse(t) ==
  /\ mu = t /\ pc[t] = "timedOut"
  /\ ~Reached
  /\ pc' = [pc EXCEPT ![t] = "await"]
  /\ mu' = NoThread
  /\ UNCHANGED <<count, polls>>

\* Everybody is done.
Finished ==
  /\ \A t \in Threads : pc[t] = "returned"
  /\ UNCHANGED lvars

Step(t) == Lock(t) \/ CountDown(t) \/ Return(t) \/ Wait(t) \/ AnswerFalse(t)

Next ==
  \/ \E t \in Threads : Step(t) \/ WakeSpuriously(t) \/ TimeOut(t)
  \/ Finished

Spec == Init /\ [][Next]_lvars

\* A thread that wants the mutex gets it in the end, and one that holds it
\* lets it go.  Nothing makes a waiting thread wake up but a notification.
FairSpec ==
  /\ Spec
  /\ \A t \in Threads :
       /\ SF_lvars(Lock(t))
       /\ WF_lvars(CountDown(t) \/ Return(t) \/ Wait(t) \/ AnswerFalse(t))

-----------------------------------------------------------------------------
TypeOK ==
  /\ count \in Count - Cardinality(Counting) .. Count
  /\ mu \in Threads \cup {NoThread}
  /\ pc \in [Threads -> {"countDown", "await", "waiting", "notified",
                         "timedOut", "returned"}]
  /\ polls \in [Polling -> BOOLEAN]

Counted == {t \in Counting : pc[t] # "countDown"}

\* No wait returns, and no AwaitFor answers true, before Count calls of
\* CountDown were made.
NoEarlyReturn ==
  /\ \A t \in Awaiting : pc[t] = "returned" => Cardinality(Counted) >= Count
  /\ \A t \in Polling : polls[t] => Cardinality(Counted) >= Count

\* Once the count is down nobody is left in the wait set: the notification
\* was not lost between a waiter's test and its wait.
NoLostWakeup == Reached => Waiting = {}

\* Everyone gets through, if enough threads count down.
EveryoneReturns ==
  \A t \in Threads : <>(pc[t] = "returned")

-----------------------------------------------------------------------------
\* What a latch promises, without mutex and condition variable
Passed == {t \in Threads : pc[t] = "returned" /\ t \notin Counting \ Awaiting}
L == INSTANCE Latch WITH Parties <- Threads, passed <- Passed,
                         counted <- Counted
IsLatch == L!LSpec

-----------------------------------------------------------------------------
(* The inductive invariant, in parts. *)

States == {"countDown", "await", "waiting", "notified", "timedOut",
           "returned"}

\* Who may be in which call
CallInv ==
  /\ pc \in [Threads -> States]
  /\ polls \in [Polling -> BOOLEAN]
  /\ \A t \in Threads : pc[t] = "countDown" => t \in Counting
  /\ \A t \in Counting \ Awaiting : pc[t] \in {"countDown", "returned"}

\* The count is what the calls of CountDown have left of it.
CountInv == count = Count - Cardinality(Counted)

\* Whoever got through found the count down.
PassedInv ==
  /\ \A t \in Awaiting : pc[t] = "returned" => Reached
  /\ \A t \in Polling : polls[t] => Reached

LatchInv == CallInv /\ CountInv /\ NoLostWakeup /\ PassedInv
=============================================================================
