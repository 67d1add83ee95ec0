-------------------------------- MODULE Latch --------------------------------
(***************************************************************************)
(* What CountDownLatch promises: a party counts down at most once here,    *)
(* and the parties that await pass only when the count is down.            *)
(***************************************************************************)
EXTENDS Integers

CONSTANTS Parties,      \* the threads that use the latch
          Count         \* the constructor's argument

VARIABLES count,        \* count_
          counted,      \* the parties that have counted down
          passed        \* the parties whose wait has returned

lavars == <<count, counted, passed>>

LInit == count = Count /\ counted = {} /\ passed = {}

CountDown(t) ==
  /\ t \notin counted
  /\ count' = count - 1
  /\ counted' = counted \cup {t}
  /\ UNCHANGED passed

Pass(t) ==
  /\ count <= 0
  /\ t \notin passed
  /\ passed' = passed \cup {t}
  /\ UNCHANGED <<count, counted>>

LNext == \E t \in Parties : CountDown(t) \/ Pass(t)

LSpec == LInit /\ [][LNext]_lavars
=============================================================================
