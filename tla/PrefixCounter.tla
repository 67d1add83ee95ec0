---------------------------- MODULE PrefixCounter ----------------------------
(***************************************************************************)
(* What AcknowledgedCounterGenerator promises to the users of its Last():  *)
(* keys are issued in order and acknowledged in any order, and Last() is   *)
(* the end of the unbroken run of acknowledged keys that starts at Start.  *)
(***************************************************************************)
EXTENDS Integers

CONSTANT Start          \* the first key issued

VARIABLES counter,      \* the next key to issue
          acked,        \* the keys acknowledged so far
          limit         \* Last()

pvars == <<counter, acked, limit>>

\* m ends the unbroken run of keys of S that starts at Start.
EndsPrefix(S, m) ==
  /\ m \in Int /\ m >= Start - 1
  /\ Start .. m \subseteq S
  /\ m + 1 \notin S

PInit == counter = Start /\ acked = {} /\ limit = Start - 1

Issue == counter' = counter + 1 /\ UNCHANGED <<acked, limit>>

Ack(k) ==
  /\ k \notin acked
  /\ acked' = acked \cup {k}
  /\ EndsPrefix(acked', limit')
  /\ UNCHANGED counter

PNext == Issue \/ \E k \in Start .. counter - 1 : Ack(k)

PSpec == PInit /\ [][PNext]_pvars
=============================================================================
