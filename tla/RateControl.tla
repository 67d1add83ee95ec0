----------------------------- MODULE RateControl -----------------------------
(***************************************************************************)
(* Rate limiting in the transaction phase: a RateLimiter                   *)
(* (utils/rate_limit.h) per client, the clients that call Consume before   *)
(* every operation, and RateLimitThread of core/ycsbc.cc, which reads new  *)
(* rates from a file and calls SetRate on every limiter.                   *)
(*                                                                         *)
(* Time passes in ticks, the nanoseconds of the code.  Consume and SetRate *)
(* hold the limiter's mutex, but Consume reads tokens_ and r_ once more    *)
(* after it has unlocked it.                                               *)
(*                                                                         *)
(* Composes Latch: the rate thread polls the latch of the phase.           *)
(***************************************************************************)
EXTENDS Integers, Sequences, FiniteSets, OpShare

CONSTANTS NumClients,   \* num_threads
          Second,       \* ticks in a second: 1000000000
          Precision,    \* TOKEN_PRECISION
          IntMax,       \* the largest int64_t
          MaxAge,       \* bound: how long ago a refill is told apart
          MaxSets,      \* bound: SetRate calls told apart
          Garbage,      \* what an uninitialised delay and rate may be
          Configs       \* operationcount, limit.ops and limit.file

\* ops: operationcount.  limit: limit.ops.  rates: the lines of limit.file, each
\* with the seconds since the line before and the new rate; kind: is there such
\* a file, can it be opened, does its last line end with a newline?
Kinds == {"none", "unreadable", "open ended", "newline"}

ASSUME RateAssumption ==
  /\ NumClients \in Nat \ {0}
  /\ Second \in Nat \ {0} /\ Precision \in Nat \ {0}
  /\ IntMax \in Nat /\ MaxAge \in Nat /\ MaxSets \in Nat \ {0}
  /\ Garbage # {} /\ Garbage \subseteq Int \X Int
  /\ \A c \in Configs :
        /\ c.ops \in Nat /\ c.limit \in Int /\ c.kind \in Kinds
        /\ c.rates \in Seq(Int \X Int)
        /\ c.kind = "open ended" => c.rates # <<>>

Clients == 0 .. NumClients - 1
RateThread == NumClients

VARIABLES conf,         \* the options
          rate, tokens, \* per limiter: r_ and tokens_
          age,          \* per limiter: now - last_
          pc, index,    \* per client: where it is, the operations it did
          seen,         \* per client: tokens_ and r_ as it unlocked the mutex
          sleep,        \* per client: the ticks it has yet to sleep
          latchCount, latchCounted, latchPassed,   \* latch
          stage,        \* where RateLimitThread is
          line,         \* the line it reads next
          delay,        \* the ticks its AwaitFor has yet to wait
          nextRate,     \* next_rate
          target,       \* the limiter it sets next
          crashed,      \* a division by zero
          credit,       \* history, per client: what an exact bucket holds
          sets,         \* history, per limiter: the calls of SetRate
          overflowed    \* history: a product exceeded int64_t

limiters == <<rate, tokens, age>>
clientVars == <<pc, index, seen, sleep>>
latchVars == <<latchCount, latchCounted, latchPassed>>
fileVars == <<stage, line, delay, nextRate, target>>
history == <<credit, sets, overflowed>>
vars == <<conf, limiters, clientVars, latchVars, fileVars, crashed, history>>

L == INSTANCE Latch WITH
       Parties <- Clients \cup {RateThread}, Count <- NumClients,
       count <- latchCount, counted <- latchCounted, passed <- latchPassed

-----------------------------------------------------------------------------
\* The client's part of the operations
NumOps(c) == Share(conf.ops, NumClients, c)

Least(m, n) == IF m <= n THEN m ELSE n

\* int64_t: division rounds towards zero, and a product wraps around.
Quotient(m, n) ==
  LET size(i) == IF i < 0 THEN -i ELSE i
  IN  IF m < 0 <=> n < 0 THEN size(m) \div size(n) ELSE -(size(m) \div size(n))
Wrap(n) == ((n + IntMax + 1) % (2 * (IntMax + 1))) - IntMax - 1

\* A client's part of a rate for all of them
PerClient(ops) == Quotient(ops, NumClients)

\* b_, and with it the first r_
Bucket == PerClient(conf.limit) * Precision

\* A mutant: the bucket has no limit.
RefilledUncapped(c, product) == tokens[c] + Quotient(Wrap(product), Second)

\* tokens_ after a refill by product / Second
Refilled(c, product) == Least(Bucket, tokens[c] + Quotient(Wrap(product), Second))

\* Was the limiter created?
Limited == conf.limit > 0 \/ conf.kind # "none"

Init ==
  /\ conf \in Configs
  /\ rate = [c \in Clients |-> Bucket]
  /\ tokens = [c \in Clients |-> 0]
  /\ age = [c \in Clients |-> 0]
  /\ pc = [c \in Clients |-> "loop"]
  /\ index = [c \in Clients |-> 0]
  /\ seen = [c \in Clients |-> <<0, 0>>]
  /\ sleep = [c \in Clients |-> 0]
  /\ L!LInit
  /\ stage = IF conf.kind = "none" THEN "ended" ELSE "reading"
  /\ line = 1 /\ delay = 0 /\ nextRate = 0 /\ target = 0
  /\ crashed = FALSE
  /\ credit = [c \in Clients |-> 0]
  /\ sets = [c \in Clients |-> 0]
  /\ overflowed = FALSE

Running == ~crashed

Goto(c, from, to) == pc[c] = from /\ pc' = [pc EXCEPT ![c] = to]

-----------------------------------------------------------------------------
(* RateLimiter::Consume(1), as ClientThreadWithWarmup calls it. *)

\* DoTransaction follows at once: it takes what time it takes before the next
\* call of Consume.
Operate(c) == index' = [index EXCEPT ![c] = @ + 1]

\* No limiter, or r_ <= 0: the operation goes ahead.
ConsumeUnlimited(c) ==
  /\ Running /\ pc[c] = "loop" /\ index[c] < NumOps(c)
  /\ ~Limited \/ rate[c] <= 0
  /\ Operate(c)
  /\ UNCHANGED <<conf, limiters, pc, seen, sleep, latchVars, fileVars, crashed,
                 history>>

\* Under the mutex: refill, and take a token.
TakeToken(c) ==
  /\ LET left == Refilled(c, age[c] * rate[c]) - Precision
     IN  /\ tokens' = [tokens EXCEPT ![c] = left]
         /\ IF left < 0
            THEN /\ pc' = [pc EXCEPT ![c] = "unlocked"]
                 /\ seen' = [seen EXCEPT ![c] = <<left, rate[c]>>]
                 /\ UNCHANGED index
            ELSE Operate(c) /\ UNCHANGED <<pc, seen>>
  /\ age' = [age EXCEPT ![c] = 0]
  /\ credit' = [credit EXCEPT ![c] = @ - Second * Precision]
  /\ overflowed' = (overflowed \/ age[c] * rate[c] > IntMax)
  /\ UNCHANGED <<conf, rate, sleep, latchVars, fileVars, crashed, sets>>

\* A mutant: the rate 0 is a rate.
ConsumeAtZero(c) ==
  /\ Running /\ pc[c] = "loop" /\ index[c] < NumOps(c)
  /\ Limited /\ rate[c] >= 0
  /\ TakeToken(c)

Consume(c) ==
  /\ Running /\ pc[c] = "loop" /\ index[c] < NumOps(c)
  /\ Limited /\ rate[c] > 0
  /\ TakeToken(c)

\* A mutant: the quotient is taken before the product.
ComputeWaitRounded(c) ==
  /\ Running /\ pc[c] = "unlocked" /\ rate[c] # 0
  /\ pc' = [pc EXCEPT ![c] = "sleeping"]
  /\ seen' = [seen EXCEPT ![c] = <<0, 0>>]
  /\ sleep' = [sleep EXCEPT ![c] = Quotient(-tokens[c], rate[c]) * Second]
  /\ UNCHANGED <<conf, limiters, index, latchVars, fileVars, crashed, history>>

\* The mutex is free when wait_time is computed: SetRate may have written
\* tokens_ and r_ before, between or after the two reads.
ComputeWait(c) ==
  /\ Running /\ pc[c] = "unlocked"
  /\ \E held \in {seen[c][1], tokens[c]}, r \in {seen[c][2], rate[c]} :
       IF r = 0
       THEN /\ crashed' = TRUE
            /\ UNCHANGED <<pc, seen, sleep, overflowed>>
       ELSE /\ pc' = [pc EXCEPT ![c] = "sleeping"]
            /\ seen' = [seen EXCEPT ![c] = <<0, 0>>]
            /\ sleep' = [sleep EXCEPT ![c] = Quotient(Wrap(-held * Second), r)]
            /\ overflowed' = (overflowed \/ -held * Second > IntMax)
            /\ UNCHANGED crashed
  /\ UNCHANGED <<conf, limiters, index, latchVars, fileVars, credit, sets>>

\* sleep_for, which returns at once if the time is not positive
Wake(c) ==
  /\ Running /\ sleep[c] <= 0
  /\ Goto(c, "sleeping", "loop")
  /\ Operate(c)
  /\ sleep' = [sleep EXCEPT ![c] = 0]
  /\ UNCHANGED <<conf, limiters, seen, latchVars, fileVars, crashed, history>>

\* A mutant: a client without operations returns at once.
FinishIfWorked(c) ==
  /\ Running /\ index[c] = NumOps(c)
  /\ Goto(c, "loop", "ended")
  /\ IF NumOps(c) > 0 THEN L!CountDown(c) ELSE UNCHANGED latchVars
  /\ UNCHANGED <<conf, limiters, index, seen, sleep, fileVars, crashed, history>>

\* After the loop: latch->CountDown()
Finish(c) ==
  /\ Running /\ index[c] = NumOps(c)
  /\ Goto(c, "loop", "ended")
  /\ L!CountDown(c)
  /\ UNCHANGED <<conf, limiters, index, seen, sleep, fileVars, crashed, history>>

Client(c) ==
  ConsumeUnlimited(c) \/ Consume(c) \/ ComputeWait(c) \/ Wake(c) \/ Finish(c)

-----------------------------------------------------------------------------
(* RateLimitThread. *)

\* The number of times the loop of an open file is entered: ifs.eof() tells
\* the end of a file that ends with a newline only after one read too many.
Rounds == Len(conf.rates) + (IF conf.kind = "newline" THEN 1 ELSE 0)

\* The pairs ifs >> next_time >> next_rate may leave, as delay and rate.  A
\* read that fails leaves the two variables as they are: uninitialised.
NextLines ==
  IF conf.kind # "unreadable" /\ line <= Len(conf.rates)
  THEN {conf.rates[line]}
  ELSE Garbage

\* An unreadable file is not given up: the exception is made and not thrown,
\* and eof() stays false.  Neither is a time that does not lie ahead.
ReadRate ==
  /\ Running
  /\ stage = "reading" /\ (conf.kind = "unreadable" \/ line <= Rounds)
  /\ stage' = "waiting"
  /\ \E next \in NextLines :
       delay' = next[1] * Second /\ nextRate' = next[2]
  /\ line' = IF conf.kind = "unreadable" THEN line ELSE line + 1
  /\ UNCHANGED <<conf, limiters, clientVars, latchVars, target, crashed, history>>

EndOfFile ==
  /\ Running
  /\ stage = "reading" /\ conf.kind # "unreadable" /\ line > Rounds
  /\ stage' = "ended"
  /\ UNCHANGED <<conf, limiters, clientVars, latchVars, line, delay, nextRate,
                 target, crashed, history>>

\* latch->AwaitFor answers true: the phase is over.
AwaitDone ==
  /\ Running
  /\ stage = "waiting"
  /\ L!Pass(RateThread)
  /\ stage' = "ended"
  /\ UNCHANGED <<conf, limiters, clientVars, line, delay, nextRate, target,
                 crashed, history>>

\* It answers false, at once if the delay is not positive.
AwaitTimeout ==
  /\ Running
  /\ stage = "waiting" /\ delay <= 0 /\ latchCount > 0
  /\ stage' = "setting" /\ target' = 0
  /\ UNCHANGED <<conf, limiters, clientVars, latchVars, line, delay, nextRate,
                 crashed, history>>

\* A mutant: the time that has passed is forgotten.
SetRateNoRefill ==
  /\ Running /\ stage = "setting"
  /\ rate' = [rate EXCEPT ![target] = PerClient(nextRate) * Precision]
  /\ age' = [age EXCEPT ![target] = 0]
  /\ sets' = [sets EXCEPT ![target] = Least(MaxSets, @ + 1)]
  /\ stage' = IF target = NumClients - 1 THEN "reading" ELSE "setting"
  /\ target' = IF target = NumClients - 1 THEN 0 ELSE target + 1
  /\ UNCHANGED <<conf, tokens, clientVars, latchVars, line, delay, nextRate,
                 crashed, credit, overflowed>>

\* SetRate on one limiter, under its mutex.  r_ has the precision in it
\* already when the refill multiplies it again.
SetRate ==
  /\ Running /\ stage = "setting"
  /\ LET c == target
         product == age[c] * rate[c] * Precision
     IN  /\ tokens' = [tokens EXCEPT ![c] = Refilled(c, product)]
         /\ rate' = [rate EXCEPT ![c] = PerClient(nextRate) * Precision]
         /\ age' = [age EXCEPT ![c] = 0]
         /\ sets' = [sets EXCEPT ![c] = Least(MaxSets, @ + 1)]
         /\ overflowed' = (overflowed \/ product > IntMax)
         /\ stage' = IF c = NumClients - 1 THEN "reading" ELSE "setting"
         /\ target' = IF c = NumClients - 1 THEN 0 ELSE c + 1
  /\ UNCHANGED <<conf, clientVars, latchVars, line, delay, nextRate, crashed,
                 credit>>

FromFile == ReadRate \/ EndOfFile \/ AwaitDone \/ AwaitTimeout \/ SetRate

-----------------------------------------------------------------------------
Over == crashed \/ (stage = "ended" /\ \A c \in Clients : pc[c] = "ended")

\* The tokens of a limiter and those a refill would add now, times Second
Level(c) ==
  Least(Second * Bucket,
        Second * tokens[c] + (IF rate[c] > 0 THEN age[c] * rate[c] ELSE 0))

\* A limiter whose age is not told apart beyond MaxAge: its bucket is full, its
\* rate is not positive, or a product overflowed before.  What is left out so
\* is the overflow of the refill of a bucket that has been full for long, and
\* how much a SetRate takes from one with a negative rate.
Settled(c) == rate[c] <= 0 \/ overflowed \/ Level(c) = Second * Bucket

\* Time passes: sleepers sleep, AwaitFor waits, and an exact bucket fills.
\* The limiter of a client that has ended is of no interest any more.
Tick ==
  /\ ~Over
  /\ age' = [c \in Clients |->
               IF pc[c] = "ended" \/ (age[c] >= MaxAge /\ Settled(c))
               THEN age[c] ELSE age[c] + 1]
  /\ sleep' = [c \in Clients |-> IF sleep[c] > 0 THEN sleep[c] - 1 ELSE sleep[c]]
  /\ delay' = IF stage = "waiting" /\ delay > 0 THEN delay - 1 ELSE delay
  /\ credit' = [c \in Clients |->
                  IF rate[c] > 0 /\ pc[c] # "ended"
                  THEN Least(Second * Bucket, credit[c] + rate[c])
                  ELSE credit[c]]
  /\ UNCHANGED <<conf, rate, tokens, pc, index, seen, latchVars, stage, line,
                 nextRate, target, crashed, sets, overflowed>>

Gone == Over /\ UNCHANGED vars

Next == (\E c \in Clients : Client(c)) \/ FromFile \/ Tick \/ Gone

Spec == Init /\ [][Next]_vars

FairSpec ==
  /\ Spec
  /\ \A c \in Clients : WF_vars(Client(c))
  /\ WF_vars(FromFile)
  /\ WF_vars(Tick)

-----------------------------------------------------------------------------
TypeOK ==
  /\ conf \in Configs
  /\ rate \in [Clients -> Int] /\ tokens \in [Clients -> Int]
  /\ \A c \in Clients : tokens[c] <= 0 \/ tokens[c] <= Bucket
  /\ age \in [Clients -> Nat]
  /\ pc \in [Clients -> {"loop", "unlocked", "sleeping", "ended"}]
  /\ index \in [Clients -> Nat] /\ (\A c \in Clients : index[c] <= NumOps(c))
  /\ seen \in [Clients -> Int \X Int] /\ sleep \in [Clients -> Int]
  /\ latchCount \in 0 .. NumClients /\ latchCounted \subseteq Clients
  /\ latchPassed \subseteq {RateThread}
  /\ stage \in {"reading", "waiting", "setting", "ended"}
  /\ line \in Nat \ {0} /\ delay \in Int /\ nextRate \in Int /\ target \in Clients
  /\ crashed \in BOOLEAN /\ overflowed \in BOOLEAN
  /\ credit \in [Clients -> Int] /\ sets \in [Clients -> 0 .. MaxSets]

\* The rates that the options, the file and what ReadRate finds in its two
\* variables may ask for
Rates ==
  {conf.limit} \cup {conf.rates[i][2] : i \in DOMAIN conf.rates}
    \cup {g[2] : g \in Garbage}

\* Is there an operation per tick for a client at most?
Bounded == conf.limit >= 0 /\ \A r \in Rates : PerClient(r) <= Second

\* As long as no product exceeds int64_t, what Consume has let through has
\* been paid for, to the tick, as by an exact bucket; only a SetRate can give
\* operations away, a bucket and two operations each time at most.
InConsume(c) == pc[c] \in {"unlocked", "sleeping"}
LimitKept ==
  ~overflowed => \A c \in Clients :
    /\ sets[c] = 0 /\ rate[c] > 0 /\ ~InConsume(c) => credit[c] > -rate[c]
    /\ sets[c] < MaxSets /\ Bounded =>
         credit[c] >=
           -Second * (sets[c] * (Bucket + 2 * Precision) + 2 * Precision)

\* Nothing a client has earned is lost but for the rounding of each refill,
\* unless a rate is negative or a product exceeds int64_t.
NothingLost ==
  ~overflowed /\ (\A r \in Rates : r >= 0) =>
    \A c \in Clients :
      sets[c] < MaxSets =>
        Level(c) >= credit[c] - Second * (index[c] + 1 + sets[c])

\* The division by zero needs a SetRate(0) between the unlock of the mutex
\* and the division: a limiter that starts with the rate 0 divides nothing.
CrashOnlyOnZeroRate ==
  crashed => \E c \in Clients :
               pc[c] = "unlocked" /\ rate[c] = 0 /\ sets[c] > 0 /\ seen[c][2] > 0

\* The clients and the rate thread end, whatever the file: however long the
\* sleeps are, and though an unreadable file has no end.
RunEnds == <>Over

-----------------------------------------------------------------------------
(* The inductive invariant, in parts. *)

ControlInv ==
  /\ latchCounted = {c \in Clients : pc[c] = "ended"}
  /\ latchCount = NumClients - Cardinality(latchCounted)
  /\ \A c \in Clients : InConsume(c) => index[c] < NumOps(c)

\* Every rate has been asked for.
RatesInv ==
  /\ stage \in {"waiting", "setting"} => nextRate \in Rates
  /\ \A c \in Clients :
       /\ \E r \in Rates : rate[c] = PerClient(r) * Precision
       /\ sets[c] = 0 => rate[c] = Bucket
       /\ pc[c] = "unlocked" =>
            /\ seen[c][1] < 0 /\ seen[c][2] > 0
            /\ sets[c] = 0 => seen[c][2] = rate[c]

\* What SetRate can have given away
Gift(c) == Second * (sets[c] * (Bucket + 2 * Precision))

\* Until a product overflows, the limiter of c can be held to an exact bucket.
Kept(c) ==
  ~overflowed /\ conf.limit >= 0 /\ sets[c] < MaxSets /\ (sets[c] = 0 \/ Bounded)

\* It never holds more than the exact bucket and the gifts.
LevelInv ==
  \A c \in Clients :
    /\ conf.limit >= 0 => credit[c] <= Second * Bucket
    /\ Kept(c) => Level(c) <= credit[c] + Gift(c)

\* What is owed beyond the gifts is less than a tick brings, or is waited for.
Paid(c) == credit[c] >= -Gift(c)
PaidInv ==
  \A c \in Clients : Kept(c) /\ ~Paid(c) =>
    /\ rate[c] > 0
    /\ pc[c] \in {"loop", "ended"} => credit[c] + rate[c] > -Gift(c)
    /\ pc[c] = "unlocked" => tokens[c] = seen[c][1] /\ rate[c] = seen[c][2]
    /\ pc[c] = "sleeping" =>
         sleep[c] >= 0 /\ credit[c] + sleep[c] * rate[c] + rate[c] > -Gift(c)
    /\ Bounded => credit[c] + Second * (2 * Precision) >= -Gift(c)

\* A refill loses less than one part of a token.
Refills(c) == index[c] + (IF InConsume(c) THEN 1 ELSE 0) + sets[c]
EarnedInv ==
  ~overflowed /\ (\A r \in Rates : r >= 0) =>
    \A c \in Clients : sets[c] < MaxSets =>
      Level(c) >= credit[c] - Second * Refills(c)

IInv ==
  /\ TypeOK /\ ControlInv /\ RatesInv /\ CrashOnlyOnZeroRate
  /\ LevelInv /\ PaidInv /\ EarnedInv
=============================================================================
