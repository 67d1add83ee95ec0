-------------------------- MODULE RateControlProofs --------------------------
(***************************************************************************)
(* Proofs about RateControl, for every number of clients, length of the    *)
(* second, precision, width of the integers, file and option.              *)
(***************************************************************************)
EXTENDS RateControl, SumProofs

-----------------------------------------------------------------------------
(***************************************************************************)
(* Arithmetic.                                                             *)
(***************************************************************************)

\* A product distributes over a sum.
LEMMA Distributes ==
  ASSUME NEW s \in Int, NEW a \in Int, NEW b \in Int
  PROVE  /\ s * (a + b) = s * a + s * b /\ s * (a - b) = s * a - s * b
         /\ (a + b) * s = a * s + b * s /\ (a - b) * s = a * s - b * s
         /\ s * a = a * s /\ (-s) * a = -(s * a) /\ s * a \in Int
  BY Z3

\* A factor that is not negative keeps the order.
LEMMA ProductMonotone ==
  ASSUME NEW s \in Nat, NEW a \in Int, NEW b \in Int, a <= b
  PROVE  s * a <= s * b /\ s * a \in Int /\ s * b \in Int
  BY Z3

\* A product is an integer.
LEMMA ProductInt ==
  ASSUME NEW a \in Int, NEW b \in Int
  PROVE  a * b \in Int
  BY Z3

\* Factors that are not negative have no negative product.
LEMMA ProductNat ==
  ASSUME NEW a \in Nat, NEW b \in Nat
  PROVE  a * b \in Nat
  BY Z3

\* A remainder is below the divisor, whatever is divided.
LEMMA RemainderBelow ==
  ASSUME NEW n \in Nat \ {0}, NEW a \in Int
  PROVE  a % n \in 0 .. n - 1
  BY Z3

\* Least of two integers
LEMMA LeastType ==
  ASSUME NEW a \in Int, NEW b \in Int
  PROVE  /\ Least(a, b) \in Int /\ Least(a, b) <= a /\ Least(a, b) <= b
         /\ Least(a, b) = a \/ Least(a, b) = b
  BY DEF Least

\* int64_t division
LEMMA QuotientType ==
  ASSUME NEW m \in Int, NEW n \in Nat \ {0}
  PROVE  /\ Quotient(m, n) \in Int
         /\ m \in Nat => /\ Quotient(m, n) = m \div n
                         /\ Quotient(m, n) \in Nat
         /\ m < 0 => Quotient(m, n) <= 0
<1>1. CASE m \in Nat
  BY <1>1, Division DEF Quotient
<1>2. CASE m < 0
  <2>1. -m \in Nat
    BY <1>2
  <2>2. (-m) \div n \in Nat
    BY <2>1, Division
  <2>3. Quotient(m, n) = -((-m) \div n)
    BY <1>2 DEF Quotient
  <2>4. QED
    BY <1>2, <2>2, <2>3
<1>3. QED
  BY <1>1, <1>2

\* It divides by negative numbers as well.
LEMMA QuotientInt ==
  ASSUME NEW m \in Int, NEW n \in Int, n # 0
  PROVE  Quotient(m, n) \in Int
<1> DEFINE size(i) == IF i < 0 THEN -i ELSE i
<1>1. size(m) \in Nat /\ size(n) \in Nat \ {0}
  OBVIOUS
<1>2. size(m) \div size(n) \in Nat
  <2> HIDE DEF size
  <2>1. QED
    BY <1>1, Division
<1>3. QED
  BY <1>2 DEF Quotient

\* What int64_t can hold it holds.
LEMMA WrapType ==
  ASSUME NEW n \in Int
  PROVE  Wrap(n) \in Int /\ (n \in 0 .. IntMax => Wrap(n) = n)
<1>1. IntMax \in Nat
  BY RateAssumption
<1> DEFINE m == 2 * (IntMax + 1)
           a == n + IntMax + 1
<1>2. m \in Nat \ {0} /\ a \in Int
  BY <1>1
<1>3. a % m \in 0 .. m - 1
  <2> HIDE DEF a, m
  <2>1. QED
    BY <1>2, RemainderBelow
<1>4. Wrap(n) = (a % m) - IntMax - 1
  BY DEF Wrap
<1>5. ASSUME n \in 0 .. IntMax
      PROVE  a % m = a
  <2>1. a \in 0 .. m - 1 /\ a = m * 0 + a
    BY <1>1, <1>5
  <2> HIDE DEF a, m
  <2>2. a \in Nat /\ a \in 0 .. m - 1 /\ 0 \in Int /\ a = m * 0 + a
    BY <1>2, <2>1
  <2>3. QED
    BY <1>2, <2>2, RemainderUnique
<1>6. QED
  BY <1>1, <1>3, <1>4, <1>5

\* A refill by product p, in parts of a token: it rounds down.
LEMMA RefillRounds ==
  ASSUME NEW s \in Nat \ {0}, NEW b \in Int, NEW t \in Int, NEW p \in Nat
  PROVE  /\ s * Least(b, t + (p \div s)) <= Least(s * b, s * t + p)
         /\ Least(s * b, s * t + p) <= s * Least(b, t + (p \div s)) + s
<1> DEFINE q == p \div s
           f == t + q
<1>1. q \in Nat /\ s * q <= p /\ p <= s * q + s
  <2>1. q \in Nat /\ p % s \in 0 .. s - 1 /\ p = s * q + (p % s)
    BY Division
  <2>2. s * q \in Int
    BY <2>1, Distributes
  <2> HIDE DEF q
  <2>3. QED
    BY <2>1, <2>2
<1> HIDE DEF q
<1>2. f \in Int /\ s * f = s * t + s * q
  BY <1>1, Distributes
<1>3. s * t \in Int /\ s * q \in Int /\ s * b \in Int
  BY <1>1, Distributes
<1>4. CASE b <= f
  <2>1. Least(b, f) = b
    BY <1>4 DEF Least
  <2>2. s * b <= s * f
    BY <1>2, <1>4, ProductMonotone
  <2>3. Least(s * b, s * t + p) = s * b
    BY <1>1, <1>2, <1>3, <2>2 DEF Least
  <2>4. QED
    BY <1>3, <2>1, <2>3 DEF q
<1>5. CASE f <= b
  <2>1. Least(b, f) = f
    BY <1>2, <1>5 DEF Least
  <2>2. s * f <= s * b
    BY <1>2, <1>5, ProductMonotone
  <2> DEFINE x == s * b
             y == s * t + p
             z == s * f
  <2>3. x \in Int /\ y \in Int /\ z \in Int /\ z <= x /\ z <= y /\ y <= z + s
    BY <1>1, <1>2, <1>3, <2>2
  <2> HIDE DEF x, y, z
  <2>4. z <= Least(x, y) /\ Least(x, y) <= z + s
    BY <2>3 DEF Least
  <2>5. QED
    BY <2>1, <2>4 DEF q, x, y, z
<1>6. QED
  BY <1>2, <1>4, <1>5

-----------------------------------------------------------------------------
(***************************************************************************)
(* What the variables are.                                                 *)
(***************************************************************************)

\* What the options and the constants are
LEMMA ConfType ==
  ASSUME conf \in Configs
  PROVE  /\ NumClients \in Nat \ {0} /\ Second \in Nat \ {0}
         /\ Precision \in Nat \ {0} /\ IntMax \in Nat /\ MaxSets \in Nat \ {0}
         /\ conf.ops \in Nat /\ conf.limit \in Int /\ conf.kind \in Kinds
         /\ conf.rates \in Seq(Int \X Int)
         /\ Garbage \subseteq Int \X Int
         /\ PerClient(conf.limit) \in Int /\ Bucket \in Int
         /\ conf.limit >= 0 => Bucket \in Nat
         /\ conf.limit < 0 => Bucket <= 0
<1>1. /\ NumClients \in Nat \ {0} /\ Second \in Nat \ {0}
      /\ Precision \in Nat \ {0} /\ IntMax \in Nat /\ MaxSets \in Nat \ {0}
      /\ conf.ops \in Nat /\ conf.limit \in Int /\ conf.kind \in Kinds
      /\ conf.rates \in Seq(Int \X Int)
      /\ Garbage \subseteq Int \X Int
  BY RateAssumption
<1> DEFINE b == PerClient(conf.limit)
<1>2. /\ b \in Int /\ (conf.limit >= 0 => b \in Nat)
      /\ (conf.limit < 0 => b <= 0)
  <2> DEFINE l == conf.limit
  <2>1. l \in Int /\ NumClients \in Nat \ {0} /\ b = Quotient(l, NumClients)
    BY <1>1 DEF PerClient
  <2> HIDE DEF l, b
  <2>2. /\ b \in Int /\ (l \in Nat => b \in Nat) /\ (l < 0 => b <= 0)
    BY <2>1, QuotientType
  <2>3. QED
    BY <2>1, <2>2 DEF l
<1> HIDE DEF b
<1>3. b * Precision \in Int /\ Bucket = b * Precision
  BY <1>1, <1>2, Distributes DEF Bucket, b
<1>4. conf.limit >= 0 => Bucket \in Nat
  BY <1>1, <1>2, <1>3, ProductNat
<1>5. conf.limit < 0 => Bucket <= 0
  <2>1. ASSUME b <= 0 PROVE Precision * b <= Precision * 0
    BY <1>1, <1>2, <2>1, ProductMonotone
  <2>2. Precision * 0 = 0 /\ Precision * b = b * Precision
    BY <1>1, <1>2, Distributes
  <2>3. QED
    BY <1>2, <1>3, <2>1, <2>2
<1>6. QED
  BY <1>1, <1>2, <1>3, <1>4, <1>5 DEF b

\* A rate that may be asked for is an integer, and so is a client's part of it.
LEMMA RateType ==
  ASSUME conf \in Configs, NEW r \in Rates
  PROVE  r \in Int /\ PerClient(r) \in Int /\ PerClient(r) * Precision \in Int
<1>1. r \in Int
  <2>1. \A i \in DOMAIN conf.rates : conf.rates[i][2] \in Int
    BY ConfType
  <2>2. \A g \in Garbage : g[2] \in Int
    BY ConfType
  <2>3. QED
    BY <2>1, <2>2, ConfType DEF Rates
<1>2. PerClient(r) \in Int
  BY <1>1, ConfType, QuotientType DEF PerClient
<1>3. QED
  BY <1>1, <1>2, ConfType, Distributes

\* A client's share of the operations is a natural number.
LEMMA NumOpsType ==
  ASSUME conf \in Configs, NEW c \in Clients
  PROVE  NumOps(c) \in Nat
BY ConfType, ShareType DEF NumOps, Clients

\* What tokens_ becomes by a refill
LEMMA RefilledType ==
  ASSUME TypeOK, NEW c \in Clients, NEW p \in Int
  PROVE  /\ Refilled(c, p) \in Int /\ Refilled(c, p) <= Bucket
         /\ p \in 0 .. IntMax =>
              Refilled(c, p) = Least(Bucket, tokens[c] + (p \div Second))
<1>1. /\ Second \in Nat \ {0} /\ Bucket \in Int /\ tokens[c] \in Int
      /\ Wrap(p) \in Int /\ (p \in 0 .. IntMax => Wrap(p) = p)
  BY ConfType, WrapType DEF TypeOK
<1> DEFINE q == Quotient(Wrap(p), Second)
<1>2. q \in Int /\ (p \in 0 .. IntMax => q = p \div Second)
  BY <1>1, QuotientType
<1>3. Refilled(c, p) = Least(Bucket, tokens[c] + q)
  BY DEF Refilled
<1> HIDE DEF q
<1>4. tokens[c] + q \in Int
  BY <1>1, <1>2
<1>5. Refilled(c, p) \in Int /\ Refilled(c, p) <= Bucket
  BY <1>1, <1>3, <1>4, LeastType
<1>6. QED
  BY <1>2, <1>3, <1>5

\* Everything about one limiter and its client is a number.
LEMMA ClientTypes ==
  ASSUME TypeOK, NEW c \in Clients
  PROVE  /\ rate[c] \in Int /\ tokens[c] \in Int /\ age[c] \in Nat
         /\ credit[c] \in Int /\ sets[c] \in Nat /\ sets[c] <= MaxSets
         /\ index[c] \in Nat /\ sleep[c] \in Int
         /\ seen[c][1] \in Int /\ seen[c][2] \in Int
         /\ age[c] * rate[c] \in Int
         /\ age[c] * rate[c] * Precision \in Int
<1>1. MaxSets \in Nat /\ Precision \in Nat
  BY ConfType DEF TypeOK
<1>2. /\ rate[c] \in Int /\ tokens[c] \in Int /\ age[c] \in Nat
      /\ credit[c] \in Int /\ sets[c] \in Nat /\ sets[c] <= MaxSets
      /\ index[c] \in Nat /\ sleep[c] \in Int
  BY <1>1 DEF TypeOK
<1>3. seen[c][1] \in Int /\ seen[c][2] \in Int
  BY DEF TypeOK
<1>4. age[c] * rate[c] \in Int
  BY <1>2, ProductInt
<1>5. age[c] * rate[c] * Precision \in Int
  BY <1>1, <1>4, ProductInt
<1>6. QED
  BY <1>2, <1>3, <1>4, <1>5

\* The clients count the latch down from NumClients, once each.
LEMMA LatchCount ==
  ASSUME conf \in Configs, NEW D, D \subseteq Clients
  PROVE  IsFiniteSet(D) /\ Cardinality(D) \in 0 .. NumClients
<1>1. IsFiniteSet(Clients) /\ Cardinality(Clients) = NumClients
  <2> DEFINE n == NumClients - 1
  <2>1. NumClients \in Nat \ {0} /\ n \in Int /\ 0 \in Int /\ ~(0 > n)
    BY ConfType
  <2> HIDE DEF n
  <2>2. IsFiniteSet(0 .. n) /\ Cardinality(0 .. n) = n - 0 + 1
    BY <2>1, FS_Interval
  <2>3. QED
    BY <2>1, <2>2 DEF n, Clients
<1>2. QED
  BY <1>1, FS_Subset, FS_CardinalityType

-----------------------------------------------------------------------------
(***************************************************************************)
(* Types, the latch, the rates that are set, and the division.             *)
(***************************************************************************)
Base == TypeOK /\ ControlInv /\ RatesInv /\ CrashOnlyOnZeroRate

\* The options do not change, and what is computed from them neither.
LEMMA ConfKept ==
  ASSUME conf' = conf
  PROVE  /\ Bucket' = Bucket /\ Rates' = Rates /\ Bounded' = Bounded
         /\ \A c : NumOps(c)' = NumOps(c)
BY DEF Bucket, Rates, Bounded, NumOps

\* The stages and positions
Positions == {"loop", "unlocked", "sleeping", "ended"}
Stages == {"reading", "waiting", "setting", "ended"}

\* Base says of a client c only what this says.
ClientBase(c) ==
  /\ tokens[c] <= 0 \/ tokens[c] <= Bucket
  /\ index[c] <= NumOps(c)
  /\ InConsume(c) => index[c] < NumOps(c)
  /\ \E r \in Rates : rate[c] = PerClient(r) * Precision
  /\ sets[c] = 0 => rate[c] = Bucket
  /\ pc[c] = "unlocked" =>
       /\ seen[c][1] < 0 /\ seen[c][2] > 0
       /\ sets[c] = 0 => seen[c][2] = rate[c]

\* And of all together
SharedBase ==
  /\ conf \in Configs
  /\ rate \in [Clients -> Int] /\ tokens \in [Clients -> Int]
  /\ age \in [Clients -> Nat] /\ pc \in [Clients -> Positions]
  /\ index \in [Clients -> Nat]
  /\ seen \in [Clients -> Int \X Int] /\ sleep \in [Clients -> Int]
  /\ credit \in [Clients -> Int] /\ sets \in [Clients -> 0 .. MaxSets]
  /\ crashed \in BOOLEAN /\ overflowed \in BOOLEAN

FileBase ==
  /\ stage \in Stages
  /\ line \in Nat \ {0} /\ delay \in Int /\ nextRate \in Int
  /\ target \in Clients
  /\ stage \in {"waiting", "setting"} => nextRate \in Rates

LatchBase ==
  /\ latchPassed \subseteq {RateThread}
  /\ latchCounted = {c \in Clients : pc[c] = "ended"}
  /\ latchCount = NumClients - Cardinality(latchCounted)

LEMMA BaseSplit ==
  Base <=> /\ SharedBase /\ FileBase /\ LatchBase /\ CrashOnlyOnZeroRate
           /\ \A c \in Clients : ClientBase(c)
<1>1. Base => /\ SharedBase /\ FileBase /\ LatchBase /\ CrashOnlyOnZeroRate
              /\ \A c \in Clients : ClientBase(c)
  BY DEF Base, TypeOK, ControlInv, RatesInv, SharedBase, FileBase, LatchBase,
         ClientBase, Positions, Stages
<1>2. ASSUME SharedBase, FileBase, LatchBase, CrashOnlyOnZeroRate,
             \A c \in Clients : ClientBase(c)
      PROVE  Base
  <2>1. latchCounted \subseteq Clients /\ latchCount \in 0 .. NumClients
    <3>1. latchCounted \subseteq Clients /\ conf \in Configs
      BY <1>2 DEF LatchBase, SharedBase
    <3>2. Cardinality(latchCounted) \in 0 .. NumClients /\ NumClients \in Nat
      BY <3>1, LatchCount, ConfType
    <3>3. QED
      BY <1>2, <3>1, <3>2 DEF LatchBase
  <2>2. TypeOK
    BY <1>2, <2>1 DEF TypeOK, SharedBase, FileBase, LatchBase, ClientBase,
                      Positions, Stages
  <2>3. ControlInv /\ RatesInv
    BY <1>2 DEF ControlInv, RatesInv, FileBase, LatchBase, ClientBase
  <2>4. QED
    BY <1>2, <2>2, <2>3 DEF Base
<1>3. QED
  BY <1>1, <1>2

\* The same after a step
LEMMA BaseJoined ==
  ASSUME SharedBase', FileBase', LatchBase', CrashOnlyOnZeroRate',
         \A c \in Clients : ClientBase(c)'
  PROVE  Base'
<1>1. (Base <=> /\ SharedBase /\ FileBase /\ LatchBase /\ CrashOnlyOnZeroRate
                /\ \A c \in Clients : ClientBase(c))'
  BY BaseSplit, PTL
<1>2. QED
  BY <1>1

\* A client that a step leaves alone
LEMMA ClientBaseKept ==
  ASSUME conf' = conf, NEW c \in Clients, ClientBase(c),
         tokens'[c] = tokens[c] /\ rate'[c] = rate[c] /\ pc'[c] = pc[c],
         index'[c] = index[c] /\ seen'[c] = seen[c] /\ sets'[c] = sets[c]
  PROVE  ClientBase(c)'
BY ConfKept DEF ClientBase, InConsume

\* Consume without a limit
LEMMA UnlimitedBase ==
  ASSUME Base, NEW c \in Clients, ConsumeUnlimited(c)
  PROVE  Base' /\ index'[c] = index[c] + 1
<1>1. /\ SharedBase /\ FileBase /\ LatchBase
      /\ \A d \in Clients : ClientBase(d)
  BY BaseSplit
<1>2. /\ ~crashed /\ pc[c] = "loop" /\ index[c] < NumOps(c)
      /\ index' = [index EXCEPT ![c] = index[c] + 1]
      /\ UNCHANGED <<conf, rate, tokens, age, pc, seen, sleep, latchCount,
                     latchCounted, latchPassed, stage, line, delay, nextRate,
                     target, crashed, credit, sets, overflowed>>
  BY DEF ConsumeUnlimited, Running, Operate, limiters, latchVars, fileVars,
         history
<1>3. /\ index'[c] = index[c] + 1 /\ index[c] \in Nat
      /\ \A d \in Clients \ {c} : index'[d] = index[d]
  BY <1>1, <1>2 DEF SharedBase
<1>4. SharedBase' /\ FileBase' /\ LatchBase'
  BY <1>1, <1>2, <1>3, ConfKept DEF SharedBase, FileBase, LatchBase
<1>5. ClientBase(c)'
  <2>1. NumOps(c) \in Nat
    BY <1>1, NumOpsType DEF SharedBase
  <2>2. QED
    BY <1>1, <1>2, <1>3, <2>1, ConfKept DEF ClientBase, InConsume
<1>6. \A d \in Clients : ClientBase(d)'
  BY <1>1, <1>2, <1>3, <1>5, ClientBaseKept
<1>7. CrashOnlyOnZeroRate'
  BY <1>2 DEF CrashOnlyOnZeroRate
<1>8. QED
  BY <1>3, <1>4, <1>6, <1>7, BaseJoined

\* A client, with its limiter, that a step leaves alone
Untouched(c) ==
  /\ tokens'[c] = tokens[c] /\ rate'[c] = rate[c] /\ age'[c] = age[c]
  /\ pc'[c] = pc[c] /\ index'[c] = index[c] /\ seen'[c] = seen[c]
  /\ sleep'[c] = sleep[c] /\ credit'[c] = credit[c] /\ sets'[c] = sets[c]

\* Consume under a limit: what it leaves of the tokens decides.
LEMMA ConsumeBase ==
  ASSUME Base, NEW c \in Clients, Consume(c)
  PROVE  /\ Base'
         /\ \A d \in Clients \ {c} : Untouched(d)
         /\ \E left \in Int :
              /\ left = Refilled(c, age[c] * rate[c]) - Precision
              /\ rate[c] > 0 /\ pc[c] = "loop"
              /\ tokens'[c] = left /\ age'[c] = 0
              /\ credit'[c] = credit[c] - Second * Precision
              /\ overflowed' = (overflowed \/ age[c] * rate[c] > IntMax)
              /\ rate' = rate /\ sleep' = sleep /\ sets' = sets /\ conf' = conf
              /\ \/ /\ left < 0 /\ pc'[c] = "unlocked"
                    /\ seen'[c] = <<left, rate[c]>> /\ index'[c] = index[c]
                 \/ /\ left >= 0 /\ pc'[c] = "loop"
                    /\ index'[c] = index[c] + 1
<1>1. /\ SharedBase /\ FileBase /\ LatchBase /\ TypeOK
      /\ \A d \in Clients : ClientBase(d)
  BY BaseSplit DEF Base
<1> DEFINE p == age[c] * rate[c]
<1>2. p \in Int /\ rate[c] \in Int /\ index[c] \in Nat
  BY <1>1, ClientTypes
<1>3. Refilled(c, p) \in Int /\ Refilled(c, p) <= Bucket
  BY <1>1, <1>2, RefilledType
<1>4. /\ Second \in Nat \ {0} /\ Precision \in Nat \ {0} /\ Bucket \in Int
      /\ NumOps(c) \in Nat
  BY <1>1, ConfType, NumOpsType DEF SharedBase
<1>5. PICK left \in Int :
        /\ left = Refilled(c, p) - Precision
        /\ ~crashed /\ pc[c] = "loop" /\ index[c] < NumOps(c) /\ rate[c] > 0
        /\ tokens' = [tokens EXCEPT ![c] = left]
        /\ \/ /\ left < 0 /\ pc' = [pc EXCEPT ![c] = "unlocked"]
              /\ seen' = [seen EXCEPT ![c] = <<left, rate[c]>>]
              /\ index' = index
           \/ /\ left >= 0 /\ index' = [index EXCEPT ![c] = index[c] + 1]
              /\ pc' = pc /\ seen' = seen
        /\ age' = [age EXCEPT ![c] = 0]
        /\ credit' = [credit EXCEPT ![c] = credit[c] - Second * Precision]
        /\ overflowed' = (overflowed \/ p > IntMax)
        /\ UNCHANGED <<conf, rate, sleep, latchCount, latchCounted,
                       latchPassed, stage, line, delay, nextRate, target,
                       crashed, sets>>
  <2> DEFINE l == Refilled(c, p) - Precision
  <2>1. l \in Int
    BY <1>3, <1>4
  <2>2. Running /\ TakeToken(c) /\ pc[c] = "loop" /\ index[c] < NumOps(c)
        /\ rate[c] > 0
    BY DEF Consume
  <2>3. /\ l = Refilled(c, p) - Precision
        /\ tokens' = [tokens EXCEPT ![c] = l]
        /\ IF l < 0
           THEN /\ pc' = [pc EXCEPT ![c] = "unlocked"]
                /\ seen' = [seen EXCEPT ![c] = <<l, rate[c]>>]
                /\ UNCHANGED index
           ELSE Operate(c) /\ UNCHANGED <<pc, seen>>
    BY <2>2 DEF TakeToken
  <2>4. /\ age' = [age EXCEPT ![c] = 0]
        /\ credit' = [credit EXCEPT ![c] = credit[c] - Second * Precision]
        /\ overflowed' = (overflowed \/ p > IntMax)
        /\ UNCHANGED <<conf, rate, sleep, latchCount, latchCounted,
                       latchPassed, stage, line, delay, nextRate, target,
                       crashed, sets>>
    BY <2>2 DEF TakeToken, latchVars, fileVars
  <2> HIDE DEF l
  <2>5. \/ /\ l < 0 /\ pc' = [pc EXCEPT ![c] = "unlocked"]
           /\ seen' = [seen EXCEPT ![c] = <<l, rate[c]>>]
           /\ index' = index
        \/ /\ l >= 0 /\ index' = [index EXCEPT ![c] = index[c] + 1]
           /\ pc' = pc /\ seen' = seen
    BY <2>1, <2>3 DEF Operate
  <2>6. ~crashed
    BY <2>2 DEF Running
  <2> HIDE DEF p
  <2>7. QED
    BY <2>1, <2>2, <2>3, <2>4, <2>5, <2>6
<1>6. /\ tokens'[c] = left /\ age'[c] = 0
      /\ credit'[c] = credit[c] - Second * Precision
      /\ pc'[c] = IF left < 0 THEN "unlocked" ELSE "loop"
      /\ seen'[c] = IF left < 0 THEN <<left, rate[c]>> ELSE seen[c]
      /\ index'[c] = IF left < 0 THEN index[c] ELSE index[c] + 1
      /\ \A d \in Clients \ {c} : Untouched(d)
  BY <1>1, <1>5 DEF SharedBase, Untouched
<1>7. credit[c] - Second * Precision \in Int
  BY <1>1, <1>4, ClientTypes, ProductInt
<1>8. left <= Bucket
  BY <1>3, <1>4, <1>5
<1> HIDE DEF p
<1>9. SharedBase'
  <2>1. overflowed' \in BOOLEAN
    BY <1>5
  <2>2. seen' \in [Clients -> Int \X Int]
    BY <1>1, <1>2, <1>5 DEF SharedBase
  <2>3. index' \in [Clients -> Nat] /\ pc' \in [Clients -> Positions]
    BY <1>1, <1>2, <1>5 DEF SharedBase, Positions
  <2>4. QED
    BY <1>1, <1>5, <1>7, <2>1, <2>2, <2>3, ConfKept DEF SharedBase
<1>10. FileBase'
  BY <1>1, <1>5, ConfKept DEF FileBase
<1>11. LatchBase'
  <2>1. \A d \in Clients : pc'[d] = "ended" <=> pc[d] = "ended"
    BY <1>5, <1>6 DEF Untouched
  <2>2. {d \in Clients : pc'[d] = "ended"} = {d \in Clients : pc[d] = "ended"}
    BY <2>1
  <2>3. QED
    BY <1>1, <1>5, <2>2 DEF LatchBase
<1>12. ClientBase(c)'
  <2>1. /\ tokens'[c] <= Bucket /\ rate'[c] = rate[c] /\ sets'[c] = sets[c]
    BY <1>5, <1>6, <1>8
  <2>2. index'[c] <= NumOps(c)
    BY <1>2, <1>4, <1>5, <1>6
  <2>3. pc'[c] \in {"unlocked", "sleeping"} => index'[c] < NumOps(c)
    BY <1>2, <1>4, <1>5, <1>6
  <2>4. pc'[c] = "unlocked" =>
          seen'[c][1] < 0 /\ seen'[c][2] > 0 /\ seen'[c][2] = rate[c]
    BY <1>5, <1>6
  <2>5. QED
    BY <1>1, <1>5, <2>1, <2>2, <2>3, <2>4, ConfKept DEF ClientBase, InConsume
<1>13. \A d \in Clients : ClientBase(d)'
  BY <1>1, <1>5, <1>6, <1>12, ClientBaseKept DEF Untouched
<1>14. CrashOnlyOnZeroRate'
  BY <1>5 DEF CrashOnlyOnZeroRate
<1>15. QED
  <2>1. Base'
    BY <1>9, <1>10, <1>11, <1>13, <1>14, BaseJoined
  <2>2. \/ /\ left < 0 /\ pc'[c] = "unlocked"
           /\ seen'[c] = <<left, rate[c]>> /\ index'[c] = index[c]
        \/ left >= 0 /\ pc'[c] = "loop" /\ index'[c] = index[c] + 1
    BY <1>6
  <2>3. QED
    BY <1>5, <1>6, <2>1, <2>2 DEF p

\* The sleep that ComputeWait starts for tokens h and rate r
WaitFor(h, r) == Quotient(Wrap(-h * Second), r)

\* After Consume has unlocked the mutex
LEMMA ComputeWaitBase ==
  ASSUME Base, NEW c \in Clients, ComputeWait(c)
  PROVE  /\ Base'
         /\ \A d \in Clients \ {c} : Untouched(d)
         /\ \E held \in {seen[c][1], tokens[c]}, r \in {seen[c][2], rate[c]} :
              /\ pc[c] = "unlocked"
              /\ tokens' = tokens /\ rate' = rate /\ age' = age
              /\ index' = index /\ credit' = credit /\ sets' = sets
              /\ conf' = conf
              /\ \/ /\ pc' = pc /\ seen' = seen /\ sleep' = sleep
                    /\ overflowed' = overflowed
                 \/ /\ r # 0 /\ pc'[c] = "sleeping"
                    /\ sleep'[c] = WaitFor(held, r)
                    /\ overflowed' = (overflowed \/ -held * Second > IntMax)
<1>1. /\ SharedBase /\ FileBase /\ LatchBase /\ TypeOK
      /\ \A d \in Clients : ClientBase(d)
  BY BaseSplit DEF Base
<1>2. /\ ~crashed /\ pc[c] = "unlocked"
      /\ UNCHANGED <<conf, rate, tokens, age, index, latchCount, latchCounted,
                     latchPassed, stage, line, delay, nextRate, target,
                     credit, sets>>
  BY DEF ComputeWait, Running, limiters, latchVars, fileVars
<1>3. PICK held \in {seen[c][1], tokens[c]}, r \in {seen[c][2], rate[c]} :
        IF r = 0
        THEN /\ crashed' = TRUE
             /\ UNCHANGED <<pc, seen, sleep, overflowed>>
        ELSE /\ pc' = [pc EXCEPT ![c] = "sleeping"]
             /\ seen' = [seen EXCEPT ![c] = <<0, 0>>]
             /\ sleep' = [sleep EXCEPT ![c] = Quotient(Wrap(-held * Second), r)]
             /\ overflowed' = (overflowed \/ -held * Second > IntMax)
             /\ UNCHANGED crashed
  BY DEF ComputeWait
<1>4. /\ held \in Int /\ r \in Int /\ rate[c] \in Int
      /\ tokens[c] \in Int /\ age[c] \in Nat /\ sets[c] \in Nat
      /\ seen[c][1] < 0 /\ seen[c][2] > 0
      /\ sets[c] = 0 => seen[c][2] = rate[c]
  BY <1>1, <1>2, ClientTypes DEF ClientBase
<1>5. CASE r = 0
  <2>1. /\ crashed' = TRUE
        /\ pc' = pc /\ seen' = seen /\ sleep' = sleep
        /\ overflowed' = overflowed
    BY <1>3, <1>5
  <2>2. \A d \in Clients : Untouched(d)
    BY <1>2, <2>1 DEF Untouched
  <2>3. \A d \in Clients : ClientBase(d)'
    BY <1>1, <1>2, <2>1, ClientBaseKept
  <2>4. SharedBase' /\ FileBase' /\ LatchBase'
    BY <1>1, <1>2, <2>1, ConfKept DEF SharedBase, FileBase, LatchBase
  <2>5. CrashOnlyOnZeroRate'
    <3>1. rate[c] = 0 /\ sets[c] > 0
      BY <1>3, <1>4, <1>5
    <3>2. /\ pc'[c] = "unlocked" /\ rate'[c] = 0 /\ sets'[c] > 0
          /\ seen'[c][2] > 0
      BY <1>2, <1>4, <2>1, <3>1
    <3>3. QED
      BY <3>2 DEF CrashOnlyOnZeroRate
  <2>6. Base'
    BY <2>3, <2>4, <2>5, BaseJoined
  <2>7. QED
    BY <1>2, <2>1, <2>2, <2>6
<1>6. CASE r # 0
  <2> DEFINE w == WaitFor(held, r)
             q == -held * Second
  <2>1. /\ crashed' = crashed /\ overflowed' = (overflowed \/ q > IntMax)
        /\ pc' = [pc EXCEPT ![c] = "sleeping"]
        /\ seen' = [seen EXCEPT ![c] = <<0, 0>>]
        /\ sleep' = [sleep EXCEPT ![c] = w]
    BY <1>3, <1>6 DEF WaitFor
  <2>2. w \in Int
    <3>1. q \in Int
      BY <1>1, <1>4, ConfType, ProductInt DEF SharedBase
    <3> HIDE DEF q
    <3>2. w = Quotient(Wrap(q), r)
      BY DEF WaitFor, q
    <3>3. Wrap(q) \in Int
      BY <3>1, WrapType
    <3> HIDE DEF w
    <3>4. QED
      BY <1>4, <1>6, <3>2, <3>3, QuotientInt
  <2> HIDE DEF w, q
  <2>3. /\ pc'[c] = "sleeping" /\ sleep'[c] = w
        /\ \A d \in Clients \ {c} : Untouched(d)
    BY <1>1, <1>2, <2>1 DEF SharedBase, Untouched
  <2>4. SharedBase'
    <3>1. overflowed' \in BOOLEAN
      BY <2>1
    <3>2. /\ seen' \in [Clients -> Int \X Int] /\ sleep' \in [Clients -> Int]
          /\ pc' \in [Clients -> Positions]
      BY <1>1, <2>1, <2>2 DEF SharedBase, Positions
    <3>3. QED
      BY <1>1, <1>2, <2>1, <3>1, <3>2, ConfKept DEF SharedBase
  <2>5. FileBase'
    BY <1>1, <1>2, ConfKept DEF FileBase
  <2>6. LatchBase'
    <3>1. \A d \in Clients : pc'[d] = "ended" <=> pc[d] = "ended"
      BY <1>2, <2>3 DEF Untouched
    <3>2. {d \in Clients : pc'[d] = "ended"}
            = {d \in Clients : pc[d] = "ended"}
      BY <3>1
    <3>3. QED
      BY <1>1, <1>2, <3>2 DEF LatchBase
  <2>7. ClientBase(c)'
    BY <1>1, <1>2, <2>3, ConfKept DEF ClientBase, InConsume
  <2>8. \A d \in Clients : ClientBase(d)'
    BY <1>1, <1>2, <2>3, <2>7, ClientBaseKept DEF Untouched
  <2>9. CrashOnlyOnZeroRate'
    BY <1>2, <2>1 DEF CrashOnlyOnZeroRate
  <2>10. Base'
    BY <2>4, <2>5, <2>6, <2>8, <2>9, BaseJoined
  <2>11. QED
    BY <1>2, <1>6, <2>1, <2>3, <2>10 DEF w, q
<1>7. QED
  BY <1>5, <1>6

\* The end of the sleep
LEMMA WakeBase ==
  ASSUME Base, NEW c \in Clients, Wake(c)
  PROVE  /\ Base'
         /\ \A d \in Clients \ {c} : Untouched(d)
         /\ pc[c] = "sleeping" /\ sleep[c] <= 0
         /\ pc'[c] = "loop" /\ sleep'[c] = 0 /\ index'[c] = index[c] + 1
         /\ tokens' = tokens /\ rate' = rate /\ age' = age /\ conf' = conf
         /\ credit' = credit /\ sets' = sets /\ overflowed' = overflowed
<1>1. /\ SharedBase /\ FileBase /\ LatchBase
      /\ \A d \in Clients : ClientBase(d)
  BY BaseSplit
<1>2. /\ ~crashed /\ pc[c] = "sleeping" /\ sleep[c] <= 0
      /\ pc' = [pc EXCEPT ![c] = "loop"]
      /\ index' = [index EXCEPT ![c] = index[c] + 1]
      /\ sleep' = [sleep EXCEPT ![c] = 0]
      /\ UNCHANGED <<conf, rate, tokens, age, seen, latchCount, latchCounted,
                     latchPassed, stage, line, delay, nextRate, target,
                     crashed, credit, sets, overflowed>>
  BY DEF Wake, Running, Goto, Operate, limiters, latchVars, fileVars, history
<1>3. /\ pc'[c] = "loop" /\ index'[c] = index[c] + 1 /\ sleep'[c] = 0
      /\ index[c] \in Nat
      /\ \A d \in Clients \ {c} : Untouched(d)
  BY <1>1, <1>2 DEF SharedBase, Untouched
<1>4. SharedBase'
  <2>1. /\ pc' \in [Clients -> Positions] /\ index' \in [Clients -> Nat]
        /\ sleep' \in [Clients -> Int]
    BY <1>1, <1>2, <1>3 DEF SharedBase, Positions
  <2>2. QED
    BY <1>1, <1>2, <2>1, ConfKept DEF SharedBase
<1>5. FileBase'
  BY <1>1, <1>2, ConfKept DEF FileBase
<1>6. LatchBase'
  <2>1. \A d \in Clients : pc'[d] = "ended" <=> pc[d] = "ended"
    BY <1>2, <1>3 DEF Untouched
  <2>2. {d \in Clients : pc'[d] = "ended"} = {d \in Clients : pc[d] = "ended"}
    BY <2>1
  <2>3. QED
    BY <1>1, <1>2, <2>2 DEF LatchBase
<1>7. ClientBase(c)'
  <2>1. NumOps(c) \in Nat /\ index[c] < NumOps(c)
    BY <1>1, <1>2, NumOpsType DEF SharedBase, ClientBase, InConsume
  <2>2. QED
    BY <1>1, <1>2, <1>3, <2>1, ConfKept DEF ClientBase, InConsume
<1>8. \A d \in Clients : ClientBase(d)'
  BY <1>1, <1>2, <1>3, <1>7, ClientBaseKept DEF Untouched
<1>9. CrashOnlyOnZeroRate'
  BY <1>2 DEF CrashOnlyOnZeroRate
<1>10. QED
  BY <1>2, <1>3, <1>4, <1>5, <1>6, <1>8, <1>9, BaseJoined

\* The end of the client: it counts the latch down.
LEMMA FinishBase ==
  ASSUME Base, NEW c \in Clients, Finish(c)
  PROVE  /\ Base'
         /\ \A d \in Clients \ {c} : Untouched(d)
         /\ pc[c] = "loop" /\ pc'[c] = "ended"
         /\ tokens' = tokens /\ rate' = rate /\ age' = age /\ conf' = conf
         /\ sleep' = sleep /\ index' = index /\ seen' = seen
         /\ credit' = credit /\ sets' = sets /\ overflowed' = overflowed
<1>1. /\ SharedBase /\ FileBase /\ LatchBase
      /\ \A d \in Clients : ClientBase(d)
  BY BaseSplit
<1>2. /\ ~crashed /\ pc[c] = "loop"
      /\ pc' = [pc EXCEPT ![c] = "ended"]
      /\ c \notin latchCounted /\ latchCounted' = latchCounted \cup {c}
      /\ latchCount' = latchCount - 1
      /\ UNCHANGED <<conf, rate, tokens, age, index, seen, sleep, latchPassed,
                     stage, line, delay, nextRate, target, crashed, credit,
                     sets, overflowed>>
  BY DEF Finish, Running, Goto, L!CountDown, limiters, latchVars, fileVars,
         history
<1>3. pc'[c] = "ended" /\ \A d \in Clients \ {c} : Untouched(d)
  BY <1>1, <1>2 DEF SharedBase, Untouched
<1>4. SharedBase'
  <2>1. pc' \in [Clients -> Positions]
    BY <1>1, <1>2 DEF SharedBase, Positions
  <2>2. QED
    BY <1>1, <1>2, <2>1, ConfKept DEF SharedBase
<1>5. FileBase'
  BY <1>1, <1>2, ConfKept DEF FileBase
<1>6. LatchBase'
  <2>1. \A d \in Clients :
          pc'[d] = "ended" <=> (d = c \/ pc[d] = "ended")
    BY <1>2, <1>3 DEF Untouched
  <2>2. {d \in Clients : pc'[d] = "ended"}
          = {d \in Clients : pc[d] = "ended"} \cup {c}
    BY <2>1
  <2>3. latchCounted \subseteq Clients /\ conf \in Configs
    BY <1>1 DEF LatchBase, SharedBase
  <2>4. IsFiniteSet(latchCounted) /\ Cardinality(latchCounted) \in Int
        /\ NumClients \in Int
    BY <2>3, LatchCount, ConfType
  <2>5. Cardinality(latchCounted') = Cardinality(latchCounted) + 1
    BY <1>2, <2>4, FS_AddElement
  <2>6. latchCount' = NumClients - Cardinality(latchCounted')
    BY <1>1, <1>2, <2>4, <2>5 DEF LatchBase
  <2>7. QED
    BY <1>1, <1>2, <2>2, <2>6 DEF LatchBase
<1>7. ClientBase(c)'
  BY <1>1, <1>2, <1>3, ConfKept DEF ClientBase, InConsume
<1>8. \A d \in Clients : ClientBase(d)'
  BY <1>1, <1>2, <1>3, <1>7, ClientBaseKept DEF Untouched
<1>9. CrashOnlyOnZeroRate'
  BY <1>2 DEF CrashOnlyOnZeroRate
<1>10. QED
  BY <1>2, <1>3, <1>4, <1>5, <1>6, <1>8, <1>9, BaseJoined

\* The rate thread does nothing to a limiter but SetRate.
FileStep == ReadRate \/ EndOfFile \/ AwaitDone \/ AwaitTimeout

LEMMA FileBaseKept ==
  ASSUME Base, FileStep
  PROVE  /\ Base' /\ conf' = conf /\ overflowed' = overflowed
         /\ \A d \in Clients : Untouched(d)
<1>1. /\ SharedBase /\ FileBase /\ LatchBase
      /\ \A d \in Clients : ClientBase(d)
  BY BaseSplit
<1>2. /\ UNCHANGED <<conf, rate, tokens, age, pc, index, seen, sleep, crashed,
                     credit, sets, overflowed>>
      /\ target' \in {target, 0}
      /\ UNCHANGED <<latchCount, latchCounted>>
      /\ latchPassed' \subseteq latchPassed \cup {RateThread}
  BY DEF FileStep, ReadRate, EndOfFile, AwaitDone, AwaitTimeout, L!Pass,
         limiters, clientVars, latchVars, history
<1>3. SharedBase' /\ LatchBase' /\ CrashOnlyOnZeroRate'
  <2>1. SharedBase'
    BY <1>1, <1>2, ConfKept DEF SharedBase
  <2>2. LatchBase'
    BY <1>1, <1>2 DEF LatchBase
  <2>3. CrashOnlyOnZeroRate'
    BY <1>2 DEF CrashOnlyOnZeroRate, Base
  <2>4. QED
    BY <2>1, <2>2, <2>3
<1>4. /\ \A d \in Clients : Untouched(d)
      /\ \A d \in Clients : ClientBase(d)'
  BY <1>1, <1>2, ClientBaseKept DEF Untouched
<1>5. FileBase'
  <2>1. 0 \in Clients /\ Rates' = Rates
    BY <1>1, <1>2, ConfType, ConfKept DEF SharedBase, Clients
  <2>2. CASE ReadRate
    <3>1. PICK next \in NextLines :
            /\ delay' = next[1] * Second /\ nextRate' = next[2]
            /\ stage' = "waiting" /\ target' = target
            /\ line' = IF conf.kind = "unreadable" THEN line ELSE line + 1
      BY <2>2 DEF ReadRate
    <3>2. next \in Int \X Int /\ next[2] \in Rates
      <4>1. CASE conf.kind # "unreadable" /\ line <= Len(conf.rates)
        <5>1. next = conf.rates[line]
          BY <4>1 DEF NextLines
        <5>2. conf.rates \in Seq(Int \X Int) /\ line \in Nat \ {0}
          BY <1>1, ConfType DEF SharedBase, FileBase
        <5>3. line \in DOMAIN conf.rates
          BY <4>1, <5>2
        <5>4. QED
          BY <5>1, <5>2, <5>3 DEF Rates
      <4>2. CASE ~(conf.kind # "unreadable" /\ line <= Len(conf.rates))
        <5>1. next \in Garbage
          BY <4>2 DEF NextLines
        <5>2. QED
          BY <1>1, <5>1, ConfType DEF SharedBase, Rates
      <4>3. QED
        BY <4>1, <4>2
    <3>3. next[1] \in Int /\ next[2] \in Int /\ Second \in Int
      BY <1>1, <3>2, ConfType DEF SharedBase
    <3>4. next[1] * Second \in Int
      BY <3>3, ProductInt
    <3>5. line' \in Nat \ {0}
      BY <1>1, <3>1 DEF FileBase
    <3>6. QED
      BY <1>1, <2>1, <3>1, <3>2, <3>3, <3>4, <3>5 DEF FileBase, Stages
  <2>3. CASE EndOfFile
    BY <1>1, <2>1, <2>3 DEF EndOfFile, FileBase, Stages
  <2>4. CASE AwaitDone
    BY <1>1, <2>1, <2>4 DEF AwaitDone, FileBase, Stages
  <2>5. CASE AwaitTimeout
    BY <1>1, <2>1, <2>5 DEF AwaitTimeout, FileBase, Stages
  <2>6. QED
    BY <2>2, <2>3, <2>4, <2>5 DEF FileStep
<1>6. QED
  BY <1>2, <1>3, <1>4, <1>5, BaseJoined

\* SetRate
LEMMA SetRateBase ==
  ASSUME Base, SetRate
  PROVE  /\ Base' /\ conf' = conf /\ target \in Clients
         /\ \A d \in Clients \ {target} : Untouched(d)
         /\ LET c == target
                product == age[c] * rate[c] * Precision
            IN  /\ tokens'[c] = Refilled(c, product) /\ age'[c] = 0
                /\ nextRate \in Rates
                /\ rate'[c] = PerClient(nextRate) * Precision
                /\ sets'[c] = Least(MaxSets, sets[c] + 1)
                /\ overflowed' = (overflowed \/ product > IntMax)
                /\ pc' = pc /\ index' = index /\ seen' = seen
                /\ sleep' = sleep /\ credit' = credit
<1>1. /\ SharedBase /\ FileBase /\ LatchBase /\ TypeOK
      /\ \A d \in Clients : ClientBase(d)
  BY BaseSplit DEF Base
<1>2. PICK c \in Clients : c = target
  BY <1>1 DEF FileBase
<1> DEFINE p == age[c] * rate[c] * Precision
           t == Refilled(c, p)
           r == PerClient(nextRate) * Precision
           s == Least(MaxSets, sets[c] + 1)
<1>3. /\ ~crashed /\ stage = "setting" /\ nextRate \in Rates
      /\ tokens' = [tokens EXCEPT ![c] = t]
      /\ rate' = [rate EXCEPT ![c] = r]
      /\ age' = [age EXCEPT ![c] = 0]
      /\ sets' = [sets EXCEPT ![c] = s]
      /\ overflowed' = (overflowed \/ p > IntMax)
      /\ stage' \in {"reading", "setting"}
      /\ target' = IF c = NumClients - 1 THEN 0 ELSE c + 1
      /\ UNCHANGED <<conf, pc, index, seen, sleep, latchCount, latchCounted,
                     latchPassed, line, delay, nextRate, crashed, credit>>
  BY <1>1, <1>2 DEF SetRate, Running, FileBase, clientVars, latchVars
<1>4. t \in Int /\ t <= Bucket
  BY <1>1, ClientTypes, RefilledType
<1>5. r \in Int
  BY <1>1, <1>3, RateType DEF SharedBase
<1>6. s \in 0 .. MaxSets /\ s # 0
  <2>1. sets[c] \in Nat /\ MaxSets \in Nat \ {0}
    BY <1>1, ClientTypes, ConfType DEF SharedBase
  <2>2. QED
    BY <2>1 DEF Least
<1> HIDE DEF t, s
<1>7. SharedBase'
  <2>1. overflowed' \in BOOLEAN
    BY <1>3
  <2> HIDE DEF p, r
  <2>2. QED
    BY <1>1, <1>3, <1>4, <1>5, <1>6, <2>1, ConfKept DEF SharedBase
<1>8. LatchBase' /\ CrashOnlyOnZeroRate'
  BY <1>1, <1>3, ConfKept DEF LatchBase, CrashOnlyOnZeroRate
<1>9. FileBase'
  <2>1. target' \in Clients
    BY <1>1, <1>2, <1>3, ConfType DEF SharedBase, Clients
  <2>2. QED
    BY <1>1, <1>3, <2>1, ConfKept DEF FileBase, Stages
<1>10. /\ tokens'[c] = t /\ rate'[c] = r /\ age'[c] = 0 /\ sets'[c] = s
       /\ \A d \in Clients \ {c} : Untouched(d)
  BY <1>1, <1>3 DEF SharedBase, Untouched
<1>11. ClientBase(c)'
  <2>1. \E q \in Rates : rate'[c] = PerClient(q) * Precision
    BY <1>3, <1>10
  <2>2. QED
    BY <1>1, <1>3, <1>4, <1>6, <1>10, <2>1, ConfKept
       DEF ClientBase, InConsume
<1>12. \A d \in Clients : ClientBase(d)'
  BY <1>1, <1>3, <1>10, <1>11, ClientBaseKept DEF Untouched
<1>13. Base'
  BY <1>7, <1>8, <1>9, <1>12, BaseJoined
<1>14. QED
  BY <1>2, <1>3, <1>10, <1>13 DEF t, s

\* Time moves the clock and the exact buckets only.
LEMMA TickBase ==
  ASSUME Base, Tick
  PROVE  /\ Base' /\ conf' = conf /\ overflowed' = overflowed
         /\ rate' = rate /\ tokens' = tokens /\ pc' = pc /\ index' = index
         /\ seen' = seen /\ sets' = sets
         /\ \A c \in Clients :
              /\ age'[c] = IF pc[c] = "ended"
                                \/ (age[c] >= MaxAge /\ Settled(c))
                           THEN age[c] ELSE age[c] + 1
              /\ sleep'[c] = IF sleep[c] > 0 THEN sleep[c] - 1 ELSE sleep[c]
              /\ credit'[c] = IF rate[c] > 0 /\ pc[c] # "ended"
                              THEN Least(Second * Bucket, credit[c] + rate[c])
                              ELSE credit[c]
<1>1. /\ SharedBase /\ FileBase /\ LatchBase /\ TypeOK
      /\ \A d \in Clients : ClientBase(d)
  BY BaseSplit DEF Base
<1>2. UNCHANGED <<conf, rate, tokens, pc, index, seen, latchCount,
                  latchCounted, latchPassed, stage, line, nextRate, target,
                  crashed, sets, overflowed>>
  BY DEF Tick, latchVars
<1>3. \A c \in Clients :
        /\ age'[c] = IF pc[c] = "ended" \/ (age[c] >= MaxAge /\ Settled(c))
                     THEN age[c] ELSE age[c] + 1
        /\ sleep'[c] = IF sleep[c] > 0 THEN sleep[c] - 1 ELSE sleep[c]
        /\ credit'[c] = IF rate[c] > 0 /\ pc[c] # "ended"
                        THEN Least(Second * Bucket, credit[c] + rate[c])
                        ELSE credit[c]
  BY DEF Tick
<1>4. delay' = IF stage = "waiting" /\ delay > 0 THEN delay - 1 ELSE delay
  BY DEF Tick
<1>5. /\ age' \in [Clients -> Nat] /\ sleep' \in [Clients -> Int]
      /\ credit' \in [Clients -> Int]
  <2>1. ASSUME NEW c \in Clients
        PROVE  age'[c] \in Nat /\ sleep'[c] \in Int /\ credit'[c] \in Int
    <3>1. Second * Bucket \in Int /\ credit[c] + rate[c] \in Int
      <4>1. Second \in Int /\ Bucket \in Int
        BY <1>1, ConfType DEF SharedBase
      <4>2. credit[c] \in Int /\ rate[c] \in Int
        BY <1>1, ClientTypes
      <4>3. QED
        BY <4>1, <4>2, ProductInt
    <3>2. Least(Second * Bucket, credit[c] + rate[c]) \in Int
      BY <3>1, LeastType
    <3>3. credit'[c] \in Int
      BY <1>1, <1>3, <3>2, ClientTypes
    <3>4. QED
      BY <1>1, <1>3, <3>3, ClientTypes
  <2>2. /\ age' = [c \in Clients |-> age'[c]]
        /\ sleep' = [c \in Clients |-> sleep'[c]]
        /\ credit' = [c \in Clients |-> credit'[c]]
    BY DEF Tick
  <2>3. QED
    BY <2>1, <2>2
<1>6. SharedBase'
  BY <1>1, <1>2, <1>5, ConfKept DEF SharedBase
<1>7. FileBase'
  BY <1>1, <1>2, <1>4, ConfKept DEF FileBase
<1>8. LatchBase' /\ CrashOnlyOnZeroRate'
  <2>1. LatchBase'
    BY <1>1, <1>2 DEF LatchBase
  <2>2. CrashOnlyOnZeroRate'
    BY <1>2 DEF CrashOnlyOnZeroRate, Base
  <2>3. QED
    BY <2>1, <2>2
<1>9. \A d \in Clients : ClientBase(d)'
  BY <1>1, <1>2, ClientBaseKept
<1>10. QED
  BY <1>2, <1>3, <1>6, <1>7, <1>8, <1>9, BaseJoined

\* The beginning
LEMMA InitBase ==
  ASSUME Init
  PROVE  Base
<1>1. /\ conf \in Configs /\ crashed = FALSE /\ overflowed = FALSE
      /\ rate = [c \in Clients |-> Bucket]
      /\ tokens = [c \in Clients |-> 0] /\ age = [c \in Clients |-> 0]
      /\ pc = [c \in Clients |-> "loop"] /\ index = [c \in Clients |-> 0]
      /\ seen = [c \in Clients |-> <<0, 0>>]
      /\ sleep = [c \in Clients |-> 0] /\ credit = [c \in Clients |-> 0]
      /\ sets = [c \in Clients |-> 0]
      /\ latchCount = NumClients /\ latchCounted = {} /\ latchPassed = {}
      /\ stage \in {"ended", "reading"}
      /\ line = 1 /\ delay = 0 /\ nextRate = 0 /\ target = 0
  BY DEF Init, L!LInit
<1>2. /\ NumClients \in Nat \ {0} /\ MaxSets \in Nat \ {0} /\ Bucket \in Int
  BY <1>1, ConfType
<1>3. SharedBase /\ FileBase
  <2>1. 0 \in Clients /\ 0 \in 0 .. MaxSets
    BY <1>2 DEF Clients
  <2>2. SharedBase
    <3>1. rate \in [Clients -> Int] /\ tokens \in [Clients -> Int]
      BY <1>1, <1>2
    <3>2. /\ age \in [Clients -> Nat] /\ index \in [Clients -> Nat]
          /\ pc \in [Clients -> Positions]
      BY <1>1 DEF Positions
    <3>3. seen \in [Clients -> Int \X Int] /\ sleep \in [Clients -> Int]
      BY <1>1
    <3>4. credit \in [Clients -> Int] /\ sets \in [Clients -> 0 .. MaxSets]
      BY <1>1, <2>1
    <3>5. QED
      BY <1>1, <3>1, <3>2, <3>3, <3>4 DEF SharedBase
  <2>3. FileBase
    BY <1>1, <2>1 DEF FileBase, Stages
  <2>4. QED
    BY <2>2, <2>3
<1>4. LatchBase
  <2>1. {c \in Clients : pc[c] = "ended"} = {} /\ Cardinality({}) = 0
    BY <1>1, FS_EmptySet
  <2>2. QED
    BY <1>1, <1>2, <2>1 DEF LatchBase
<1>5. ASSUME NEW c \in Clients
      PROVE  ClientBase(c)
  <2>1. NumOps(c) \in Nat
    BY <1>1, NumOpsType
  <2>2. conf.limit \in Rates /\ rate[c] = PerClient(conf.limit) * Precision
    BY <1>1 DEF Rates, Bucket
  <2>3. QED
    BY <1>1, <2>1, <2>2 DEF ClientBase, InConsume
<1>6. CrashOnlyOnZeroRate
  BY <1>1 DEF CrashOnlyOnZeroRate
<1>7. QED
  BY <1>3, <1>4, <1>5, <1>6, BaseSplit

\* A step that changes nothing
LEMMA StutterBase ==
  ASSUME Base, UNCHANGED vars
  PROVE  /\ Base' /\ conf' = conf /\ overflowed' = overflowed
         /\ \A d \in Clients : Untouched(d)
<1>1. /\ UNCHANGED <<conf, rate, tokens, age, pc, index, seen, sleep,
                     latchCount, latchCounted, latchPassed, stage, line,
                     delay, nextRate, target, crashed, credit, sets,
                     overflowed>>
  BY DEF vars, limiters, clientVars, latchVars, fileVars, history
<1>2. /\ SharedBase /\ FileBase /\ LatchBase
      /\ \A d \in Clients : ClientBase(d)
  BY BaseSplit
<1>3. SharedBase' /\ FileBase' /\ LatchBase' /\ CrashOnlyOnZeroRate'
  <2>1. SharedBase'
    BY <1>1, <1>2, ConfKept DEF SharedBase
  <2>2. FileBase' /\ LatchBase'
    BY <1>1, <1>2, ConfKept DEF FileBase, LatchBase
  <2>3. CrashOnlyOnZeroRate'
    BY <1>1 DEF CrashOnlyOnZeroRate, Base
  <2>4. QED
    BY <2>1, <2>2, <2>3
<1>4. \A d \in Clients : ClientBase(d)'
  BY <1>1, <1>2, ClientBaseKept
<1>5. QED
  BY <1>1, <1>3, <1>4, BaseJoined DEF Untouched

-----------------------------------------------------------------------------
(***************************************************************************)
(* The balance of a limiter and the exact bucket it is held to.            *)
(***************************************************************************)

\* What LevelInv, PaidInv and EarnedInv say of one client
CreditPart(c) == conf.limit >= 0 => credit[c] <= Second * Bucket
LevelPart(c) == Kept(c) => Level(c) <= credit[c] + Gift(c)
Owing(c) ==
  /\ rate[c] > 0
  /\ pc[c] \in {"loop", "ended"} => credit[c] + rate[c] > -Gift(c)
  /\ pc[c] = "unlocked" => tokens[c] = seen[c][1] /\ rate[c] = seen[c][2]
  /\ pc[c] = "sleeping" =>
       sleep[c] >= 0 /\ credit[c] + sleep[c] * rate[c] + rate[c] > -Gift(c)
  /\ Bounded => credit[c] + Second * (2 * Precision) >= -Gift(c)
PaidPart(c) == Kept(c) /\ ~Paid(c) => Owing(c)
Earning == ~overflowed /\ (\A r \in Rates : r >= 0)
EarnedPart(c) ==
  Earning /\ sets[c] < MaxSets =>
    Level(c) >= credit[c] - Second * Refills(c)
Balance(c) == CreditPart(c) /\ LevelPart(c) /\ PaidPart(c) /\ EarnedPart(c)

LEMMA BalanceSplit ==
  IInv <=> Base /\ \A c \in Clients : Balance(c)
BY DEF IInv, Base, LevelInv, PaidInv, EarnedInv, Balance, CreditPart,
       LevelPart, Owing, PaidPart, Earning, EarnedPart

LEMMA BalanceJoined ==
  ASSUME Base', \A c \in Clients : Balance(c)'
  PROVE  IInv'
<1>1. (IInv <=> Base /\ \A c \in Clients : Balance(c))'
  BY BalanceSplit, PTL
<1>2. QED
  BY <1>1

\* The balance is a matter of numbers.
LEMMA BalanceTypes ==
  ASSUME TypeOK, NEW c \in Clients
  PROVE  /\ Second * Bucket \in Int /\ Second * Precision \in Nat
         /\ Second * (2 * Precision) = Second * Precision + Second * Precision
         /\ Second * tokens[c] \in Int /\ Level(c) \in Int
         /\ Level(c) <= Second * Bucket
         /\ Refills(c) \in Nat /\ Second * Refills(c) \in Nat
         /\ Second * (Refills(c) + 1) = Second * Refills(c) + Second
         /\ Gift(c) \in Int
         /\ conf.limit >= 0 =>
              Second * Bucket \in Nat /\ Gift(c) \in Nat /\ Bucket \in Nat
<1>1. /\ Second \in Nat \ {0} /\ Precision \in Nat \ {0} /\ Bucket \in Int
      /\ (conf.limit >= 0 => Bucket \in Nat)
  BY ConfType DEF TypeOK
<1>2. /\ tokens[c] \in Int /\ sets[c] \in Nat /\ index[c] \in Nat
      /\ age[c] * rate[c] \in Int
  BY ClientTypes
<1>3. /\ Second * Bucket \in Int /\ Second * Precision \in Nat
      /\ Second * tokens[c] \in Int
      /\ (conf.limit >= 0 => Second * Bucket \in Nat)
  BY <1>1, <1>2, ProductInt, ProductNat
<1>4. Second * (2 * Precision) = Second * Precision + Second * Precision
  <2>1. 2 * Precision = Precision + Precision
    BY <1>1
  <2>2. QED
    BY <1>1, <2>1, Distributes
<1>5. Level(c) \in Int /\ Level(c) <= Second * Bucket
  <2> DEFINE x == Second * tokens[c]
                    + (IF rate[c] > 0 THEN age[c] * rate[c] ELSE 0)
             b == Second * Bucket
  <2>1. x \in Int
    BY <1>2, <1>3
  <2>2. Level(c) = Least(b, x) /\ b \in Int
    BY <1>3 DEF Level
  <2> HIDE DEF x, b
  <2>3. Level(c) \in Int /\ Level(c) <= b
    BY <2>1, <2>2, LeastType
  <2>4. QED
    BY <2>3 DEF b
<1>6. Refills(c) \in Nat
  BY <1>2 DEF Refills
<1>7. /\ Second * Refills(c) \in Nat
      /\ Second * (Refills(c) + 1) = Second * Refills(c) + Second
  <2> DEFINE n == Refills(c)
  <2>1. n \in Nat /\ Second \in Nat
    BY <1>1, <1>6
  <2> HIDE DEF n
  <2>2. Second * n \in Nat /\ Second * (n + 1) = Second * n + Second * 1
    BY <2>1, ProductNat, Distributes
  <2>3. QED
    BY <2>1, <2>2 DEF n
<1>8. Gift(c) \in Int /\ (conf.limit >= 0 => Gift(c) \in Nat)
  <2> DEFINE g == Bucket + 2 * Precision
             h == sets[c] * g
  <2>1. g \in Int /\ (conf.limit >= 0 => g \in Nat)
    BY <1>1
  <2>2. Gift(c) = Second * h
    BY DEF Gift
  <2> HIDE DEF g
  <2>3. h \in Int /\ (conf.limit >= 0 => h \in Nat)
    BY <1>2, <2>1, ProductInt, ProductNat
  <2> HIDE DEF h
  <2>4. QED
    BY <1>1, <2>2, <2>3, ProductInt, ProductNat
<1>9. QED
  BY <1>1, <1>3, <1>4, <1>5, <1>6, <1>7, <1>8

\* A client with its limiter that a step leaves alone keeps its balance.
LEMMA BalanceKept ==
  ASSUME conf' = conf, NEW c \in Clients, Balance(c), Untouched(c),
         overflowed => overflowed'
  PROVE  Balance(c)'
<1>1. /\ Bucket' = Bucket /\ Rates' = Rates /\ Bounded' = Bounded
  BY ConfKept
<1>2. /\ Level(c)' = Level(c) /\ Gift(c)' = Gift(c)
      /\ Refills(c)' = Refills(c) /\ Paid(c)' = Paid(c)
      /\ (Kept(c)' => Kept(c)) /\ (Earning' => Earning)
  BY <1>1 DEF Untouched, Level, Gift, Refills, InConsume, Paid, Kept, Earning
<1>3. CreditPart(c)' /\ LevelPart(c)' /\ EarnedPart(c)'
  BY <1>1, <1>2 DEF Untouched, Balance, CreditPart, LevelPart, EarnedPart
<1>4. Owing(c) => Owing(c)'
  BY <1>1, <1>2 DEF Untouched, Owing
<1>5. PaidPart(c)'
  BY <1>2, <1>4 DEF Balance, PaidPart
<1>6. QED
  BY <1>3, <1>5 DEF Balance

\* Consume without a limit owes nothing, and is one refill that was not made.
LEMMA UnlimitedBalance ==
  ASSUME Base, NEW c \in Clients, ConsumeUnlimited(c),
         \A d \in Clients : Balance(d)
  PROVE  \A d \in Clients : Balance(d)'
<1>1. /\ pc[c] = "loop" /\ index' = [index EXCEPT ![c] = index[c] + 1]
      /\ UNCHANGED <<conf, rate, tokens, age, pc, seen, sleep, credit, sets,
                     overflowed>>
  BY DEF ConsumeUnlimited, Operate, limiters, history
<1>2. /\ index \in [Clients -> Nat] /\ TypeOK
  BY DEF Base, TypeOK
<1>3. /\ index'[c] = index[c] + 1
      /\ \A d \in Clients \ {c} : Untouched(d)
  BY <1>1, <1>2 DEF Untouched
<1>4. Bucket' = Bucket /\ Rates' = Rates /\ Bounded' = Bounded
  BY <1>1, ConfKept
<1>5. /\ Level(c)' = Level(c) /\ Gift(c)' = Gift(c) /\ Kept(c)' = Kept(c)
      /\ Paid(c)' = Paid(c) /\ Earning' = Earning
  BY <1>1, <1>4 DEF Level, Gift, Kept, Paid, Earning
<1>6. CreditPart(c)' /\ LevelPart(c)'
  BY <1>1, <1>4, <1>5 DEF Balance, CreditPart, LevelPart
<1>7. PaidPart(c)'
  <2>1. Owing(c) => Owing(c)'
    BY <1>1, <1>4, <1>5 DEF Owing
  <2>2. QED
    BY <1>5, <2>1 DEF Balance, PaidPart
<1>8. EarnedPart(c)'
  <2>1. Refills(c)' = Refills(c) + 1
    <3>1. /\ pc'[c] = "loop" /\ sets'[c] = sets[c]
          /\ index[c] \in Nat /\ sets[c] \in Nat
      BY <1>1, <1>2, ClientTypes
    <3>2. QED
      BY <1>1, <1>3, <3>1 DEF Refills, InConsume
  <2>2. Second * Refills(c)' = Second * Refills(c) + Second
    BY <1>2, <2>1, BalanceTypes
  <2> DEFINE x == Second * Refills(c)
  <2>3. /\ x \in Nat /\ Second \in Nat /\ credit[c] \in Int /\ Level(c) \in Int
    BY <1>2, BalanceTypes, ClientTypes, ConfType DEF TypeOK
  <2>4. Earning /\ sets[c] < MaxSets => Level(c) >= credit[c] - x
    BY DEF Balance, EarnedPart
  <2> HIDE DEF x
  <2>5. Earning /\ sets[c] < MaxSets => Level(c) >= credit[c] - (x + Second)
    BY <2>3, <2>4
  <2>6. QED
    BY <1>1, <1>5, <2>2, <2>5 DEF EarnedPart, x
<1>9. QED
  BY <1>1, <1>3, <1>6, <1>7, <1>8, BalanceKept DEF Balance

\* What is still owed at the end of the sleep a tick pays.
LEMMA WakeBalance ==
  ASSUME Base, NEW c \in Clients, Wake(c), \A d \in Clients : Balance(d)
  PROVE  \A d \in Clients : Balance(d)'
<1>1. /\ \A d \in Clients \ {c} : Untouched(d)
      /\ pc[c] = "sleeping" /\ sleep[c] <= 0
      /\ pc'[c] = "loop" /\ sleep'[c] = 0 /\ index'[c] = index[c] + 1
      /\ tokens' = tokens /\ rate' = rate /\ age' = age /\ conf' = conf
      /\ credit' = credit /\ sets' = sets /\ overflowed' = overflowed
  BY WakeBase
<1>2. TypeOK
  BY DEF Base
<1>3. Bucket' = Bucket /\ Rates' = Rates /\ Bounded' = Bounded
  BY <1>1, ConfKept
<1>4. /\ Level(c)' = Level(c) /\ Gift(c)' = Gift(c) /\ Kept(c)' = Kept(c)
      /\ Paid(c)' = Paid(c) /\ Earning' = Earning
  BY <1>1, <1>3 DEF Level, Gift, Kept, Paid, Earning
<1>5. Refills(c)' = Refills(c)
  BY <1>1, <1>2, ClientTypes DEF Refills, InConsume
<1>6. CreditPart(c)' /\ LevelPart(c)' /\ EarnedPart(c)'
  BY <1>1, <1>3, <1>4, <1>5
     DEF Balance, CreditPart, LevelPart, EarnedPart
<1>7. PaidPart(c)'
  <2>1. Owing(c) => Owing(c)'
    <3>1. ASSUME Owing(c)
          PROVE  credit[c] + rate[c] > -Gift(c)
      <4>1. sleep[c] = 0 /\ rate[c] \in Int /\ credit[c] \in Int
        BY <1>1, <1>2, <3>1, ClientTypes DEF Owing
      <4>2. sleep[c] * rate[c] = 0
        BY <4>1
      <4>3. QED
        BY <1>1, <3>1, <4>1, <4>2 DEF Owing
    <3>2. QED
      BY <1>1, <1>3, <1>4, <3>1 DEF Owing
  <2>2. QED
    BY <1>4, <2>1 DEF Balance, PaidPart
<1>8. QED
  BY <1>1, <1>6, <1>7, BalanceKept DEF Balance

LEMMA FinishBalance ==
  ASSUME Base, NEW c \in Clients, Finish(c), \A d \in Clients : Balance(d)
  PROVE  \A d \in Clients : Balance(d)'
<1>1. /\ \A d \in Clients \ {c} : Untouched(d)
      /\ pc[c] = "loop" /\ pc'[c] = "ended"
      /\ tokens' = tokens /\ rate' = rate /\ age' = age /\ conf' = conf
      /\ sleep' = sleep /\ index' = index /\ seen' = seen
      /\ credit' = credit /\ sets' = sets /\ overflowed' = overflowed
  BY FinishBase
<1>2. Bucket' = Bucket /\ Rates' = Rates /\ Bounded' = Bounded
  BY <1>1, ConfKept
<1>3. /\ Level(c)' = Level(c) /\ Gift(c)' = Gift(c) /\ Kept(c)' = Kept(c)
      /\ Paid(c)' = Paid(c) /\ Earning' = Earning
      /\ Refills(c)' = Refills(c)
  BY <1>1, <1>2 DEF Level, Gift, Kept, Paid, Earning, Refills, InConsume
<1>4. CreditPart(c)' /\ LevelPart(c)' /\ EarnedPart(c)'
  BY <1>1, <1>2, <1>3 DEF Balance, CreditPart, LevelPart, EarnedPart
<1>5. Owing(c) => Owing(c)'
  BY <1>1, <1>2, <1>3 DEF Owing
<1>6. QED
  BY <1>1, <1>3, <1>4, <1>5, BalanceKept DEF Balance, PaidPart

\* The sleep lasts to the tick before the one that pays what is owed.
LEMMA SleepLength ==
  ASSUME NEW w \in Nat, NEW r \in Nat \ {0}, w <= IntMax
  PROVE  /\ Quotient(Wrap(w), r) \in Nat
         /\ w < Quotient(Wrap(w), r) * r + r
<1>1. IntMax \in Nat
  BY RateAssumption
<1>2. Wrap(w) = w
  BY <1>1, WrapType
<1>3. Quotient(w, r) = w \div r
  <2>1. w \in Int
    OBVIOUS
  <2>2. QED
    BY <2>1, QuotientType
<1> DEFINE q == w \div r
<1>4. q \in Nat /\ w % r \in 0 .. r - 1 /\ w = r * q + (w % r)
  BY Division
<1>5. r * q \in Int /\ r * q = q * r
  BY <1>4, Distributes
<1> HIDE DEF q
<1>6. w < q * r + r
  BY <1>4, <1>5
<1>7. QED
  BY <1>2, <1>3, <1>4, <1>6 DEF q

\* A client that owes sleeps long enough, if SetRate does not interfere.
LEMMA ComputeWaitBalance ==
  ASSUME Base, NEW c \in Clients, ComputeWait(c),
         \A d \in Clients : Balance(d)
  PROVE  \A d \in Clients : Balance(d)'
<1>1. \A d \in Clients \ {c} : Untouched(d)
  BY ComputeWaitBase
<1>2. PICK held \in {seen[c][1], tokens[c]}, r \in {seen[c][2], rate[c]} :
        /\ pc[c] = "unlocked"
        /\ tokens' = tokens /\ rate' = rate /\ age' = age
        /\ index' = index /\ credit' = credit /\ sets' = sets
        /\ conf' = conf
        /\ \/ /\ pc' = pc /\ seen' = seen /\ sleep' = sleep
              /\ overflowed' = overflowed
           \/ /\ r # 0 /\ pc'[c] = "sleeping"
              /\ sleep'[c] = WaitFor(held, r)
              /\ overflowed' = (overflowed \/ -held * Second > IntMax)
  BY ComputeWaitBase
<1>3. TypeOK /\ seen[c][1] < 0 /\ seen[c][2] > 0
  BY <1>2 DEF Base, RatesInv
<1>4. /\ tokens[c] \in Int /\ rate[c] \in Int /\ seen[c][1] \in Int
      /\ seen[c][2] \in Int /\ age[c] \in Nat /\ credit[c] \in Int
      /\ Second \in Nat \ {0} /\ Bucket \in Int /\ conf \in Configs
  BY <1>3, ClientTypes, ConfType DEF TypeOK
<1>5. CASE /\ pc' = pc /\ seen' = seen /\ sleep' = sleep
           /\ overflowed' = overflowed
  <2>1. Untouched(c)
    BY <1>2, <1>5 DEF Untouched
  <2>2. QED
    BY <1>1, <1>2, <1>5, <2>1, BalanceKept
<1>6. CASE /\ r # 0 /\ pc'[c] = "sleeping"
           /\ sleep'[c] = WaitFor(held, r)
           /\ overflowed' = (overflowed \/ -held * Second > IntMax)
  <2>1. Bucket' = Bucket /\ Rates' = Rates /\ Bounded' = Bounded
    BY <1>2, ConfKept
  <2>2. overflowed => overflowed'
    BY <1>6
  <2>3. /\ Level(c)' = Level(c) /\ Gift(c)' = Gift(c)
        /\ (Kept(c)' => Kept(c)) /\ Paid(c)' = Paid(c)
        /\ (Earning' => Earning) /\ Refills(c)' = Refills(c)
    BY <1>2, <1>6, <2>1, <2>2
       DEF Level, Gift, Kept, Paid, Earning, Refills, InConsume
  <2>4. CreditPart(c)' /\ LevelPart(c)' /\ EarnedPart(c)'
    BY <1>2, <2>1, <2>3 DEF Balance, CreditPart, LevelPart, EarnedPart
  <2>5. PaidPart(c)'
    <3>1. SUFFICES ASSUME Kept(c)', ~Paid(c)'
                   PROVE  Owing(c)'
      BY DEF PaidPart
    <3>2. Kept(c) /\ Owing(c) /\ Level(c) <= credit[c] + Gift(c)
      BY <2>3, <3>1 DEF Balance, PaidPart, LevelPart
    <3>3. /\ held = tokens[c] /\ r = rate[c] /\ rate[c] > 0 /\ held < 0
          /\ conf.limit >= 0
      BY <1>2, <1>3, <3>2 DEF Owing, Kept
    <3> DEFINE w == -held * Second
    <3>4. w <= IntMax
      <4>1. ~overflowed'
        BY <3>1 DEF Kept
      <4>2. w \in Int
        BY <1>4, <3>3, ProductInt
      <4>3. IntMax \in Nat
        BY RateAssumption
      <4>4. ~(w > IntMax)
        BY <1>6, <4>1
      <4> HIDE DEF w
      <4>5. QED
        BY <4>2, <4>3, <4>4
    <3>5. w \in Nat /\ w = -(Second * tokens[c])
      <4>1. held \in Int /\ held <= 0
        BY <1>4, <3>3
      <4>2. /\ held * Second = Second * held /\ Second * held \in Int
            /\ Second * held <= Second * 0
        BY <1>4, <4>1, Distributes, ProductMonotone
      <4>3. w = -(Second * held)
        BY <4>2
      <4>4. Second * 0 = 0
        BY <1>4
      <4> HIDE DEF w
      <4>5. QED
        BY <3>3, <4>2, <4>3, <4>4
    <3>6. Level(c) >= -w
      <4> DEFINE b == Second * Bucket
                 t == Second * tokens[c]
                 a == age[c] * rate[c]
      <4>1. b \in Nat /\ t \in Int
        BY <1>3, <3>3, BalanceTypes
      <4>2. a \in Nat
        BY <1>4, <3>3, ProductNat
      <4>3. Level(c) = Least(b, t + a)
        BY <3>3 DEF Level
      <4> HIDE DEF a, b, t, w
      <4>4. t = -w
        BY <1>4, <3>5, <4>1 DEF t
      <4>5. QED
        BY <3>5, <4>1, <4>2, <4>3, <4>4 DEF Least
    <3>7. /\ WaitFor(held, r) \in Nat
          /\ w < WaitFor(held, r) * r + r
      <4>1. r \in Nat \ {0} /\ WaitFor(held, r) = Quotient(Wrap(w), r)
        BY <1>4, <3>3 DEF WaitFor
      <4> HIDE DEF w
      <4>2. QED
        BY <3>4, <3>5, <4>1, SleepLength
    <3> DEFINE x == WaitFor(held, r) * r
    <3>8. x \in Int /\ Gift(c) \in Int /\ Level(c) \in Int
      BY <1>3, <1>4, <3>3, <3>7, ProductInt, BalanceTypes
    <3>9. credit[c] + x + rate[c] > -Gift(c)
      <4>1. w < x + rate[c]
        BY <3>3, <3>7
      <4> HIDE DEF w, x
      <4>2. QED
        BY <1>4, <3>2, <3>5, <3>6, <3>8, <4>1
    <3>10. /\ sleep'[c] >= 0
           /\ credit[c] + sleep'[c] * rate[c] + rate[c] > -Gift(c)
      BY <1>6, <3>3, <3>7, <3>9
    <3>11. QED
      BY <1>2, <1>6, <2>1, <2>3, <3>2, <3>10 DEF Owing
  <2>6. Balance(c)'
    BY <2>4, <2>5 DEF Balance
  <2>7. QED
    BY <1>1, <1>2, <2>2, <2>6, BalanceKept
<1>7. QED
  BY <1>2, <1>5, <1>6

\* What Consume leaves in the bucket, rounded down, and the token it takes
LEMMA TokenTaken ==
  ASSUME NEW s \in Nat \ {0}, NEW b \in Int, NEW t \in Int, NEW p \in Nat,
         NEW u \in Nat, NEW left \in Int, left = Least(b, t + (p \div s)) - u
  PROVE  /\ s * left <= Least(s * b, s * t + p) - s * u
         /\ Least(s * b, s * t + p) <= s * left + s * u + s
         /\ s * left \in Int
<1> DEFINE f == Least(b, t + (p \div s))
<1>1. /\ s * f <= Least(s * b, s * t + p)
      /\ Least(s * b, s * t + p) <= s * f + s
  BY RefillRounds
<1>2. f \in Int
  <2> DEFINE q == p \div s
  <2>1. q \in Nat
    BY Division
  <2> HIDE DEF q
  <2>2. QED
    BY <2>1, LeastType DEF q
<1> DEFINE l == Least(s * b, s * t + p)
<1>3. l \in Int
  BY ProductInt, LeastType
<1>4. left = f - u
  OBVIOUS
<1> HIDE DEF f, l
<1>5. s * left = s * f - s * u /\ s * f \in Int /\ s * u \in Int
  <2>1. s * (f - u) = s * f - s * u /\ s * f \in Int
    BY ONLY s \in Nat \ {0}, u \in Nat, <1>2, Distributes
  <2>2. s * u \in Int
    BY ProductInt
  <2>3. QED
    BY <1>4, <2>1, <2>2
<1>6. QED
  BY <1>1, <1>3, <1>5 DEF l

\* Rates of an operation per tick at most bring at most a token in a tick.
LEMMA RateBelow ==
  ASSUME Base, NEW c \in Clients, Bounded
  PROVE  rate[c] <= Second * Precision
<1>1. PICK r \in Rates : rate[c] = PerClient(r) * Precision
  BY DEF Base, RatesInv
<1>2. conf \in Configs
  BY DEF Base, TypeOK
<1>3. /\ PerClient(r) \in Int /\ PerClient(r) <= Second
      /\ Second \in Nat /\ Precision \in Nat
  BY <1>1, <1>2, RateType, ConfType DEF Bounded
<1> DEFINE q == PerClient(r)
<1> HIDE DEF q
<1>4. Precision * q <= Precision * Second
  BY <1>3, ProductMonotone DEF q
<1>5. Precision * q = q * Precision /\ Precision * Second = Second * Precision
  BY <1>3, Distributes DEF q
<1>6. QED
  BY <1>1, <1>4, <1>5 DEF q

\* With no tokens left a client owes, and otherwise it does not.
LEMMA ConsumeBalance ==
  ASSUME Base, NEW c \in Clients, Consume(c), \A d \in Clients : Balance(d)
  PROVE  \A d \in Clients : Balance(d)'
<1>1. \A d \in Clients \ {c} : Untouched(d)
  BY ConsumeBase
<1>2. PICK left \in Int :
        /\ left = Refilled(c, age[c] * rate[c]) - Precision
        /\ rate[c] > 0 /\ pc[c] = "loop"
        /\ tokens'[c] = left /\ age'[c] = 0
        /\ credit'[c] = credit[c] - Second * Precision
        /\ overflowed' = (overflowed \/ age[c] * rate[c] > IntMax)
        /\ rate' = rate /\ sleep' = sleep /\ sets' = sets /\ conf' = conf
        /\ \/ /\ left < 0 /\ pc'[c] = "unlocked"
              /\ seen'[c] = <<left, rate[c]>> /\ index'[c] = index[c]
           \/ left >= 0 /\ pc'[c] = "loop" /\ index'[c] = index[c] + 1
  BY ConsumeBase
<1>3. TypeOK
  BY DEF Base
<1>4. /\ tokens[c] \in Int /\ rate[c] \in Nat \ {0} /\ age[c] \in Nat
      /\ credit[c] \in Int /\ sets[c] \in Nat /\ index[c] \in Nat
      /\ Second \in Nat \ {0} /\ Precision \in Nat \ {0}
      /\ Bucket \in Int /\ IntMax \in Nat /\ conf \in Configs
  <2>1. /\ tokens[c] \in Int /\ rate[c] \in Int /\ age[c] \in Nat
        /\ credit[c] \in Int /\ sets[c] \in Nat /\ index[c] \in Nat
    BY <1>3, ClientTypes
  <2>2. conf \in Configs
    BY <1>3 DEF TypeOK
  <2>3. rate[c] \in Nat \ {0}
    BY <1>2, <2>1
  <2>4. /\ Second \in Nat \ {0} /\ Precision \in Nat \ {0}
        /\ Bucket \in Int /\ IntMax \in Nat
    BY <2>2, ConfType
  <2>5. QED
    BY <2>1, <2>2, <2>3, <2>4
<1>5. /\ Bucket' = Bucket /\ Rates' = Rates /\ Bounded' = Bounded
      /\ overflowed => overflowed'
  BY <1>2, ConfKept
<1> DEFINE p == age[c] * rate[c]
           sp == Second * Precision
           sl == Second * left
           lv == Level(c)
           g == Gift(c)
           sr == Second * Refills(c)
<1>6. p \in Nat
  BY <1>4, ProductNat
<1>7. /\ sp \in Nat /\ sl \in Int /\ lv \in Int /\ g \in Int /\ sr \in Nat
      /\ Second * (2 * Precision) = sp + sp
      /\ Second * (Refills(c) + 1) = sr + Second
      /\ (conf.limit >= 0 => g \in Nat)
  BY <1>3, <1>4, BalanceTypes, ProductInt
<1>8. Level(c)' = sl
  <2>1. left <= Bucket
    <3>1. Refilled(c, p) \in Int /\ Refilled(c, p) <= Bucket
      BY <1>3, <1>6, RefilledType
    <3>2. QED
      BY <1>2, <1>4, <3>1
  <2>2. sl <= Second * Bucket /\ Second * Bucket \in Int
    BY <1>4, <2>1, ProductMonotone
  <2>3. 0 * rate[c] = 0
    BY <1>4
  <2>4. Level(c)' = Least(Second * Bucket, sl + 0)
    BY <1>2, <1>5, <2>3 DEF Level
  <2>5. QED
    BY <1>7, <2>2, <2>4 DEF Least
<1>9. /\ (~overflowed' => sl <= lv - sp /\ lv <= sl + sp + Second)
      /\ (left >= 0 => sl >= 0)
  <2>1. ASSUME ~overflowed'
        PROVE  sl <= lv - sp /\ lv <= sl + sp + Second
    <3>1. p \in 0 .. IntMax
      <4>1. ~(p > IntMax)
        BY <1>2, <2>1
      <4> HIDE DEF p
      <4>2. QED
        BY <1>4, <1>6, <4>1
    <3>2. left = Least(Bucket, tokens[c] + (p \div Second)) - Precision
      BY <1>2, <1>3, <1>6, <3>1, RefilledType
    <3>3. lv = Least(Second * Bucket, Second * tokens[c] + p)
      BY <1>2 DEF Level
    <3> HIDE DEF p, lv
    <3>4. QED
      BY <1>4, <1>6, <3>2, <3>3, TokenTaken
  <2>2. ASSUME left >= 0
        PROVE  sl >= 0
    BY <1>4, <2>2, ProductNat
  <2>3. QED
    BY <2>1, <2>2
<1>10. /\ Gift(c)' = g /\ (Kept(c)' => Kept(c) /\ ~overflowed')
       /\ (Earning' => Earning /\ ~overflowed')
  BY <1>2, <1>5 DEF Gift, Kept, Earning
<1>11. Refills(c)' = Refills(c) + 1
  <2>1. index'[c] \in Nat /\ sets'[c] = sets[c]
    BY <1>2, <1>4
  <2>2. QED
    BY <1>2, <1>4, <2>1 DEF Refills, InConsume
<1>12. CreditPart(c)'
  <2>1. conf.limit >= 0 => credit[c] <= Second * Bucket
    BY DEF Balance, CreditPart
  <2>2. Second * Bucket \in Int
    BY <1>4, ProductInt
  <2> HIDE DEF sp
  <2>3. conf.limit >= 0 => credit[c] - sp <= Second * Bucket
    BY <1>4, <1>7, <2>1, <2>2
  <2>4. QED
    BY <1>2, <1>5, <2>3 DEF CreditPart, sp
<1>13. Kept(c)' => sl <= credit'[c] + g
  <2>1. Kept(c) => lv <= credit[c] + g
    BY DEF Balance, LevelPart
  <2>2. credit'[c] = credit[c] - sp
    BY <1>2
  <2> HIDE DEF sp, sl, lv, g
  <2>3. QED
    BY <1>4, <1>7, <1>9, <1>10, <2>1, <2>2
<1>14. LevelPart(c)'
  BY <1>8, <1>10, <1>13 DEF LevelPart
<1>15. PaidPart(c)'
  <2>1. SUFFICES ASSUME Kept(c)', ~Paid(c)'
                 PROVE  Owing(c)'
    BY DEF PaidPart
  <2>2. /\ ~(credit'[c] >= -g) /\ credit'[c] = credit[c] - sp
        /\ credit'[c] \in Int
    BY <1>2, <1>4, <1>7, <1>10, <2>1 DEF Paid
  <2>3. left < 0
    <3> HIDE DEF sl, sp, g
    <3>1. QED
      BY <1>7, <1>9, <1>13, <2>1, <2>2
  <2>4. /\ pc'[c] = "unlocked" /\ seen'[c] = <<left, rate[c]>>
        /\ tokens'[c] = left /\ rate'[c] = rate[c]
    BY <1>2, <2>3
  <2>5. ASSUME Bounded
        PROVE  credit'[c] + (sp + sp) >= -g
    <3>1. rate[c] <= sp
      BY <2>5, RateBelow
    <3>2. credit[c] >= -g \/ credit[c] + rate[c] > -g
      BY <1>2, <1>10, <2>1 DEF Balance, PaidPart, Paid, Owing
    <3> HIDE DEF sp, g
    <3>3. QED
      BY <1>4, <1>7, <2>2, <3>1, <3>2
  <2>6. /\ tokens'[c] = seen'[c][1] /\ rate'[c] = seen'[c][2]
        /\ rate'[c] > 0
    BY <1>4, <2>4
  <2>7. QED
    BY <1>5, <1>7, <1>10, <2>4, <2>5, <2>6 DEF Owing
<1>16. EarnedPart(c)'
  <2>1. Earning /\ sets[c] < MaxSets => lv >= credit[c] - sr
    BY DEF Balance, EarnedPart
  <2>2. /\ credit'[c] = credit[c] - sp
        /\ Second * Refills(c)' = sr + Second
    BY <1>2, <1>7, <1>11
  <2>3. ASSUME Earning', sets[c] < MaxSets
        PROVE  sl >= credit'[c] - (sr + Second)
    <3>1. lv >= credit[c] - sr /\ ~overflowed'
      BY <1>10, <2>1, <2>3
    <3> HIDE DEF sl, sp, sr, lv
    <3>2. QED
      BY <1>4, <1>7, <1>9, <2>2, <3>1
  <2>4. QED
    BY <1>2, <1>8, <2>2, <2>3 DEF EarnedPart
<1>17. Balance(c)'
  BY <1>12, <1>14, <1>15, <1>16 DEF Balance
<1>18. QED
  BY <1>1, <1>2, <1>5, <1>17, BalanceKept

\* A factor of at least one makes no natural number smaller.
LEMMA ProductAbove ==
  ASSUME NEW a \in Nat, NEW u \in Nat \ {0}
  PROVE  a * u \in Nat /\ a <= a * u
<1>1. a * 1 <= a * u /\ a * 1 = a
  BY ProductMonotone
<1>2. QED
  BY <1>1, ProductNat

\* Rates that are not negative are not negative for a client either.
LEMMA RateNat ==
  ASSUME Base, NEW c \in Clients, \A r \in Rates : r >= 0
  PROVE  rate[c] \in Nat
<1>1. PICK r \in Rates : rate[c] = PerClient(r) * Precision
  BY DEF Base, RatesInv
<1>2. conf \in Configs
  BY DEF Base, TypeOK
<1>3. r \in Int /\ r >= 0
  BY <1>2, RateType
<1>4. NumClients \in Nat \ {0} /\ Precision \in Nat
  BY <1>2, ConfType
<1>5. PerClient(r) \in Nat
  BY <1>3, <1>4, QuotientType DEF PerClient
<1>6. QED
  BY <1>1, <1>4, <1>5, ProductNat

\* SetRate gives a full bucket and two operations at most.
LEMMA SetRateBalance ==
  ASSUME Base, SetRate, \A d \in Clients : Balance(d)
  PROVE  \A d \in Clients : Balance(d)'
<1>1. PICK c \in Clients : c = target
  BY SetRateBase
<1> DEFINE p == age[c] * rate[c] * Precision
           a == age[c] * rate[c]
<1>2. /\ conf' = conf /\ \A d \in Clients \ {c} : Untouched(d)
      /\ tokens'[c] = Refilled(c, p) /\ age'[c] = 0
      /\ rate'[c] = PerClient(nextRate) * Precision
      /\ sets'[c] = Least(MaxSets, sets[c] + 1)
      /\ overflowed' = (overflowed \/ p > IntMax)
      /\ pc' = pc /\ index' = index /\ credit' = credit
  BY <1>1, SetRateBase
<1>3. TypeOK
  BY DEF Base
<1>4. /\ tokens[c] \in Int /\ rate[c] \in Int /\ age[c] \in Nat
      /\ credit[c] \in Int /\ sets[c] \in Nat /\ index[c] \in Nat
      /\ sets[c] <= MaxSets /\ a \in Int /\ p \in Int
  BY <1>3, ClientTypes
<1>5. conf \in Configs
  BY <1>3 DEF TypeOK
<1>6. /\ Second \in Nat \ {0} /\ Precision \in Nat \ {0}
      /\ Bucket \in Int /\ IntMax \in Nat /\ MaxSets \in Nat \ {0}
  BY <1>5, ConfType
<1>7. /\ Bucket' = Bucket /\ Rates' = Rates /\ Bounded' = Bounded
      /\ overflowed => overflowed'
  BY <1>2, ConfKept
<1>8. sets'[c] < MaxSets => sets'[c] = sets[c] + 1 /\ sets[c] < MaxSets
  BY <1>2, <1>4, <1>6 DEF Least
<1>9. tokens'[c] \in Int /\ tokens'[c] <= Bucket
  BY <1>2, <1>3, <1>4, RefilledType
<1> DEFINE st == Second * tokens'[c]
           sb == Second * Bucket
           sp == Second * Precision
           lv == Level(c)
           g == Gift(c)
           sr == Second * Refills(c)
<1>10. /\ st \in Int /\ sb \in Int /\ st <= sb /\ sp \in Nat /\ lv \in Int
       /\ g \in Int /\ sr \in Nat
       /\ Second * (2 * Precision) = sp + sp
       /\ Second * (Refills(c) + 1) = sr + Second
       /\ (conf.limit >= 0 => g \in Nat /\ sb \in Nat)
  BY <1>3, <1>6, <1>9, BalanceTypes, ProductMonotone
<1>11. Level(c)' = st
  <2> DEFINE r == rate'[c]
  <2>1. r \in Int
    <3>1. nextRate \in Rates
      BY SetRateBase
    <3>2. QED
      BY <1>2, <1>5, <3>1, RateType
  <2>2. 0 * r = 0
    BY <2>1
  <2>3. Level(c)' = Least(sb, st + (IF r > 0 THEN 0 * r ELSE 0))
    BY <1>2, <1>7 DEF Level
  <2> HIDE DEF st, sb, r
  <2>4. QED
    BY <1>10, <2>2, <2>3 DEF Least
<1>12. /\ sets'[c] = sets[c] + 1 => Gift(c)' = g + sb + (sp + sp)
       /\ sets'[c] < MaxSets => Refills(c)' = Refills(c) + 1
  <2>1. ASSUME sets'[c] = sets[c] + 1
        PROVE  Gift(c)' = g + sb + (sp + sp)
    <3> DEFINE q == Bucket + 2 * Precision
               n == sets[c]
    <3>1. Gift(c)' = Second * ((n + 1) * q) /\ g = Second * (n * q)
      BY <1>7, <2>1 DEF Gift
    <3>2. q \in Int /\ n \in Nat /\ Second * q = sb + Second * (2 * Precision)
      BY <1>4, <1>6, Distributes
    <3> HIDE DEF q, n
    <3>3. (n + 1) * q = n * q + 1 * q /\ n * q \in Int /\ 1 * q = q
      BY <3>2, Distributes
    <3> DEFINE h == n * q
    <3> HIDE DEF h
    <3>4. Second * (h + q) = Second * h + Second * q
          /\ Second * h \in Int /\ Second * q \in Int
      BY ONLY <1>6, <3>2, <3>3, Distributes DEF h
    <3>5. Gift(c)' = Second * (h + q) /\ g = Second * h
      BY <3>1, <3>3 DEF h
    <3> HIDE DEF g, sb, sp
    <3>6. Second * q = sb + (sp + sp)
      BY <1>10, <3>2
    <3>7. QED
      BY <1>10, <3>4, <3>5, <3>6
  <2>2. ASSUME sets'[c] < MaxSets
        PROVE  Refills(c)' = Refills(c) + 1
    BY <1>2, <1>4, <1>8, <2>2 DEF Refills, InConsume
  <2>3. QED
    BY <2>1, <2>2
<1>13. ASSUME Kept(c)'
       PROVE  /\ Gift(c)' = g + sb + (sp + sp) /\ g \in Nat /\ sb \in Nat
              /\ credit[c] + (sp + sp) >= -g
  <2>1. /\ ~overflowed' /\ conf.limit >= 0 /\ sets'[c] < MaxSets
        /\ sets'[c] = 0 \/ Bounded
    BY <1>2, <1>7, <1>13 DEF Kept
  <2>2. sets'[c] = sets[c] + 1 /\ Bounded /\ Kept(c)
    BY <1>4, <1>7, <1>8, <2>1 DEF Kept
  <2>3. credit[c] >= -g \/ credit[c] + (sp + sp) >= -g
    BY <1>10, <2>2 DEF Balance, PaidPart, Owing, Paid
  <2> HIDE DEF sp, sb, g
  <2>4. QED
    BY <1>4, <1>10, <1>12, <2>1, <2>2, <2>3
<1>14. CreditPart(c)'
  BY <1>2, <1>7 DEF Balance, CreditPart
<1>15. LevelPart(c)'
  <2> HIDE DEF sp, sb, g, st
  <2>1. Kept(c)' => st <= credit[c] + Gift(c)'
    BY <1>4, <1>10, <1>13
  <2>2. QED
    BY <1>2, <1>11, <2>1 DEF LevelPart
<1>16. PaidPart(c)'
  <2> HIDE DEF sp, sb, g
  <2>1. Kept(c)' => credit[c] >= -(Gift(c)')
    BY <1>4, <1>10, <1>13
  <2>2. QED
    BY <1>2, <2>1 DEF PaidPart, Paid
<1>17. EarnedPart(c)'
  <2>1. SUFFICES ASSUME Earning', sets'[c] < MaxSets
                 PROVE  st >= credit[c] - Second * Refills(c)'
    BY <1>2, <1>11 DEF EarnedPart
  <2>2. /\ Earning /\ ~overflowed' /\ sets[c] < MaxSets
        /\ \A r \in Rates : r >= 0
    BY <1>7, <1>8, <2>1 DEF Earning
  <2>3. lv >= credit[c] - sr
    BY <2>2 DEF Balance, EarnedPart
  <2>4. Second * Refills(c)' = sr + Second
    BY <1>10, <1>12, <2>1
  <2>5. rate[c] \in Nat
    BY <2>2, RateNat
  <2>6. a \in Nat
    BY <1>4, <2>5, ProductNat
  <2>7. p \in Nat /\ a <= p
    <3> HIDE DEF a
    <3>1. a * Precision \in Nat /\ a <= a * Precision
      BY <1>6, <2>6, ProductAbove
    <3>2. QED
      BY <3>1 DEF a
  <2>8. p \in 0 .. IntMax
    <3>1. ~(p > IntMax)
      BY <1>2, <2>2
    <3> HIDE DEF p
    <3>2. QED
      BY <1>6, <2>7, <3>1
  <2>9. lv <= Least(sb, Second * tokens[c] + p)
    <3> DEFINE t == Second * tokens[c]
    <3>1. 0 * rate[c] = 0 /\ age[c] * 0 = 0
      BY <1>4
    <3>2. lv = Least(sb, t + a)
      BY <1>4, <2>5, <3>1 DEF Level
    <3>3. t \in Int
      BY <1>4, <1>6, ProductInt
    <3> HIDE DEF lv, sb, t, a, p
    <3>4. lv <= Least(sb, t + p)
      BY <1>10, <2>6, <2>7, <3>2, <3>3 DEF Least
    <3>5. QED
      BY <3>4 DEF t
  <2>10. Least(sb, Second * tokens[c] + p) <= st + Second
    <3>1. tokens'[c] = Least(Bucket, tokens[c] + (p \div Second))
      BY <1>2, <1>3, <1>4, <2>8, RefilledType
    <3> HIDE DEF p
    <3>2. QED
      BY <1>4, <1>6, <2>7, <3>1, RefillRounds
  <2>11. Least(sb, Second * tokens[c] + p) \in Int
    <3> DEFINE t == Second * tokens[c]
    <3>1. t \in Int
      BY <1>4, <1>6, ProductInt
    <3> HIDE DEF t, p, sb
    <3>2. t + p \in Int
      BY <2>7, <3>1
    <3>3. Least(sb, t + p) \in Int
      BY <1>10, <3>2, LeastType
    <3>4. QED
      BY <3>3 DEF t
  <2> DEFINE l == Least(sb, Second * tokens[c] + p)
  <2> HIDE DEF l, lv, sr, st
  <2>12. st >= credit[c] - (sr + Second)
    BY <1>4, <1>6, <1>10, <2>3, <2>9, <2>10, <2>11 DEF l
  <2>13. QED
    BY <2>4, <2>12
<1>18. Balance(c)'
  BY <1>14, <1>15, <1>16, <1>17 DEF Balance
<1>19. QED
  BY <1>2, <1>7, <1>18, BalanceKept

\* A tick fills a bucket that is not full, one that is full stays full.
LEMMA LeastGrows ==
  ASSUME NEW b \in Int, NEW x \in Int, NEW r \in Nat
  PROVE  /\ Least(b, x + r) = Least(b, Least(b, x) + r)
         /\ Least(b, b + r) = b
BY DEF Least

\* Time fills the limiter as it fills the exact bucket.
LEMMA TickBalance ==
  ASSUME Base, Tick, \A d \in Clients : Balance(d)
  PROVE  \A d \in Clients : Balance(d)'
<1>1. /\ conf' = conf /\ overflowed' = overflowed
      /\ rate' = rate /\ tokens' = tokens /\ pc' = pc /\ index' = index
      /\ seen' = seen /\ sets' = sets
  BY TickBase
<1>2. /\ Bucket' = Bucket /\ Rates' = Rates /\ Bounded' = Bounded
  BY <1>1, ConfKept
<1>3. TypeOK
  BY DEF Base
<1> SUFFICES ASSUME NEW c \in Clients
             PROVE  Balance(c)'
  OBVIOUS
<1>4. /\ age'[c] = IF pc[c] = "ended" \/ (age[c] >= MaxAge /\ Settled(c))
                   THEN age[c] ELSE age[c] + 1
      /\ sleep'[c] = IF sleep[c] > 0 THEN sleep[c] - 1 ELSE sleep[c]
      /\ credit'[c] = IF rate[c] > 0 /\ pc[c] # "ended"
                      THEN Least(Second * Bucket, credit[c] + rate[c])
                      ELSE credit[c]
  BY TickBase
<1>5. /\ tokens[c] \in Int /\ rate[c] \in Int /\ age[c] \in Nat
      /\ credit[c] \in Int /\ sleep[c] \in Int
  BY <1>3, ClientTypes
<1>6. /\ Gift(c)' = Gift(c) /\ Kept(c)' = Kept(c) /\ Earning' = Earning
      /\ Refills(c)' = Refills(c)
  BY <1>1, <1>2 DEF Gift, Kept, Earning, Refills, InConsume
<1>7. CASE pc[c] = "ended" \/ rate[c] <= 0
  <2>1. credit'[c] = credit[c]
    BY <1>4, <1>5, <1>7
  <2>2. Level(c)' = Level(c)
    <3>1. rate[c] > 0 => age'[c] = age[c]
      BY <1>4, <1>5, <1>7
    <3>2. QED
      BY <1>1, <1>2, <3>1 DEF Level
  <2>3. Paid(c)' = Paid(c)
    BY <1>6, <2>1 DEF Paid
  <2>4. CreditPart(c)' /\ LevelPart(c)' /\ EarnedPart(c)'
    BY <1>1, <1>2, <1>6, <2>1, <2>2
       DEF Balance, CreditPart, LevelPart, EarnedPart
  <2>5. Owing(c) => Owing(c)'
    <3>1. ASSUME Owing(c)
          PROVE  pc[c] = "ended"
      BY <1>5, <1>7, <3>1 DEF Owing
    <3>2. QED
      BY <1>1, <1>2, <1>6, <2>1, <3>1 DEF Owing
  <2>6. QED
    BY <1>6, <2>3, <2>4, <2>5 DEF Balance, PaidPart
<1>8. CASE pc[c] # "ended" /\ rate[c] > 0
  <2> DEFINE sb == Second * Bucket
             r == rate[c]
             lv == Level(c)
             g == Gift(c)
             sr == Second * Refills(c)
             x == Second * tokens[c] + age[c] * r
  <2>1. /\ sb \in Int /\ lv \in Int /\ lv <= sb /\ g \in Int /\ sr \in Nat
        /\ (conf.limit >= 0 => g \in Nat /\ sb \in Nat)
    BY <1>3, BalanceTypes
  <2>2. r \in Nat \ {0}
    BY <1>5, <1>8
  <2>3. credit'[c] = Least(sb, credit[c] + r)
    BY <1>4, <1>8
  <2>4. x \in Int /\ lv = Least(sb, x)
    <3>1. Second * tokens[c] \in Int /\ age[c] * r \in Int
      BY <1>3, <1>5, BalanceTypes, ProductInt
    <3>2. QED
      BY <1>8, <3>1 DEF Level
  <2>5. ~overflowed => Level(c)' = Least(sb, lv + r)
    <3>1. CASE age[c] >= MaxAge /\ Settled(c)
      <4>1. age'[c] = age[c]
        BY <1>4, <3>1
      <4>2. Level(c)' = lv
        BY <1>1, <1>2, <4>1 DEF Level
      <4>3. ~overflowed => lv = sb
        BY <1>5, <1>8, <3>1 DEF Settled
      <4> HIDE DEF sb, lv, r
      <4>4. QED
        BY <2>1, <2>2, <4>2, <4>3, LeastGrows
    <3>2. CASE ~(age[c] >= MaxAge /\ Settled(c))
      <4>1. age'[c] = age[c] + 1
        BY <1>4, <1>8, <3>2
      <4>2. (age[c] + 1) * r = age[c] * r + r
        <5>1. (age[c] + 1) * r = age[c] * r + 1 * r /\ 1 * r = r
          BY <1>5, <2>2, Distributes
        <5>2. QED
          BY <5>1
      <4>3. age[c] * r \in Int /\ Second * tokens[c] \in Int
        BY <1>3, <1>5, BalanceTypes, ProductInt
      <4>4. Second * tokens[c] + (age[c] + 1) * r = x + r
        BY <2>2, <4>2, <4>3
      <4>5. Level(c)' = Least(sb, x + r)
        BY <1>1, <1>2, <1>8, <4>1, <4>4 DEF Level
      <4> HIDE DEF sb, x, lv, r
      <4>6. QED
        BY <2>1, <2>2, <2>4, <4>5, LeastGrows
    <3>3. QED
      BY <3>1, <3>2
  <2>6. CreditPart(c)'
    <3>1. credit[c] + r \in Int
      BY <1>5, <2>2
    <3> HIDE DEF r, sb
    <3>2. credit'[c] <= sb
      BY <2>1, <2>3, <3>1, LeastType
    <3>3. QED
      BY <1>1, <1>2, <3>2 DEF CreditPart, sb
  <2>7. LevelPart(c)'
    <3>1. ASSUME Kept(c)
          PROVE  Level(c)' <= credit'[c] + g
      <4>1. lv <= credit[c] + g /\ ~overflowed /\ conf.limit >= 0
        BY <3>1 DEF Balance, LevelPart, Kept
      <4>2. Level(c)' = Least(sb, lv + r)
        BY <2>5, <4>1
      <4> HIDE DEF sb, lv, r, g
      <4>3. QED
        BY <1>5, <2>1, <2>2, <2>3, <4>1, <4>2 DEF Least
    <3>2. QED
      BY <1>6, <3>1 DEF LevelPart
  <2>8. PaidPart(c)'
    <3>1. SUFFICES ASSUME Kept(c)', ~Paid(c)'
                   PROVE  Owing(c)'
      BY DEF PaidPart
    <3>2. Kept(c) /\ conf.limit >= 0 /\ ~(credit'[c] >= -g)
      BY <1>6, <3>1 DEF Kept, Paid
    <3>3. credit'[c] = credit[c] + r
      <4> HIDE DEF g, sb, r
      <4>1. QED
        BY <1>5, <2>1, <2>2, <2>3, <3>2 DEF Least
    <3>4. ~(credit[c] >= -g)
      <4> HIDE DEF g, r
      <4>1. QED
        BY <1>5, <2>1, <2>2, <3>2, <3>3
    <3>5. Owing(c)
      BY <3>2, <3>4 DEF Balance, PaidPart, Paid
    <3>6. pc[c] \in {"loop", "ended"} => credit'[c] + r > -g
      <4>1. pc[c] \in {"loop", "ended"} => credit[c] + r > -g
        BY <3>5 DEF Owing
      <4> HIDE DEF g, r
      <4>2. QED
        BY <1>5, <2>1, <2>2, <3>3, <4>1
    <3>7. ASSUME pc[c] = "sleeping"
          PROVE  /\ sleep'[c] >= 0
                 /\ credit'[c] + sleep'[c] * r + r > -g
      <4>1. sleep[c] >= 0 /\ credit[c] + sleep[c] * r + r > -g
        BY <3>5, <3>7 DEF Owing
      <4>2. CASE sleep[c] > 0
        <5>1. sleep'[c] = sleep[c] - 1
          BY <1>4, <4>2
        <5>2. /\ (sleep[c] - 1) * r = sleep[c] * r - 1 * r /\ 1 * r = r
              /\ sleep[c] * r \in Int
          BY <1>5, <2>2, Distributes
        <5> DEFINE y == sleep[c] * r
        <5>3. sleep'[c] * r = y - r
          BY <5>1, <5>2
        <5> HIDE DEF y
        <5>4. credit[c] + y + r > -g /\ y \in Int
          BY <4>1, <5>2 DEF y
        <5> HIDE DEF r, g
        <5>5. credit'[c] + sleep'[c] * r + r > -g
          BY <1>5, <2>1, <2>2, <3>3, <5>3, <5>4
        <5>6. QED
          BY <1>5, <4>2, <5>1, <5>5
      <4>3. CASE sleep[c] = 0
        <5>1. sleep'[c] = 0 /\ 0 * r = 0 /\ sleep[c] * r = 0
          BY <1>4, <2>2, <4>3
        <5> HIDE DEF r, g
        <5>2. QED
          BY <1>5, <2>1, <2>2, <3>3, <4>1, <5>1
      <4>4. QED
        BY <1>5, <4>1, <4>2, <4>3
    <3>8. ASSUME Bounded
          PROVE  credit'[c] + Second * (2 * Precision) >= -g
      <4> DEFINE y == Second * (2 * Precision)
      <4>1. credit[c] + y >= -g
        BY <3>5, <3>8 DEF Owing
      <4>2. y \in Int
        <5>1. Second * Precision \in Nat /\ y = Second * Precision
                                                + Second * Precision
          BY <1>3, BalanceTypes
        <5>2. QED
          BY <5>1
      <4> HIDE DEF y, r, g
      <4>3. credit'[c] + y >= -g
        BY <1>5, <2>1, <2>2, <3>3, <4>1, <4>2
      <4>4. QED
        BY <4>3 DEF y
    <3>9. pc[c] = "unlocked" => tokens[c] = seen[c][1] /\ r = seen[c][2]
      BY <3>5 DEF Owing
    <3>10. QED
      BY <1>1, <1>2, <1>6, <1>8, <3>6, <3>7, <3>8, <3>9 DEF Owing
  <2>9. EarnedPart(c)'
    <3>1. ASSUME Earning, sets[c] < MaxSets
          PROVE  Level(c)' >= credit'[c] - sr
      <4>1. lv >= credit[c] - sr /\ ~overflowed
        BY <3>1 DEF Balance, EarnedPart, Earning
      <4>2. Level(c)' = Least(sb, lv + r)
        BY <2>5, <4>1
      <4> HIDE DEF sb, lv, r, sr
      <4>3. QED
        BY <1>5, <2>1, <2>2, <2>3, <4>1, <4>2 DEF Least
    <3>2. QED
      BY <1>1, <1>6, <3>1 DEF EarnedPart
  <2>10. QED
    BY <2>6, <2>7, <2>8, <2>9 DEF Balance
<1>9. QED
  BY <1>5, <1>7, <1>8

\* Every limiter starts empty, with nothing given and nothing owed.
LEMMA InitBalance ==
  ASSUME Init, NEW c \in Clients
  PROVE  Balance(c)
<1>1. /\ conf \in Configs /\ tokens[c] = 0 /\ age[c] = 0 /\ credit[c] = 0
      /\ sets[c] = 0 /\ index[c] = 0 /\ pc[c] = "loop" /\ rate[c] = Bucket
  BY DEF Init
<1>2. TypeOK
  BY InitBase DEF Base
<1>3. /\ Second * Bucket \in Int /\ Second \in Nat /\ Bucket \in Int
      /\ conf.limit >= 0 => Second * Bucket \in Nat
  BY <1>1, <1>2, BalanceTypes, ConfType
<1>4. Gift(c) = 0
  <2> DEFINE q == Bucket + 2 * Precision
  <2>1. q \in Int
    BY <1>1, <1>3, ConfType
  <2>2. Gift(c) = Second * (0 * q)
    BY <1>1 DEF Gift
  <2> HIDE DEF q
  <2>3. QED
    BY <1>3, <2>1, <2>2
<1>5. Refills(c) = 0 /\ Second * 0 = 0
  BY <1>1, <1>3 DEF Refills, InConsume
<1>6. Level(c) = Least(Second * Bucket, 0)
  <2>1. 0 * rate[c] = 0 /\ Second * 0 = 0
    BY <1>1, <1>3
  <2>2. QED
    BY <1>1, <2>1 DEF Level
<1> DEFINE b == Second * Bucket
<1>7. conf.limit >= 0 => Level(c) = 0 /\ b >= 0
  <2> HIDE DEF b
  <2>1. QED
    BY <1>3, <1>6 DEF b, Least
<1>8. CreditPart(c) /\ LevelPart(c)
  BY <1>1, <1>4, <1>7 DEF CreditPart, LevelPart, Kept
<1>9. PaidPart(c)
  BY <1>1, <1>4 DEF PaidPart, Paid
<1>10. EarnedPart(c)
  <2>1. Earning => conf.limit >= 0
    BY DEF Earning, Rates
  <2>2. QED
    BY <1>1, <1>5, <1>7, <2>1 DEF EarnedPart
<1>11. QED
  BY <1>8, <1>9, <1>10 DEF Balance

\* What every step keeps
LEMMA StepInv ==
  ASSUME IInv, [Next]_vars
  PROVE  IInv'
<1>1. Base /\ \A c \in Clients : Balance(c)
  BY BalanceSplit
<1>2. ASSUME NEW c \in Clients, Client(c)
      PROVE  Base' /\ \A d \in Clients : Balance(d)'
  <2>1. CASE ConsumeUnlimited(c)
    BY <1>1, <2>1, UnlimitedBase, UnlimitedBalance
  <2>2. CASE Consume(c)
    <3>1. Base'
      BY <1>1, <2>2, ConsumeBase
    <3>2. QED
      BY <1>1, <2>2, <3>1, ConsumeBalance
  <2>3. CASE ComputeWait(c)
    <3>1. Base'
      BY <1>1, <2>3, ComputeWaitBase
    <3>2. QED
      BY <1>1, <2>3, <3>1, ComputeWaitBalance
  <2>4. CASE Wake(c)
    BY <1>1, <2>4, WakeBase, WakeBalance
  <2>5. CASE Finish(c)
    BY <1>1, <2>5, FinishBase, FinishBalance
  <2>6. QED
    BY <1>2, <2>1, <2>2, <2>3, <2>4, <2>5 DEF Client
<1>3. CASE FromFile
  <2>1. CASE FileStep
    <3>1. /\ Base' /\ conf' = conf /\ overflowed' = overflowed
          /\ \A d \in Clients : Untouched(d)
      BY <1>1, <2>1, FileBaseKept
    <3>2. QED
      BY <1>1, <3>1, BalanceKept, BalanceJoined
  <2>2. CASE SetRate
    <3>1. Base'
      BY <1>1, <2>2, SetRateBase
    <3>2. \A d \in Clients : Balance(d)'
      BY <1>1, <2>2, SetRateBalance
    <3>3. QED
      BY <3>1, <3>2, BalanceJoined
  <2>3. QED
    BY <1>3, <2>1, <2>2 DEF FromFile, FileStep
<1>4. CASE Tick
  <2>1. Base'
    BY <1>1, <1>4, TickBase
  <2>2. \A d \in Clients : Balance(d)'
    BY <1>1, <1>4, TickBalance
  <2>3. QED
    BY <2>1, <2>2, BalanceJoined
<1>5. CASE UNCHANGED vars
  <2>1. /\ Base' /\ conf' = conf /\ overflowed' = overflowed
        /\ \A d \in Clients : Untouched(d)
    BY <1>1, <1>5, StutterBase
  <2>2. QED
    BY <1>1, <2>1, BalanceKept, BalanceJoined
<1>6. QED
  BY <1>2, <1>3, <1>4, <1>5, BalanceJoined DEF Next, Gone

LEMMA Invariance == Spec => []IInv
<1>1. Init => IInv
  BY InitBase, InitBalance, BalanceSplit
<1>2. IInv /\ [Next]_vars => IInv'
  BY StepInv
<1>3. QED
  BY <1>1, <1>2, PTL DEF Spec

-----------------------------------------------------------------------------
(***************************************************************************)
(* The theorems.                                                           *)
(***************************************************************************)

\* Every variable keeps its type: no client does more operations than its
\* share, and no bucket holds more than b_.
THEOREM TypeCorrect == Spec => []TypeOK
<1>1. IInv => TypeOK
  BY DEF IInv
<1>2. QED
  BY <1>1, Invariance, PTL

\* The division by zero of Consume needs a SetRate(0) between the unlock and
\* the division.
THEOREM CrashTheorem == Spec => []CrashOnlyOnZeroRate
<1>1. IInv => CrashOnlyOnZeroRate
  BY DEF IInv
<1>2. QED
  BY <1>1, Invariance, PTL

\* As long as no product exceeds int64_t, no client runs ahead of its rate,
\* but for a bucket and two operations for every SetRate.
THEOREM LimitTheorem == Spec => []LimitKept
<1>1. ASSUME IInv, ~overflowed, NEW c \in Clients
      PROVE  /\ sets[c] = 0 /\ rate[c] > 0 /\ ~InConsume(c) =>
                  credit[c] > -rate[c]
             /\ sets[c] < MaxSets /\ Bounded =>
                  credit[c] >= -Second * (sets[c] * (Bucket + 2 * Precision)
                                            + 2 * Precision)
  <2>1. TypeOK /\ Balance(c) /\ conf \in Configs /\ Base
    BY <1>1, BalanceSplit DEF Base, TypeOK
  <2>2. /\ rate[c] \in Int /\ credit[c] \in Int /\ sets[c] \in Nat
        /\ pc[c] \in Positions /\ MaxSets \in Nat \ {0} /\ Gift(c) \in Int
        /\ Bucket \in Int /\ Second \in Nat /\ Precision \in Nat
    BY <2>1, ClientTypes, ConfType, BalanceTypes DEF TypeOK, Positions
  <2>3. ASSUME sets[c] = 0, rate[c] > 0, ~InConsume(c)
        PROVE  credit[c] > -rate[c]
    <3>1. rate[c] = Bucket
      BY <2>1, <2>3 DEF Base, RatesInv
    <3>2. conf.limit >= 0
      BY <2>1, <2>2, <2>3, <3>1, ConfType
    <3>3. Kept(c)
      BY <1>1, <2>2, <2>3, <3>2 DEF Kept
    <3>4. Gift(c) = 0
      <4> DEFINE q == Bucket + 2 * Precision
      <4>1. q \in Int /\ Gift(c) = Second * (0 * q)
        BY <2>2, <2>3 DEF Gift
      <4> HIDE DEF q
      <4>2. QED
        BY <2>2, <4>1
    <3>5. CASE Paid(c)
      BY <2>2, <2>3, <3>4, <3>5 DEF Paid
    <3>6. CASE ~Paid(c)
      <4>1. Owing(c) /\ pc[c] \in {"loop", "ended"}
        BY <2>1, <2>2, <2>3, <3>3, <3>6
           DEF Balance, PaidPart, InConsume, Positions
      <4>2. QED
        BY <2>2, <3>4, <4>1 DEF Owing
    <3>7. QED
      BY <3>5, <3>6
  <2>4. ASSUME sets[c] < MaxSets, Bounded
        PROVE  credit[c] >= -Second * (sets[c] * (Bucket + 2 * Precision)
                                         + 2 * Precision)
    <3> DEFINE h == sets[c] * (Bucket + 2 * Precision)
               y == Second * (2 * Precision)
               g == Second * h
    <3>1. Kept(c) /\ g = Gift(c)
      BY <1>1, <2>4 DEF Kept, Bounded, Gift
    <3>2. Second * (h + 2 * Precision) = g + y
      <4>1. h \in Int
        BY <2>2, ProductInt
      <4> HIDE DEF h
      <4>2. QED
        BY <2>2, <4>1, Distributes
    <3>3. y \in Nat
      BY <2>2, ProductNat
    <3>4. credit[c] >= -g \/ credit[c] + y >= -g
      BY <2>1, <2>4, <3>1 DEF Balance, PaidPart, Paid, Owing
    <3> HIDE DEF y, g
    <3>5. credit[c] >= -(g + y)
      BY <2>2, <3>1, <3>3, <3>4
    <3>6. QED
      BY <3>2, <3>5
  <2>5. QED
    BY <2>3, <2>4
<1>2. IInv => LimitKept
  BY <1>1 DEF LimitKept
<1>3. QED
  BY <1>2, Invariance, PTL

\* Nothing a client has earned is lost but for the rounding of its refills,
\* unless a rate is negative or a product exceeds int64_t.
THEOREM NothingLostTheorem == Spec => []NothingLost
<1>1. ASSUME IInv, Earning, NEW c \in Clients, sets[c] < MaxSets
      PROVE  Level(c) >= credit[c] - Second * (index[c] + 1 + sets[c])
  <2>1. TypeOK /\ Balance(c) /\ conf \in Configs
    BY <1>1, BalanceSplit DEF Base, TypeOK
  <2> DEFINE n == index[c] + 1 + sets[c]
             x == Second * n
             y == Second * Refills(c)
             lv == Level(c)
  <2>2. /\ credit[c] \in Int /\ sets[c] \in Nat /\ index[c] \in Nat
        /\ Second \in Nat /\ lv \in Int /\ Refills(c) \in Nat
    BY <2>1, ClientTypes, BalanceTypes, ConfType
  <2>3. Refills(c) <= n /\ n \in Int
    BY <2>2 DEF Refills
  <2> HIDE DEF n
  <2>4. y <= x /\ x \in Int /\ y \in Int
    BY <2>2, <2>3, ProductMonotone
  <2>5. lv >= credit[c] - y
    BY <1>1, <2>1 DEF Balance, EarnedPart
  <2> HIDE DEF x, y, lv
  <2>6. lv >= credit[c] - x
    BY <2>2, <2>4, <2>5
  <2>7. QED
    BY <2>6 DEF x, n, lv
<1>2. IInv => NothingLost
  BY <1>1 DEF NothingLost, Earning
<1>3. QED
  BY <1>2, Invariance, PTL
=============================================================================
