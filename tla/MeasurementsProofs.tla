-------------------------- MODULE MeasurementsProofs --------------------------
(***************************************************************************)
(* Proofs about Measurements, for every finite set of threads, number of   *)
(* operations, finite set of latencies and width of the counts.            *)
(***************************************************************************)
EXTENDS Measurements, SumProofs

-----------------------------------------------------------------------------
(***************************************************************************)
(* Counts, sums and extremes of the reports of one operation.              *)
(***************************************************************************)

\* The number of reports and their sum are natural numbers.
LEMMA ReportsType ==
  ASSUME NEW r \in [Latencies -> Nat]
  PROVE  Reports(r) \in Nat /\ Sum(r) \in Nat
<1>1. IsFiniteSet(Latencies) /\ \A l \in Latencies : r[l] \in Nat
  BY MeasurementsAssumption
<1>2. \A l \in Latencies : [k \in Latencies |-> k * r[k]][l] \in Nat
  BY MeasurementsAssumption
<1>3. QED
  BY <1>1, <1>2, SumType DEF Reports, Sum

\* Of no reports they are zero.
LEMMA NoReportsSum ==
  ASSUME NEW r, r = [l \in Latencies |-> 0]
  PROVE  Reports(r) = 0 /\ Sum(r) = 0
<1>1. IsFiniteSet(Latencies) /\ \A l \in Latencies : r[l] = 0
  BY MeasurementsAssumption
<1>2. \A l \in Latencies : [k \in Latencies |-> k * r[k]][l] = 0
  BY MeasurementsAssumption
<1>3. QED
  BY <1>1, <1>2, SumZero DEF Reports, Sum

\* One report more, of latency l, is one more, and l more.
LEMMA ReportAdded ==
  ASSUME NEW r \in [Latencies -> Nat], NEW l \in Latencies, NEW q,
         q = [r EXCEPT ![l] = r[l] + 1]
  PROVE  Reports(q) = Reports(r) + 1 /\ Sum(q) = Sum(r) + l
<1>1. /\ IsFiniteSet(Latencies) /\ Latencies \subseteq Nat
      /\ \A k \in Latencies : r[k] \in Nat /\ q[k] \in Nat
      /\ \A k \in Latencies \ {l} : q[k] = r[k]
      /\ q[l] = r[l] + 1
  BY MeasurementsAssumption
<1>2. Reports(q) = Reports(r) + 1
  <2>1. Reports(q) = Reports(r) + q[l] - r[l]
    <3>1. SumFunctionOnSet(q, Latencies) =
            SumFunctionOnSet(r, Latencies) + q[l] - r[l]
      BY ONLY <1>1, l \in Latencies, SumUpdate
    <3>2. QED
      BY <3>1 DEF Reports
  <2>2. Reports(r) \in Nat /\ r[l] \in Nat
    BY ReportsType
  <2>3. QED
    BY <1>1, <2>1, <2>2
<1>3. Sum(q) = Sum(r) + l
  <2> DEFINE f == [k \in Latencies |-> k * r[k]]
             g == [k \in Latencies |-> k * q[k]]
  <2>0. IsFiniteSet(Latencies) /\ l \in Latencies
    BY <1>1
  <2>1. /\ \A k \in Latencies : f[k] \in Nat /\ g[k] \in Nat
        /\ \A k \in Latencies \ {l} : g[k] = f[k]
    BY <1>1
  <2>2. g[l] = f[l] + l
    BY <1>1
  <2>3. f[l] \in Nat /\ l \in Nat
    BY <1>1, <2>1
  <2>4. Sum(q) = SumFunctionOnSet(g, Latencies)
        /\ Sum(r) = SumFunctionOnSet(f, Latencies)
    BY DEF Sum
  <2>5. Sum(r) \in Nat
    BY ReportsType
  <2> HIDE DEF f, g
  <2>6. SumFunctionOnSet(g, Latencies) =
          SumFunctionOnSet(f, Latencies) + g[l] - f[l]
    BY ONLY <2>0, <2>1, SumUpdate
  <2>7. QED
    BY <2>2, <2>3, <2>4, <2>5, <2>6
<1>4. QED
  BY <1>2, <1>3

\* Nowhere fewer reports are not fewer in all.
LEMMA ReportsMonotone ==
  ASSUME NEW r \in [Latencies -> Nat], NEW q \in [Latencies -> Nat],
         \A l \in Latencies : r[l] <= q[l]
  PROVE  Reports(r) <= Reports(q)
BY MeasurementsAssumption, SumMonotone DEF Reports

\* A set of natural numbers that is not empty has a least element.
LEMMA LeastNatural ==
  ASSUME NEW S, S \subseteq Nat, S # {}
  PROVE  \E m \in S : \A x \in S : m <= x
<1>1. PICK m \in S : \A x \in S : ~ (<<x, m>> \in OpToRel(<, Nat))
  BY NatLessThanWellFounded, WFMin
<1>2. \A x \in S : ~ (x < m)
  BY <1>1 DEF OpToRel
<1>3. QED
  BY <1>2

\* What is below every reported latency is below the least, and what is above
\* every one is above the greatest.
LEMMA Extremes ==
  ASSUME NEW r \in [Latencies -> Nat], NEW m \in Nat
  PROVE  /\ m <= NoMin /\ (\A l \in Latencies : r[l] > 0 => m <= l) =>
              m <= Least(r)
         /\ (\A l \in Latencies : r[l] > 0 => l <= m) => Most(r) <= m
<1> DEFINE L == Reported(r) \cup {NoMin}
           G == Reported(r) \cup {0}
<1>1. L \subseteq Nat /\ L # {} /\ G \subseteq Nat /\ G # {}
  <2>1. Reported(r) \subseteq Nat /\ NoMin \in Nat
    BY MeasurementsAssumption DEF Reported
  <2>2. QED
    BY <2>1
<1>2. Least(r) \in L
  <2>1. \E x \in L : \A y \in L : x <= y
    <3> HIDE DEF L
    <3>1. QED
      BY <1>1, LeastNatural
  <2>2. QED
    BY <2>1 DEF Least, Min
<1>3. Most(r) \in G
  <2>1. \E x \in G : \A y \in G : x >= y
    <3> DEFINE U == {k \in Nat : \A y \in G : y <= k}
    <3>1. NoMin \in U
      BY MeasurementsAssumption DEF Reported
    <3>2. PICK k \in U : \A x \in U : k <= x
      <4>1. U \subseteq Nat /\ U # {}
        BY <3>1
      <4> HIDE DEF U
      <4>2. QED
        BY <4>1, LeastNatural
    <3>3. k \in G
      <4>1. SUFFICES ASSUME k \notin G PROVE FALSE
        OBVIOUS
      <4>2. k # 0 /\ k \in Nat
        BY <4>1
      <4>3. \A y \in G : y <= k /\ y # k /\ y \in Nat
        BY <1>1, <4>1
      <4>4. k - 1 \in U
        BY <4>2, <4>3
      <4>5. QED
        BY <3>2, <4>2, <4>4
    <3>4. QED
      BY <1>1, <3>3
  <2>2. QED
    BY <2>1 DEF Most, Max
<1>4. QED
  BY <1>2, <1>3 DEF Reported

\* A reported latency that is below every reported one is the least, and one
\* that is above every one is the greatest.
LEMMA ExtremesUnique ==
  ASSUME NEW r \in [Latencies -> Nat], NEW m \in Nat
  PROVE  /\ /\ m = NoMin \/ m \in Reported(r)
            /\ \A l \in Reported(r) : m <= l
            => Least(r) = m
         /\ /\ m = 0 \/ m \in Reported(r)
            /\ \A l \in Reported(r) : l <= m
            => Most(r) = m
<1>1. Reported(r) \subseteq Nat /\ \A l \in Reported(r) : l <= NoMin
  <2>1. /\ Reported(r) \subseteq Latencies /\ Latencies \subseteq Nat
        /\ NoMin \in Nat /\ \A l \in Latencies : l < NoMin
    BY MeasurementsAssumption DEF Reported
  <2>2. \A l \in Latencies : l <= NoMin
    BY <2>1
  <2>3. QED
    BY <2>1, <2>2
<1>2. ASSUME m = NoMin \/ m \in Reported(r),
             \A l \in Reported(r) : m <= l
      PROVE  Least(r) = m
  <2> DEFINE L == Reported(r) \cup {NoMin}
  <2>1. m \in L /\ L \subseteq Nat /\ \A y \in L : m <= y
    BY <1>1, <1>2, MeasurementsAssumption
  <2> DEFINE c == CHOOSE x \in L : \A y \in L : x <= y
  <2>2. Least(r) = c
    BY DEF Least, Min
  <2> HIDE DEF L
  <2>3. c \in L /\ \A y \in L : c <= y
    BY <2>1
  <2> HIDE DEF c
  <2>4. c = m
    BY <2>1, <2>3
  <2>5. QED
    BY <2>2, <2>4
<1>3. ASSUME m = 0 \/ m \in Reported(r),
             \A l \in Reported(r) : l <= m
      PROVE  Most(r) = m
  <2> DEFINE G == Reported(r) \cup {0}
  <2>1. m \in G /\ G \subseteq Nat /\ \A y \in G : m >= y
    BY <1>1, <1>3
  <2> DEFINE c == CHOOSE x \in G : \A y \in G : x >= y
  <2>2. Most(r) = c
    BY DEF Most, Max
  <2> HIDE DEF G
  <2>3. c \in G /\ \A y \in G : c >= y
    BY <2>1
  <2> HIDE DEF c
  <2>4. c = m
    BY <2>1, <2>3
  <2>5. QED
    BY <2>2, <2>4
<1>4. QED
  BY <1>2, <1>3

-----------------------------------------------------------------------------
(***************************************************************************)
(* What the variables are, and what a step does.                           *)
(***************************************************************************)

\* Everything that is compared or added is a natural number.
LEMMA Numbers ==
  ASSUME TypeOK
  PROVE  /\ Latencies \subseteq Nat /\ NoMin \in Nat
         /\ \A l \in Latencies : l < NoMin
         /\ \A o \in Ops :
              /\ count[o] \in Nat /\ sum[o] \in Nat /\ warmups[o] \in Nat
              /\ least[o] \in Nat /\ most[o] \in Nat /\ least[o] <= NoMin
              /\ begun[o] \in [Latencies -> Nat]
              /\ ended[o] \in [Latencies -> Nat]
         /\ \A t \in Threads : /\ op[t] \in Ops /\ latency[t] \in Nat
                               /\ prev[t] \in Nat
<1>1. /\ Latencies \subseteq Nat /\ NoMin \in Nat /\ CountModulus \in Nat \ {0}
      /\ \A l \in Latencies : l < NoMin
  BY MeasurementsAssumption
<1>2. ASSUME NEW o \in Ops
      PROVE  /\ count[o] \in Nat /\ sum[o] \in Nat /\ warmups[o] \in Nat
             /\ begun[o] \in [Latencies -> Nat]
             /\ ended[o] \in [Latencies -> Nat]
  BY <1>1 DEF TypeOK, Ledger
<1>3. ASSUME NEW o \in Ops
      PROVE  least[o] \in Nat /\ most[o] \in Nat /\ least[o] <= NoMin
  <2>1. least[o] \in Latencies \cup {NoMin} /\ most[o] \in Latencies \cup {0}
    BY DEF TypeOK
  <2>2. /\ least[o] \in Latencies \/ least[o] = NoMin
        /\ most[o] \in Latencies \/ most[o] = 0
    BY <2>1
  <2>3. Latencies \cup {NoMin} \subseteq Nat /\ Latencies \cup {0} \subseteq Nat
    BY <1>1
  <2>4. least[o] \in Nat /\ most[o] \in Nat
    BY <2>1, <2>3
  <2>5. QED
    BY <1>1, <2>2, <2>4
<1>4. ASSUME NEW t \in Threads
      PROVE  op[t] \in Ops /\ latency[t] \in Nat /\ prev[t] \in Nat
  <2>1. /\ op[t] \in Ops /\ latency[t] \in Latencies \cup {0}
        /\ prev[t] \in Latencies \cup {0, NoMin}
    BY DEF TypeOK
  <2>2. /\ Latencies \cup {0} \subseteq Nat
        /\ Latencies \cup {0, NoMin} \subseteq Nat
    BY <1>1
  <2>3. QED
    BY <2>1, <2>2
<1>5. QED
  BY <1>1, <1>2, <1>3, <1>4

\* A thread loads the minimum, for the first time or after its exchange failed.
MinLoaded(t) ==
  /\ pc[t] \in {"loadmin", "min"}
  /\ prev' = [prev EXCEPT ![t] = least[op[t]]]
  /\ pc' = [pc EXCEPT ![t] =
              IF least[op[t]] > latency[t] THEN "min" ELSE "loadmax"]
  /\ UNCHANGED <<atomics, op, latency, statusVars, history>>

\* It loads a maximum it has to exchange.
MaxLoaded(t) ==
  /\ pc[t] \in {"loadmax", "max"} /\ most[op[t]] < latency[t]
  /\ ReloadMax(t)
  /\ UNCHANGED <<atomics, begun, wrapped, statusVars>>

\* It returns, having found the maximum great enough or having exchanged it.
Returned(t) ==
  /\ pc[t] \in {"loadmax", "max"}
  /\ Return(t)
  /\ \/ most' = most /\ ~(most[op[t]] < latency[t])
     \/ /\ pc[t] = "max" /\ most[op[t]] = prev[t]
        /\ most' = [most EXCEPT ![op[t]] = latency[t]]
  /\ UNCHANGED <<count, sum, least, warmups, statusVars, begun, wrapped>>

\* The kinds of steps
LEMMA NextSplit ==
  ASSUME [Next]_vars
  PROVE  \/ Reset \/ Status \/ UNCHANGED vars
         \/ \E t \in Threads :
              \/ ReportCount(t) \/ ReportSum(t) \/ MinLoaded(t)
              \/ ExchangeMin(t) \/ MaxLoaded(t) \/ Returned(t)
              \/ ReportWarmup(t)
<1> DEFINE Q(t) == \/ ReportCount(t) \/ ReportSum(t) \/ MinLoaded(t)
                   \/ ExchangeMin(t) \/ MaxLoaded(t) \/ Returned(t)
                   \/ ReportWarmup(t)
<1>1. ASSUME NEW t \in Threads, LoadMin(t) \/ RetryMin(t) PROVE MinLoaded(t)
  BY <1>1 DEF LoadMin, RetryMin, MinLoaded
<1>2. ASSUME NEW t \in Threads, LoadMax(t) \/ RetryMax(t)
      PROVE  MaxLoaded(t) \/ Returned(t)
  BY <1>2 DEF LoadMax, RetryMax, MaxLoaded, Returned, atomics
<1>3. ASSUME NEW t \in Threads, ExchangeMax(t) PROVE Returned(t)
  BY <1>3 DEF ExchangeMax, Returned
<1>4. ASSUME NEW t \in Threads, Report(t) \/ ReportWarmup(t) PROVE Q(t)
  BY <1>1, <1>2, <1>3, <1>4 DEF Report
<1>5. QED
  BY <1>4 DEF Next

-----------------------------------------------------------------------------
(***************************************************************************)
(* The steps of Report.                                                    *)
(***************************************************************************)

\* What the reports do to the atomics and the histories: the invariant
\* without GetStatusMsg
ReportInv == TypeOK /\ BusyInv /\ LedgerInv /\ CountInv /\ ExtremesInv

\* The reports on their way stay the same while nobody begins or returns.
LEMMA FlyingSame ==
  ASSUME op' = op, latency' = latency,
         \A u \in Threads : pc'[u] = "idle" <=> pc[u] = "idle"
  PROVE  \A o, l : Flying(o, l)' = Flying(o, l)
BY DEF Flying

\* What they owe stays the same while nobody comes to the sum or adds to it.
LEMMA OwedSame ==
  ASSUME op' = op, latency' = latency,
         \A u \in Threads : pc'[u] = "summing" <=> pc[u] = "summing"
  PROVE  \A o : Owed(o)' = Owed(o)
BY DEF Owed

\* It is a natural number.
LEMMA OwedSum ==
  ASSUME TypeOK, NEW o
  PROVE  SumFunctionOnSet(Owed(o), Threads) \in Nat
<1>1. IsFiniteSet(Threads) /\ \A t \in Threads : Owed(o)[t] \in Nat
  BY Numbers, MeasurementsAssumption DEF Owed
<1>2. QED
  BY <1>1, SumType

\* A remainder counts on.
LEMMA CountOn ==
  ASSUME NEW m \in Nat \ {0}, NEW a \in Nat
  PROVE  (((a % m) + 1) % m) = ((a + 1) % m)
<1> DEFINE q == a \div m
           r == a % m
           p == q + 1
<1>1. q \in Nat /\ r \in 0 .. m - 1 /\ a = m * q + r
  BY Division
<1> HIDE DEF q, r
<1>2. CASE r + 1 < m
  <2>1. ((a + 1) % m) = r + 1
    BY <1>1, <1>2, RemainderUnique
  <2>2. ((r + 1) % m) = r + 1
    BY <1>1, <1>2
  <2>3. QED
    BY <2>1, <2>2 DEF r
<1>3. CASE r + 1 = m
  <2>1. p \in Int /\ m * p = m * q + m
    BY <1>1
  <2> HIDE DEF p
  <2> DEFINE b == a + 1
             z == 0
  <2>2. m \in Nat \ {0} /\ b \in Nat /\ b = m * p + z /\ z \in 0 .. m - 1
    BY <1>1, <1>3, <2>1
  <2> HIDE DEF b, z
  <2>3. (b % m) = z
    BY ONLY <2>1, <2>2, RemainderUnique
  <2>4. ((r + 1) % m) = 0
    BY <1>3
  <2>5. QED
    BY <2>3, <2>4 DEF r, b, z
<1>4. QED
  BY <1>1, <1>2, <1>3

\* ReportCount begins a report and counts it.
LEMMA ReportCountStep ==
  ASSUME ReportInv, NEW t \in Threads, ReportCount(t)
  PROVE  ReportInv'
<1>1. TypeOK /\ BusyInv /\ LedgerInv /\ CountInv /\ ExtremesInv
  BY DEF ReportInv
<1>2. PICK o \in Ops, l \in Latencies :
        /\ op' = [op EXCEPT ![t] = o]
        /\ latency' = [latency EXCEPT ![t] = l]
        /\ count' = [count EXCEPT ![o] = (count[o] + 1) % CountModulus]
        /\ begun' = [begun EXCEPT ![o] = [begun[o] EXCEPT ![l] =
                                            begun[o][l] + 1]]
        /\ wrapped' = (wrapped \/ count[o] + 1 = CountModulus)
  BY DEF ReportCount
<1>3. /\ pc[t] = "idle" /\ pc' = [pc EXCEPT ![t] = "summing"]
      /\ UNCHANGED <<sum, least, most, warmups, prev, reading, at, total, row,
                    before, ended>>
  BY DEF ReportCount, Goto, statusVars
<1>4. /\ op'[t] = o /\ latency'[t] = l /\ pc'[t] = "summing"
      /\ \A u \in Threads \ {t} :
           op'[u] = op[u] /\ latency'[u] = latency[u] /\ pc'[u] = pc[u]
  BY <1>1, <1>2, <1>3 DEF TypeOK
<1>5. /\ \A p \in Ops \ {o} : begun'[p] = begun[p] /\ count'[p] = count[p]
      /\ begun'[o] = [begun[o] EXCEPT ![l] = begun[o][l] + 1]
      /\ begun'[o][l] = begun[o][l] + 1
      /\ \A k \in Latencies \ {l} : begun'[o][k] = begun[o][k]
      /\ count'[o] = (count[o] + 1) % CountModulus
  BY <1>1, <1>2, Numbers DEF TypeOK, Ledger
<1>6. TypeOK'
  <2>1. count[o] + 1 \in Nat /\ CountModulus \in Nat \ {0}
    BY <1>1, Numbers, MeasurementsAssumption
  <2>2. (count[o] + 1) % CountModulus \in 0 .. CountModulus - 1
    BY <2>1, Division
  <2>3. count' \in [Ops -> 0 .. CountModulus - 1] /\ begun' \in Ledger
    BY <1>1, <1>2, <2>2, Numbers DEF TypeOK, Ledger
  <2>4. wrapped' \in BOOLEAN
    BY <1>2
  <2>5. pc' \in [Threads -> States] /\ op' \in [Threads -> Ops]
        /\ latency' \in [Threads -> Latencies \cup {0}]
    BY <1>1, <1>2, <1>3 DEF TypeOK, States
  <2>6. QED
    BY <1>1, <1>3, <2>3, <2>4, <2>5 DEF TypeOK
<1>7. BusyInv'
  BY <1>1, <1>3, <1>4 DEF BusyInv
<1>8. LedgerInv'
  <2>1. Flying(o, l)' = Flying(o, l) \cup {t} /\ t \notin Flying(o, l)
    BY <1>3, <1>4 DEF Flying
  <2>2. IsFiniteSet(Flying(o, l))
    BY MeasurementsAssumption, FS_Subset DEF Flying
  <2>3. /\ Cardinality(Flying(o, l)') = Cardinality(Flying(o, l)) + 1
        /\ Cardinality(Flying(o, l)) \in Nat
    BY <2>1, <2>2, FS_AddElement, FS_CardinalityType
  <2>4. begun'[o][l] = ended'[o][l] + Cardinality(Flying(o, l)')
    BY <1>1, <1>3, <1>5, <2>3, Numbers DEF LedgerInv
  <2>5. ASSUME NEW p \in Ops, NEW k \in Latencies, p # o \/ k # l
        PROVE  begun'[p][k] = ended'[p][k] + Cardinality(Flying(p, k)')
    <3>1. Flying(p, k)' = Flying(p, k)
      BY <1>3, <1>4, <2>5 DEF Flying
    <3>2. begun'[p][k] = begun[p][k]
      BY <1>5, <2>5
    <3>3. QED
      BY <1>1, <1>3, <3>1, <3>2 DEF LedgerInv
  <2>6. QED
    BY <2>4, <2>5 DEF LedgerInv
<1>9. CountInv'
  <2>1. ASSUME NEW p \in Ops \ {o}
        PROVE  Owed(p)' = Owed(p)
    BY <1>3, <1>4, <2>1 DEF Owed
  <2>2. SumFunctionOnSet(Owed(o)', Threads) =
          SumFunctionOnSet(Owed(o), Threads) + l
    <3> DEFINE f == Owed(o)
               g == Owed(o)'
    <3>1. /\ \A u \in Threads : f[u] \in Nat /\ g[u] \in Nat
          /\ \A u \in Threads \ {t} : g[u] = f[u]
          /\ g[t] = l /\ f[t] = 0 /\ l \in Nat
      BY <1>1, <1>3, <1>4, Numbers DEF Owed
    <3>2. IsFiniteSet(Threads) /\ t \in Threads
      BY MeasurementsAssumption
    <3> HIDE DEF f, g
    <3>3. SumFunctionOnSet(g, Threads) =
            SumFunctionOnSet(f, Threads) + g[t] - f[t]
      BY ONLY <3>1, <3>2, SumUpdate
    <3>4. SumFunctionOnSet(f, Threads) \in Nat
      BY <3>1, <3>2, SumType
    <3>5. QED
      BY <3>1, <3>3, <3>4 DEF f, g
  <2>3. /\ Reports(begun'[o]) = Reports(begun[o]) + 1
        /\ Sum(begun'[o]) = Sum(begun[o]) + l
    <3>1. begun[o] \in [Latencies -> Nat]
      BY <1>1, Numbers
    <3>2. QED
      BY ONLY <3>1, <1>5, l \in Latencies, ReportAdded
  <2>4. Reports(begun[o]) \in Nat /\ Sum(begun[o]) \in Nat
    BY <1>1, Numbers, ReportsType
  <2>5. CountModulus \in Nat \ {0}
    BY MeasurementsAssumption
  <2>6. count'[o] = Reports(begun'[o]) % CountModulus
    <3>1. count[o] = Reports(begun[o]) % CountModulus
      BY <1>1 DEF CountInv
    <3>2. QED
      BY <1>5, <2>3, <2>4, <2>5, <3>1, CountOn
  <2>7. ~wrapped' => count'[o] = Reports(begun'[o])
    <3>1. ~wrapped' => ~wrapped /\ count[o] + 1 # CountModulus
      BY <1>2
    <3>2. count[o] \in 0 .. CountModulus - 1
      BY <1>1 DEF TypeOK
    <3>3. count[o] + 1 # CountModulus =>
            ((count[o] + 1) % CountModulus) = count[o] + 1
      BY <2>5, <3>2
    <3>4. QED
      BY <1>1, <1>5, <2>3, <3>1, <3>3 DEF CountInv
  <2>8. Sum(begun'[o]) = sum'[o] + SumFunctionOnSet(Owed(o)', Threads)
    <3>1. /\ Sum(begun[o]) = sum[o] + SumFunctionOnSet(Owed(o), Threads)
          /\ sum'[o] = sum[o] /\ sum[o] \in Nat /\ l \in Nat
      BY <1>1, <1>3, Numbers DEF CountInv
    <3>2. SumFunctionOnSet(Owed(o), Threads) \in Nat
      BY <1>1, OwedSum
    <3>3. QED
      BY <2>2, <2>3, <3>1, <3>2
  <2>9. ASSUME NEW p \in Ops \ {o}
        PROVE  /\ count'[p] = Reports(begun'[p]) % CountModulus
               /\ ~wrapped' => count'[p] = Reports(begun'[p])
               /\ Sum(begun'[p]) = sum'[p] + SumFunctionOnSet(Owed(p)', Threads)
    <3>1. ~wrapped' => ~wrapped
      BY <1>2
    <3>2. QED
      BY <1>1, <1>3, <1>5, <2>1, <3>1 DEF CountInv
  <2>10. QED
    BY <2>6, <2>7, <2>8, <2>9 DEF CountInv
<1>10. ExtremesInv'
  <2>1. \A p \in Ops, k \in Latencies \cup {NoMin, 0} :
          k \in Latencies /\ begun[p][k] > 0 => begun'[p][k] > 0
    BY <1>1, <1>5, Numbers
  <2>2. \A p \in Ops, k \in Latencies : Flying(p, k) \subseteq Flying(p, k)'
    BY <1>3, <1>4 DEF Flying
  <2>3. t \in Flying(o, l)'
    BY <1>4 DEF Flying
  <2>4. ASSUME NEW p \in Ops, NEW k \in Latencies, begun'[p][k] > 0
        PROVE  /\ \/ least'[p] <= k
                  \/ \E u \in Flying(p, k)' :
                       pc'[u] \in {"summing", "loadmin", "min"}
               /\ most'[p] >= k \/ Flying(p, k)' # {}
    <3>1. CASE p = o /\ k = l
      BY <1>4, <2>3, <3>1
    <3>2. CASE p # o \/ k # l
      <4>1. begun[p][k] > 0
        BY <1>5, <2>4, <3>2
      <4>2. \A u \in Flying(p, k) : pc'[u] = pc[u]
        BY <1>3, <1>4 DEF Flying
      <4>3. QED
        BY <1>1, <1>3, <2>2, <4>1, <4>2 DEF ExtremesInv
    <3>3. QED
      BY <3>1, <3>2
  <2>5. ASSUME NEW p \in Ops
        PROVE  /\ least'[p] # NoMin => begun'[p][least'[p]] > 0
               /\ most'[p] # 0 => begun'[p][most'[p]] > 0
    <3>1. least[p] \in Latencies \cup {NoMin} /\ most[p] \in Latencies \cup {0}
      BY <1>1 DEF TypeOK
    <3>2. QED
      BY <1>1, <1>3, <2>1, <3>1 DEF ExtremesInv
  <2>6. QED
    BY <1>1, <1>3, <2>4, <2>5 DEF ExtremesInv
<1>11. QED
  BY <1>6, <1>7, <1>8, <1>9, <1>10 DEF ReportInv

\* The ledger balances while no report begins or returns.
LEMMA LedgerKept ==
  ASSUME LedgerInv, begun' = begun, ended' = ended,
         \A o, l : Flying(o, l)' = Flying(o, l)
  PROVE  LedgerInv'
BY DEF LedgerInv

\* The counts and sums are right while they, and what is owed, do not change.
LEMMA CountKept ==
  ASSUME CountInv, begun' = begun, count' = count, sum' = sum,
         ~wrapped' => ~wrapped, \A o : Owed(o)' = Owed(o)
  PROVE  CountInv'
BY DEF CountInv

\* A report that is on its way has begun.
LEMMA FlyingBegun ==
  ASSUME TypeOK, BusyInv, LedgerInv, NEW t \in Threads, pc[t] # "idle"
  PROVE  /\ op[t] \in Ops /\ latency[t] \in Latencies
         /\ t \in Flying(op[t], latency[t])
         /\ begun[op[t]][latency[t]] > 0
<1>1. op[t] \in Ops /\ latency[t] \in Latencies
  BY DEF TypeOK, BusyInv
<1> DEFINE F == Flying(op[t], latency[t])
<1>2. t \in F /\ IsFiniteSet(F)
  BY MeasurementsAssumption, FS_Subset DEF Flying
<1> HIDE DEF F
<1>3. Cardinality(F) \in Nat /\ Cardinality(F) # 0
  BY <1>2, FS_CardinalityType, FS_EmptySet
<1>4. begun[op[t]][latency[t]] = ended[op[t]][latency[t]] + Cardinality(F)
  BY <1>1 DEF LedgerInv, F
<1>5. ended[op[t]][latency[t]] \in Nat
  BY <1>1, Numbers
<1>6. begun[op[t]][latency[t]] > 0
  BY <1>3, <1>4, <1>5
<1>7. QED
  BY <1>1, <1>2, <1>6 DEF F

\* ReportSum adds to the sum what the thread owes.
LEMMA ReportSumStep ==
  ASSUME ReportInv, NEW t \in Threads, ReportSum(t)
  PROVE  ReportInv'
<1>1. TypeOK /\ BusyInv /\ LedgerInv /\ CountInv /\ ExtremesInv
  BY DEF ReportInv
<1>2. /\ pc[t] = "summing" /\ pc' = [pc EXCEPT ![t] = "loadmin"]
      /\ sum' = [sum EXCEPT ![op[t]] = sum[op[t]] + latency[t]]
      /\ UNCHANGED <<count, least, most, warmups, op, latency, prev, reading,
                     at, total, row, before, begun, ended, wrapped>>
  BY DEF ReportSum, Goto, statusVars, history
<1>3. /\ pc'[t] = "loadmin"
      /\ \A u \in Threads \ {t} : pc'[u] = pc[u]
      /\ op[t] \in Ops /\ latency[t] \in Nat
  BY <1>1, <1>2, Numbers DEF TypeOK
<1>4. \A o, l : Flying(o, l)' = Flying(o, l)
  BY <1>2, <1>3, FlyingSame
<1>5. TypeOK'
  <2>1. sum' \in [Ops -> Nat]
    <3>1. sum \in [Ops -> Nat] /\ sum[op[t]] + latency[t] \in Nat
      BY <1>1, <1>3 DEF TypeOK
    <3>2. QED
      BY <1>2, <3>1
  <2>2. pc' \in [Threads -> States]
    BY <1>1, <1>2 DEF TypeOK, States
  <2>3. QED
    BY <1>1, <1>2, <2>1, <2>2 DEF TypeOK
<1>6. BusyInv'
  BY <1>1, <1>2, <1>3 DEF BusyInv
<1>7. LedgerInv'
  BY <1>1, <1>2, <1>4, LedgerKept
<1>8. CountInv'
  <2>1. ASSUME NEW p \in Ops, p # op[t]
        PROVE  Owed(p)' = Owed(p) /\ sum'[p] = sum[p]
    BY <1>1, <1>2, <1>3, <2>1 DEF Owed, TypeOK
  <2>2. Sum(begun[op[t]]) =
          sum'[op[t]] + SumFunctionOnSet(Owed(op[t])', Threads)
    <3> DEFINE f == Owed(op[t])
               g == [u \in Threads |->
                       IF pc'[u] = "summing" /\ op'[u] = op[t]
                       THEN latency'[u] ELSE 0]
    <3>1. /\ \A u \in Threads : f[u] \in Nat /\ g[u] \in Nat
          /\ \A u \in Threads \ {t} : g[u] = f[u]
          /\ g[t] = 0 /\ f[t] = latency[t]
      BY <1>1, <1>2, <1>3, Numbers DEF Owed
    <3>2. IsFiniteSet(Threads) /\ t \in Threads
      BY MeasurementsAssumption
    <3>3. g = Owed(op[t])'
      BY <1>2 DEF Owed
    <3> HIDE DEF f, g
    <3>4. SumFunctionOnSet(g, Threads) =
            SumFunctionOnSet(f, Threads) + g[t] - f[t]
      BY ONLY <3>1, <3>2, SumUpdate
    <3>5. SumFunctionOnSet(f, Threads) \in Nat
      BY <3>1, <3>2, SumType
    <3>6. /\ Sum(begun[op[t]]) = sum[op[t]] + SumFunctionOnSet(f, Threads)
          /\ sum'[op[t]] = sum[op[t]] + latency[t]
          /\ sum[op[t]] \in Nat
      BY <1>1, <1>2, <1>3, Numbers DEF CountInv, TypeOK, f
    <3>7. SumFunctionOnSet(g, Threads) =
            SumFunctionOnSet(Owed(op[t])', Threads)
      BY <3>3
    <3>8. SumFunctionOnSet(g, Threads) =
            SumFunctionOnSet(f, Threads) - latency[t]
      BY <1>3, <3>1, <3>4, <3>5
    <3>9. Sum(begun[op[t]]) = sum'[op[t]] + SumFunctionOnSet(g, Threads)
      BY ONLY <1>3, <3>5, <3>6, <3>8
    <3>10. QED
      BY <3>7, <3>9
  <2>3. ASSUME NEW p \in Ops
        PROVE  Sum(begun'[p]) = sum'[p] + SumFunctionOnSet(Owed(p)', Threads)
    <3>1. CASE p = op[t]
      BY <1>2, <2>2, <3>1
    <3>2. CASE p # op[t]
      BY <1>1, <1>2, <2>1, <3>2 DEF CountInv
    <3>3. QED
      BY <3>1, <3>2
  <2>4. QED
    BY <1>1, <1>2, <2>3 DEF CountInv
<1>9. ExtremesInv'
  <2>1. \A u \in Threads : pc[u] \in {"summing", "loadmin", "min"} =>
          pc'[u] \in {"summing", "loadmin", "min"}
    BY <1>3
  <2>2. \A o, l : Flying(o, l) \subseteq Threads
    BY DEF Flying
  <2>3. QED
    BY <1>1, <1>2, <1>4, <2>1, <2>2 DEF ExtremesInv
<1>10. QED
  BY <1>5, <1>6, <1>7, <1>8, <1>9 DEF ReportInv

\* A thread that has loaded the minimum goes on to exchange a greater one.
LEMMA MinLoadedStep ==
  ASSUME ReportInv, NEW t \in Threads, MinLoaded(t)
  PROVE  ReportInv'
<1>1. TypeOK /\ BusyInv /\ LedgerInv /\ CountInv /\ ExtremesInv
  BY DEF ReportInv
<1>2. /\ pc[t] \in {"loadmin", "min"}
      /\ prev' = [prev EXCEPT ![t] = least[op[t]]]
      /\ pc' = [pc EXCEPT ![t] =
                  IF least[op[t]] > latency[t] THEN "min" ELSE "loadmax"]
      /\ UNCHANGED <<count, sum, least, most, warmups, op, latency, reading,
                     at, total, row, before, begun, ended, wrapped>>
  BY DEF MinLoaded, atomics, statusVars, history
<1>3. /\ pc'[t] = IF least[op[t]] > latency[t] THEN "min" ELSE "loadmax"
      /\ prev'[t] = least[op[t]]
      /\ \A u \in Threads \ {t} : pc'[u] = pc[u] /\ prev'[u] = prev[u]
      /\ op[t] \in Ops /\ latency[t] \in Nat /\ least[op[t]] \in Nat
  BY <1>1, <1>2, Numbers DEF TypeOK
<1>4. \A u \in Threads : /\ pc'[u] = "idle" <=> pc[u] = "idle"
                         /\ pc'[u] = "summing" <=> pc[u] = "summing"
  BY <1>2, <1>3
<1>5. /\ \A o, l : Flying(o, l)' = Flying(o, l)
      /\ \A o : Owed(o)' = Owed(o)
  BY <1>2, <1>4, FlyingSame, OwedSame
<1>6. TypeOK'
  <2>1. pc' \in [Threads -> States]
    BY <1>1, <1>2 DEF TypeOK, States
  <2>2. prev' \in [Threads -> Latencies \cup {0, NoMin}]
    BY <1>1, <1>2, <1>3 DEF TypeOK
  <2>3. QED
    BY <1>1, <1>2, <2>1, <2>2 DEF TypeOK
<1>7. BusyInv'
  <2>1. ASSUME NEW u \in Threads
        PROVE  /\ pc'[u] # "idle" => latency[u] \in Latencies
               /\ pc'[u] = "min" => latency[u] < prev'[u]
               /\ pc'[u] = "max" => prev'[u] < latency[u]
               /\ pc'[u] \in {"loadmax", "max"} =>
                    least[op[u]] <= latency[u]
    <3>1. CASE u = t
      BY <1>1, <1>2, <1>3, <3>1 DEF BusyInv
    <3>2. CASE u # t
      BY <1>1, <1>3, <3>2 DEF BusyInv
    <3>3. QED
      BY <3>1, <3>2
  <2>2. QED
    BY <1>2, <2>1 DEF BusyInv
<1>8. LedgerInv' /\ CountInv'
  BY <1>1, <1>2, <1>5, LedgerKept, CountKept
<1>9. ExtremesInv'
  <2>1. ASSUME NEW o \in Ops, NEW l \in Latencies, NEW u \in Flying(o, l),
               pc[u] \in {"summing", "loadmin", "min"}
        PROVE  least[o] <= l \/ pc'[u] \in {"summing", "loadmin", "min"}
    <3>1. u \in Threads /\ op[u] = o /\ latency[u] = l
      BY DEF Flying
    <3>2. CASE u = t
      BY <1>3, <3>1, <3>2
    <3>3. CASE u # t
      BY <1>3, <2>1, <3>1, <3>3
    <3>4. QED
      BY <3>2, <3>3
  <2>2. QED
    BY <1>1, <1>2, <1>5, <2>1 DEF ExtremesInv
<1>10. QED
  BY <1>6, <1>7, <1>8, <1>9 DEF ReportInv

\* The exchange makes the minimum smaller, never larger.
LEMMA ExchangeMinStep ==
  ASSUME ReportInv, NEW t \in Threads, ExchangeMin(t)
  PROVE  ReportInv'
<1>1. TypeOK /\ BusyInv /\ LedgerInv /\ CountInv /\ ExtremesInv
  BY DEF ReportInv
<1>2. /\ pc[t] = "min" /\ pc' = [pc EXCEPT ![t] = "loadmax"]
      /\ least[op[t]] = prev[t]
      /\ least' = [least EXCEPT ![op[t]] = latency[t]]
      /\ UNCHANGED <<count, sum, most, warmups, op, latency, prev, reading,
                     at, total, row, before, begun, ended, wrapped>>
  BY DEF ExchangeMin, Goto, statusVars, history
<1>3. /\ op[t] \in Ops /\ latency[t] \in Latencies
      /\ begun[op[t]][latency[t]] > 0
  BY <1>1, <1>2, FlyingBegun
<1>4. /\ pc'[t] = "loadmax"
      /\ \A u \in Threads \ {t} : pc'[u] = pc[u]
      /\ least'[op[t]] = latency[t]
      /\ \A p \in Ops \ {op[t]} : least'[p] = least[p]
  BY <1>1, <1>2, <1>3 DEF TypeOK
<1>5. \A p \in Ops : /\ least'[p] \in Nat /\ least[p] \in Nat
                     /\ least'[p] <= least[p]
  <2>1. latency[t] < least[op[t]] /\ latency[t] \in Nat
    BY <1>1, <1>2, <1>3, Numbers DEF BusyInv
  <2>2. \A p \in Ops : least[p] \in Nat
    BY <1>1, Numbers
  <2>3. ASSUME NEW p \in Ops
        PROVE  least'[p] \in Nat /\ least'[p] <= least[p]
    BY <1>4, <2>1, <2>2
  <2>4. QED
    BY <2>2, <2>3
<1>6. \A o, l : Flying(o, l)' = Flying(o, l)
  BY <1>2, <1>4, FlyingSame
<1>7. \A o : Owed(o)' = Owed(o)
  BY <1>2, <1>4, OwedSame
<1>8. TypeOK'
  <2>1. pc' \in [Threads -> States]
    BY <1>1, <1>2 DEF TypeOK, States
  <2>2. least' \in [Ops -> Latencies \cup {NoMin}]
    BY <1>1, <1>2, <1>3 DEF TypeOK
  <2>3. QED
    BY <1>1, <1>2, <2>1, <2>2 DEF TypeOK
<1>9. BusyInv'
  <2>1. ASSUME NEW u \in Threads, pc'[u] \in {"loadmax", "max"}
        PROVE  least'[op'[u]] <= latency'[u]
    <3>1. op[u] \in Ops /\ latency[u] \in Nat
      BY <1>1, Numbers
    <3>2. op' = op /\ latency' = latency
      BY <1>2
    <3>3. CASE u = t
      <4>1. least'[op[u]] = latency[u]
        BY <1>4, <3>3
      <4>2. QED
        BY <3>1, <3>2, <4>1
    <3>4. CASE u # t
      <4>1. pc[u] \in {"loadmax", "max"}
        BY <1>4, <2>1, <3>4
      <4>2. least[op[u]] <= latency[u]
        BY <1>1, <4>1 DEF BusyInv
      <4>3. QED
        BY <1>5, <3>1, <3>2, <4>2
    <3>5. QED
      BY <3>3, <3>4
  <2>2. QED
    BY <1>1, <1>2, <1>4, <2>1 DEF BusyInv
<1>10. LedgerInv' /\ CountInv'
  BY <1>1, <1>2, <1>6, <1>7, LedgerKept, CountKept
<1>11. ExtremesInv'
  <2>1. \A p \in Ops : least'[p] # NoMin => begun'[p][least'[p]] > 0
    BY <1>1, <1>2, <1>3, <1>4 DEF ExtremesInv
  <2>2. \A p \in Ops : \A k \in Latencies :
          least[p] <= k => least'[p] <= k
    BY <1>1, <1>5, Numbers
  <2>3. ASSUME NEW o \in Ops, NEW l \in Latencies, NEW u \in Flying(o, l),
               pc[u] \in {"summing", "loadmin", "min"}
        PROVE  least'[o] <= l \/ pc'[u] \in {"summing", "loadmin", "min"}
    <3>1. u \in Threads /\ op[u] = o /\ latency[u] = l /\ l \in Nat
      BY <1>1, Numbers DEF Flying
    <3>2. CASE u = t
      BY <1>4, <3>1, <3>2
    <3>3. CASE u # t
      BY <1>4, <2>3, <3>1, <3>3
    <3>4. QED
      BY <3>2, <3>3
  <2>4. QED
    BY <1>1, <1>2, <1>6, <2>1, <2>2, <2>3 DEF ExtremesInv
<1>12. QED
  BY <1>8, <1>9, <1>10, <1>11 DEF ReportInv

\* A thread that has loaded the maximum goes on to exchange a smaller one.
LEMMA MaxLoadedStep ==
  ASSUME ReportInv, NEW t \in Threads, MaxLoaded(t)
  PROVE  ReportInv'
<1>1. TypeOK /\ BusyInv /\ LedgerInv /\ CountInv /\ ExtremesInv
  BY DEF ReportInv
<1>2. /\ pc[t] \in {"loadmax", "max"} /\ most[op[t]] < latency[t]
      /\ prev' = [prev EXCEPT ![t] = most[op[t]]]
      /\ pc' = [pc EXCEPT ![t] = "max"]
      /\ UNCHANGED <<count, sum, least, most, warmups, op, latency, reading,
                     at, total, row, before, begun, ended, wrapped>>
  BY DEF MaxLoaded, ReloadMax, atomics, statusVars
<1>3. /\ pc'[t] = "max" /\ prev'[t] = most[op[t]]
      /\ \A u \in Threads \ {t} : pc'[u] = pc[u] /\ prev'[u] = prev[u]
      /\ op[t] \in Ops
  BY <1>1, <1>2 DEF TypeOK
<1>4. \A u \in Threads : /\ pc'[u] = "idle" <=> pc[u] = "idle"
                         /\ pc'[u] = "summing" <=> pc[u] = "summing"
  BY <1>2, <1>3
<1>5. /\ \A o, l : Flying(o, l)' = Flying(o, l)
      /\ \A o : Owed(o)' = Owed(o)
  BY <1>2, <1>4, FlyingSame, OwedSame
<1>6. TypeOK'
  <2>1. pc' \in [Threads -> States]
    BY <1>1, <1>2 DEF TypeOK, States
  <2>2. prev' \in [Threads -> Latencies \cup {0, NoMin}]
    BY <1>1, <1>2, <1>3 DEF TypeOK
  <2>3. QED
    BY <1>1, <1>2, <2>1, <2>2 DEF TypeOK
<1>7. BusyInv'
  BY <1>1, <1>2, <1>3 DEF BusyInv
<1>8. LedgerInv' /\ CountInv'
  BY <1>1, <1>2, <1>5, LedgerKept, CountKept
<1>9. ExtremesInv'
  <2>1. ASSUME NEW o \in Ops, NEW l \in Latencies, NEW u \in Flying(o, l),
               pc[u] \in {"summing", "loadmin", "min"}
        PROVE  pc'[u] \in {"summing", "loadmin", "min"}
    BY <1>2, <1>3, <2>1 DEF Flying
  <2>2. QED
    BY <1>1, <1>2, <1>5, <2>1 DEF ExtremesInv
<1>10. QED
  BY <1>6, <1>7, <1>8, <1>9 DEF ReportInv

\* A report returns when both extremes cover it.
LEMMA ReturnedStep ==
  ASSUME ReportInv, NEW t \in Threads, Returned(t)
  PROVE  ReportInv'
<1>1. TypeOK /\ BusyInv /\ LedgerInv /\ CountInv /\ ExtremesInv
  BY DEF ReportInv
<1>0. PICK o \in Ops, l \in Latencies : o = op[t] /\ l = latency[t]
  BY <1>1, FlyingBegun DEF Returned
<1>2. /\ pc[t] \in {"loadmax", "max"} /\ o = op[t] /\ l = latency[t]
      /\ pc' = [pc EXCEPT ![t] = "idle"] /\ op' = [op EXCEPT ![t] = 1]
      /\ latency' = [latency EXCEPT ![t] = 0]
      /\ prev' = [prev EXCEPT ![t] = 0]
      /\ ended' = [ended EXCEPT ![o] = [ended[o] EXCEPT ![l] =
                                          ended[o][l] + 1]]
      /\ UNCHANGED <<count, sum, least, warmups, reading, at, total, row,
                     before, begun, wrapped>>
  BY <1>0 DEF Returned, Return, statusVars
<1>3. /\ o \in Ops /\ l \in Latencies /\ l \in Nat /\ begun[o][l] > 0
      /\ least[o] <= l /\ 1 \in Ops
  BY <1>1, <1>2, FlyingBegun, Numbers, MeasurementsAssumption
    DEF BusyInv, Ops
<1>4. /\ pc'[t] = "idle"
      /\ \A u \in Threads \ {t} :
           /\ pc'[u] = pc[u] /\ op'[u] = op[u]
           /\ latency'[u] = latency[u] /\ prev'[u] = prev[u]
      /\ ended'[o][l] = ended[o][l] + 1
      /\ \A p \in Ops, k \in Latencies : p # o \/ k # l =>
           ended'[p][k] = ended[p][k]
  BY <1>1, <1>2, <1>3 DEF TypeOK, Ledger
<1>5. /\ most'[o] \in Nat /\ l <= most'[o]
      /\ \A p \in Ops : /\ most[p] \in Nat /\ most'[p] \in Nat
                        /\ most[p] <= most'[p]
                        /\ most'[p] = most[p] \/ (p = o /\ most'[p] = l)
      /\ most' \in [Ops -> Latencies \cup {0}]
  <2>1. \A p \in Ops : most[p] \in Nat
    BY <1>1, Numbers
  <2>2. most \in [Ops -> Latencies \cup {0}]
    BY <1>1 DEF TypeOK
  <2>3. CASE most' = most /\ ~(most[o] < l)
    BY <1>3, <2>1, <2>2, <2>3
  <2>4. CASE pc[t] = "max" /\ most[o] = prev[t]
             /\ most' = [most EXCEPT ![o] = l]
    <3>1. most[o] < l
      BY <1>1, <1>2, <2>4 DEF BusyInv
    <3>2. most'[o] = l /\ \A p \in Ops \ {o} : most'[p] = most[p]
      BY <1>3, <2>2, <2>4
    <3>3. most' \in [Ops -> Latencies \cup {0}]
      BY <1>3, <2>2, <2>4
    <3>4. ASSUME NEW p \in Ops
          PROVE  /\ most[p] \in Nat /\ most'[p] \in Nat
                 /\ most[p] <= most'[p]
                 /\ most'[p] = most[p] \/ (p = o /\ most'[p] = l)
      <4>1. CASE p = o
        BY <1>3, <2>1, <3>1, <3>2, <4>1
      <4>2. CASE p # o
        BY <2>1, <3>2, <4>2
      <4>3. QED
        BY <4>1, <4>2
    <3>5. QED
      BY <1>3, <3>2, <3>3, <3>4
  <2>5. QED
    BY <1>0, <2>3, <2>4 DEF Returned
<1>6. TypeOK'
  <2>1. pc' \in [Threads -> States]
    BY <1>1, <1>2 DEF TypeOK, States
  <2>2. /\ op' \in [Threads -> Ops]
        /\ latency' \in [Threads -> Latencies \cup {0}]
        /\ prev' \in [Threads -> Latencies \cup {0, NoMin}]
    BY <1>1, <1>2, <1>3 DEF TypeOK
  <2>3. ended' \in Ledger
    <3>1. /\ ended \in [Ops -> [Latencies -> Nat]]
          /\ ended[o] \in [Latencies -> Nat] /\ ended[o][l] + 1 \in Nat
      BY <1>1, <1>3 DEF TypeOK, Ledger
    <3>2. QED
      BY <1>2, <1>3, <3>1 DEF Ledger
  <2>4. QED
    BY <1>1, <1>2, <1>5, <2>1, <2>2, <2>3 DEF TypeOK
<1>7. BusyInv'
  <2>1. ASSUME NEW u \in Threads
        PROVE  /\ pc'[u] # "idle" => latency'[u] \in Latencies
               /\ pc'[u] = "min" => latency'[u] < prev'[u]
               /\ pc'[u] = "max" => prev'[u] < latency'[u]
               /\ pc'[u] \in {"loadmax", "max"} =>
                    least'[op'[u]] <= latency'[u]
    <3>1. CASE u = t
      BY <1>4, <3>1
    <3>2. CASE u # t
      BY <1>1, <1>2, <1>4, <3>2 DEF BusyInv
    <3>3. QED
      BY <3>1, <3>2
  <2>2. QED
    BY <2>1 DEF BusyInv
<1>8. \A p, k : Flying(p, k)' = Flying(p, k) \ {t}
  BY <1>4 DEF Flying
<1>9. LedgerInv'
  <2> DEFINE F == Flying(o, l)
  <2>1. t \in F /\ IsFiniteSet(F)
    BY <1>2, MeasurementsAssumption, FS_Subset DEF Flying
  <2>2. /\ Cardinality(Flying(o, l)') = Cardinality(Flying(o, l)) - 1
        /\ Cardinality(Flying(o, l)) \in Nat
    <3>1. Flying(o, l)' = F \ {t}
      BY <1>8
    <3> HIDE DEF F
    <3>2. Cardinality(F \ {t}) = Cardinality(F) - 1 /\ Cardinality(F) \in Nat
      BY <2>1, FS_RemoveElement, FS_CardinalityType
    <3>3. QED
      BY <3>1, <3>2 DEF F
  <2>3. begun'[o][l] = ended'[o][l] + Cardinality(Flying(o, l)')
    <3>1. /\ begun[o][l] = ended[o][l] + Cardinality(Flying(o, l))
          /\ ended[o][l] \in Nat /\ begun'[o][l] = begun[o][l]
      BY <1>1, <1>2, <1>3, Numbers DEF LedgerInv
    <3>2. QED
      BY <1>4, <2>2, <3>1
  <2>4. ASSUME NEW p \in Ops, NEW k \in Latencies, p # o \/ k # l
        PROVE  begun'[p][k] = ended'[p][k] + Cardinality(Flying(p, k)')
    <3>1. t \notin Flying(p, k)
      BY <1>2, <2>4 DEF Flying
    <3>2. Flying(p, k)' = Flying(p, k) /\ ended'[p][k] = ended[p][k]
      BY <1>4, <1>8, <2>4, <3>1
    <3>3. QED
      BY <1>1, <1>2, <3>2 DEF LedgerInv
  <2>5. QED
    BY <2>3, <2>4 DEF LedgerInv
<1>10. CountInv'
  <2>1. \A p : Owed(p)' = Owed(p)
    BY <1>2, <1>4 DEF Owed
  <2>2. QED
    BY <1>1, <1>2, <2>1, CountKept
<1>11. ExtremesInv'
  <2>1. ASSUME NEW p \in Ops
        PROVE  /\ least'[p] # NoMin => begun'[p][least'[p]] > 0
               /\ most'[p] # 0 => begun'[p][most'[p]] > 0
    BY <1>1, <1>2, <1>3, <1>5 DEF ExtremesInv
  <2>2. ASSUME NEW p \in Ops, NEW k \in Latencies, begun[p][k] > 0
        PROVE  /\ \/ least[p] <= k
                  \/ \E u \in Flying(p, k)' :
                       pc'[u] \in {"summing", "loadmin", "min"}
               /\ most'[p] >= k \/ Flying(p, k)' # {}
    <3>1. /\ \/ least[p] <= k
             \/ \E u \in Flying(p, k) :
                   pc[u] \in {"summing", "loadmin", "min"}
          /\ most[p] >= k \/ Flying(p, k) # {}
      BY <1>1, <2>2 DEF ExtremesInv
    <3>2. ASSUME NEW u \in Flying(p, k),
                 pc[u] \in {"summing", "loadmin", "min"}
          PROVE  u \in Flying(p, k)' /\ pc'[u] = pc[u]
      <4>1. u \in Threads /\ u # t
        BY <1>2, <3>2 DEF Flying
      <4>2. QED
        BY <1>4, <1>8, <3>2, <4>1
    <3>3. most'[p] >= k \/ Flying(p, k)' # {}
      <4>1. CASE p = o /\ k = l
        BY <1>3, <1>5, <4>1
      <4>2. CASE p # o \/ k # l
        <5>1. Flying(p, k)' = Flying(p, k)
          BY <1>2, <1>8, <4>2 DEF Flying
        <5>2. k \in Nat
          BY <1>1, Numbers
        <5>3. QED
          BY <1>5, <3>1, <5>1, <5>2
      <4>3. QED
        BY <4>1, <4>2
    <3>4. QED
      BY <3>1, <3>2, <3>3
  <2>3. ASSUME NEW p \in Ops, NEW k \in Latencies, ended'[p][k] > 0
        PROVE  least[p] <= k /\ k <= most'[p]
    <3>1. CASE p = o /\ k = l
      BY <1>3, <1>5, <3>1
    <3>2. CASE p # o \/ k # l
      <4>1. least[p] <= k /\ k <= most[p] /\ k \in Nat
        BY <1>1, <1>4, <2>3, <3>2, Numbers DEF ExtremesInv
      <4>2. QED
        BY <1>5, <4>1
    <3>3. QED
      BY <3>1, <3>2
  <2>4. least' = least /\ begun' = begun
    BY <1>2
  <2>5. QED
    BY <2>1, <2>2, <2>3, <2>4 DEF ExtremesInv
<1>12. QED
  BY <1>6, <1>7, <1>9, <1>10, <1>11 DEF ReportInv

\* ReportWarmup touches none of what the reports leave.
LEMMA ReportWarmupStep ==
  ASSUME ReportInv, NEW t \in Threads, ReportWarmup(t)
  PROVE  ReportInv'
<1>1. TypeOK /\ BusyInv /\ LedgerInv /\ CountInv /\ ExtremesInv
  BY DEF ReportInv
<1>2. PICK o \in Ops :
        /\ warmups' = [warmups EXCEPT ![o] = (warmups[o] + 1) % CountModulus]
        /\ wrapped' = (wrapped \/ warmups[o] + 1 = CountModulus)
  BY DEF ReportWarmup
<1>3. UNCHANGED <<count, sum, least, most, pc, op, latency, prev, reading, at,
                  total, row, before, begun, ended>>
  BY DEF ReportWarmup, reportVars, statusVars
<1>4. TypeOK'
  <2>1. warmups[o] + 1 \in Nat /\ CountModulus \in Nat \ {0}
    BY <1>1, Numbers, MeasurementsAssumption
  <2>2. (warmups[o] + 1) % CountModulus \in 0 .. CountModulus - 1
    BY <2>1, Division
  <2>3. warmups' \in [Ops -> 0 .. CountModulus - 1]
    BY <1>1, <1>2, <2>2 DEF TypeOK
  <2>4. wrapped' \in BOOLEAN
    BY <1>2
  <2>5. QED
    BY <1>1, <1>3, <2>3, <2>4 DEF TypeOK
<1>5. /\ \A p, l : Flying(p, l)' = Flying(p, l)
      /\ \A p : Owed(p)' = Owed(p)
  BY <1>3, FlyingSame, OwedSame
<1>6. BusyInv'
  BY <1>1, <1>3 DEF BusyInv
<1>7. LedgerInv' /\ CountInv'
  BY <1>1, <1>2, <1>3, <1>5, LedgerKept, CountKept
<1>8. ExtremesInv'
  BY <1>1, <1>3, <1>5 DEF ExtremesInv
<1>9. QED
  BY <1>4, <1>6, <1>7, <1>8 DEF ReportInv

\* Nothing reported: how the program begins, and what Reset leaves
Fresh ==
  /\ count = Zero /\ sum = Zero /\ warmups = Zero
  /\ least = Unreported /\ most = Zero
  /\ total = 0 /\ before = Nothing
  /\ begun = NoReports /\ ended = NoReports /\ wrapped = FALSE
  /\ reading = "nothing" /\ \A t \in Threads : pc[t] = "idle"

\* It satisfies the invariant.
LEMMA FreshInv ==
  ASSUME Fresh,
         pc \in [Threads -> States] /\ op \in [Threads -> Ops],
         latency \in [Threads -> Latencies \cup {0}],
         prev \in [Threads -> Latencies \cup {0, NoMin}],
         at = 1,
         row \in [count : Nat, most : Latencies \cup {0},
                  least : Latencies \cup {0, NoMin}]
  PROVE  ReportInv
<1>1. /\ NumOps \in Nat \ {0} /\ CountModulus \in Nat \ {0}
      /\ 0 \in 0 .. CountModulus - 1 /\ 1 \in Ops
  BY MeasurementsAssumption DEF Ops
<1>2. NoReports \in Ledger
  BY DEF NoReports, Ledger
<1>3. TypeOK
  <2>1. before \in [ended : Ledger, warmups : [Ops -> Nat]]
    BY <1>2 DEF Fresh, Nothing, Zero
  <2>2. /\ count \in [Ops -> 0 .. CountModulus - 1]
        /\ warmups \in [Ops -> 0 .. CountModulus - 1] /\ sum \in [Ops -> Nat]
        /\ least \in [Ops -> Latencies \cup {NoMin}]
        /\ most \in [Ops -> Latencies \cup {0}]
    BY <1>1 DEF Fresh, Zero, Unreported
  <2>3. /\ begun \in Ledger /\ ended \in Ledger /\ at \in Ops /\ total \in Nat
        /\ wrapped \in BOOLEAN /\ reading \in Readings
    BY <1>1, <1>2 DEF Fresh, Readings
  <2>4. QED
    BY <2>1, <2>2, <2>3 DEF TypeOK
<1>4. BusyInv
  BY DEF Fresh, BusyInv
<1>5. \A o \in Ops, l \in Latencies : begun[o][l] = 0 /\ ended[o][l] = 0
  BY DEF Fresh, NoReports
<1>6. LedgerInv
  <2>1. \A o, l : Flying(o, l) = {}
    BY DEF Fresh, Flying
  <2>2. Cardinality({}) = 0
    BY FS_EmptySet
  <2>3. ASSUME NEW o \in Ops, NEW l \in Latencies
        PROVE  begun[o][l] = ended[o][l] + Cardinality(Flying(o, l))
    <3>1. Cardinality(Flying(o, l)) = 0
      BY ONLY <2>1, <2>2
    <3>2. begun[o][l] = 0 /\ ended[o][l] = 0
      BY <1>5
    <3>3. QED
      BY ONLY <3>1, <3>2
  <2>4. QED
    BY <2>3 DEF LedgerInv
<1>7. CountInv
  <2>1. ASSUME NEW o \in Ops
        PROVE  SumFunctionOnSet(Owed(o), Threads) = 0
    <3> DEFINE f == Owed(o)
    <3>1. IsFiniteSet(Threads) /\ \A t \in Threads : f[t] = 0
      BY MeasurementsAssumption DEF Owed, Fresh
    <3> HIDE DEF f
    <3>2. SumFunctionOnSet(f, Threads) = 0
      BY <3>1, SumZero
    <3>3. QED
      BY <3>2 DEF f
  <2>2. ASSUME NEW o \in Ops
        PROVE  Reports(begun[o]) = 0 /\ Sum(begun[o]) = 0
    <3>1. begun[o] = [l \in Latencies |-> 0]
      BY DEF Fresh, NoReports
    <3>2. QED
      BY <3>1, NoReportsSum
  <2>3. 0 % CountModulus = 0
    BY <1>1
  <2>4. \A o \in Ops : count[o] = 0 /\ sum[o] = 0
    BY DEF Fresh, Zero
  <2>5. QED
    BY <2>1, <2>2, <2>3, <2>4 DEF CountInv
<1>8. ExtremesInv
  BY <1>5 DEF Fresh, Unreported, Zero, ExtremesInv
<1>9. QED
  BY <1>3, <1>4, <1>6, <1>7, <1>8 DEF ReportInv

\* Reset begins anew.
LEMMA ResetStep ==
  ASSUME ReportInv, RowInv, Reset
  PROVE  ReportInv' /\ Fresh' /\ at' = 1
<1>1. Fresh' /\ UNCHANGED <<reading, at, row, pc, op, latency, prev>>
  BY DEF Reset, NewPhase, AtRest, Fresh, reportVars, Zero, Unreported,
         Nothing, NoReports, Ops
<1>2. at' = 1
  BY <1>1 DEF RowInv, Reset, AtRest
<1>3. /\ pc' \in [Threads -> States] /\ op' \in [Threads -> Ops]
      /\ latency' \in [Threads -> Latencies \cup {0}]
      /\ prev' \in [Threads -> Latencies \cup {0, NoMin}]
      /\ row' \in [count : Nat, most : Latencies \cup {0},
                   least : Latencies \cup {0, NoMin}]
  BY <1>1 DEF ReportInv, TypeOK
<1>4. (/\ Fresh /\ pc \in [Threads -> States] /\ op \in [Threads -> Ops]
       /\ latency \in [Threads -> Latencies \cup {0}]
       /\ prev \in [Threads -> Latencies \cup {0, NoMin}]
       /\ at = 1
       /\ row \in [count : Nat, most : Latencies \cup {0},
                   least : Latencies \cup {0, NoMin}]
       => ReportInv)'
  BY FreshInv, PTL
<1>5. QED
  BY <1>1, <1>2, <1>3, <1>4

\* GetStatusMsg only reads what is reported.
LEMMA StatusReportStep ==
  ASSUME ReportInv, Status
  PROVE  ReportInv'
<1>1. TypeOK /\ BusyInv /\ LedgerInv /\ CountInv /\ ExtremesInv
  BY DEF ReportInv
<1>2. UNCHANGED <<count, sum, least, most, warmups, pc, op, latency, prev,
                  begun, ended, wrapped>>
  BY DEF Status, StatusBegin, LoadWarmups, SkipOp, LoadCount, LoadMost,
         LoadLeast, LoadSum, atomics, reportVars, history
<1>3. /\ \A p, l : Flying(p, l)' = Flying(p, l)
      /\ \A p : Owed(p)' = Owed(p)
  BY <1>2, FlyingSame, OwedSame
<1>4. BusyInv'
  BY <1>1, <1>2 DEF BusyInv
<1>5. LedgerInv' /\ CountInv'
  BY <1>1, <1>2, <1>3, LedgerKept, CountKept
<1>6. ExtremesInv'
  BY <1>1, <1>2, <1>3 DEF ExtremesInv
<1> DEFINE StatusTypes ==
             /\ reading' \in Readings /\ at' \in Ops /\ total' \in Nat
             /\ row' \in [count : Nat, most : Latencies \cup {0},
                          least : Latencies \cup {0, NoMin}]
             /\ before' \in [ended : Ledger, warmups : [Ops -> Nat]]
<1>7. /\ reading \in Readings /\ at \in Ops /\ total \in Nat
      /\ row \in [count : Nat, most : Latencies \cup {0},
                  least : Latencies \cup {0, NoMin}]
      /\ before \in [ended : Ledger, warmups : [Ops -> Nat]]
      /\ ended \in Ledger /\ warmups \in [Ops -> Nat]
      /\ \A o \in Ops : count[o] \in Nat /\ least[o] \in Latencies \cup {NoMin}
                        /\ most[o] \in Latencies \cup {0}
  <2>1. warmups \in [Ops -> Nat]
    BY <1>1, MeasurementsAssumption DEF TypeOK
  <2>2. QED
    BY <1>1, <2>1, Numbers DEF TypeOK
<1>8. /\ 1 \in Ops /\ (at < NumOps => at + 1 \in Ops)
      /\ NoRow \in [count : Nat, most : Latencies \cup {0},
                    least : Latencies \cup {0, NoMin}]
      /\ {"nothing", "warmups", "count", "most", "least", "sum"} = Readings
  BY <1>7, MeasurementsAssumption DEF Ops, NoRow, Readings
<1>9. StatusTypes
  <2>1. CASE StatusBegin
    BY <1>7, <1>8, <2>1 DEF StatusBegin
  <2>2. CASE LoadWarmups
    <3>1. total + warmups[at] \in Nat
      BY <1>7
    <3>2. QED
      BY <1>7, <1>8, <2>2, <3>1 DEF LoadWarmups
  <2>3. CASE SkipOp
    BY <1>7, <1>8, <2>3 DEF SkipOp, Advance
  <2>4. CASE LoadCount
    BY <1>7, <1>8, <2>4 DEF LoadCount, NoRow
  <2>5. CASE LoadMost
    BY <1>7, <1>8, <2>5 DEF LoadMost
  <2>6. CASE LoadLeast
    BY <1>7, <1>8, <2>6 DEF LoadLeast
  <2>7. CASE LoadSum
    <3>1. total + row.count \in Nat
      BY <1>7
    <3>2. QED
      BY <1>7, <1>8, <2>7, <3>1 DEF LoadSum, Advance
  <2>8. QED
    BY <2>1, <2>2, <2>3, <2>4, <2>5, <2>6, <2>7 DEF Status
<1>10. TypeOK'
  BY <1>1, <1>2, <1>9 DEF TypeOK
<1>11. QED
  BY <1>4, <1>5, <1>6, <1>10 DEF ReportInv

\* A step that changes nothing changes nothing of the invariant.
LEMMA StutterReport ==
  ASSUME ReportInv, UNCHANGED vars
  PROVE  ReportInv'
<1>1. UNCHANGED <<count, sum, least, most, warmups, pc, op, latency, prev,
                  reading, at, total, row, before, begun, ended, wrapped>>
  BY DEF vars, atomics, reportVars, statusVars, history
<1>2. TypeOK' /\ BusyInv'
  BY <1>1 DEF ReportInv, TypeOK, BusyInv
<1>3. /\ \A p, l : Flying(p, l)' = Flying(p, l)
      /\ \A p : Owed(p)' = Owed(p)
  BY <1>1, FlyingSame, OwedSame
<1>4. LedgerInv' /\ CountInv'
  BY <1>1, <1>3, LedgerKept, CountKept DEF ReportInv
<1>5. ExtremesInv'
  BY <1>1, <1>3 DEF ReportInv, ExtremesInv
<1>6. QED
  BY <1>2, <1>4, <1>5 DEF ReportInv

-----------------------------------------------------------------------------
(***************************************************************************)
(* GetStatusMsg, and what comes in while it reads.                         *)
(***************************************************************************)

\* No report is taken back, nor a warmup count while none wraps around.
Grown ==
  /\ UNCHANGED <<reading, at, total, row, before>>
  /\ wrapped => wrapped'
  /\ \A o \in Ops, l \in Latencies :
       begun[o][l] <= begun'[o][l] /\ ended[o][l] <= ended'[o][l]
  /\ ~wrapped' => \A o \in Ops : warmups[o] <= warmups'[o]

\* The reports only add.
LEMMA ReportGrows ==
  ASSUME TypeOK, BusyInv, LedgerInv, NEW t \in Threads,
         \/ ReportCount(t) \/ ReportSum(t) \/ MinLoaded(t)
         \/ ExchangeMin(t) \/ MaxLoaded(t) \/ Returned(t) \/ ReportWarmup(t)
  PROVE  Grown
<1>1. \A o \in Ops : /\ warmups[o] \in 0 .. CountModulus - 1
                     /\ warmups[o] <= warmups[o]
                     /\ \A l \in Latencies :
                          /\ begun[o][l] \in Nat /\ ended[o][l] \in Nat
                          /\ begun[o][l] <= begun[o][l]
                          /\ ended[o][l] <= ended[o][l]
  BY Numbers DEF TypeOK
<1>2. CASE ReportCount(t)
  <2>1. PICK o \in Ops, l \in Latencies :
          /\ begun' = [begun EXCEPT ![o] = [begun[o] EXCEPT ![l] =
                                              begun[o][l] + 1]]
          /\ wrapped' = (wrapped \/ count[o] + 1 = CountModulus)
    BY <1>2 DEF ReportCount
  <2>2. UNCHANGED <<reading, at, total, row, before, ended, warmups>>
    BY <1>2 DEF ReportCount, statusVars
  <2>3. /\ begun'[o][l] = begun[o][l] + 1
        /\ \A p \in Ops, k \in Latencies : p # o \/ k # l =>
             begun'[p][k] = begun[p][k]
    BY <2>1 DEF TypeOK, Ledger
  <2>4. ASSUME NEW p \in Ops, NEW k \in Latencies
        PROVE  begun[p][k] <= begun'[p][k]
    <3>1. CASE p = o /\ k = l
      BY <1>1, <2>3, <3>1
    <3>2. CASE p # o \/ k # l
      BY <1>1, <2>3, <3>2
    <3>3. QED
      BY <3>1, <3>2
  <2>5. wrapped => wrapped'
    BY <2>1
  <2>6. QED
    BY <1>1, <2>2, <2>4, <2>5 DEF Grown
<1>3. CASE ReportSum(t) \/ MinLoaded(t) \/ ExchangeMin(t) \/ MaxLoaded(t)
  <2>1. UNCHANGED <<reading, at, total, row, before, begun, ended, warmups,
                    wrapped>>
    BY <1>3 DEF ReportSum, MinLoaded, ExchangeMin, MaxLoaded, ReloadMax,
                atomics, statusVars, history
  <2>2. QED
    BY <1>1, <2>1 DEF Grown
<1>4. CASE Returned(t)
  <2>1. PICK o \in Ops, l \in Latencies : o = op[t] /\ l = latency[t]
    BY <1>4, FlyingBegun DEF Returned
  <2>2. /\ ended' = [ended EXCEPT ![o] = [ended[o] EXCEPT ![l] =
                                            ended[o][l] + 1]]
        /\ UNCHANGED <<reading, at, total, row, before, begun, warmups,
                       wrapped>>
    BY <1>4, <2>1 DEF Returned, Return, statusVars
  <2>3. /\ ended'[o][l] = ended[o][l] + 1
        /\ \A p \in Ops, k \in Latencies : p # o \/ k # l =>
             ended'[p][k] = ended[p][k]
    BY <2>2 DEF TypeOK, Ledger
  <2>4. ASSUME NEW p \in Ops, NEW k \in Latencies
        PROVE  ended[p][k] <= ended'[p][k]
    <3>1. CASE p = o /\ k = l
      BY <1>1, <2>3, <3>1
    <3>2. CASE p # o \/ k # l
      BY <1>1, <2>3, <3>2
    <3>3. QED
      BY <3>1, <3>2
  <2>5. QED
    BY <1>1, <2>2, <2>4 DEF Grown
<1>5. CASE ReportWarmup(t)
  <2>1. PICK o \in Ops :
          /\ warmups' = [warmups EXCEPT ![o] = (warmups[o] + 1) % CountModulus]
          /\ wrapped' = (wrapped \/ warmups[o] + 1 = CountModulus)
    BY <1>5 DEF ReportWarmup
  <2>2. UNCHANGED <<reading, at, total, row, before, begun, ended>>
    BY <1>5 DEF ReportWarmup, statusVars
  <2>3. /\ warmups'[o] = (warmups[o] + 1) % CountModulus
        /\ \A p \in Ops \ {o} : warmups'[p] = warmups[p]
    BY <2>1 DEF TypeOK
  <2>4. warmups[o] + 1 # CountModulus => warmups[o] <= warmups'[o]
    <3>1. CountModulus \in Nat \ {0}
      BY MeasurementsAssumption
    <3>2. QED
      BY <1>1, <2>3, <3>1
  <2>5. ~wrapped' => warmups[o] + 1 # CountModulus
    BY <2>1
  <2>6. wrapped => wrapped'
    BY <2>1
  <2>7. QED
    BY <1>1, <2>2, <2>3, <2>4, <2>5, <2>6 DEF Grown
<1>6. QED
  BY <1>2, <1>3, <1>4, <1>5

\* The status line keeps covering what it covers.
LEMMA GrownRow ==
  ASSUME TypeOK, TypeOK', RowInv, Grown
  PROVE  RowInv'
<1>1. \A o \in Ops : /\ begun[o] \in [Latencies -> Nat]
                     /\ begun'[o] \in [Latencies -> Nat]
                     /\ Reports(begun[o]) <= Reports(begun'[o])
                     /\ Reports(begun[o]) \in Nat /\ Reports(begun'[o]) \in Nat
  <2>1. \A o \in Ops : /\ begun[o] \in [Latencies -> Nat]
                       /\ begun'[o] \in [Latencies -> Nat]
    BY DEF TypeOK, Ledger
  <2>2. QED
    BY <2>1, ReportsMonotone, ReportsType DEF Grown
<1>2. /\ at \in Ops /\ before.ended \in Ledger /\ row.count \in Nat
      /\ before.warmups \in [Ops -> Nat] /\ ended \in Ledger
      /\ ended' \in Ledger
      /\ \A o \in Ops : warmups[o] \in Nat /\ warmups'[o] \in Nat
  BY MeasurementsAssumption DEF TypeOK
<1>3. \A o \in Ops : Reports(before.ended[o]) \in Nat
  BY <1>2, ReportsType DEF Ledger
<1>4. UNCHANGED <<reading, at, total, row, before>> /\ (~wrapped' => ~wrapped)
  BY DEF Grown
<1>5. reading' # "nothing" => \A o \in Ops, l \in Latencies :
                                before'.ended[o][l] <= ended'[o][l]
  <2>1. ASSUME NEW o \in Ops, NEW l \in Latencies,
               before.ended[o][l] <= ended[o][l]
        PROVE  before.ended[o][l] <= ended'[o][l]
    <3>1. /\ before.ended[o][l] \in Nat /\ ended[o][l] \in Nat
          /\ ended'[o][l] \in Nat /\ ended[o][l] <= ended'[o][l]
      BY <1>2 DEF Ledger, Grown
    <3>2. QED
      BY <2>1, <3>1
  <2>2. QED
    BY <1>4, <2>1 DEF RowInv
<1>6. reading' # "nothing" /\ ~wrapped' =>
        \A o \in Ops : before'.warmups[o] <= warmups'[o]
  <2>1. ASSUME NEW o \in Ops, before.warmups[o] <= warmups[o], ~wrapped'
        PROVE  before.warmups[o] <= warmups'[o]
    <3>1. /\ before.warmups[o] \in Nat /\ warmups[o] \in Nat
          /\ warmups'[o] \in Nat /\ warmups[o] <= warmups'[o]
      BY <1>2, <2>1 DEF Grown
    <3>2. QED
      BY <2>1, <3>1
  <2>2. QED
    BY <1>4, <2>1 DEF RowInv
<1>7. reading' \in {"most", "least", "sum"} /\ ~wrapped' =>
        row'.count \in Reports(before'.ended[at']) .. Reports(begun'[at'])
  <2>1. ASSUME row.count \in Reports(before.ended[at]) .. Reports(begun[at])
        PROVE  row.count \in Reports(before.ended[at]) .. Reports(begun'[at])
    BY <1>1, <1>2, <1>3, <2>1
  <2>2. QED
    BY <1>4, <2>1 DEF RowInv
<1>8. QED
  BY <1>4, <1>5, <1>6, <1>7 DEF RowInv

\* What had returned had begun.
LEMMA EndedBegun ==
  ASSUME TypeOK, LedgerInv, NEW o \in Ops, NEW l \in Latencies
  PROVE  ended[o][l] <= begun[o][l]
<1>1. IsFiniteSet(Flying(o, l))
  BY MeasurementsAssumption, FS_Subset DEF Flying
<1>2. /\ begun[o][l] = ended[o][l] + Cardinality(Flying(o, l))
      /\ ended[o][l] \in Nat /\ Cardinality(Flying(o, l)) \in Nat
  BY <1>1, FS_CardinalityType, Numbers DEF LedgerInv
<1>3. QED
  BY <1>2

\* What had returned before the message began is no more than has begun.
LEMMA BeforeBegun ==
  ASSUME TypeOK, LedgerInv, RowInv, reading # "nothing", NEW o \in Ops
  PROVE  /\ before.ended[o] \in [Latencies -> Nat]
         /\ Reports(before.ended[o]) \in Nat /\ Reports(begun[o]) \in Nat
         /\ Reports(before.ended[o]) <= Reports(begun[o])
<1>1. /\ before.ended[o] \in [Latencies -> Nat]
      /\ begun[o] \in [Latencies -> Nat] /\ ended[o] \in [Latencies -> Nat]
  BY DEF TypeOK, Ledger
<1>2. ASSUME NEW l \in Latencies
      PROVE  before.ended[o][l] <= begun[o][l]
  <2>1. before.ended[o][l] <= ended[o][l] /\ ended[o][l] <= begun[o][l]
    BY EndedBegun DEF RowInv
  <2>2. QED
    BY <1>1, <2>1
<1>3. QED
  BY <1>1, <1>2, ReportsType, ReportsMonotone

\* GetStatusMsg loads the line of an operation so that it covers what had
\* returned before it began.
LEMMA StatusRow ==
  ASSUME ReportInv, RowInv, Status
  PROVE  RowInv'
<1>1. TypeOK /\ BusyInv /\ LedgerInv /\ CountInv /\ ExtremesInv
  BY DEF ReportInv
<1>2. UNCHANGED <<most, least, count, begun, ended, warmups, wrapped>>
  BY DEF Status, StatusBegin, LoadWarmups, SkipOp, LoadCount, LoadMost,
         LoadLeast, LoadSum, atomics, reportVars, history
<1>3. /\ at \in Ops /\ 1 \in Ops
      /\ \A o \in Ops : /\ warmups[o] \in Nat /\ least[o] \in Nat
                        /\ most[o] \in Nat /\ least[o] <= NoMin
                        /\ \A l \in Latencies : ended[o][l] \in Nat
  <2>1. at \in Ops /\ 1 \in Ops
    BY <1>1, MeasurementsAssumption DEF TypeOK, Ops
  <2>2. ASSUME NEW o \in Ops
        PROVE  /\ warmups[o] \in Nat /\ least[o] \in Nat /\ most[o] \in Nat
               /\ least[o] <= NoMin /\ ended[o] \in [Latencies -> Nat]
    BY <1>1, Numbers
  <2>3. QED
    BY <2>1, <2>2
<1>4. \A o \in Ops : /\ warmups[o] <= warmups[o]
                     /\ \A l \in Latencies : ended[o][l] <= ended[o][l]
  BY <1>3
<1>5. CASE StatusBegin
  BY <1>2, <1>4, <1>5 DEF StatusBegin, RowInv
<1>6. CASE LoadWarmups
  BY <1>2, <1>6 DEF LoadWarmups, RowInv
<1>7. CASE SkipOp \/ LoadSum
  <2>1. /\ reading # "nothing" /\ before' = before
        /\ reading' = "count" \/ (reading' = "nothing" /\ at' = 1)
    BY <1>7 DEF SkipOp, LoadSum, Advance
  <2>2. QED
    BY <1>2, <2>1 DEF RowInv
<1>8. CASE LoadCount
  <2>1. /\ reading = "count" /\ reading' = "most" /\ row'.count = count[at]
        /\ UNCHANGED <<at, before>>
    BY <1>8 DEF LoadCount, NoRow
  <2>2. ~wrapped =>
          count[at] \in Reports(before.ended[at]) .. Reports(begun[at])
    <3>1. ~wrapped => count[at] = Reports(begun[at])
      BY <1>1, <1>3 DEF CountInv
    <3>2. QED
      BY <1>1, <1>3, <2>1, <3>1, BeforeBegun
  <2>3. QED
    BY <1>2, <2>1, <2>2 DEF RowInv
<1>9. CASE LoadMost
  <2>1. /\ reading = "most" /\ reading' = "least" /\ row'.most = most[at]
        /\ row'.count = row.count /\ UNCHANGED <<at, before>>
    BY <1>1, <1>9 DEF LoadMost, TypeOK
  <2>2. ASSUME NEW l \in Latencies, before.ended[at][l] > 0
        PROVE  l <= most[at]
    <3>1. ended[at][l] > 0
      <4>1. /\ before.ended[at][l] \in Nat /\ ended[at][l] \in Nat
            /\ before.ended[at][l] <= ended[at][l]
        BY <1>1, <1>3, <2>1 DEF TypeOK, Ledger, RowInv
      <4>2. QED
        BY <2>2, <4>1
    <3>2. QED
      BY <1>1, <1>3, <3>1 DEF ExtremesInv
  <2>3. QED
    BY <1>2, <2>1, <2>2 DEF RowInv
<1>10. CASE LoadLeast
  <2>1. /\ reading = "least" /\ reading' = "sum" /\ row'.least = least[at]
        /\ row'.count = row.count /\ row'.most = row.most
        /\ UNCHANGED <<at, before>>
    BY <1>1, <1>10 DEF LoadLeast, TypeOK
  <2>2. ASSUME NEW l \in Latencies, before.ended[at][l] > 0
        PROVE  least[at] <= l
    <3>1. ended[at][l] > 0
      <4>1. /\ before.ended[at][l] \in Nat /\ ended[at][l] \in Nat
            /\ before.ended[at][l] <= ended[at][l]
        BY <1>1, <1>3, <2>1 DEF TypeOK, Ledger, RowInv
      <4>2. QED
        BY <2>2, <4>1
    <3>2. QED
      BY <1>1, <1>3, <3>1 DEF ExtremesInv
  <2>3. QED
    BY <1>2, <1>3, <2>1, <2>2 DEF RowInv
<1>11. QED
  BY <1>5, <1>6, <1>7, <1>8, <1>9, <1>10 DEF Status

-----------------------------------------------------------------------------
(***************************************************************************)
(* The total of the message.                                               *)
(***************************************************************************)

\* Passed, with what GetStatusMsg loads next and where it is as parameters
PassedBy(r, a, reports, warm) ==
  [o \in Ops |->
     (IF r = "warmups" /\ o >= a THEN 0 ELSE warm[o]) +
     (IF r = "nothing" \/ (r # "warmups" /\ o < a)
      THEN Reports(reports[o]) ELSE 0)]

\* What it has come past is a natural number for every operation.
LEMMA PassedType ==
  ASSUME NEW r, NEW a, NEW reports \in Ledger, NEW warm \in [Ops -> Nat]
  PROVE  /\ IsFiniteSet(Ops)
         /\ \A o \in Ops : PassedBy(r, a, reports, warm)[o] \in Nat
<1>1. IsFiniteSet(Ops)
  BY FS_Interval, MeasurementsAssumption DEF Ops
<1>2. ASSUME NEW o \in Ops
      PROVE  PassedBy(r, a, reports, warm)[o] \in Nat
  <2>1. Reports(reports[o]) \in Nat /\ warm[o] \in Nat
    BY ReportsType DEF Ledger
  <2>2. QED
    BY <2>1 DEF PassedBy
<1>3. QED
  BY <1>1, <1>2

\* It adds up to more when more is reported.
LEMMA PassedMonotone ==
  ASSUME NEW r, NEW a,
         NEW fewer \in Ledger, NEW less \in [Ops -> Nat],
         NEW reports \in Ledger, NEW warm \in [Ops -> Nat],
         \A o \in Ops : /\ less[o] <= warm[o]
                        /\ \A l \in Latencies : fewer[o][l] <= reports[o][l]
  PROVE  SumFunctionOnSet(PassedBy(r, a, fewer, less), Ops) <=
           SumFunctionOnSet(PassedBy(r, a, reports, warm), Ops)
<1> DEFINE f == PassedBy(r, a, fewer, less)
           g == PassedBy(r, a, reports, warm)
<1>1. IsFiniteSet(Ops) /\ \A o \in Ops : f[o] \in Nat /\ g[o] \in Nat
  BY PassedType
<1>2. ASSUME NEW o \in Ops
      PROVE  f[o] <= g[o]
  <2>1. /\ Reports(fewer[o]) \in Nat /\ Reports(reports[o]) \in Nat
        /\ Reports(fewer[o]) <= Reports(reports[o])
        /\ less[o] \in Nat /\ warm[o] \in Nat /\ less[o] <= warm[o]
    BY ReportsType, ReportsMonotone DEF Ledger
  <2>2. QED
    BY <2>1 DEF PassedBy
<1> HIDE DEF f, g
<1>3. SumFunctionOnSet(f, Ops) <= SumFunctionOnSet(g, Ops)
  BY <1>1, <1>2, SumMonotone
<1>4. QED
  BY <1>3 DEF f, g

\* The warmup count of an operation is added when GetStatusMsg passes it.
LEMMA PassWarmups ==
  ASSUME NEW a \in Ops, NEW r, NEW b,
         \/ a < NumOps /\ r = "warmups" /\ b = a + 1
         \/ ~(a < NumOps) /\ r = "count" /\ b = 1,
         NEW reports \in Ledger, NEW warm \in [Ops -> Nat]
  PROVE  SumFunctionOnSet(PassedBy(r, b, reports, warm), Ops) =
           SumFunctionOnSet(PassedBy("warmups", a, reports, warm), Ops)
             + warm[a]
<1> DEFINE f == PassedBy("warmups", a, reports, warm)
           g == PassedBy(r, b, reports, warm)
<1>1. /\ IsFiniteSet(Ops) /\ a \in Ops
      /\ \A o \in Ops : f[o] \in Nat /\ g[o] \in Nat
  BY PassedType
<1>2. /\ Ops \subseteq Nat /\ NumOps \in Nat
      /\ \A o \in Ops : 1 <= o /\ o <= NumOps /\ warm[o] \in Nat
  BY MeasurementsAssumption DEF Ops
<1>3. f[a] = 0 /\ g[a] = warm[a]
  BY <1>2 DEF PassedBy
<1>4. \A o \in Ops \ {a} : g[o] = f[o]
  BY <1>2 DEF PassedBy
<1>5. SumFunctionOnSet(f, Ops) \in Nat
  <2> HIDE DEF f, g
  <2>1. QED
    BY <1>1, SumType
<1> HIDE DEF f, g
<1>6. SumFunctionOnSet(g, Ops) = SumFunctionOnSet(f, Ops) + g[a] - f[a]
  BY ONLY <1>1, <1>4, SumUpdate
<1>7. warm[a] \in Nat
  BY <1>2
<1>8. SumFunctionOnSet(g, Ops) = SumFunctionOnSet(f, Ops) + warm[a]
  BY ONLY <1>3, <1>5, <1>6, <1>7
<1>9. QED
  BY <1>8 DEF f, g

\* So are its reports.
LEMMA PassReports ==
  ASSUME NEW a \in Ops, NEW r \in {"count", "most", "least", "sum"},
         NEW s, NEW b,
         \/ a < NumOps /\ s = "count" /\ b = a + 1
         \/ ~(a < NumOps) /\ s = "nothing" /\ b = 1,
         NEW reports \in Ledger, NEW warm \in [Ops -> Nat]
  PROVE  SumFunctionOnSet(PassedBy(s, b, reports, warm), Ops) =
           SumFunctionOnSet(PassedBy(r, a, reports, warm), Ops)
             + Reports(reports[a])
<1> DEFINE f == PassedBy(r, a, reports, warm)
           g == PassedBy(s, b, reports, warm)
           x == Reports(reports[a])
<1>1. /\ IsFiniteSet(Ops) /\ a \in Ops
      /\ \A o \in Ops : f[o] \in Nat /\ g[o] \in Nat
  BY PassedType
<1>2. /\ Ops \subseteq Nat /\ NumOps \in Nat
      /\ \A o \in Ops : 1 <= o /\ o <= NumOps /\ warm[o] \in Nat
  BY MeasurementsAssumption DEF Ops
<1>3. x \in Nat
  BY ReportsType DEF Ledger
<1>4. \A o \in Ops \ {a} : g[o] = f[o]
  BY <1>2 DEF PassedBy
<1>5. f[a] = warm[a] /\ g[a] = warm[a] + x
  <2>1. f[a] = warm[a] + 0
    BY <1>2 DEF PassedBy
  <2>2. g[a] = warm[a] + x
    BY <1>2 DEF PassedBy
  <2>3. QED
    BY <1>2, <2>1, <2>2
<1> HIDE DEF f, g, x
<1>6. SumFunctionOnSet(f, Ops) \in Nat
  BY <1>1, SumType
<1>7. SumFunctionOnSet(g, Ops) = SumFunctionOnSet(f, Ops) + g[a] - f[a]
  BY ONLY <1>1, <1>4, SumUpdate
<1>8. warm[a] \in Nat
  BY <1>2
<1>9. SumFunctionOnSet(g, Ops) = SumFunctionOnSet(f, Ops) + x
  BY ONLY <1>3, <1>5, <1>6, <1>7, <1>8
<1>10. QED
  BY <1>9 DEF f, g, x

\* The two ends of the total
Lower == SumFunctionOnSet(Passed(before.ended, before.warmups), Ops)
Upper == SumFunctionOnSet(Passed(begun, warmups), Ops)

LEMMA PassedAt ==
  /\ Lower = SumFunctionOnSet(
               PassedBy(reading, at, before.ended, before.warmups), Ops)
  /\ Upper = SumFunctionOnSet(PassedBy(reading, at, begun, warmups), Ops)
BY DEF Lower, Upper, Passed, PassedBy

\* They are natural numbers.
LEMMA TotalTypes ==
  ASSUME TypeOK
  PROVE  /\ before.ended \in Ledger /\ before.warmups \in [Ops -> Nat]
         /\ begun \in Ledger /\ warmups \in [Ops -> Nat]
         /\ at \in Ops /\ total \in Nat /\ Lower \in Nat /\ Upper \in Nat
<1>1. /\ before.ended \in Ledger /\ before.warmups \in [Ops -> Nat]
      /\ begun \in Ledger /\ at \in Ops /\ total \in Nat
  BY DEF TypeOK
<1>2. warmups \in [Ops -> Nat]
  BY MeasurementsAssumption DEF TypeOK
<1> DEFINE f == PassedBy(reading, at, before.ended, before.warmups)
           g == PassedBy(reading, at, begun, warmups)
<1>3. IsFiniteSet(Ops) /\ \A o \in Ops : f[o] \in Nat /\ g[o] \in Nat
  BY <1>1, <1>2, PassedType
<1> HIDE DEF f, g
<1>4. SumFunctionOnSet(f, Ops) \in Nat /\ SumFunctionOnSet(g, Ops) \in Nat
  BY <1>3, SumType
<1>5. QED
  BY <1>1, <1>2, <1>4, PassedAt DEF f, g

\* More reports raise the upper end.
LEMMA GrownTotal ==
  ASSUME TypeOK, TypeOK', TotalInv, Grown
  PROVE  TotalInv'
<1>1. SUFFICES ASSUME ~wrapped' PROVE total' \in Lower' .. Upper'
  BY DEF TotalInv, Lower, Upper
<1>2. ~wrapped /\ UNCHANGED <<reading, at, total, before>>
  BY <1>1 DEF Grown
<1>3. total \in Lower .. Upper
  BY <1>2 DEF TotalInv, Lower, Upper
<1>4. /\ begun \in Ledger /\ warmups \in [Ops -> Nat]
      /\ total \in Nat /\ Lower \in Nat /\ Upper \in Nat
  BY TotalTypes
<1>5. begun' \in Ledger /\ warmups' \in [Ops -> Nat]
  BY MeasurementsAssumption DEF TypeOK
<1>6. Lower' = Lower
  BY <1>2 DEF Lower, Passed
<1>7. Upper' = SumFunctionOnSet(PassedBy(reading, at, begun', warmups'), Ops)
  BY <1>2 DEF Upper, Passed, PassedBy
<1>8. \A o \in Ops : /\ warmups[o] <= warmups'[o]
                     /\ \A l \in Latencies : begun[o][l] <= begun'[o][l]
  BY <1>1 DEF Grown
<1>9. Upper <= Upper'
  BY <1>4, <1>5, <1>7, <1>8, PassedAt, PassedMonotone
<1>10. Upper' \in Nat
  <2> DEFINE g == PassedBy(reading, at, begun', warmups')
  <2>1. IsFiniteSet(Ops) /\ \A o \in Ops : g[o] \in Nat
    BY <1>5, PassedType
  <2> HIDE DEF g
  <2>2. SumFunctionOnSet(g, Ops) \in Nat
    BY <2>1, SumType
  <2>3. QED
    BY <1>7, <2>2 DEF g
<1>11. QED
  BY <1>2, <1>3, <1>4, <1>6, <1>9, <1>10

\* What GetStatusMsg adds to the total is between what it passes at both ends.
LEMMA StatusTotal ==
  ASSUME ReportInv, RowInv, TotalInv, Status
  PROVE  TotalInv'
<1>1. TypeOK /\ BusyInv /\ LedgerInv /\ CountInv /\ ExtremesInv
  BY DEF ReportInv
<1>2. UNCHANGED <<count, begun, ended, warmups, wrapped>>
  BY DEF Status, StatusBegin, LoadWarmups, SkipOp, LoadCount, LoadMost,
         LoadLeast, LoadSum, atomics, reportVars, history
<1>3. SUFFICES ASSUME ~wrapped PROVE total' \in Lower' .. Upper'
  BY <1>2 DEF TotalInv, Lower, Upper
<1>4. total \in Lower .. Upper
  BY <1>3 DEF TotalInv, Lower, Upper
<1>5. /\ before.ended \in Ledger /\ before.warmups \in [Ops -> Nat]
      /\ begun \in Ledger /\ warmups \in [Ops -> Nat]
      /\ at \in Ops /\ total \in Nat /\ Lower \in Nat /\ Upper \in Nat
  BY <1>1, TotalTypes
<1>6. /\ Lower' = SumFunctionOnSet(
                    PassedBy(reading', at', before'.ended, before'.warmups),
                    Ops)
      /\ Upper' = SumFunctionOnSet(PassedBy(reading', at', begun, warmups),
                                   Ops)
  BY <1>2 DEF Lower, Upper, Passed, PassedBy
<1>7. CASE StatusBegin
  <2>1. reading' = "warmups" /\ at' = 1 /\ total' = 0
    BY <1>7 DEF StatusBegin, RowInv
  <2>2. ASSUME NEW reports, NEW warm
        PROVE  SumFunctionOnSet(PassedBy("warmups", 1, reports, warm), Ops) = 0
    <3> DEFINE f == PassedBy("warmups", 1, reports, warm)
    <3>1. IsFiniteSet(Ops) /\ \A o \in Ops : f[o] = 0
      BY FS_Interval, MeasurementsAssumption DEF Ops, PassedBy
    <3> HIDE DEF f
    <3>2. SumFunctionOnSet(f, Ops) = 0
      BY <3>1, SumZero
    <3>3. QED
      BY <3>2 DEF f
  <2>3. Lower' = 0 /\ Upper' = 0
    BY <1>6, <2>1, <2>2
  <2>4. QED
    BY <2>1, <2>3
<1>8. CASE LoadWarmups
  <2>1. /\ reading = "warmups" /\ total' = total + warmups[at]
        /\ before' = before
        /\ \/ at < NumOps /\ reading' = "warmups" /\ at' = at + 1
           \/ ~(at < NumOps) /\ reading' = "count" /\ at' = 1
    BY <1>8 DEF LoadWarmups
  <2>2. Lower' = Lower + before.warmups[at] /\ Upper' = Upper + warmups[at]
    BY <1>5, <1>6, <2>1, PassedAt, PassWarmups
  <2>3. /\ before.warmups[at] <= warmups[at]
        /\ before.warmups[at] \in Nat /\ warmups[at] \in Nat
    BY <1>3, <1>5, <2>1 DEF RowInv
  <2>4. QED
    BY <1>4, <1>5, <2>1, <2>2, <2>3
<1>9. CASE SkipOp \/ LoadSum
  <2> DEFINE x == Reports(before.ended[at])
             y == Reports(begun[at])
             n == IF reading = "count" THEN 0 ELSE row.count
  <2>1. /\ reading \in {"count", "most", "least", "sum"}
        /\ before' = before
        /\ \/ at < NumOps /\ reading' = "count" /\ at' = at + 1
           \/ ~(at < NumOps) /\ reading' = "nothing" /\ at' = 1
    BY <1>9 DEF SkipOp, LoadSum, Advance
  <2>2. Lower' = Lower + x /\ Upper' = Upper + y
    BY <1>5, <1>6, <2>1, PassedAt, PassReports
  <2>3. x \in Nat /\ y \in Nat /\ x <= y
    BY <1>1, <1>5, <2>1, BeforeBegun
  <2>4. n \in x .. y
    <3>1. CASE SkipOp
      <4>1. y = 0 /\ n = 0
        BY <1>1, <1>3, <1>5, <3>1 DEF SkipOp, CountInv
      <4>2. QED
        BY <2>3, <4>1
    <3>2. CASE LoadSum
      BY <1>3, <3>2 DEF LoadSum, RowInv
    <3>3. QED
      BY <1>9, <3>1, <3>2
  <2>5. total' = total + n
    BY <1>5, <1>9 DEF SkipOp, LoadSum
  <2> HIDE DEF x, y, n
  <2>6. QED
    BY <1>4, <1>5, <2>2, <2>3, <2>4, <2>5
<1>10. CASE LoadCount \/ LoadMost \/ LoadLeast
  <2>1. /\ reading \in {"count", "most", "least"}
        /\ reading' \in {"most", "least", "sum"}
        /\ UNCHANGED <<at, total, before>>
    BY <1>10 DEF LoadCount, LoadMost, LoadLeast
  <2>2. \A reports, warm : PassedBy(reading', at, reports, warm) =
                             PassedBy(reading, at, reports, warm)
    BY <2>1 DEF PassedBy
  <2>3. Lower' = Lower /\ Upper' = Upper
    BY <1>6, <2>1, <2>2, PassedAt
  <2>4. QED
    BY <1>4, <2>1, <2>3
<1>11. QED
  BY <1>7, <1>8, <1>9, <1>10 DEF Status

\* Before anything is reported there is nothing to pass.
LEMMA FreshTotal ==
  ASSUME Fresh, at = 1
  PROVE  RowInv /\ TotalInv
<1>1. RowInv
  BY DEF Fresh, RowInv
<1>2. Lower = 0 /\ Upper = 0
  <2> DEFINE f == Passed(before.ended, before.warmups)
             g == Passed(begun, warmups)
  <2>1. \A o \in Ops : Reports(before.ended[o]) = 0 /\ Reports(begun[o]) = 0
    BY NoReportsSum DEF Fresh, Nothing, NoReports
  <2>2. IsFiniteSet(Ops) /\ \A o \in Ops : f[o] = 0 /\ g[o] = 0
    BY <2>1, FS_Interval, MeasurementsAssumption
      DEF Ops, Fresh, Nothing, Zero, Passed
  <2> HIDE DEF f, g
  <2>3. SumFunctionOnSet(f, Ops) = 0 /\ SumFunctionOnSet(g, Ops) = 0
    BY <2>2, SumZero
  <2>4. QED
    BY <2>3 DEF Lower, Upper, f, g
<1>3. total = 0
  BY DEF Fresh
<1>4. QED
  BY <1>1, <1>2, <1>3 DEF TotalInv, Lower, Upper

-----------------------------------------------------------------------------
(***************************************************************************)
(* The theorems.                                                           *)
(***************************************************************************)

\* No step breaks the inductive invariant.
LEMMA StepInv ==
  ASSUME IInv, [Next]_vars
  PROVE  IInv'
<1>1. ReportInv /\ RowInv /\ TotalInv
  BY DEF IInv, ReportInv
<1>2. ASSUME NEW t \in Threads,
             \/ ReportCount(t) \/ ReportSum(t) \/ MinLoaded(t)
             \/ ExchangeMin(t) \/ MaxLoaded(t) \/ Returned(t)
             \/ ReportWarmup(t)
      PROVE  ReportInv' /\ RowInv' /\ TotalInv'
  <2>1. ReportInv'
    BY <1>1, <1>2, ReportCountStep, ReportSumStep, MinLoadedStep,
       ExchangeMinStep, MaxLoadedStep, ReturnedStep, ReportWarmupStep
  <2>2. Grown
    BY <1>1, <1>2, ReportGrows DEF ReportInv
  <2>3. TypeOK /\ TypeOK'
    BY <1>1, <2>1 DEF ReportInv
  <2>4. QED
    BY <1>1, <2>1, <2>2, <2>3, GrownRow, GrownTotal
<1>3. CASE Reset
  <2>1. ReportInv' /\ Fresh' /\ at' = 1
    BY <1>1, <1>3, ResetStep
  <2>2. (Fresh /\ at = 1 => RowInv /\ TotalInv)'
    BY FreshTotal, PTL
  <2>3. QED
    BY <2>1, <2>2 DEF IInv, ReportInv
<1>4. CASE Status
  <2>1. ReportInv' /\ RowInv' /\ TotalInv'
    BY <1>1, <1>4, StatusReportStep, StatusRow, StatusTotal
  <2>2. QED
    BY <2>1 DEF IInv, ReportInv
<1>5. CASE UNCHANGED vars
  <2>1. ReportInv'
    BY <1>1, <1>5, StutterReport
  <2>2. RowInv' /\ TotalInv'
    BY <1>1, <1>5 DEF vars, atomics, statusVars, history, RowInv, TotalInv,
                      Passed
  <2>3. QED
    BY <2>1, <2>2 DEF IInv, ReportInv
<1>6. CASE \E t \in Threads :
             \/ ReportCount(t) \/ ReportSum(t) \/ MinLoaded(t)
             \/ ExchangeMin(t) \/ MaxLoaded(t) \/ Returned(t)
             \/ ReportWarmup(t)
  <2>1. ReportInv' /\ RowInv' /\ TotalInv'
    BY <1>2, <1>6
  <2>2. QED
    BY <2>1 DEF IInv, ReportInv
<1>7. QED
  BY <1>3, <1>4, <1>5, <1>6, NextSplit

\* The program begins with nothing reported.
LEMMA InitInv ==
  ASSUME Init
  PROVE  IInv
<1>1. Fresh /\ at = 1
  BY DEF Init, Fresh
<1>2. /\ pc \in [Threads -> States] /\ op \in [Threads -> Ops]
      /\ latency \in [Threads -> Latencies \cup {0}]
      /\ prev \in [Threads -> Latencies \cup {0, NoMin}]
  BY MeasurementsAssumption DEF Init, States, Ops
<1>3. row \in [count : Nat, most : Latencies \cup {0},
               least : Latencies \cup {0, NoMin}]
  BY DEF Init, NoRow
<1>4. QED
  BY <1>1, <1>2, <1>3, FreshInv, FreshTotal DEF IInv, ReportInv

\* The inductive invariant holds.
LEMMA Invariance ==
  Spec => []IInv
<1>1. Init => IInv
  BY InitInv
<1>2. IInv /\ [Next]_vars => IInv'
  BY StepInv
<1>3. QED
  BY <1>1, <1>2, PTL DEF Spec

\* BasicMeasurements: the counts stay within their type, the extremes are
\* reported latencies or what Reset stores.
THEOREM TypeCorrect ==
  Spec => []TypeOK
<1>1. IInv => TypeOK
  BY DEF IInv
<1>2. QED
  BY <1>1, Invariance, PTL

\* The invariant makes the atomics of an operation exact when nobody reports
\* it.
LEMMA RestExact ==
  ASSUME IInv
  PROVE  ExactAtRest
<1>1. TypeOK /\ LedgerInv /\ CountInv /\ ExtremesInv
  BY DEF IInv
<1>2. SUFFICES ASSUME NEW o \in Ops,
                      \A t \in Threads : pc[t] # "idle" => op[t] # o
               PROVE  /\ count[o] = Reports(begun[o]) % CountModulus
                      /\ sum[o] = Sum(begun[o])
                      /\ least[o] = Least(begun[o]) /\ most[o] = Most(begun[o])
  BY DEF ExactAtRest
<1>3. begun[o] \in [Latencies -> Nat] /\ sum[o] \in Nat
      /\ least[o] \in Nat /\ most[o] \in Nat
  BY <1>1, Numbers
<1>4. sum[o] = Sum(begun[o])
  <2> DEFINE f == Owed(o)
  <2>1. IsFiniteSet(Threads) /\ \A t \in Threads : f[t] = 0
    BY <1>2, MeasurementsAssumption DEF Owed
  <2> HIDE DEF f
  <2>2. SumFunctionOnSet(f, Threads) = 0
    BY <2>1, SumZero
  <2>3. Sum(begun[o]) = sum[o] + SumFunctionOnSet(f, Threads)
    BY <1>1 DEF CountInv, f
  <2>4. QED
    BY <1>3, <2>2, <2>3
<1>5. \A l : Flying(o, l) = {}
  BY <1>2 DEF Flying
<1>6. \A l \in Reported(begun[o]) : least[o] <= l /\ l <= most[o]
  <2>1. ASSUME NEW l \in Latencies, begun[o][l] > 0
        PROVE  least[o] <= l /\ most[o] >= l
    BY <1>1, <1>5, <2>1 DEF ExtremesInv
  <2>2. \A l \in Latencies : l \in Nat
    BY <1>1, Numbers
  <2>3. QED
    BY <1>3, <2>1, <2>2 DEF Reported
<1>7. /\ least[o] = NoMin \/ least[o] \in Reported(begun[o])
      /\ most[o] = 0 \/ most[o] \in Reported(begun[o])
  <2>1. least[o] \in Latencies \cup {NoMin} /\ most[o] \in Latencies \cup {0}
    BY <1>1 DEF TypeOK
  <2>2. QED
    BY <1>1, <2>1 DEF ExtremesInv, Reported
<1>8. least[o] = Least(begun[o]) /\ most[o] = Most(begun[o])
  BY <1>3, <1>6, <1>7, ExtremesUnique
<1>9. QED
  BY <1>1, <1>4, <1>8 DEF CountInv

\* Report, by any number of threads at once, with compare_exchange_weak
\* failing as it likes: while nobody reports an operation, its count, sum,
\* minimum and maximum are exactly those of the reports since Reset.
THEOREM RestTheorem ==
  Spec => []ExactAtRest
<1>1. IInv => ExactAtRest
  BY RestExact
<1>2. QED
  BY <1>1, Invariance, PTL

\* The invariant makes the total of a message count between what had returned
\* when it began and what has begun when it ends.
LEMMA TotalBetween ==
  ASSUME IInv
  PROVE  StatusBetween
<1>1. SUFFICES ASSUME reading = "nothing", ~wrapped
               PROVE  total \in AllReports(before.ended, before.warmups)
                                  .. AllReports(begun, warmups)
  BY DEF StatusBetween
<1>2. total \in Lower .. Upper
  BY <1>1 DEF IInv, TotalInv, Lower, Upper
<1>3. ASSUME NEW reports \in Ledger, NEW warm \in [Ops -> Nat]
      PROVE  SumFunctionOnSet(PassedBy("nothing", at, reports, warm), Ops) =
               AllReports(reports, warm)
  <2> DEFINE f == PassedBy("nothing", at, reports, warm)
             g == [o \in Ops |-> Reports(reports[o]) + warm[o]]
  <2>1. IsFiniteSet(Ops) /\ \A o \in Ops : f[o] \in Nat
    BY PassedType
  <2>2. ASSUME NEW o \in Ops
        PROVE  g[o] = f[o]
    <3>1. Reports(reports[o]) \in Nat /\ warm[o] \in Nat
      BY ReportsType DEF Ledger
    <3>2. QED
      BY <3>1 DEF PassedBy
  <2>3. AllReports(reports, warm) = SumFunctionOnSet(g, Ops)
    BY DEF AllReports
  <2> HIDE DEF f, g
  <2>4. SumFunctionOnSet(f, Ops) = SumFunctionOnSet(g, Ops)
    BY <2>1, <2>2, SumEqual
  <2>5. QED
    BY <2>3, <2>4 DEF f
<1>4. /\ Lower = AllReports(before.ended, before.warmups)
      /\ Upper = AllReports(begun, warmups)
  BY <1>1, <1>3, PassedAt, TotalTypes DEF IInv
<1>5. QED
  BY <1>2, <1>4

\* GetStatusMsg, which loads the counts one by one while the threads report:
\* as long as no count wraps around, the total of its message is at least what
\* had returned when it began and at most what has begun when it ends.
THEOREM BetweenTheorem ==
  Spec => []StatusBetween
<1>1. IInv => StatusBetween
  BY TotalBetween
<1>2. QED
  BY <1>1, Invariance, PTL

\* The invariant makes the line of an operation cover what had returned.
LEMMA LineCovers ==
  ASSUME IInv
  PROVE  StatusPlausible
<1>1. SUFFICES ASSUME reading = "sum"
               PROVE  /\ row.least <= Least(before.ended[at])
                      /\ row.most >= Most(before.ended[at])
  BY DEF StatusPlausible
<1>2. before.ended[at] \in [Latencies -> Nat]
  BY DEF IInv, TypeOK, Ledger
<1>3. row.least \in Nat /\ row.most \in Nat
  <2>1. /\ row.least \in Latencies \cup {0, NoMin}
        /\ row.most \in Latencies \cup {0}
    BY DEF IInv, TypeOK
  <2>2. /\ Latencies \cup {0, NoMin} \subseteq Nat
        /\ Latencies \cup {0} \subseteq Nat
    BY MeasurementsAssumption
  <2>3. QED
    BY <2>1, <2>2
<1>4. /\ row.least <= NoMin
      /\ \A l \in Latencies : before.ended[at][l] > 0 =>
           row.least <= l /\ l <= row.most
  BY <1>1 DEF IInv, RowInv
<1>5. /\ row.least <= Least(before.ended[at])
      /\ Most(before.ended[at]) <= row.most
  BY <1>2, <1>3, <1>4, Extremes
<1>6. QED
  BY <1>5

\* GetStatusMsg, which loads the maximum before the minimum: the extremes of a
\* line cover every latency whose report had returned when the message began.
THEOREM PlausibleTheorem ==
  Spec => []StatusPlausible
<1>1. IInv => StatusPlausible
  BY LineCovers
<1>2. QED
  BY <1>1, Invariance, PTL

=============================================================================
