----------------------------- MODULE Measurements -----------------------------
(***************************************************************************)
(* BasicMeasurements (core/measurements.cc): the latencies of the          *)
(* operations, reported by all client threads at once through atomics, and *)
(* the message the status thread puts together from them meanwhile.  Every *)
(* access to an atomic is a step.                                          *)
(***************************************************************************)
EXTENDS Integers, FiniteSets, FiniteSetsExt

CONSTANTS Threads,        \* the client threads
          NumOps,         \* MAXOPTYPE
          Latencies,      \* the latencies that are reported
          NoMin,          \* numeric_limits<uint64_t>::max()
          CountModulus,   \* 2^32: counts are of type uint
          MaxReports      \* bound: the reports of a phase

ASSUME MeasurementsAssumption ==
  /\ Threads # {} /\ IsFiniteSet(Threads) /\ NumOps \in Nat \ {0}
  /\ Latencies \subseteq Nat /\ IsFiniteSet(Latencies) /\ NoMin \in Nat
  /\ \A l \in Latencies : l < NoMin
  /\ CountModulus \in Nat \ {0} /\ MaxReports \in Nat

Ops == 1 .. NumOps

VARIABLES count, sum, least, most,  \* per operation: count_, latency_sum_,
                                    \* latency_min_, latency_max_
          warmups,      \* per operation: warmup_count_
          pc,           \* per thread: where it is in Report
          op, latency,  \* per thread: Report's arguments
          prev,         \* per thread: prev_min, prev_max
          reading,      \* what GetStatusMsg loads next
          at,           \* the operation it is at
          total,        \* total_cnt
          row,          \* what it has loaded for the line of operation at
          begun, ended, \* history: per operation and latency, the reports
          before,       \* history: ended and warmups as GetStatusMsg began
          wrapped       \* history: a count exceeded its type

atomics == <<count, sum, least, most, warmups>>
reportVars == <<pc, op, latency, prev>>
statusVars == <<reading, at, total, row, before>>
history == <<begun, ended, wrapped>>
vars == <<atomics, reportVars, statusVars, history>>

NoReports == [o \in Ops |-> [l \in Latencies |-> 0]]
NoRow == [count |-> 0, most |-> 0, least |-> 0]
Zero == [o \in Ops |-> 0]

UnreportedZero == Zero      \* a mutant: the minimum begins as the others do
Unreported == [o \in Ops |-> NoMin]
Nothing == [ended |-> NoReports, warmups |-> Zero]

Init ==
  /\ count = Zero /\ sum = Zero /\ warmups = Zero
  /\ least = Unreported /\ most = Zero
  /\ pc = [t \in Threads |-> "idle"] /\ op = [t \in Threads |-> 1]
  /\ latency = [t \in Threads |-> 0] /\ prev = [t \in Threads |-> 0]
  /\ reading = "nothing" /\ at = 1 /\ total = 0 /\ row = NoRow
  /\ before = Nothing
  /\ begun = NoReports /\ ended = NoReports /\ wrapped = FALSE

\* How many reports, and the sum, the least and the greatest of them
Reports(r) == SumFunctionOnSet(r, Latencies)
Sum(r) == SumFunctionOnSet([l \in Latencies |-> l * r[l]], Latencies)
Reported(r) == {l \in Latencies : r[l] > 0}
Least(r) == Min(Reported(r) \cup {NoMin})
Most(r) == Max(Reported(r) \cup {0})

\* All the reports of a phase, with those of the warmup
AllReports(reports, warm) ==
  SumFunctionOnSet([o \in Ops |-> Reports(reports[o]) + warm[o]], Ops)

Goto(t, from, to) == pc[t] = from /\ pc' = [pc EXCEPT ![t] = to]

-----------------------------------------------------------------------------
\* Report: count_ is incremented, ...
ReportCount(t) ==
  /\ AllReports(begun, warmups) < MaxReports
  /\ Goto(t, "idle", "summing")
  /\ \E o \in Ops, l \in Latencies :
       /\ op' = [op EXCEPT ![t] = o]
       /\ latency' = [latency EXCEPT ![t] = l]
       /\ count' = [count EXCEPT ![o] = (@ + 1) % CountModulus]
       /\ begun' = [begun EXCEPT ![o][l] = @ + 1]
       /\ wrapped' = (wrapped \/ count[o] + 1 = CountModulus)
  /\ UNCHANGED <<sum, least, most, warmups, prev, statusVars, ended>>

\* ... latency_sum_ grows, ...
ReportSum(t) ==
  /\ Goto(t, "summing", "loadmin")
  /\ sum' = [sum EXCEPT ![op[t]] = @ + latency[t]]
  /\ UNCHANGED <<count, least, most, warmups, op, latency, prev, statusVars,
                 history>>

\* ... latency_min_ is loaded, ...
LoadMin(t) ==
  /\ pc[t] = "loadmin"
  /\ prev' = [prev EXCEPT ![t] = least[op[t]]]
  /\ pc' = [pc EXCEPT ![t] =
              IF least[op[t]] > latency[t] THEN "min" ELSE "loadmax"]
  /\ UNCHANGED <<atomics, op, latency, statusVars, history>>

\* A mutant: a store instead of the exchange
StoreMin(t) ==
  /\ Goto(t, "min", "loadmax")
  /\ least' = [least EXCEPT ![op[t]] = latency[t]]
  /\ UNCHANGED <<count, sum, most, warmups, op, latency, prev, statusVars,
                 history>>

\* ... and exchanged if it still is what was loaded, ...
ExchangeMin(t) ==
  /\ least[op[t]] = prev[t]
  /\ Goto(t, "min", "loadmax")
  /\ least' = [least EXCEPT ![op[t]] = latency[t]]
  /\ UNCHANGED <<count, sum, most, warmups, op, latency, prev, statusVars,
                 history>>

\* ... unless compare_exchange_weak fails, as it may do at any time, and loads
\* it again; ...
RetryMin(t) ==
  /\ pc[t] = "min"
  /\ prev' = [prev EXCEPT ![t] = least[op[t]]]
  /\ pc' = [pc EXCEPT ![t] =
              IF least[op[t]] > latency[t] THEN "min" ELSE "loadmax"]
  /\ UNCHANGED <<atomics, op, latency, statusVars, history>>

\* Report returns.
Return(t) ==
  /\ pc' = [pc EXCEPT ![t] = "idle"] /\ op' = [op EXCEPT ![t] = 1]
  /\ latency' = [latency EXCEPT ![t] = 0] /\ prev' = [prev EXCEPT ![t] = 0]
  /\ ended' = [ended EXCEPT ![op[t]][latency[t]] = @ + 1]

\* ... then latency_max_ is treated alike.
ReloadMax(t) ==
  /\ prev' = [prev EXCEPT ![t] = most[op[t]]]
  /\ pc' = [pc EXCEPT ![t] = "max"]
  /\ UNCHANGED <<op, latency, ended>>

LoadMax(t) ==
  /\ pc[t] = "loadmax"
  /\ IF most[op[t]] < latency[t] THEN ReloadMax(t) ELSE Return(t)
  /\ UNCHANGED <<atomics, statusVars, begun, wrapped>>

ExchangeMax(t) ==
  /\ pc[t] = "max" /\ most[op[t]] = prev[t]
  /\ most' = [most EXCEPT ![op[t]] = latency[t]]
  /\ Return(t)
  /\ UNCHANGED <<count, sum, least, warmups, statusVars, begun, wrapped>>

RetryMax(t) ==
  /\ pc[t] = "max"
  /\ IF most[op[t]] < latency[t] THEN ReloadMax(t) ELSE Return(t)
  /\ UNCHANGED <<atomics, statusVars, begun, wrapped>>

ReportWarmup(t) ==
  /\ AllReports(begun, warmups) < MaxReports
  /\ pc[t] = "idle"
  /\ \E o \in Ops :
       /\ warmups' = [warmups EXCEPT ![o] = (@ + 1) % CountModulus]
       /\ wrapped' = (wrapped \/ warmups[o] + 1 = CountModulus)
  /\ UNCHANGED <<count, sum, least, most, reportVars, statusVars, begun,
                 ended>>

Report(t) ==
  \/ ReportCount(t) \/ ReportSum(t) \/ LoadMin(t) \/ ExchangeMin(t)
  \/ RetryMin(t) \/ LoadMax(t) \/ ExchangeMax(t) \/ RetryMax(t)

-----------------------------------------------------------------------------
(* GetStatusMsg. *)

StatusBegin ==
  /\ reading = "nothing"
  /\ reading' = "warmups" /\ total' = 0
  /\ before' = [ended |-> ended, warmups |-> warmups]
  /\ UNCHANGED <<atomics, reportVars, at, row, history>>

\* The warmup counts of all operations; the second load of each, for the
\* progress of the warmup, is not part of the total.
LoadWarmups ==
  /\ reading = "warmups"
  /\ total' = total + warmups[at]
  /\ IF at < NumOps THEN at' = at + 1 /\ UNCHANGED reading
                    ELSE at' = 1 /\ reading' = "count"
  /\ UNCHANGED <<atomics, reportVars, row, before, history>>

\* To the next operation, or to the end of the message
Advance ==
  /\ row' = NoRow
  /\ IF at < NumOps THEN at' = at + 1 /\ reading' = "count"
                    ELSE at' = 1 /\ reading' = "nothing"

\* An operation without reports has no line.
SkipOp ==
  /\ reading = "count" /\ count[at] = 0
  /\ Advance
  /\ UNCHANGED <<atomics, reportVars, total, before, history>>

LoadCount ==
  /\ reading = "count" /\ count[at] # 0
  /\ row' = [NoRow EXCEPT !.count = count[at]]
  /\ reading' = "most"
  /\ UNCHANGED <<atomics, reportVars, at, total, before, history>>

LoadMost ==
  /\ reading = "most"
  /\ row' = [row EXCEPT !.most = most[at]]
  /\ reading' = "least"
  /\ UNCHANGED <<atomics, reportVars, at, total, before, history>>

\* A mutant: the maximum once more
LoadLeastMost ==
  /\ reading = "least"
  /\ row' = [row EXCEPT !.least = most[at]]
  /\ reading' = "sum"
  /\ UNCHANGED <<atomics, reportVars, at, total, before, history>>

LoadLeast ==
  /\ reading = "least"
  /\ row' = [row EXCEPT !.least = least[at]]
  /\ reading' = "sum"
  /\ UNCHANGED <<atomics, reportVars, at, total, before, history>>

\* A mutant: the line is counted twice, as it was loaded and as it is now.
LoadSumRecounted ==
  /\ reading = "sum"
  /\ total' = total + row.count + count[at]
  /\ Advance
  /\ UNCHANGED <<atomics, reportVars, before, history>>

\* The average divides the sum by the count loaded before; total_cnt grows.
LoadSum ==
  /\ reading = "sum"
  /\ total' = total + row.count
  /\ Advance
  /\ UNCHANGED <<atomics, reportVars, before, history>>

Status == StatusBegin \/ LoadWarmups \/ SkipOp \/ LoadCount \/ LoadMost
            \/ LoadLeast \/ LoadSum

-----------------------------------------------------------------------------
AtRest == reading = "nothing" /\ \A t \in Threads : pc[t] = "idle"

\* The histories begin anew with a phase.
NewPhase ==
  /\ total' = 0 /\ before' = Nothing
  /\ begun' = NoReports /\ ended' = NoReports /\ wrapped' = FALSE
  /\ UNCHANGED <<reading, at, row, reportVars>>

\* A mutant: the minimum is not reset.
ResetButMin ==
  /\ AtRest
  /\ count' = Zero /\ sum' = Zero /\ warmups' = Zero /\ most' = Zero
  /\ UNCHANGED least
  /\ NewPhase

\* main() calls Reset between the phases, when it has joined all threads.
Reset ==
  /\ AtRest
  /\ count' = Zero /\ sum' = Zero /\ warmups' = Zero
  /\ least' = Unreported /\ most' = Zero
  /\ NewPhase

Next == Reset \/ Status \/ \E t \in Threads : Report(t) \/ ReportWarmup(t)

Spec == Init /\ [][Next]_vars

-----------------------------------------------------------------------------
States == {"idle", "summing", "loadmin", "min", "loadmax", "max"}
Readings == {"nothing", "warmups", "count", "most", "least", "sum"}
Ledger == [Ops -> [Latencies -> Nat]]

TypeOK ==
  /\ count \in [Ops -> 0 .. CountModulus - 1] /\ sum \in [Ops -> Nat]
  /\ least \in [Ops -> Latencies \cup {NoMin}]
  /\ most \in [Ops -> Latencies \cup {0}]
  /\ warmups \in [Ops -> 0 .. CountModulus - 1]
  /\ pc \in [Threads -> States]
  /\ op \in [Threads -> Ops] /\ latency \in [Threads -> Latencies \cup {0}]
  /\ prev \in [Threads -> Latencies \cup {0, NoMin}]
  /\ reading \in Readings
  /\ at \in Ops /\ total \in Nat
  /\ row \in [count : Nat, most : Latencies \cup {0},
              least : Latencies \cup {0, NoMin}]
  /\ begun \in Ledger /\ ended \in Ledger
  /\ before \in [ended : Ledger, warmups : [Ops -> Nat]]
  /\ wrapped \in BOOLEAN

\* While nobody reports an operation its count, sum, minimum and maximum are
\* those of the reports since the last Reset, whatever the exchanges met.
ExactAtRest ==
  \A o \in Ops :
    (\A t \in Threads : pc[t] # "idle" => op[t] # o) =>
      /\ count[o] = Reports(begun[o]) % CountModulus
      /\ sum[o] = Sum(begun[o])
      /\ least[o] = Least(begun[o]) /\ most[o] = Most(begun[o])

\* Until a count wraps around, a status message counts every report that had
\* returned when it was begun and none that had not begun when it was ended.
StatusBetween ==
  reading = "nothing" /\ ~wrapped =>
    total \in AllReports(before.ended, before.warmups)
                .. AllReports(begun, warmups)

\* The line of an operation covers the latencies of all its reports that had
\* returned before the message was begun: a minimum above the maximum shows
\* only while the first reports of the operation are on their way.
StatusPlausible ==
  reading = "sum" =>
    /\ row.least <= Least(before.ended[at])
    /\ row.most >= Most(before.ended[at])

-----------------------------------------------------------------------------
(* The inductive invariant, in parts. *)

\* A report that exchanges has loaded a worse extreme than its latency, and
\* one that is past the minimum has left a minimum no greater.
BusyInv ==
  \A t \in Threads :
    /\ pc[t] # "idle" => latency[t] \in Latencies
    /\ pc[t] = "min" => latency[t] < prev[t]
    /\ pc[t] = "max" => prev[t] < latency[t]
    /\ pc[t] \in {"loadmax", "max"} => least[op[t]] <= latency[t]

\* The reports that are on their way
Flying(o, l) ==
  {t \in Threads : pc[t] # "idle" /\ op[t] = o /\ latency[t] = l}

LedgerInv ==
  \A o \in Ops, l \in Latencies :
    begun[o][l] = ended[o][l] + Cardinality(Flying(o, l))

\* What they have yet to add to the sum of operation o
Owed(o) ==
  [t \in Threads |->
     IF pc[t] = "summing" /\ op[t] = o THEN latency[t] ELSE 0]

CountInv ==
  \A o \in Ops :
    /\ count[o] = Reports(begun[o]) % CountModulus
    /\ ~wrapped => count[o] = Reports(begun[o])
    /\ Sum(begun[o]) = sum[o] + SumFunctionOnSet(Owed(o), Threads)

\* The extremes are of reported latencies, and cover every report that has
\* come so far.
ExtremesInv ==
  \A o \in Ops :
    /\ least[o] # NoMin => begun[o][least[o]] > 0
    /\ most[o] # 0 => begun[o][most[o]] > 0
    /\ \A l \in Latencies : begun[o][l] > 0 =>
         /\ \/ least[o] <= l
            \/ \E t \in Flying(o, l) :
                  pc[t] \in {"summing", "loadmin", "min"}
         /\ most[o] >= l \/ Flying(o, l) # {}
    /\ \A l \in Latencies : ended[o][l] > 0 => least[o] <= l /\ l <= most[o]

\* The line being loaded covers what had returned when the message began.
RowInv ==
  /\ reading = "nothing" => at = 1
  /\ reading # "nothing" =>
       \A o \in Ops, l \in Latencies : before.ended[o][l] <= ended[o][l]
  /\ reading # "nothing" /\ ~wrapped =>
       \A o \in Ops : before.warmups[o] <= warmups[o]
  /\ reading \in {"most", "least", "sum"} /\ ~wrapped =>
       row.count \in Reports(before.ended[at]) .. Reports(begun[at])
  /\ reading \in {"least", "sum"} =>
       \A l \in Latencies : before.ended[at][l] > 0 => l <= row.most
  /\ reading = "sum" =>
       /\ row.least <= NoMin
       /\ \A l \in Latencies : before.ended[at][l] > 0 => row.least <= l

\* What GetStatusMsg has come past, of operation o
Passed(reports, warm) ==
  [o \in Ops |->
     (IF reading = "warmups" /\ o >= at THEN 0 ELSE warm[o]) +
     (IF reading = "nothing" \/ (reading # "warmups" /\ o < at)
      THEN Reports(reports[o]) ELSE 0)]

TotalInv ==
  ~wrapped =>
    total \in SumFunctionOnSet(Passed(before.ended, before.warmups), Ops)
                .. SumFunctionOnSet(Passed(begun, warmups), Ops)

IInv ==
  /\ TypeOK /\ BusyInv /\ LedgerInv /\ CountInv /\ ExtremesInv
  /\ RowInv /\ TotalInv
=============================================================================
