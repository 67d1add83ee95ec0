# A TLA+ model of YCSB-cpp

YCSB-cpp (`src/`) is a benchmark for key-value stores: a driver starts client
threads, the threads draw operations from a workload and send them through a
wrapper that measures them to a database binding, and a summary is printed.
This directory holds TLA+ modules that model the program, TLC configurations
that check them on small instances, and TLAPS proofs for every instance.

## The system

| Part | State | Operations | Talks to |
|---|---|---|---|
| driver, `core/ycsbc.cc` | options, phase, futures | `main`, `StatusThread`, `RateLimitThread`, `ParseCommandLine` | starts the clients, waits for them, resets and prints the measurements |
| clients, `core/client.h` | loop index, `in_warmup` | `ClientThread`, `ClientThreadWithWarmup` | workload, DB wrapper, both latches, the timer, the rate limiter |
| latch, `utils/countdown_latch.h` | `count_`, mutex, condition variable | `Await`, `AwaitFor`, `CountDown` | clients, status thread, rate thread |
| workload, `core/core_workload.*` | choosers, key sequences, options | `Init`, `DoInsert`, `DoTransaction` | key sequences, distributions, DB |
| key sequences, `core/*counter_generator.*` | next key, `limit_`, `ack_window_`; with `insertorder=random` the shuffled keys, an index and the key returned last | `Next`, `Last`, `Acknowledge` | shared by all clients |
| distributions, `core/*_generator.h` | constants, cached sums, last value | `Next`, `Last` | shared by all clients, mostly without a lock |
| DB wrapper, `core/db_wrapper.h` | `operation_count_`, timer | `Read`, `Scan`, `Update`, `Insert`, `Delete` | one per client; binding and measurements |
| measurements, `core/measurements.*` | atomic counts, sums, minima, maxima | `Report`, `ReportWarmup`, `GetStatusMsg`, `Reset` | shared by all clients |
| rate limiter, `utils/rate_limit.h` | rate, tokens, time of the last refill | `Consume`, `SetRate` | its client, and the rate thread |
| bindings, `rocksdb`, `rocksdb_lorc`, `terarkdb`, `toplingdb`, `leveldb`, `lsbm`, `lmdb`, `wiredtiger`, `sqlite` | a static handle, a static count, per-thread options and statements | `Init`, `Cleanup`, five record operations | the library of the engine |

What is hard here: the warmup barrier and the election of the thread that starts
the measurement timer; accounting that is per thread on one side and global on
the other; inserts that finish out of order while other threads already choose
among the inserted keys; the shared handle that threads open and close by
count; polls that time out while the last thread finishes; get-then-put updates
without a transaction; a rate limiter that unlocks its mutex before it has read
all it needs; counters and extremes that are read while they change. Nothing is persisted by the program itself and nothing
is retried, so there is no recovery to model: an error is an exception, and an
exception is `exit(1)`. `PROJECT.json` lists the hazards line by line, with the
properties that would catch them.

## Modules and the code

| Module | Models | Correspondence |
|---|---|---|
| `KeySequence` | the key sequences with `insertorder=hashed` or `ordered` | `limit`, `ackWindow`, `counter` are `limit_`, `ack_window_`, `counter_`. `LoadNext`/`LoadInsert` are `DoInsert`; `InsertNext`/`InsertStore`/`Acknowledge`/`AcknowledgeThrows` are `TransactionInsert`; `ChooseKey`/`ChooseAgain`/`AcceptKey`/`UseKey` are the other transactions. `Acknowledge` is one step because `mutex_` covers it and `limit_` is stored once |
| `PrefixCounter` | the promise of that sequence | keys are issued in order and acknowledged in any order, and `Last()` ends the unbroken run of acknowledged keys |
| `OpShare` | the division of work in `main` | `Share` is `total / n + (i < total % n)`, used for records, operations and warmup |
| `CountDownLatch` | the latch with its mutex and wait set | a call takes the mutex (`Lock`) and then counts down, returns or waits; spurious wake-ups and timeouts are steps of their own |
| `Latch` | the latch as its users see it | `CountDown`, `Pass` |
| `DBHandle` | the handle the bindings share | `InitDB` and `CleanupDB` are one step each, as `mu_` covers them. `TestsHandle` tells the two ways to decide whether to open: RocksDB, RocksDB-LORC, TerarkDB, ToplingDB, LevelDB, LSbM and WiredTiger test the handle; LMDB and SQLite test the count |
| `ShuffledSequence` | `RandomCounterGenerator`, and `Next` and `Last` of `RandomAcknowledgedCounterGenerator` | `keys`, `index`, `last` are `keys_`, `index_`, `last_returned_`; any shuffled order in `SInit`; `Next` is two steps, the `fetch_add` (`Draw`) and the part under the mutex (`Fetch`) |
| `RandomKeys` | the key sequences with `insertorder=random` | composes `ShuffledSequence` for the load and for the transaction phase. `LoadDraw`/`LoadFetch`/`LoadStore` are `DoInsert`, `InsertDraw` to `Acknowledge` are `TransactionInsert`, `ChooseKey` and `ChooseHotKey` to `UseKey` the other transactions; `ChooserKeys` and `HotChooserKeys` are what `Init` makes the two choosers draw from |
| `RateControl` | `RateLimiter`, its clients and `RateLimitThread` | `rate`, `tokens` are `r_`, `tokens_`, `age` is `now - last_`. `Consume` is the part under the mutex, `ComputeWait` the two reads after it, `Wake` the end of the sleep; `ReadRate`, `AwaitDone`, `AwaitTimeout` and `SetRate` (one limiter at a time) are the loop of `RateLimitThread`. Divisions round towards zero, products wrap around at `IntMax`. Composes `Latch` |
| `Measurements` | `BasicMeasurements` | `count`, `sum`, `least`, `most`, `warmups` are its arrays of atomics. Every access to an atomic is a step: `ReportCount`, `ReportSum`, `LoadMin`, `ExchangeMin`/`RetryMin` and their twins for the maximum are `Report`; `StatusBegin` to `LoadSum` are `GetStatusMsg`. An exchange may fail without a reason, as `compare_exchange_weak` may |
| `ClientRun` | a whole run | composes two instances of `Latch` and one of `DBHandle` with the client loops, the status thread and `main`. A call of the wrapper is one step with its report; a read-modify-write is two. `SkipWarmup` is the warmup operation the empty warmup chooser does not choose |
| `Rows`, `ByteOrder` | how a record is stored, and the order of the engines' keys | `SerializeRow`, `DeserializeRow`, `DeserializeRowFilter` on a sequence of names and values, where an element stands for a length with its bytes; `BuildCompKey` and its inverses on byte strings |
| `Bindings` | the nine bindings, two of them with two formats, four with and without the merge operator of a `USE_MERGEUPDATE` build | a record each: the storage format, whether reads are decoded, how a scan finds its rows, how an update is made |
| `RecordStore` | the record operations of all bindings | `entries` is what the engine stores, `writer` the thread with LMDB's write transaction, `pending` an operation between two calls of the engine. A call of the engine is one step: `UpdateGet`/`FinishUpdate` are the get and the put of `UpdateSingle`, `BeginUpdate`/`FinishUpdate` an LMDB transaction, `StartQuery`/`StepQuery` an SQLite scan, `MergeUpdate` the one call of `MergeSingle`; the scans of the other bindings walk a snapshot in one step |
| `AtomicStore` | what `core/db.h` promises | records under keys, five operations that take effect in one step |
| `MCKeySequence`, `MCClientRun`, `MCRecordStore`, `MCRateControl`, `MCRandomKeys`, `MCMeasurements` | instances | bounds, sets of options |
| `KeySequenceProofs`, `RandomKeysProofs`, `ClientRunProofs`, `RateControlProofs`, `MeasurementsProofs`, `RecordStoreProofs` | theorems about the module of that name | |
| `SharedObjectProofs` | theorems about `CountDownLatch` and `DBHandle` | |
| `SumProofs` | theorems about `OpShare`, and lemmas about division and about sums over finite sets that other proofs cite | |

History variables, which the code does not have: `acked`, `failed` and `spread`
(the largest distance of an acknowledged key from `limit_`) in `KeySequence`,
`polluted` and `timerStarts` in `ClientRun`, `user` in `DBHandle`, `again` in
`RandomKeys`, `credit` (the level of an exact bucket), `sets` and `overflowed`
in `RateControl`, and `begun`, `ended`, `before` and `wrapped` in
`Measurements`.

Left out on purpose. In `KeySequence` the threads load any next key instead of a
fixed number each, the keys start at 0 (the default of `insertstart`), and the
chooser may draw any key whatever the distribution; in `RandomKeys` it draws any
key of its range, keys start at 0 and inserts succeed. In `ClientRun` latencies,
printing and rate limiting, which only delays, are left out, and a failing call
of a binding ends the process in one step. In `RateControl` the warmup barrier
is left out: `ClientRun` says when it opens, and a client that waits at it only
lets time pass. In `Measurements` the relaxed atomics are sequentially
consistent: while clients run each is changed by read-modify-writes only, and no property
orders the accesses of one thread to two of them but `StatusBetween` and
`StatusPlausible`, which need what x86 gives; the target of the warmup and the
wording of the message are left out.

In `RecordStore` a call of an engine does not fail, except for the missing keys
LMDB and WiredTiger turn into exceptions, and the column format, whose reads
return `kNotImplemented`, is left out. The merge operator is applied at once; the
engines may put it off until the record is read, which no caller can tell. Asserts do nothing, as in the release build both
build files make. SQL statements are modelled by what they do to the table.

Definitions named as mutants in their comment are deliberately wrong variants
of the definition they stand before. Each property is checked to fail when the
variant takes the definition's place.

## Runs

| Run | Instance | Shows |
|---|---|---|
| `KeySequence` | 3 threads, 1 loaded key, a window of 3, keys up to 5, inserts may fail; threads symmetric | what `Last()` means, when the exception is thrown, that `Last()` never retreats. The window is smaller than the number of keys in flight plus those acknowledged, so it is filled, outrun and wraps around |
| `KeySequenceLive` | 3 threads, 2 loaded keys, a window of 8 that nobody can outrun, inserts that succeed | chosen keys are in the database; the sequence implements `PrefixCounter`; acknowledged keys become visible |
| `CountDownLatch` | 3 threads count down, 2 of them wait, 1 polls | no lost wake-up, no early return, everybody returns, and it implements `Latch` |
| `DBHandle` | 5 clients, the count decides | open while connected, closed at the end |
| `RecordStore` | every binding, with and without `deserialize_on_read` and merge operator; 2 threads that read, scan, insert, update and delete as they please, 2 keys, 2 fields, reads of all fields or of one, 2 different whole records to write and 1 field on its own, scans of up to 2 records; threads symmetric | every step is an operation of `AtomicStore` but for the four kinds of steps listed below; an update or a query becomes one of them only when a write came between two of its calls; what is delivered is complete |
| `ClientRun` | 2 threads and the status thread (left out only in runs that just load); load, transactions or both; 4 or 5 operations, 0 to 2 of them warmup; with and without scans; calls may throw | the order of warmup, election, timer and measurement; exact totals; the last status message; the handle is open during the run; the run ends |
| `RateControl` | 2 clients, up to 5 operations; a second has 2 ticks, a token 3 parts, `int64_t` ends at 47; no rate file, one that cannot be opened, and files with and without a last newline, with rates that rise, fall, are 0 for each client, or negative; up to 3 calls of `SetRate` per limiter are told apart, and refills of a bucket that is full or no longer followed up to 3 ticks apart | until a product overflows, what `Consume` lets through has been paid for in an exact bucket, but for one bucket and two operations per `SetRate`; nothing that was earned is lost but for rounding; when the division by zero can happen; the run ends whatever the file |
| `RandomKeys` | 3 threads, 2 loaded and 2 new keys in every order, 4 inserts, so that the new keys run out; all distributions; threads symmetric | no key is given twice until they run out; a chosen key is loaded or, with zipfian, not larger than one that was issued |
| `Measurements` | 2 threads, 2 operations, latencies 1 and 2, 3 reports in a phase; a count wraps around at 3; threads symmetric | counts, sums and extremes are exact when nobody reports; a status message counts between what was there when it began and when it ended |

Two threads suffice for the barrier's races (a waiter and a thread that
arrives, a winner and a loser of the election); the proofs take any number.
Besides the sizes of the sets, the bounds are `MaxKey`, `MaxScan`, `MaxInserts`,
`MaxReports`, `MaxAge` and `MaxSets`. After `MaxAge` ticks a
limiter grows no older if it is `Settled`: its bucket is full, its rate is not
positive, or a product has overflowed, after which no property looks at the
tokens any more. That leaves out the overflow in the refill of a bucket that has
been full for long, and how much a `SetRate` takes from a bucket with a negative
rate. `LimitKept` and `NothingLost` say nothing of a limiter after `MaxSets`
changes. `IntMax` is small enough for a
product to overflow in the run. Two keys, two different records and one single
field are enough for an update that is lost, a query that is mixed, a scan that
starts before, at and after a record, and a row that ends early: without any one
of the four exceptions `AtomicButOvertaken` fails in the run; the division of work (`OpShare`) needs no run of its own, as it
is proved for all totals and `ClientRun` checks the totals it leads to.

`AtomicButOvertaken` names the steps in which a binding is not the store of
`core/db.h`. None of them is forbidden to the clients, because those of the
workload take them: two threads may choose the same key, and a scan has up to
`maxscanlength` records.

| Step | Binding | Not atomic because |
|---|---|---|
| `LostUpdate`, the put of an update whose record is not the stored one any more | WiredTiger, and RocksDB, RocksDB-LORC, TerarkDB, ToplingDB, LevelDB and LSbM in the single format without the merge operator | the update gets and puts without a transaction (in WiredTiger it is a search and an update in two of them), and undoes what was written in between |
| `MixedQuery`, a step of a query whose rows are not those of the table any more | SQLite | the threads share a connection, and the query is stepped row by row |
| `RepeatedRow`, a scan of more than one record | WiredTiger | the scan does not move its cursor |
| `CutScan`, a scan for some of the fields | LevelDB and LSbM in the row format | a row begins where the one before it was left |

`OvertakenByWrites`, the last conjunct, says when the first two happen: while a
thread is in the middle of an update, its record goes stale only by an insert,
update or delete of another thread on the same key, and the rows of a query only
by a write. An operation that no write overtakes is atomic. LMDB, whose updates
are write transactions, and the bindings with the merge operator, whose updates
are one call, have no exception at all: `IsAtomicStore`, which is
`TransactionsAreAtomic` among the theorems.

The row format alone asks something of its clients (`Bearable`): keys of which
none starts another one, because `Seek("user1")` lands on `user10:field0` and the
record is not found, and no update of some fields of a missing record, which
would make a record of them. The workload keeps to the first with `zeropadding`
at its default of 24, which makes all its keys equally long, and to the second as
long as the keys it chooses are in the database (see `KeySequence`). With the
merge operator an update of a missing record is no step of the model: only an
assert says that there is a record to merge into. LSbM's single format hands no
field to its caller, and the three RocksDB descendants only with
`deserialize_on_read`; `delivers` of `AtomicStore` says so.

Three more runs each check what a comment of the code says and what the code
does not do. TLC finds the violations, and `findings` in `PROJECT.json` quotes
the comments:

| Run | What it shows |
|---|---|
| `ClientRunUneven` | a thread with no operation left after its warmup never counts down, and the run hangs (2 threads, 3 operations, 2 of them warmup) |
| `ClientRunWarmupCount` | every wrapper takes the warmup of the whole run for its own |
| `RandomKeysStale` | with `insertorder=random` and zipfian, `Last()` is the key issued last; once it is a large one, a smaller key is accepted that is neither stored nor given to any insert (new keys shuffled to 3, 2: while 3 is being inserted another thread works on 2) |

More disagreements are visible in the models and are kept out of the passing
properties by name:

- `TransactionInsert` acknowledges a key whatever the insert returned, so after
  a `kError` of SQLite the key counts as inserted: `ChosenKeysTried` says only
  that the insert was tried, and `ChosenKeysExist` is checked and proved for
  inserts that succeed.
- A key acknowledged more than `kWindowSize` ahead, in a slot that happens to be
  free, passes for another key, without an exception: the properties of
  `KeySequence` and their theorems are about runs without an overrun.
- `operation_count_` of the wrapper also counts the inserts of the load phase,
  so a run with both phases reports operations of the warmup as measured ones:
  `WarmupNotMeasured` is stated for runs without a load phase.
- With the bindings that test the handle, an `Init` after the last `Cleanup`
  works on a deleted object: `OpenDuringRun` is about the transaction phase, in
  which the barrier keeps the threads together, and the `DBHandle` run is about
  the bindings that test the count.
- The scan of WiredTiger answers its first record again and again, and a scan
  for some fields in the row format ends inside the last record and makes
  another row of its rest: the exceptions `RepeatedRow` and `CutScan`, the
  second of which `RowsComplete` leaves out too.
- Updates of the same record lose each other in the bindings that get and put,
  and a query of SQLite mixes two states: the exceptions `LostUpdate` and
  `MixedQuery`.
- A `SetRate(0)` between the unlock and the division of a `Consume` that is
  under way divides by zero: `CrashOnlyOnZeroRate` says that nothing else does.
  The rate is 0 for each client already when it is below the number of clients.
- `SetRate` refills with `TOKEN_PRECISION` twice, and so gives away up to a
  bucket; the change of the rate under a `Consume` that sleeps is good for two
  operations more: the allowance of `LimitKept`. It is stated for rates of an
  operation per tick at most (`Bounded`) once a rate is changed. `NothingLost`
  leaves out negative rates, with which a refill takes tokens away.
- `diff.count() * r_` and its like in `SetRate` and in the computation of
  `wait_time` exceed `int64_t` after a pause of seconds under a high rate (9.3 s
  at 100000 operations a second for each client). What the bucket holds then is
  anything, so `LimitKept` and `NothingLost` end with the first overflow; nothing
  here is said of a limiter after it, but that its sleeps end. An
  earlier form of `LimitKept` did not; the attempt to prove it showed that it held
  in the run's instance only because that was too small.
- The exceptions for a bad rate file are made and not thrown. The thread then
  waits and sets rates with what its variables happen to hold, until the clients
  end: `RunEnds` holds because `AwaitFor` sees the latch.
- A message of `GetStatusMsg` may show more reports of an operation than its sum
  and extremes have: `StatusPlausible` says what the line covers at least.

## Fairness

Threads are scheduled (weak fairness of each client's step) and a latch that is
down lets its waiters through, which `CountDownLatch` checks down to the mutex.
There, a thread that wants the mutex gets it in the end (strong fairness of
`Lock`), and nothing wakes a waiter but a notification: neither spurious
wake-ups nor timeouts are assumed to happen. In `RateControl` time passes and a
sleep that is over ends; the rate thread's step is fair as a whole, whichever way
`AwaitFor` returns. In `KeySequenceLive` only the
inserts that have begun go on; no thread has to start one or to choose a key.

## Theorems

All are proved by TLAPS for every value of the constants. Every invariant, every
action property and every refinement a passing run checks is a theorem too.

- `KeySequenceProofs`: from the inductive invariant `IInv` follow type
  correctness, `LimitIsPrefix`, `ThrowsOnlyOnOverrun`, `ChosenKeysTried`,
  `ChosenKeysExist` (if inserts succeed and no key outruns the window),
  `LimitNeverRetreats`, and that the sequence implements `PrefixCounter` while
  the window is not full. `LimitIsPrefix` is not inductive alone: it needs
  `WindowInv` (slot by slot, the window says which of the `kWindowSize` keys
  after `limit_` are acknowledged), which in turn needs `IssueInv` (a key is in
  one thread's hands and is acknowledged once). Two different keys within
  `kWindowSize` of each other have different slots; that is the arithmetic the
  proof rests on.
- `RandomKeysProofs`: type correctness, `KeysGivenOnce` and `ChosenKeysIssued`.
  The invariant says that the positions threads have drawn are different and lie
  below the index; as the shuffled order is an injection, different positions
  are different keys.
- `SumProofs`: the shares partition the total and add up to it, a smaller total
  gives no thread a larger share, and `warmup + threads <= operations` is enough
  for every thread to come to the barrier. Its lemmas about a sum over a finite
  set (it exists, it is unique, it changes by what one element changes) are
  proved from a minimal counterexample among the subsets, because an induction
  rule cannot be applied here.
- `SharedObjectProofs`, the latch: type correctness, `NoLostWakeup`, `NoEarlyReturn` and
  the refinement of `Latch` (`IsLatch`), for any threads and any count. The
  invariant says which threads may be in which call (`CallInv`), that the count
  is what the calls of `CountDown` left of it (`CountInv`), and that whoever got
  through found it down (`PassedInv`); a wake-up cannot be lost because the
  waiter's test and its going to sleep are one step under the mutex.
- `SharedObjectProofs`, the handle: type correctness and the handle properties for any finite
  set of clients, in the style that tests the count; the invariant is that the
  count is the number of connected clients.
- `ClientRunProofs`: all safety properties of the run, for any number of threads
  and any options. The invariant relates the warmup latch to the threads that
  counted down (`BarrierInv`), the election to the latch (`ElectionInv`,
  `WinnerInv`), the measured operations to the election (`PastWarmupInv`), and
  in `RunInv` the second latch to the threads that are gone, the handle to the
  threads between `Init` and `Cleanup`, and each client's counts to its loop
  index. `AllOperationsDone` adds up the clients' shares with `SumProofs`.
- `MeasurementsProofs`: type correctness, `ExactAtRest`, `StatusBetween` and
  `StatusPlausible`, for any threads, operations and latencies. The invariant
  splits each atomic between the reports that have reached it and those that are
  still under way: a minimum is the least of the reports begun, but for those of
  threads that have yet to exchange it, and a thread that would leave it too
  high has read a value that is no longer there. While a message is put together
  its total lies between two sums, over the operations passed and those to come.
- `RateControlProofs`: type correctness, `LimitKept`, `NothingLost` and
  `CrashOnlyOnZeroRate`, for any number of clients, file, precision and length of
  the second. The limiter is compared with an exact bucket: it holds no more than
  that and the gifts of `SetRate` (`LevelInv`), what is owed beyond the gifts is
  less than a tick brings or is being slept for (`PaidInv`), and each refill
  loses less than one part of a token (`EarnedInv`). `LimitKept` is not inductive
  without the second: it is the length of the sleep, computed outside the mutex,
  that pays the debt.

- `RecordStoreProofs`: type correctness (`StoreTypes`), `RowsComplete`
  (`RecordsComplete`), `AtomicButOvertaken` (`StoreIsAtomic`) and the refinement
  of `AtomicStore` without exception by LMDB and the merging bindings
  (`TransactionsAreAtomic`), for any threads, keys, values, choice of fields and
  length of scans, and for all fifteen ways to build and configure a binding at
  once. The clients may do what they please, at the same time and to the same
  records; `StoreIsAtomic` and `RecordsComplete` assume `Bearable`, which is about
  the row format's keys and missing records only. The instance of `MCRecordStore`
  meets it (`BearableAssumption`). The inductive invariant `IInv` says

  - of the entries that each is the serialized record, or the field, of a key in
    use (`StoreInv`), and that under the row format, if it is bearable, a
    record has all its composite keys or none (`WholeInv`);
  - of the threads that each holds what its place in an operation asks for
    (`ControlInv`);
  - of what threads hold while others run that an update in LMDB has the write
    transaction, and that the record it will put back is the one that is stored
    (`SharingInv`): this is why LMDB loses no update. Of the other bindings
    nothing of the kind can be an invariant: `OvertakenByWrites` is proved step by
    step, from what each operation writes;
  - of the last answer that its rows, like those a query has collected, are complete
    (`CompleteInv`, with `AnswerInv` for its status).

  The refinement maps entries to records with `Records` and shows for each step
  that it is one of the five operations of `AtomicStore`, changes neither the
  records nor the answer, or is one of the exceptions: a put whose record is still
  the stored one is the atomic update, and a query whose rows are still the first
  ones from its key on ends as an atomic scan. It rests on `RoundTrip` (`DeserializeRow` undoes
  `SerializeRow`), on what `Filter`, `Modify` and `Merge` do with a record, on the
  order of the composite keys (those of a record lie together, in the order of the
  fields, and records in the order of their keys when no key starts another), and
  on the walk in `From` giving the first keys. These are defined by recursive
  functions; where one would expect induction the proofs take the least number at
  which two walks differ.

They assume what the modules' ASSUMEs say: at least one thread, at least one
loaded key, a positive window, a warmup no longer than the run, keys whose bytes
sort before the colon, at most ten fields (so that their names sort like their
numbers), reads and writes of all fields or of one, and types of the constants.
What stays with TLC is liveness (`AckedBecomesVisible`,
`EveryoneReturns`, `RunTerminates`, `RunEnds`), as fairness and ENABLED are
beyond TLAPS.

## Not modelled

The distributions' arithmetic (real numbers; the models allow any draw of the
range), and with it the unlocked test of `ZipfianGenerator::Next`, which chooses
between two of those sums, and the `mt19937_64` the threads share without a lock.
Choosers with an empty range (`hot_data_ratio=0`) and `insertstart`, with which
the two phases have different keys. Option parsing and the engines' option
structures, SQL text, more than ten fields, whose names sort differently,
failures inside an engine, `BasicDB` (it only prints), the HdrHistogram variant
(an external library), the factory, formatting.

## Plan

1. Done: key sequences in all three orders, division of work, latch, handle, run,
   record operations with the merge operator, rate limiting, measurements.
2. Done: proofs of all the safety properties and refinements.
3. Next: engines that fail, in `RecordStore`, and `insertstart`.
