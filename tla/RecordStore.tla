---------------------------- MODULE RecordStore ------------------------------
(***************************************************************************)
(* The record operations of the engine bindings: client threads read,      *)
(* scan, insert, update and delete records through a DB object each, over  *)
(* one engine.                                                             *)
(*                                                                         *)
(* A call of the engine is one step: a Get or a Put, a write batch, the    *)
(* walk of an iterator over its snapshot.  An operation of several calls   *)
(* is several steps: the get and the put of an update, the begin and the   *)
(* commit of an LMDB transaction, the steps of an SQLite query.            *)
(*                                                                         *)
(* Every thread calls what it likes, on any of the keys in use, whatever   *)
(* the others do at the time.  The binding is chosen in Init, and with it  *)
(* whether its clients also update some of the fields of a record that is  *)
(* missing ("misses"): the row format then stores those fields alone.      *)
(***************************************************************************)
EXTENDS Bindings, ByteOrder, Rows

CONSTANTS Threads,
          NoThread,     \* no thread has LMDB's write transaction
          Keys,         \* the keys, sequences of numbers below Colon
          Values,       \* the values of fields
          FieldLists,   \* what is read: all fields, or one
          Writes,       \* what is written: all fields, or one
          MaxScan,      \* maxscanlength
          Configs       \* bindings, with deserialize_on_read, the keys in use
                        \* and misses

ASSUME KeysAssumption == Keys \subseteq Seq(0 .. Colon - 1)
ASSUME NoThreadAssumption == NoThread \notin Threads
ASSUME ListsAssumption ==
  /\ FieldLists \subseteq {AllFields} \cup {<<f>> : f \in FieldNames}
  /\ \A w \in Writes :
       /\ w \in [1 .. Len(w) -> [name : FieldNames, value : Values]]
       /\ \/ Len(w) = 1
          \/ Len(w) = FieldCount /\ \A i \in 1 .. FieldCount : w[i].name = i - 1
ASSUME ScanAssumption == MaxScan \in Nat
ASSUME ConfigsAssumption ==
  \A c \in Configs : /\ c.binding \in AllBindings
                     /\ c.deserialize \in BOOLEAN
                     /\ c.keys \subseteq Keys
                     /\ c.misses \in BOOLEAN

VARIABLES conf,         \* the binding and its clients
          entries,      \* what the engine stores: a function on its keys
          writer,       \* the thread with LMDB's write transaction
          pc,           \* per thread: "idle", "updating", "scanning", "thrown"
          pending,      \* per thread: the operation between two calls
          answer        \* the last answer given to a client

vars == <<conf, entries, writer, pc, pending, answer>>

FullWrites == {w \in Writes : Len(w) = FieldCount}

None == <<>>

Init ==
  /\ conf \in Configs
  /\ entries = <<>>
  /\ writer = NoThread
  /\ pc = [t \in Threads |-> "idle"]
  /\ pending = [t \in Threads |-> None]
  /\ answer = None

Format == conf.binding.format

Stored == DOMAIN entries

Reply(call, status, rows) ==
  answer' = [call |-> call, status |-> status, rows |-> rows]

Idle(t) == pc[t] = "idle"

Throw(t) ==
  /\ pc' = [pc EXCEPT ![t] = "thrown"]
  /\ UNCHANGED <<entries, pending, answer>>

\* An exception leaves the transaction of LMDB open.
NoWriter == writer = NoThread

-----------------------------------------------------------------------------
(* What a record looks like in the engine and what its reader gets.        *)

Decodes ==
  \/ conf.binding.decodes = "always"
  \/ conf.binding.decodes = "optional" /\ conf.deserialize

Encode(values) ==
  IF Format = "table"
  THEN [f \in FieldNames |-> values[f + 1].value]
  ELSE SerializeRow(values)

Columns(row, fields) ==
  [i \in DOMAIN fields |-> [name |-> fields[i], value |-> row[fields[i]]]]

Decode(data, fields) ==
  IF ~Decodes THEN <<>>
  ELSE IF Format = "table" THEN Columns(data, fields)
  ELSE IF fields = AllFields THEN DeserializeRow(data)
  ELSE DeserializeRowFilter(data, fields)

\* The composite entries at the keys ks, as fields
FieldsAt(ks) ==
  [i \in DOMAIN ks |-> [name |-> FieldFromCompKey(ks[i]), value |-> entries[ks[i]]]]

Put(k, data) ==
  entries' = [a \in Stored \cup {k} |-> IF a = k THEN data ELSE entries[a]]

PutBatch(k, values) ==
  LET batch == {BuildCompKey(k, f) : f \in Named(values)}
  IN  entries' = [c \in Stored \cup batch |->
                    IF c \in batch THEN ValueOf(values, FieldFromCompKey(c))
                    ELSE entries[c]]

Erase(S) == entries' = [k \in Stored \ S |-> entries[k]]

-----------------------------------------------------------------------------
(* Read.                                                                   *)

Read(t, k, fields) ==
  /\ Idle(t) /\ Format # "row"
  /\ IF k \in Stored
     THEN Reply(<<"Read", k, fields>>, "kOK", <<Decode(entries[k], fields)>>)
     ELSE Reply(<<"Read", k, fields>>, "kNotFound", <<>>)
  /\ UNCHANGED <<conf, entries, writer, pc, pending>>

\* The entries at ks up to the last wanted field
Walk(ks, fields) ==
  LET got(n) == Filter(FieldsAt(Take(ks, n)), fields)
      full == {n \in 1 .. Len(ks) : Len(got(n)) = Len(fields)}
  IN  IF fields = AllFields \/ full = {}
      THEN ks
      ELSE Take(ks, CHOOSE n \in full : \A m \in full : n <= m)

ReadCompKeyRM(t, k, fields) ==
  /\ Idle(t) /\ Format = "row"
  /\ LET ks == Take(From(Stored, k), FieldCount)
     IN  IF ks = <<>> \/ KeyFromCompKey(ks[1]) # k
         THEN Reply(<<"Read", k, fields>>, "kNotFound", <<>>)
         ELSE Reply(<<"Read", k, fields>>, "kOK",
                    <<Filter(FieldsAt(Walk(ks, fields)), fields)>>)
  /\ UNCHANGED <<conf, entries, writer, pc, pending>>

-----------------------------------------------------------------------------
(* Scan.                                                                   *)

Rows(ks, fields) == [i \in DOMAIN ks |-> Decode(entries[ks[i]], fields)]

IteratorScan(t, k, len, fields) ==
  /\ Idle(t)
  /\ conf.binding.scan = "iterator" /\ Format = "single"
  /\ Reply(<<"Scan", k, len, fields>>, "kOK",
           Rows(Take(From(Stored, k), len), fields))
  /\ UNCHANGED <<conf, entries, writer, pc, pending>>

\* db_->Scan returns the values; without decoding no row is made of them.
RangeScan(t, k, len, fields) ==
  /\ Idle(t)
  /\ conf.binding.scan = "range"
  /\ Reply(<<"Scan", k, len, fields>>, "kOK",
           IF Decodes THEN Rows(Take(From(Stored, k), len), fields) ELSE <<>>)
  /\ UNCHANGED <<conf, entries, writer, pc, pending>>

\* MDB_SET wants the key itself.  The transaction is a write transaction.
CursorScan(t, k, len, fields) ==
  /\ Idle(t)
  /\ conf.binding.scan = "exact" /\ NoWriter
  /\ IF k \in Stored
     THEN Reply(<<"Scan", k, len, fields>>, "kOK",
                Rows(Take(From(Stored, k), len), fields))
     ELSE Reply(<<"Scan", k, len, fields>>, "kNotFound", <<>>)
  /\ UNCHANGED <<conf, entries, writer, pc, pending>>

\* search_near fails on an empty table, and finds the key before k if there
\* is none from k on; next then ends the scan.
NearScan(t, k, len, fields) ==
  /\ Idle(t)
  /\ conf.binding.scan = "near"
  /\ IF Stored = {}
     THEN Throw(t)
     ELSE /\ Reply(<<"Scan", k, len, fields>>, "kOK",
                   LET ks == From(Stored, k)
                   IN  IF ks = <<>> THEN <<>>
                       ELSE [i \in 1 .. len |-> Decode(entries[ks[1]], fields)])
          /\ UNCHANGED <<entries, pc, pending>>
  /\ UNCHANGED <<conf, writer>>

\* The rows of a walk over the composite entries ks.  A row starts where the
\* one before it stopped.
CompRows(ks, len, fields) ==
  LET walk(rest) == Walk(Take(rest, FieldCount), fields)
      rest[i \in 0 .. len] ==
        IF i = 0 THEN ks
        ELSE SubSeq(rest[i - 1], Len(walk(rest[i - 1])) + 1, Len(rest[i - 1]))
      count == Cardinality({i \in 1 .. len : rest[i - 1] # <<>>})
  IN  [i \in 1 .. count |-> Filter(FieldsAt(walk(rest[i - 1])), fields)]

ScanCompKeyRM(t, k, len, fields) ==
  /\ Idle(t)
  /\ Format = "row"
  /\ Reply(<<"Scan", k, len, fields>>, "kOK", CompRows(From(Stored, k), len, fields))
  /\ UNCHANGED <<conf, entries, writer, pc, pending>>

\* The threads share one connection, so a query meets the writes other
\* threads make between its steps.
StartQuery(t, k, len, fields) ==
  /\ Idle(t)
  /\ conf.binding.scan = "query"
  /\ pc' = [pc EXCEPT ![t] = "scanning"]
  /\ pending' = [pending EXCEPT ![t] =
                   [key |-> k, len |-> len, fields |-> fields, rows |-> <<>>,
                    ahead |-> k]]
  /\ UNCHANGED <<conf, entries, writer, answer>>

\* The keys a query has not come to: WHERE key >= ? ORDER BY key
Ahead(q) == From({k \in Stored : q.rows = <<>> \/ k # q.ahead}, q.ahead)

\* sqlite3_step gives the next row, or none
StepQuery(t) ==
  /\ pc[t] = "scanning"
  /\ LET q == pending[t]
         ks == Ahead(q)
         rows == IF ks = <<>> THEN q.rows
                 ELSE Append(q.rows, Decode(entries[ks[1]], q.fields))
     IN  IF ks = <<>> \/ Len(rows) = q.len
         THEN /\ Reply(<<"Scan", q.key, q.len, q.fields>>,
                       IF rows = <<>> THEN "kNotFound" ELSE "kOK", rows)
              /\ pc' = [pc EXCEPT ![t] = "idle"]
              /\ pending' = [pending EXCEPT ![t] = None]
         ELSE /\ pending' = [pending EXCEPT ![t].rows = rows, ![t].ahead = ks[1]]
              /\ UNCHANGED <<pc, answer>>
  /\ UNCHANGED <<conf, entries, writer>>

-----------------------------------------------------------------------------
(* Update.                                                                 *)

MayUpdate(t, k, values) ==
  /\ Idle(t)
  /\ Format = "row" /\ Len(values) < FieldCount /\ CompKeys(k) \cap Stored = {}
     => conf.misses

SkipsGet(values) == conf.binding.putAll /\ Len(values) = FieldCount

UpdateAllFields(t, k, values) ==
  /\ MayUpdate(t, k, values)
  /\ conf.binding.update = "getPut" /\ SkipsGet(values)
  /\ Put(k, Encode(values))
  /\ Reply(<<"Update", k, values>>, "kOK", <<>>)
  /\ UNCHANGED <<conf, writer, pc, pending>>

\* The caller has the record and will put it back with the new values.
Hold(t, k, values) ==
  /\ pc' = [pc EXCEPT ![t] = "updating"]
  /\ pending' = [pending EXCEPT ![t] =
                   [key |-> k, values |-> values,
                    row |-> DeserializeRow(entries[k])]]
  /\ UNCHANGED <<entries, answer>>

UpdateGet(t, k, values) ==
  /\ MayUpdate(t, k, values)
  /\ conf.binding.update = "getPut" /\ ~SkipsGet(values)
  /\ IF k \in Stored
     THEN Hold(t, k, values)
     ELSE /\ Reply(<<"Update", k, values>>, "kNotFound", <<>>)
          /\ UNCHANGED <<entries, pc, pending>>
  /\ UNCHANGED <<conf, writer>>

\* A mutant: the transaction is opened read-only
BeginUpdateReadOnly(t, k, values) ==
  /\ MayUpdate(t, k, values)
  /\ conf.binding.update = "txn"
  /\ IF k \in Stored THEN Hold(t, k, values) ELSE Throw(t)
  /\ UNCHANGED <<conf, writer>>

BeginUpdate(t, k, values) ==
  /\ MayUpdate(t, k, values)
  /\ conf.binding.update = "txn" /\ NoWriter
  /\ writer' = t
  /\ IF k \in Stored THEN Hold(t, k, values) ELSE Throw(t)
  /\ UNCHANGED conf

\* A mutant: only the new values are put back
FinishUpdateNewOnly(t) ==
  /\ pc[t] = "updating"
  /\ LET u == pending[t]
     IN  /\ Put(u.key, SerializeRow(u.values))
         /\ Reply(<<"Update", u.key, u.values>>, "kOK", <<>>)
  /\ pc' = [pc EXCEPT ![t] = "idle"]
  /\ pending' = [pending EXCEPT ![t] = None]
  /\ writer' = NoThread
  /\ UNCHANGED conf

\* The Put of an update, in LMDB with the commit
FinishUpdate(t) ==
  /\ pc[t] = "updating"
  /\ LET u == pending[t]
     IN  /\ Put(u.key, SerializeRow(Modify(u.row, u.values)))
         /\ Reply(<<"Update", u.key, u.values>>, "kOK", <<>>)
  /\ pc' = [pc EXCEPT ![t] = "idle"]
  /\ pending' = [pending EXCEPT ![t] = None]
  /\ writer' = NoThread
  /\ UNCHANGED conf

\* The operator reads the record it merges into without asking for it: with
\* a record that is missing the program has no defined behaviour.
MergeUpdate(t, k, values) ==
  /\ MayUpdate(t, k, values)
  /\ conf.binding.update = "merge" /\ k \in Stored
  /\ Put(k, SerializeRow(Merge(DeserializeRow(entries[k]), values)))
  /\ Reply(<<"Update", k, values>>, "kOK", <<>>)
  /\ UNCHANGED <<conf, writer, pc, pending>>

BatchUpdate(t, k, values) ==
  /\ MayUpdate(t, k, values)
  /\ conf.binding.update = "batch"
  /\ PutBatch(k, values)
  /\ Reply(<<"Update", k, values>>, "kOK", <<>>)
  /\ UNCHANGED <<conf, writer, pc, pending>>

\* UPDATE ... SET ... WHERE key = ?
Changed(k, values) ==
  [a \in Stored |->
     [f \in FieldNames |->
        IF a = k /\ f \in Named(values) THEN ValueOf(values, f) ELSE entries[a][f]]]

\* Changing no row is not an error.
SqlUpdate(t, k, values) ==
  /\ MayUpdate(t, k, values)
  /\ conf.binding.update = "sql"
  /\ entries' = Changed(k, values)
  /\ Reply(<<"Update", k, values>>, "kOK", <<>>)
  /\ UNCHANGED <<conf, writer, pc, pending>>

-----------------------------------------------------------------------------
(* Insert and Delete.                                                      *)

Insert(t, k, values) ==
  /\ Idle(t) /\ NoWriter
  /\ IF Format = "row" THEN PutBatch(k, values) ELSE Put(k, Encode(values))
  /\ Reply(<<"Insert", k, values>>, "kOK", <<>>)
  /\ UNCHANGED <<conf, writer, pc, pending>>

\* A mutant: the last field of a row stays
DeleteAllButOne(t, k) ==
  /\ Idle(t)
  /\ conf.binding.update # "txn"
  /\ Erase(IF Format = "row"
           THEN CompKeys(k) \ {BuildCompKey(k, FieldCount - 1)} ELSE {k})
  /\ Reply(<<"Delete", k>>, "kOK", <<>>)
  /\ UNCHANGED <<conf, writer, pc, pending>>

Delete(t, k) ==
  /\ Idle(t)
  /\ conf.binding.update # "txn"
  /\ Erase(IF Format = "row" THEN CompKeys(k) ELSE {k})
  /\ Reply(<<"Delete", k>>, "kOK", <<>>)
  /\ UNCHANGED <<conf, writer, pc, pending>>

\* mdb_del does not forgive a missing key.
TxnDelete(t, k) ==
  /\ Idle(t)
  /\ conf.binding.update = "txn" /\ NoWriter
  /\ IF k \in Stored
     THEN /\ Erase({k})
          /\ Reply(<<"Delete", k>>, "kOK", <<>>)
          /\ UNCHANGED <<writer, pc, pending>>
     ELSE Throw(t) /\ writer' = t
  /\ UNCHANGED conf

\* Nobody is left.
Gone == (\A t \in Threads : pc[t] = "thrown") /\ UNCHANGED vars

Call(t, k) ==
  \/ \E fields \in FieldLists :
       \/ Read(t, k, fields) \/ ReadCompKeyRM(t, k, fields)
       \/ \E len \in 1 .. MaxScan :
            \/ IteratorScan(t, k, len, fields) \/ RangeScan(t, k, len, fields)
            \/ CursorScan(t, k, len, fields) \/ NearScan(t, k, len, fields)
            \/ ScanCompKeyRM(t, k, len, fields) \/ StartQuery(t, k, len, fields)
  \/ \E values \in Writes :
       \/ UpdateAllFields(t, k, values) \/ UpdateGet(t, k, values)
       \/ BeginUpdate(t, k, values) \/ BatchUpdate(t, k, values)
       \/ SqlUpdate(t, k, values) \/ MergeUpdate(t, k, values)
  \/ \E values \in FullWrites : Insert(t, k, values)
  \/ Delete(t, k) \/ TxnDelete(t, k)

Next ==
  \/ Gone
  \/ \E t \in Threads :
       StepQuery(t) \/ FinishUpdate(t) \/ \E k \in conf.keys : Call(t, k)

Spec == Init /\ [][Next]_vars

-----------------------------------------------------------------------------
\* A record as one string: every field once, in the order of the names
IsWholeRow(row) ==
  /\ row \in [1 .. FieldCount -> [name : FieldNames, value : Values]]
  /\ \A i \in 1 .. FieldCount : row[i].name = i - 1

IsEntryOf(data) ==
  CASE Format = "row"   -> data \in Values
    [] Format = "table" -> data \in [FieldNames -> Values]
    [] OTHER            -> IsWholeRow(DeserializeRow(data))

\* The types of the variables: what is stored has the form of the format,
\* and in a serialized row every field comes once, in its place.
TypeOK ==
  /\ conf \in Configs
  /\ Stored \subseteq IF Format = "row" THEN UNION {CompKeys(k) : k \in Keys} ELSE Keys
  /\ \A e \in Stored : IsEntryOf(entries[e])
  /\ writer \in Threads \cup {NoThread}
  /\ pc \in [Threads -> {"idle", "updating", "scanning", "thrown"}]
  /\ \A t \in Threads : pc[t] \in {"idle", "thrown"} <=> pending[t] = None
  /\ answer # None => answer.status \in {"kOK", "kNotFound"}

\* Every read or scanned record has every field that was asked for: the
\* asserts at the end of DeserializeRow, DeserializeRowFilter and the loops
\* of ReadCompKeyRM and ScanCompKeyRM, which a release build leaves out.  A
\* scan of the row format for some of the fields is another matter: see
\* CutScan.
Asked(call) == call[Len(call)]
RowsComplete ==
  /\ answer # None /\ answer.call[1] \in {"Read", "Scan"} /\ Decodes
  /\ answer.call[1] = "Scan" /\ Format = "row" => Asked(answer.call) = AllFields
  => \A i \in DOMAIN answer.rows :
       Len(answer.rows[i]) = Len(Asked(answer.call))

\* The record under k as its readers see it
RecordAt(k) ==
  LET fields == IF Format = "row" THEN {c \in CompKeys(k) : c \in Stored} ELSE {k} \cap Stored
  IN  IF fields = {} THEN <<>>
      ELSE CASE Format = "row" ->
                  [f \in {FieldFromCompKey(c) : c \in fields} |-> entries[BuildCompKey(k, f)]]
             [] Format = "table" -> entries[k]
             [] OTHER ->
                  LET row == DeserializeRow(entries[k])
                  IN  [f \in Named(row) |-> ValueOf(row, f)]

Records == [k \in Keys |-> RecordAt(k)]

AS == INSTANCE AtomicStore WITH
        Fields <- FieldNames,
        Lengths <- 1 .. MaxScan,
        records <- Records,
        delivers <- Decodes

\* No key starts with another one.
PrefixFree(keys) ==
  \A j \in keys, k \in keys :
    j # k => \E i \in 1 .. Len(j) : i <= Len(k) /\ j[i] # k[i]

\* What the row format asks of its clients; the others ask nothing.
Bearable(c) == c.binding.format = "row" => ~c.misses /\ PrefixFree(c.keys)

-----------------------------------------------------------------------------
(* The steps in which a binding is not atomic.                             *)

\* Is the record an update holds the one that is stored?
Fresh(u) == u.key \in Stored /\ u.row = DeserializeRow(entries[u.key])

\* Are the rows of a query what it would have read just now?
Current(q) ==
  LET seen == Take(From(Stored, q.key), Len(q.rows))
  IN  /\ q.rows = Rows(seen, q.fields)
      /\ q.rows # <<>> => q.ahead = seen[Len(seen)]

\* The put of an update undoes what was written since its get.
LostUpdate ==
  \E t \in Threads :
    /\ pc[t] = "updating" /\ conf.binding.update = "getPut"
    /\ ~Fresh(pending[t])
    /\ FinishUpdate(t)

\* The rows of a query come from before a write and from after it.
MixedQuery ==
  \E t \in Threads :
    /\ pc[t] = "scanning" /\ ~Current(pending[t])
    /\ StepQuery(t)

\* A scan gives its first record again and again.
RepeatedRow ==
  \E t \in Threads, k \in conf.keys, len \in 2 .. MaxScan, fields \in FieldLists :
    NearScan(t, k, len, fields)

\* A scan for some of the fields takes the rest of a row for the next row.
CutScan ==
  \E t \in Threads, k \in conf.keys, len \in 1 .. MaxScan,
     fields \in FieldLists \ {AllFields} : ScanCompKeyRM(t, k, len, fields)

\* A thread is in the middle of an operation, and stays there.
Amid(t, state) == pc[t] = state /\ pc'[t] = state

Wrote(calls, k) == answer'.call[1] \in calls /\ answer'.call[2] = k

\* The record of an update, or the rows of a query, are overtaken only by
\* an operation that writes: the update by one on the same key.
OvertakenByWrites ==
  \A t \in Threads :
    /\ Amid(t, "updating") /\ Fresh(pending[t]) /\ ~Fresh(pending[t])' =>
         Wrote({"Insert", "Update", "Delete"}, pending[t].key)
    /\ Amid(t, "scanning") /\ Current(pending[t]) /\ ~Current(pending[t])' =>
         \E k \in conf.keys : Wrote({"Insert", "Update", "Delete"}, k)

\* A binding is the store of core/db.h, whose operations take effect in one
\* step and return what they read, but for the steps named here; and an
\* update is lost, a query mixed, only when another operation wrote between
\* two of its calls.
AtomicButOvertaken ==
  /\ AS!AInit
  /\ [][\/ AS!ANext
        \/ LostUpdate \/ MixedQuery \/ RepeatedRow \/ CutScan]_(AS!avars)
  /\ [][OvertakenByWrites]_vars

\* The bindings whose updates are one call of the engine, or one write
\* transaction, and whose scans walk a snapshot, need no exception.
IsAtomicStore == AS!ASpec
=============================================================================
