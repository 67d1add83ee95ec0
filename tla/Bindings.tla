------------------------------ MODULE Bindings -------------------------------
(***************************************************************************)
(* How each engine binding carries out the operations of core/db.h: a      *)
(* record per binding, in two halves, with the choices RecordStore reads.  *)
(*                                                                         *)
(*   format   "single": one entry with the serialized record,              *)
(*            "row":    one entry per field under a composite key,         *)
(*            "table":  one row of a table with a column per field         *)
(*   decodes  are the fields read handed to the caller: "always", "never", *)
(*            or "optional", as deserialize_on_read says                   *)
(*   scan     "iterator" over a snapshot; "range", one call of the engine; *)
(*            "exact", a cursor on the key itself; "near", a cursor that   *)
(*            does not move; "query", a statement stepped row by row       *)
(*   update   "getPut", two calls of the engine; "txn", one write          *)
(*            transaction; "batch", one write batch; "sql", one statement; *)
(*            "merge", one call of an engine with the merge operator of a  *)
(*            USE_MERGEUPDATE build                                        *)
(*   putAll   does an update with every field skip the get?                *)
(*                                                                         *)
(* The column format, whose reads are not implemented, is not modelled.    *)
(***************************************************************************)

Binding(reads, writes) ==
  [format |-> reads.format, decodes |-> reads.decodes, scan |-> reads.scan,
   update |-> writes.update, putAll |-> writes.putAll]

RocksDBReads  == [format |-> "single", decodes |-> "always", scan |-> "iterator"]
RocksDBWrites == [update |-> "getPut", putAll |-> FALSE]
RocksDB       == Binding(RocksDBReads, RocksDBWrites)
RocksDBMerge  == Binding(RocksDBReads, [update |-> "merge", putAll |-> FALSE])

LorcReads  == [format |-> "single", decodes |-> "optional", scan |-> "range"]
LorcWrites == [update |-> "getPut", putAll |-> TRUE]
Lorc       == Binding(LorcReads, LorcWrites)
LorcMerge == Binding(LorcReads, [update |-> "merge", putAll |-> FALSE])

ToplingReads  == [format |-> "single", decodes |-> "optional", scan |-> "iterator"]
ToplingWrites == [update |-> "getPut", putAll |-> TRUE]
Topling       == Binding(ToplingReads, ToplingWrites)
ToplingMerge == Binding(ToplingReads, [update |-> "merge", putAll |-> FALSE])

TerarkReads  == [format |-> "single", decodes |-> "optional", scan |-> "iterator"]
TerarkWrites == [update |-> "getPut", putAll |-> TRUE]
Terark       == Binding(TerarkReads, TerarkWrites)
TerarkMerge == Binding(TerarkReads, [update |-> "merge", putAll |-> FALSE])

LevelDBReads  == [format |-> "single", decodes |-> "always", scan |-> "iterator"]
LevelDBWrites == [update |-> "getPut", putAll |-> FALSE]
LevelDB       == Binding(LevelDBReads, LevelDBWrites)
LevelDBRow    == [format |-> "row", decodes |-> "always", scan |-> "iterator",
                  update |-> "batch", putAll |-> FALSE]

LsbmReads  == [format |-> "single", decodes |-> "never", scan |-> "iterator"]
LsbmWrites == [update |-> "getPut", putAll |-> TRUE]
Lsbm       == Binding(LsbmReads, LsbmWrites)
LsbmRow    == [format |-> "row", decodes |-> "always", scan |-> "iterator",
               update |-> "batch", putAll |-> FALSE]

LmdbReads  == [format |-> "single", decodes |-> "always", scan |-> "exact"]
LmdbWrites == [update |-> "txn", putAll |-> FALSE]
Lmdb       == Binding(LmdbReads, LmdbWrites)

WiredTigerReads  == [format |-> "single", decodes |-> "always", scan |-> "near"]
WiredTigerWrites == [update |-> "getPut", putAll |-> FALSE]
WiredTiger       == Binding(WiredTigerReads, WiredTigerWrites)

SqliteReads  == [format |-> "table", decodes |-> "always", scan |-> "query"]
SqliteWrites == [update |-> "sql", putAll |-> FALSE]
Sqlite       == Binding(SqliteReads, SqliteWrites)

AllBindings ==
  {RocksDB, RocksDBMerge, Lorc, LorcMerge, Topling, ToplingMerge, Terark,
   TerarkMerge, LevelDB, LevelDBRow, Lsbm, LsbmRow, Lmdb, WiredTiger, Sqlite}
=============================================================================
