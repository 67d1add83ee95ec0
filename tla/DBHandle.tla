------------------------------ MODULE DBHandle -------------------------------
(***************************************************************************)
(* The connection every engine binding shares between its per-thread DB    *)
(* objects: a static handle db_, a static reference count ref_cnt_, and    *)
(* Init() and Cleanup(), which each run under the static mutex mu_ and so  *)
(* are one step.                                                           *)
(*                                                                         *)
(* The bindings decide in two ways whether Init() must open the database.  *)
(* RocksDB, RocksDB-LORC, TerarkDB, ToplingDB, LevelDB, LSbM and           *)
(* WiredTiger test the handle, LMDB and SQLite test the count.  No         *)
(* Cleanup() resets the handle it deletes.                                 *)
(***************************************************************************)
EXTENDS Integers, FiniteSets

CONSTANTS Clients,      \* the client threads, one DB object each
          TestsHandle   \* TRUE: Init opens if db_ is null; FALSE: if
                        \* ref_cnt_ was 0

ASSUME ClientsAssumption == IsFiniteSet(Clients)
ASSUME StyleAssumption == TestsHandle \in BOOLEAN

VARIABLES refCnt,       \* ref_cnt_
          handle,       \* db_: null, open, or a pointer to a deleted object
          user          \* per thread: before Init, between Init and Cleanup,
                        \* or after Cleanup

hvars == <<refCnt, handle, user>>

HInit ==
  /\ refCnt = 0
  /\ handle = "null"
  /\ user = [t \in Clients |-> "new"]

\* A mutant: the handle decides
MustOpenByHandle == handle = "null"

\* Must Init open the database?
MustOpen == IF TestsHandle THEN handle = "null" ELSE refCnt = 0

\* A mutant: only the first Init counts
InitDBCountsFirst(t) ==
  /\ user[t] = "new"
  /\ user' = [user EXCEPT ![t] = "connected"]
  /\ refCnt' = IF MustOpen THEN refCnt + 1 ELSE refCnt
  /\ handle' = IF MustOpen THEN "open" ELSE handle

InitDB(t) ==
  /\ user[t] = "new"
  /\ user' = [user EXCEPT ![t] = "connected"]
  /\ refCnt' = refCnt + 1
  /\ handle' = IF MustOpen THEN "open" ELSE handle

\* Mutants: ref_cnt_-- instead of --ref_cnt_, and no count at all
CleanupDBLate(t) ==
  /\ user[t] = "connected"
  /\ user' = [user EXCEPT ![t] = "finished"]
  /\ refCnt' = refCnt - 1
  /\ handle' = IF refCnt = 0 THEN "deleted" ELSE handle

CleanupDBAlways(t) ==
  /\ user[t] = "connected"
  /\ user' = [user EXCEPT ![t] = "finished"]
  /\ refCnt' = refCnt - 1
  /\ handle' = "deleted"

CleanupDB(t) ==
  /\ user[t] = "connected"
  /\ user' = [user EXCEPT ![t] = "finished"]
  /\ refCnt' = refCnt - 1
  /\ handle' = IF refCnt' = 0 THEN "deleted" ELSE handle

\* Every client has left.
HDone == (\A t \in Clients : user[t] = "finished") /\ UNCHANGED hvars

HNext == HDone \/ \E t \in Clients : InitDB(t) \/ CleanupDB(t)

HSpec == HInit /\ [][HNext]_hvars

-----------------------------------------------------------------------------
Connected == {t \in Clients : user[t] = "connected"}

HTypeOK ==
  /\ refCnt \in Nat
  /\ handle \in {"null", "open", "deleted"}
  /\ user \in [Clients -> {"new", "connected", "finished"}]

\* Between its Init and its Cleanup a client works on an open database.
HandleOpenWhileConnected ==
  \A t \in Clients : user[t] = "connected" => handle = "open"

\* The database does not stay open once nobody is connected.
HandleClosedAtEnd == Connected = {} => handle # "open"

\* The database is not opened a second time under a connected client, and is
\* not deleted while another client is connected.
HandleChangesAlone ==
  [][handle' # handle => Connected = {} \/ Connected' = {}]_hvars

\* The count is the number of connected clients.
RefCountInv == refCnt = Cardinality(Connected)

HInv ==
  /\ HTypeOK /\ RefCountInv
  /\ Connected # {} => handle = "open"
  /\ Connected = {} => handle # "open"
=============================================================================
