----------------------------- MODULE KeySequence -----------------------------
(***************************************************************************)
(* The key sequences of core/core_workload.cc with insertorder=hashed or   *)
(* ordered: CounterGenerator hands out the keys of the load phase,         *)
(* AcknowledgedCounterGenerator the keys of the transaction phase, and its *)
(* limit_ tells the other transactions which keys they may use.            *)
(*                                                                         *)
(* Every client thread runs DoInsert in the load phase and then any of     *)
(* TransactionInsert and the operations that choose an existing key.       *)
(* Acknowledge runs under mutex_ and publishes limit_ with its one store,  *)
(* so it is one step.                                                      *)
(***************************************************************************)
EXTENDS Integers

CONSTANTS Threads,        \* the client threads
          RecordCount,    \* recordcount: keys 0 .. RecordCount-1 are loaded
          WindowSize,     \* kWindowSize
          MaxKey,         \* bound: no key above MaxKey is issued
          InsertMayFail   \* may DB::Insert return kError (SqliteDB does)?

ASSUME ThreadsAssumption == Threads # {}
ASSUME CountAssumption ==
  /\ RecordCount \in Nat \ {0}
  /\ WindowSize \in Nat \ {0}
  /\ MaxKey \in Nat /\ MaxKey >= RecordCount
ASSUME FailAssumption == InsertMayFail \in BOOLEAN

VARIABLES phase,        \* which phase main() is in
          loadCounter,  \* counter_ of insert_key_sequence_
          counter,      \* counter_ of transaction_insert_key_sequence_
          limit,        \* limit_
          ackWindow,    \* ack_window_
          pc,           \* per thread: where it is in its operation
          key,          \* per thread: its key_num
          stored,       \* the keys in the database
          exited,       \* a thread caught utils::Exception: exit(1)
          failed,       \* history: keys whose Insert returned kError
          acked,        \* history: keys given to Acknowledge
          spread        \* history: the largest value - limit_ in Acknowledge

vars == <<phase, loadCounter, counter, limit, ackWindow, pc, key, stored,
          exited, failed, acked, spread>>

Keys == 0 .. MaxKey
Slots == 0 .. WindowSize - 1

\* value & kWindowMask (kWindowSize is a power of two)
Slot(value) == value % WindowSize

\* A mutant: CounterGenerator::Last, not overridden
LastIssued == counter - 1

\* AcknowledgedCounterGenerator::Last
Last == limit

Init ==
  /\ phase = "load"
  /\ loadCounter = 0
  /\ counter = RecordCount
  /\ limit = RecordCount - 1
  /\ ackWindow = [s \in Slots |-> FALSE]
  /\ pc = [t \in Threads |-> "idle"]
  /\ key = [t \in Threads |-> 0]
  /\ stored = {}
  /\ exited = FALSE
  /\ failed = {}
  /\ acked = {}
  /\ spread = 0

Running == ~exited

Goto(t, from, to) == pc[t] = from /\ pc' = [pc EXCEPT ![t] = to]

\* db.Insert of thread t's key: stored, or refused with kError
StoreKey(t) ==
  \/ stored' = stored \cup {key[t]} /\ UNCHANGED failed
  \/ InsertMayFail /\ failed' = failed \cup {key[t]} /\ UNCHANGED stored

-----------------------------------------------------------------------------
\* A mutant: one record more
LoadOneMore(t) ==
  /\ Running /\ phase = "load" /\ loadCounter <= RecordCount
  /\ Goto(t, "idle", "loading")
  /\ key' = [key EXCEPT ![t] = loadCounter]
  /\ loadCounter' = loadCounter + 1
  /\ UNCHANGED <<phase, counter, limit, ackWindow, stored, exited, failed,
                 acked, spread>>

\* Load phase: DoInsert takes the next key ...
LoadNext(t) ==
  /\ Running /\ phase = "load" /\ loadCounter < RecordCount
  /\ Goto(t, "idle", "loading")
  /\ key' = [key EXCEPT ![t] = loadCounter]
  /\ loadCounter' = loadCounter + 1
  /\ UNCHANGED <<phase, counter, limit, ackWindow, stored, exited, failed,
                 acked, spread>>

\* ... and inserts it; ClientThread ignores the result.
LoadInsert(t) ==
  /\ Running
  /\ Goto(t, "loading", "idle")
  /\ StoreKey(t)
  /\ UNCHANGED <<phase, loadCounter, counter, limit, ackWindow, key, exited,
                 acked, spread>>

\* main() has joined the load threads and starts the transaction phase.
StartTransactions ==
  /\ Running /\ phase = "load" /\ loadCounter = RecordCount
  /\ \A t \in Threads : pc[t] = "idle"
  /\ phase' = "run"
  /\ UNCHANGED <<loadCounter, counter, limit, ackWindow, pc, key, stored,
                 exited, failed, acked, spread>>

-----------------------------------------------------------------------------
\* TransactionInsert: Next() ...
InsertNext(t) ==
  /\ Running /\ phase = "run" /\ counter <= MaxKey
  /\ Goto(t, "idle", "inserting")
  /\ key' = [key EXCEPT ![t] = counter]
  /\ counter' = counter + 1
  /\ UNCHANGED <<phase, loadCounter, limit, ackWindow, stored, exited,
                 failed, acked, spread>>

\* ... db.Insert ...
InsertStore(t) ==
  /\ Running
  /\ Goto(t, "inserting", "acking")
  /\ StoreKey(t)
  /\ UNCHANGED <<phase, loadCounter, counter, limit, ackWindow, key, exited,
                 acked, spread>>

Widest(m, n) == IF m >= n THEN m ELSE n

\* A mutant: the loop without its break
StopsAtEnd(w, i) == i = limit + WindowSize

\* A mutant: an if instead of the loop
StopsAfterOne(w, i) == i = IF w[Slot(limit + 1)] THEN limit + 2 ELSE limit + 1

\* The loop of Acknowledge stops at i, the first key after limit_ whose slot
\* of window w is free, or at limit_ + kWindowSize.
StopsAt(w, i) ==
  /\ i \in limit + 1 .. limit + WindowSize
  /\ \A j \in limit + 1 .. i - 1 : w[Slot(j)]
  /\ i < limit + WindowSize => ~w[Slot(i)]

\* A mutant: the loop does not reset the slots
FreedNothing(w, i) == w

\* Window w once the loop has freed the slots of the keys before i
Freed(w, i) ==
  [s \in Slots |-> w[s] /\ \A j \in limit + 1 .. i - 1 : s # Slot(j)]

\* A mutant: the limit is the key acknowledged last
AcknowledgeLast(t) ==
  /\ Running
  /\ Goto(t, "acking", "idle")
  /\ limit' = key[t]
  /\ acked' = acked \cup {key[t]}
  /\ spread' = Widest(spread, key[t] - limit)
  /\ UNCHANGED <<phase, loadCounter, counter, ackWindow, key, stored, exited,
                 failed>>

\* ... and Acknowledge(key_num), which returns ...
Acknowledge(t) ==
  /\ Running
  /\ Goto(t, "acking", "idle")
  /\ ~ackWindow[Slot(key[t])]
  /\ LET marked == [ackWindow EXCEPT ![Slot(key[t])] = TRUE]
     IN  \E i \in limit + 1 .. limit + WindowSize :
           /\ StopsAt(marked, i)
           /\ ackWindow' = Freed(marked, i)
           /\ limit' = i - 1
  /\ acked' = acked \cup {key[t]}
  /\ spread' = Widest(spread, key[t] - limit)
  /\ UNCHANGED <<phase, loadCounter, counter, key, stored, exited, failed>>

\* ... or throws "Not enough window size": the thread exits the process.
AcknowledgeThrows(t) ==
  /\ Running
  /\ pc[t] = "acking"
  /\ ackWindow[Slot(key[t])]
  /\ exited' = TRUE
  /\ spread' = Widest(spread, key[t] - limit)
  /\ UNCHANGED <<phase, loadCounter, counter, limit, ackWindow, pc, key,
                 stored, failed, acked>>

-----------------------------------------------------------------------------
\* NextTransactionKeyNum (and its Hot twin): the chooser draws any key ...
ChooseKey(t) ==
  /\ Running /\ phase = "run"
  /\ Goto(t, "idle", "choosing")
  /\ \E k \in Keys : key' = [key EXCEPT ![t] = k]
  /\ UNCHANGED <<phase, loadCounter, counter, limit, ackWindow, stored,
                 exited, failed, acked, spread>>

\* ... draws again while the key is beyond Last() ...
ChooseAgain(t) ==
  /\ Running
  /\ pc[t] = "choosing" /\ key[t] > Last
  /\ \E k \in Keys : key' = [key EXCEPT ![t] = k]
  /\ UNCHANGED <<phase, loadCounter, counter, limit, ackWindow, pc, stored,
                 exited, failed, acked, spread>>

\* ... and the key is accepted, ...
AcceptKey(t) ==
  /\ Running
  /\ key[t] <= Last
  /\ Goto(t, "choosing", "using")
  /\ UNCHANGED <<phase, loadCounter, counter, limit, ackWindow, key, stored,
                 exited, failed, acked, spread>>

\* ... and db.Read, db.Scan or db.Update runs on it.
UseKey(t) ==
  /\ Running
  /\ Goto(t, "using", "idle")
  /\ UNCHANGED <<phase, loadCounter, counter, limit, ackWindow, key, stored,
                 exited, failed, acked, spread>>

\* The process is gone.
Terminated == exited /\ UNCHANGED vars

Load(t) == LoadNext(t) \/ LoadInsert(t)
Insert(t) == InsertNext(t) \/ InsertStore(t) \/ Acknowledge(t)
               \/ AcknowledgeThrows(t)
Choose(t) == ChooseKey(t) \/ ChooseAgain(t) \/ AcceptKey(t) \/ UseKey(t)

Next ==
  \/ \E t \in Threads : Load(t) \/ Insert(t) \/ Choose(t)
  \/ StartTransactions
  \/ Terminated

Spec == Init /\ [][Next]_vars

\* A running thread finishes the insert it began: db.Insert returns and the
\* mutex of Acknowledge is held only for the loop.
FairSpec ==
  /\ Spec
  /\ \A t \in Threads : WF_vars(InsertStore(t) \/ Acknowledge(t)
                                  \/ AcknowledgeThrows(t))

-----------------------------------------------------------------------------
\* Every variable has its type.
TypeOK ==
  /\ phase \in {"load", "run"}
  /\ loadCounter \in 0 .. RecordCount
  /\ counter \in RecordCount .. MaxKey + 1
  /\ limit \in Int
  /\ ackWindow \in [Slots -> BOOLEAN]
  /\ pc \in [Threads -> {"idle", "loading", "inserting", "acking",
                         "choosing", "using"}]
  /\ key \in [Threads -> Keys]
  /\ stored \subseteq Keys /\ failed \subseteq Keys /\ acked \subseteq Keys
  /\ exited \in BOOLEAN
  /\ spread \in Int

\* A key an operation accepts is in the database: NextTransactionKeyNum never
\* lets through a key that is not inserted yet.
ChosenKeysExist ==
  \A t \in Threads : pc[t] = "using" => key[t] \in stored

\* The same when inserts may fail, for as long as no key was acknowledged
\* further than kWindowSize ahead of limit_: db.Insert was at least tried.
ChosenKeysTried ==
  spread <= WindowSize =>
    \A t \in Threads : pc[t] = "using" => key[t] \in stored \cup failed

\* Last() is never past a key that is not acknowledged, and, while the window
\* is not full, never stops short of an acknowledged one.
LimitIsPrefix ==
  /\ spread <= WindowSize => RecordCount .. limit \subseteq acked
  /\ spread < WindowSize => limit + 1 \notin acked

\* "Not enough window size" ends the process only when a key really was
\* acknowledged more than kWindowSize ahead of limit_.
ThrowsOnlyOnOverrun == exited => spread > WindowSize

\* Last() never moves back: a key accepted once stays acceptable.
LimitNeverRetreats == [][limit' >= limit]_vars

\* An acknowledged key becomes visible to the other transactions, unless the
\* window filled up or the process exited.
AckedBecomesVisible ==
  \A k \in Keys :
    k \in acked ~> limit >= k \/ exited \/ spread >= WindowSize

\* The generator behaves as PrefixCounter promises.
Prefix == INSTANCE PrefixCounter WITH Start <- RecordCount
IsPrefixCounter == Prefix!PSpec

-----------------------------------------------------------------------------
(***************************************************************************)
(* The inductive invariant, in parts.                                      *)
(***************************************************************************)
Inserting(t) == pc[t] \in {"inserting", "acking"}
Tried == stored \cup failed

\* Every key the load phase issued was inserted or is in a thread's hands.
LoadInv ==
  /\ \A k \in 0 .. loadCounter - 1 :
        k \in Tried \/ \E t \in Threads : pc[t] = "loading" /\ key[t] = k
  /\ \A t \in Threads :
        pc[t] \in {"loading", "idle"} \/ phase = "run"
  /\ phase = "run" =>
        /\ loadCounter = RecordCount
        /\ \A t \in Threads : pc[t] # "loading"

\* A key being inserted is issued, not acknowledged, and in one thread only.
IssueInv ==
  /\ acked \subseteq RecordCount .. counter - 1
  /\ \A t \in Threads :
        Inserting(t) => key[t] \in (RecordCount .. counter - 1) \ acked
  /\ \A t, u \in Threads :
        Inserting(t) /\ Inserting(u) /\ t # u => key[t] # key[u]

\* A key is acknowledged after its db.Insert.
StoreInv ==
  /\ acked \subseteq Tried
  /\ \A t \in Threads : pc[t] = "acking" => key[t] \in Tried
  /\ ~InsertMayFail => failed = {}

\* Until a key outruns the window, slot by slot the window says which of the
\* kWindowSize keys after limit_ are acknowledged, and none lies beyond.
WindowInv ==
  spread <= WindowSize =>
    /\ RecordCount .. limit \subseteq acked
    /\ \A k \in limit + 1 .. limit + WindowSize :
          ackWindow[Slot(k)] <=> k \in acked
    /\ \A k \in acked : k <= limit + WindowSize

\* While it was never full, moreover, limit_ is not short of a key.
SpareInv ==
  spread < WindowSize =>
    /\ \A k \in acked : k < limit + WindowSize
    /\ limit + 1 \notin acked

\* A key in use was below limit_ when it was accepted, and still is.
UseInv == \A t \in Threads :
             pc[t] = "using" => phase = "run" /\ key[t] <= limit

IInv ==
  /\ TypeOK /\ LoadInv /\ IssueInv /\ StoreInv
  /\ WindowInv /\ SpareInv /\ UseInv
  /\ RecordCount - 1 <= limit
  /\ ThrowsOnlyOnOverrun
=============================================================================
