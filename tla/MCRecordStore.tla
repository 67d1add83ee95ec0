---------------------------- MODULE MCRecordStore ----------------------------
(***************************************************************************)
(* Small instances of RecordStore.                                         *)
(***************************************************************************)
EXTENDS RecordStore, TLC

CONSTANTS t1, t2, a, b

MCThreads == {t1, t2}
MCValues == {a, b}
MCFieldLists == {AllFields, <<0>>}

\* Whole records whose fields differ, and one field on its own
Whole(v, w) == <<[name |-> 0, value |-> v], [name |-> 1, value |-> w]>>
MCWrites == {Whole(a, b), Whole(b, a), <<[name |-> 1, value |-> a]>>}

\* No key starts with another one, as the row format demands.
MCKeys == {<<1>>, <<2>>}

ConfigsOf(binding) ==
  {[binding |-> binding, deserialize |-> d, keys |-> MCKeys,
    misses |-> binding.format # "row"] :
     d \in IF binding.decodes = "optional" THEN BOOLEAN ELSE {TRUE}}

BearableConfigs ==
  UNION {ConfigsOf(binding) : binding \in AllBindings}

\* What the theorems about the row format assume of the clients
ASSUME BearableAssumption == \A c \in Configs : Bearable(c)

Symmetry == Permutations(MCThreads)
=============================================================================
