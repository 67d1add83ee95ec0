---------------------------- MODULE AtomicStore ------------------------------
(***************************************************************************)
(* What core/db.h promises of a DB: records with named fields under keys,  *)
(* and five operations that each take effect in one step.                  *)
(*                                                                         *)
(* db.h leaves open what an Update does to a record that is missing; the   *)
(* bindings say kNotFound, do nothing, or store the record if it is given  *)
(* whole.  Some bindings do not deserialize what they read: then delivers  *)
(* is FALSE and the caller gets no fields.                                 *)
(***************************************************************************)
EXTENDS ByteOrder

CONSTANTS Keys,         \* the keys, sequences of numbers
          Fields,       \* the fields of a record
          FieldLists,   \* what a Read or a Scan may ask for
          Lengths,      \* how many records a Scan may ask for
          Writes        \* the field/value lists of Insert and Update

VARIABLES records,      \* per key: its fields' values, <<>> if there is none
          delivers,     \* are the fields read handed to the caller?
          answer        \* the last call, its status and its rows

avars == <<records, delivers, answer>>

AInit ==
  /\ records = [k \in Keys |-> <<>>]
  /\ delivers \in BOOLEAN
  /\ answer = <<>>

Present == {k \in Keys : records[k] # <<>>}

FieldsOf(values) == {values[i].name : i \in DOMAIN values}
Overlay(record, values) ==
  [f \in DOMAIN record \cup FieldsOf(values) |->
     IF f \in FieldsOf(values)
     THEN values[CHOOSE i \in DOMAIN values : values[i].name = f].value
     ELSE record[f]]

Answer(call, status, rows) ==
  answer' = [call |-> call, status |-> status, rows |-> rows]

Row(k, fields) ==
  [i \in DOMAIN fields |-> [name |-> fields[i], value |-> records[k][fields[i]]]]

\* What the caller gets for these rows
Handed(rows) ==
  IF delivers THEN {rows} ELSE {<<>>, [i \in DOMAIN rows |-> <<>>]}

ARead(k, fields) ==
  /\ UNCHANGED <<records, delivers>>
  /\ IF k \in Present
     THEN \E rows \in Handed(<<Row(k, fields)>>) :
            Answer(<<"Read", k, fields>>, "kOK", rows)
     ELSE Answer(<<"Read", k, fields>>, "kNotFound", <<>>)

\* The first len records from k on, in key order, each of them once
AScan(k, len, fields) ==
  /\ UNCHANGED <<records, delivers>>
  /\ LET found == Take(From(Present, k), len)
     IN  \/ \E rows \in Handed([i \in DOMAIN found |-> Row(found[i], fields)]) :
              Answer(<<"Scan", k, len, fields>>, "kOK", rows)
         \/ /\ k \notin Present
            /\ Answer(<<"Scan", k, len, fields>>, "kNotFound", <<>>)

Store(k, record) == records' = [records EXCEPT ![k] = record]

AUpdate(k, values) ==
  /\ \/ /\ k \in Present \/ FieldsOf(values) = Fields
        /\ Store(k, Overlay(records[k], values))
        /\ Answer(<<"Update", k, values>>, "kOK", <<>>)
     \/ /\ k \notin Present
        /\ UNCHANGED records
        /\ \E status \in {"kOK", "kNotFound"} :
             Answer(<<"Update", k, values>>, status, <<>>)
  /\ UNCHANGED delivers

AInsert(k, values) ==
  /\ Store(k, Overlay(<<>>, values))
  /\ Answer(<<"Insert", k, values>>, "kOK", <<>>)
  /\ UNCHANGED delivers

ADelete(k) ==
  /\ Store(k, <<>>)
  /\ Answer(<<"Delete", k>>, "kOK", <<>>)
  /\ UNCHANGED delivers

ANext ==
  \E k \in Keys :
    \/ \E fields \in FieldLists :
         ARead(k, fields) \/ \E len \in Lengths : AScan(k, len, fields)
    \/ \E values \in Writes : AUpdate(k, values) \/ AInsert(k, values)
    \/ ADelete(k)

ASpec == AInit /\ [][ANext]_avars
=============================================================================
