-------------------------------- MODULE Rows ---------------------------------
(***************************************************************************)
(* How a record is stored.  The bindings with one entry per record keep    *)
(* its fields in one string (SerializeRow), LevelDB and LSbM can also keep *)
(* one entry per field under a composite key (BuildCompKey).               *)
(*                                                                         *)
(* A field is its number i, for the name field_prefix_ + to_string(i).  An *)
(* element of a serialized row stands for a length with its bytes.         *)
(***************************************************************************)
EXTENDS Integers, Sequences

CONSTANT FieldCount     \* fieldcount_

\* With ten fields or fewer the names sort like their numbers.
ASSUME FieldAssumption == FieldCount \in 1 .. 10

FieldNames == 0 .. FieldCount - 1
AllFields == [i \in 1 .. FieldCount |-> i - 1]

-----------------------------------------------------------------------------
SerializeRow(values) ==
  [i \in 1 .. 2 * Len(values) |->
     LET v == values[(i + 1) \div 2] IN IF i % 2 = 1 THEN v.name ELSE v.value]

DeserializeRow(data) ==
  [i \in 1 .. Len(data) \div 2 |->
     [name |-> data[2 * i - 1], value |-> data[2 * i]]]

\* One walk over the stored fields, with an iterator over the wanted ones
Filter(row, fields) ==
  LET got[i \in 0 .. Len(row)] ==
        IF i = 0 THEN <<>>
        ELSE LET g == got[i - 1]
             IN  IF Len(g) < Len(fields) /\ fields[Len(g) + 1] = row[i].name
                 THEN Append(g, row[i]) ELSE g
  IN  got[Len(row)]

DeserializeRowFilter(data, fields) == Filter(DeserializeRow(data), fields)

Named(values) == {values[i].name : i \in DOMAIN values}
ValueOf(values, f) ==
  values[CHOOSE i \in DOMAIN values : values[i].name = f].value

\* The loops of UpdateSingle over the new and the current fields
Modify(row, values) ==
  [i \in DOMAIN row |->
     IF row[i].name \in Named(values)
     THEN [row[i] EXCEPT !.value = ValueOf(values, row[i].name)]
     ELSE row[i]]

\* The values for fields the row does not have
Added(row, values) ==
  LET added[i \in 0 .. Len(values)] ==
        IF i = 0 THEN <<>>
        ELSE IF values[i].name \in Named(row) THEN added[i - 1]
             ELSE Append(added[i - 1], values[i])
  IN  added[Len(values)]

\* YCSBUpdateMerge: new fields go to the end.
Merge(row, values) == Modify(row, values) \o Added(row, values)

-----------------------------------------------------------------------------
\* The byte ":", greater than every byte of a key
Colon == 10

BuildCompKey(key, field) == key \o <<Colon, field>>

ColonAt(compKey) ==
  CHOOSE i \in DOMAIN compKey :
    compKey[i] = Colon /\ \A j \in 1 .. i - 1 : compKey[j] # Colon
KeyFromCompKey(compKey) == SubSeq(compKey, 1, ColonAt(compKey) - 1)
FieldFromCompKey(compKey) == compKey[ColonAt(compKey) + 1]

CompKeys(key) == {BuildCompKey(key, f) : f \in FieldNames}
=============================================================================
