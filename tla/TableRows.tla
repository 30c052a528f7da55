----------------------------- MODULE TableRows -----------------------------
(***************************************************************************)
(* Rows on their way into a table and back: table declarations             *)
(* (schema/table.ts), defaults, serialization and the writes of            *)
(* InsertBuilder and SelectBuilder, and the loading of relations           *)
(* (db/index.ts, db/sql.ts).                                               *)
(*                                                                         *)
(* A JavaScript row is a function on property keys, a stored row one on    *)
(* SQL column names.  A key that is present may still be undefined.  Every *)
(* value has a kind, because a column's type changes it on the way.        *)
(***************************************************************************)
EXTENDS Integers, Sequences, SequencesExt, TLC

CONSTANT Null

Value(kind, of) == [kind |-> kind, of |-> of]
Undefined == Value("undefined", 0)
NullValue == Value("null", 0)

\* row[key] in JavaScript.
Get(row, key) == IF key \in DOMAIN row THEN row[key] ELSE Undefined

-----------------------------------------------------------------------------
(* Declaration: the calls of TableBuilder and build() *)

NewTable(schema) == [schema |-> schema, hooks |-> <<>>, events |-> <<>>, relations |-> <<>>, softDelete |-> Null]

\* emits() goes on with a copy.
Emits(builder, events) == [builder EXCEPT !.events = events]

Declare(builder, call) ==
  CASE call.op = "hook"       -> [builder EXCEPT !.hooks = Append(@, call.arg)]
    [] call.op = "emits"      -> Emits(builder, <<call.arg>>)
    [] call.op = "softDelete" -> [builder EXCEPT !.softDelete = call.arg]
    [] call.op = "relation"   -> [builder EXCEPT !.relations = Append(@, call.arg)]

\* A relation declared twice throws, and so does an unknown soft-delete column.
Declarable(schema, calls) ==
  LET relations == SelectSeq(calls, LAMBDA c : c.op = "relation")
      built == FoldLeft(Declare, NewTable(schema), calls)
  IN IsInjective(relations) /\ built.softDelete \in DOMAIN schema \cup {Null}

\* sqlColName()
SqlName(schema, key) == IF schema[key].name = Null THEN key ELSE schema[key].name

-----------------------------------------------------------------------------
(* Into the table *)

\* default() and defaultFn() of the fields that are unset; primaryKey() makes a
\* column auto-incremented whatever its type, and such a column has no default.
WithDefaults(schema, data) ==
  LET unset == {key \in DOMAIN schema : /\ schema[key].default # Undefined
                                        /\ ~schema[key].primaryKey
                                        /\ Get(data, key) = Undefined}
  IN [key \in unset |-> schema[key].default] @@ data

\* The keys that filterDefined() and _serializeForInsert() keep.
Defined(data) == {key \in DOMAIN data : data[key] # Undefined}

\* _serializeForInsert()
Serialize(schema, data) ==
  LET keyOf(name) == CHOOSE key \in Defined(data) : SqlName(schema, key) = name
      toColumn(v) == IF v.kind = "date" THEN Value("text", v.of) ELSE v
  IN [name \in {SqlName(schema, key) : key \in Defined(data)} |-> toColumn(data[keyOf(name)])]

\* The driver binds booleans as numbers, and the database makes up what an
\* INSERT leaves out: NULL, or the next id for an integer primary key.
Bound(v) == IF v.kind = "boolean" THEN Value("number", v.of) ELSE v
Store(schema, row, id) ==
  LET keyOf(name) == CHOOSE key \in DOMAIN schema : SqlName(schema, key) = name
      makesUp(name) == IF schema[keyOf(name)].primaryKey /\ schema[keyOf(name)].type = "INTEGER"
                       THEN Value("number", id) ELSE NullValue
  IN [name \in {SqlName(schema, key) : key \in DOMAIN schema} |->
        IF name \in DOMAIN row THEN Bound(row[name]) ELSE makesUp(name)]

-----------------------------------------------------------------------------
(* And back *)

FromColumn(type, raw) ==
  CASE type = "TIMESTAMP" /\ raw \notin {NullValue, Undefined} -> Value("date", raw.of)
    [] type = "BOOLEAN" /\ raw.kind = "number" -> Value("boolean", IF raw.of = 1 THEN 1 ELSE 0)
    [] OTHER -> raw

\* deserializeRow(): by SQL name, else by property key.
Deserialize(schema, row) ==
  [key \in DOMAIN schema |->
     LET named == Get(row, SqlName(schema, key)) IN
     FromColumn(schema[key].type, IF named # Undefined THEN named ELSE Get(row, key))]

-----------------------------------------------------------------------------
(* Writes *)

\* insert(): what RETURNING * gives back.
Insert(schema, data, id) == Deserialize(schema, Store(schema, Serialize(schema, WithDefaults(schema, data)), id))

\* insertMany(): one statement with the columns of the first row; it throws
\* (returns nothing) when a later row leaves one of them out.
InsertMany(schema, rows, id) ==
  LET serialized == [i \in DOMAIN rows |-> Serialize(schema, WithDefaults(schema, rows[i]))]
      columns == DOMAIN serialized[1]
  IN IF \E i \in DOMAIN rows : ~(columns \subseteq DOMAIN serialized[i]) THEN <<>>
     ELSE [i \in DOMAIN rows |->
             Deserialize(schema, Store(schema, [name \in columns |-> serialized[i][name]], id + i - 1))]

\* The row an UPDATE of mapDataToSql(patch) leaves.
UpdatedRow(schema, stored, patch) ==
  LET keyOf(name) == CHOOSE key \in Defined(patch) : SqlName(schema, key) = name IN
  [name \in DOMAIN stored |->
     IF \E key \in Defined(patch) : SqlName(schema, key) = name THEN Bound(patch[keyOf(name)]) ELSE stored[name]]

\* Mutant of UpdateResult: the current row wins.
UpdateResultStale(schema, current, patch) == Deserialize(schema, current @@ patch)

\* What update() returns: the patch laid over the row that was read before.
UpdateResult(schema, current, patch) == Deserialize(schema, patch @@ current)

-----------------------------------------------------------------------------
(* Relations.  A foreign table has its schema, the key of its soft-delete  *)
(* column or Null, and its stored rows.                                    *)

\* SELECT ... WHERE name IN (ids) AND gone IS NULL.  SQLite takes a quoted
\* name that no column has for a text, so that no row is found; the other
\* servers refuse the statement.
SelectIn(rows, name, ids, gone) ==
  SelectSeq(rows, LAMBDA r : /\ Get(r, name) \in ids \ {NullValue, Undefined}
                             /\ gone = Null \/ Get(r, gone) = NullValue)

DeserializeAll(schema, rows) == [i \in DOMAIN rows |-> Deserialize(schema, rows[i])]

\* loadRelation(), by table and key or by the name of a relation: from() and
\* where() map the keys, and the rows are grouped when they are mapped back.
LoadRelation(parents, parentKey, foreign, key) ==
  LET ids == {parents[i][parentKey] : i \in DOMAIN parents}
      gone == IF foreign.softDelete = Null THEN Null ELSE SqlName(foreign.schema, foreign.softDelete)
      children == DeserializeAll(foreign.schema, SelectIn(foreign.rows, SqlName(foreign.schema, key), ids, gone))
  IN [id \in {children[i][key] : i \in DOMAIN children} |-> SelectSeq(children, LAMBDA c : c[key] = id)]

\* loadRelationOne(): a later child replaces an earlier one of its key.
LoadRelationOne(parents, parentKey, foreign, key) ==
  LET groups == LoadRelation(parents, parentKey, foreign, key) IN [id \in DOMAIN groups |-> Last(groups[id])]

\* The loaders of with() name columns, and read stored rows, by property keys.
RowsUnder(foreign, key, rows, rowKey) ==
  SelectIn(foreign.rows, key, {rows[i][rowKey] : i \in DOMAIN rows}, foreign.softDelete)

\* _attachHasMany(): to each row the group of its key, or none.
AttachHasMany(rows, primaryKey, foreign, foreignKey) ==
  LET related == RowsUnder(foreign, foreignKey, rows, primaryKey) IN
  [i \in DOMAIN rows |->
     DeserializeAll(foreign.schema, SelectSeq(related, LAMBDA r : r[foreignKey] = rows[i][primaryKey]))]

\* _attachBelongsTo(): the last row with that key, or null.
AttachBelongsTo(rows, foreignKey, foreign, primaryKey) ==
  LET related == RowsUnder(foreign, primaryKey, rows, foreignKey) IN
  [i \in DOMAIN rows |->
     LET found == SelectSeq(related, LAMBDA r : r[primaryKey] = rows[i][foreignKey])
     IN IF found = <<>> THEN NullValue ELSE Deserialize(foreign.schema, Last(found))]
=============================================================================
