---------------------------- MODULE SchemaTools ----------------------------
(***************************************************************************)
(* The migration tools of packages/core/src/db/migrations: introspection   *)
(* of a database, comparison with the declared tables, the migration       *)
(* written for the difference, the number of its file, and how a file is   *)
(* cut into statements.                                                    *)
(*                                                                         *)
(* A database maps the name of a table to [columns, uniques]: columns by   *)
(* name with type, nullable, default (a sequence of at most one) and       *)
(* primaryKey; the sets of columns with a UNIQUE constraint.  A statement  *)
(* is a record; what is written as a comment has op "comment".             *)
(***************************************************************************)
EXTENDS Integers, Sequences, SequencesExt, FiniteSets, FiniteSetsExt, TLC

\* CREATE TABLE of toCreateTableSql() and types of tableDefToColumnDefs().
StoredType(type) ==
  CASE type = "BOOLEAN" -> "INTEGER" [] type \in {"UUID", "TIMESTAMP", "JSON"} -> "TEXT" [] OTHER -> type

\* tableDefToColumnDefs(): under property keys, whatever name() says.
ToColumnDefs(schema) == [key \in DOMAIN schema |-> [schema[key] EXCEPT !.type = StoredType(@)]]

-----------------------------------------------------------------------------
(* introspect.ts *)

Ignored == {"_oakbun_migrations", "sqlite_sequence", "sqlite_stat1", "sqlite_master"}

\* Single-column indexes in SQLite, members of any constraint in Postgres; in
\* MySQL the primary key hides the rest.
IsUnique(dialect, table, name) ==
  CASE dialect = "sqlite"   -> {name} \in table.uniques
    [] dialect = "postgres" -> \E u \in table.uniques : name \in u
    [] dialect = "mysql"    -> {name} \in table.uniques /\ ~table.columns[name].primaryKey

\* MySQL calls INTEGER INT.
ReportedType(dialect, type) == IF dialect = "mysql" /\ type = "INTEGER" THEN "INT" ELSE type

\* introspectSchema()
Introspect(dialect, db) ==
  [t \in DOMAIN db \ Ignored |->
     [name \in DOMAIN db[t].columns |->
        LET c == db[t].columns[name] IN
        [type |-> ReportedType(dialect, c.type), nullable |-> c.nullable /\ ~c.primaryKey,
         default |-> c.default, primaryKey |-> c.primaryKey, unique |-> IsUnique(dialect, db[t], name)]]]

-----------------------------------------------------------------------------
(* diff.ts *)

\* compareSchemas()
Compare(current, target) ==
  LET common == DOMAIN current \cap DOMAIN target
      wanted(t) == ToColumnDefs(target[t])
      both(t) == DOMAIN current[t] \cap DOMAIN wanted(t)
  IN [addedTables   |-> [t \in DOMAIN target \ DOMAIN current |-> wanted(t)],
      droppedTables |-> DOMAIN current \ DOMAIN target,
      added    |-> [t \in common |-> [c \in DOMAIN wanted(t) \ DOMAIN current[t] |-> wanted(t)[c]]],
      dropped  |-> [t \in common |-> DOMAIN current[t] \ DOMAIN wanted(t)],
      modified |-> [t \in common |-> [c \in {x \in both(t) : current[t][x] # wanted(t)[x]} |-> wanted(t)[c]]]]

IsEmpty(diff) ==
  /\ DOMAIN diff.addedTables = {} /\ diff.droppedTables = {}
  /\ \A t \in DOMAIN diff.added :
       DOMAIN diff.added[t] = {} /\ diff.dropped[t] = {} /\ DOMAIN diff.modified[t] = {}

-----------------------------------------------------------------------------
(* generator.ts *)

\* A destructive statement is written as a comment unless it was allowed.
Destructive(allowed, statement) == IF allowed THEN statement ELSE [op |-> "comment"]

\* Mutant of GenerateSql: dropped columns are not held back.
GenerateSqlDropsColumns(diff, allowed) ==
  LET tables == DOMAIN diff.added IN
     {[op |-> "create", table |-> t, columns |-> diff.addedTables[t]] : t \in DOMAIN diff.addedTables}
  \cup {Destructive(allowed, [op |-> "drop", table |-> t]) : t \in diff.droppedTables}
  \cup UNION {{[op |-> "add", table |-> t, name |-> c, column |-> diff.added[t][c]] : c \in DOMAIN diff.added[t]} : t \in tables}
  \cup UNION {{[op |-> "dropColumn", table |-> t, name |-> c] : c \in diff.dropped[t]} : t \in tables}
  \cup UNION {{Destructive(allowed, [op |-> "type", table |-> t, name |-> c, type |-> diff.modified[t][c].type]) :
                 c \in DOMAIN diff.modified[t]} : t \in tables}

\* generateSql(): the statements touch different tables or columns, so their
\* order does not matter.  Of a modified column only the type is changed.
GenerateSql(diff, allowed) ==
  LET tables == DOMAIN diff.added IN
     {[op |-> "create", table |-> t, columns |-> diff.addedTables[t]] : t \in DOMAIN diff.addedTables}
  \cup {Destructive(allowed, [op |-> "drop", table |-> t]) : t \in diff.droppedTables}
  \cup UNION {{[op |-> "add", table |-> t, name |-> c, column |-> diff.added[t][c]] : c \in DOMAIN diff.added[t]} : t \in tables}
  \cup UNION {{Destructive(allowed, [op |-> "dropColumn", table |-> t, name |-> c]) : c \in diff.dropped[t]} : t \in tables}
  \cup UNION {{Destructive(allowed, [op |-> "type", table |-> t, name |-> c, type |-> diff.modified[t][c].type]) :
                 c \in DOMAIN diff.modified[t]} : t \in tables}

\* The database that executes a statement (Postgres knows all of them, SQLite
\* no change of a type and no added key or unique column).
StoredColumn(c) == [type |-> c.type, nullable |-> c.nullable, default |-> c.default, primaryKey |-> c.primaryKey]
Uniques(columns) == {{name} : name \in {n \in DOMAIN columns : columns[n].unique}}
Without(f, keys) == [k \in DOMAIN f \ keys |-> f[k]]
ExecuteOn(db, s) ==
  CASE s.op = "comment" -> db
    [] s.op = "create"  -> (s.table :> [columns |-> [n \in DOMAIN s.columns |-> StoredColumn(s.columns[n])],
                                        uniques |-> Uniques(s.columns)]) @@ db
    [] s.op = "drop"    -> Without(db, {s.table})
    [] s.op = "add"     -> [db EXCEPT ![s.table].columns = (s.name :> StoredColumn(s.column)) @@ @,
                                      ![s.table].uniques = @ \cup (IF s.column.unique THEN {{s.name}} ELSE {})]
    [] s.op = "dropColumn" -> [db EXCEPT ![s.table].columns = Without(@, {s.name}),
                                         ![s.table].uniques = {u \in @ : s.name \notin u}]
    [] s.op = "type"    -> [db EXCEPT ![s.table].columns[s.name].type = s.type]

ExecuteAll(db, statements) == FoldSet(LAMBDA s, d : ExecuteOn(d, s), db, statements)

-----------------------------------------------------------------------------
(* File names: nextMigrationNumber() and formatNumber() *)

Digits[n \in Nat] == IF n < 10 THEN <<n>> ELSE Append(Digits[n \div 10], n % 10)

\* padStart(4, '0')
Pad(n) == [i \in 1 .. Max({0, 4 - Len(Digits[n])}) |-> 0] \o Digits[n]

\* One more than the largest leading number; 1 without files.
NextNumber(numbers) == IF numbers = {} THEN 1 ELSE Max(numbers) + 1

\* sort() of readMigrationFiles(): what follows the digits sorts behind them.
SortsBefore(p, q) ==
  \E i \in 1 .. Len(p) :
    /\ \A j \in 1 .. i - 1 : j \in DOMAIN q /\ p[j] = q[j]
    /\ i > Len(q) \/ p[i] < q[i]

-----------------------------------------------------------------------------
(* splitSqlStatements(): a text is a sequence of characters *)

FirstOr(set, default) == IF set = {} THEN default ELSE Min(set)
Pair(text, i, a, b) == i < Len(text) /\ text[i] = a /\ text[i + 1] = b

\* The quote that closes the literal opened at i: doubled quotes are skipped.
StringEnd(text, i) ==
  LET isQuote(j) == j \in i + 1 .. Len(text) /\ text[j] = text[i]
      before(j) == Max({k \in 0 .. j - i - 1 : \A x \in j - k .. j - 1 : isQuote(x)})
  IN FirstOr({j \in i + 1 .. Len(text) : isQuote(j) /\ before(j) % 2 = 0 /\ ~isQuote(j + 1)}, Len(text))

\* Where the scan goes on after the character at i.
ScanFrom(text, i) ==
  CASE Pair(text, i, "-", "-") -> FirstOr({j \in i .. Len(text) : text[j] = "\n"}, Len(text)) + 1
    [] Pair(text, i, "/", "*") -> FirstOr({j \in i + 2 .. Len(text) : Pair(text, j, "*", "/")}, Len(text)) + 2
    [] text[i] \in {"'", "\""} -> StringEnd(text, i) + 1
    [] OTHER -> i + 1

\* The semicolons that end a statement.
Cuts(text) ==
  LET from[i \in 1 .. Len(text) + 2] ==
        IF i > Len(text) THEN {} ELSE from[ScanFrom(text, i)] \cup (IF text[i] = ";" THEN {i} ELSE {})
  IN from[1]
=============================================================================
