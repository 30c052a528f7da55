----------------------------- MODULE MCDatabase ------------------------------
(***************************************************************************)
(* Queries, rows and schemas of small tables: renamed, typed, defaulted and *)
(* soft-delete columns.                                                    *)
(***************************************************************************)
EXTENDS Integers, Sequences, FiniteSets

\* The input an algorithm is checked on: one state for each, which never
\* changes.  Inputs of different algorithms differ in their suite.
CONSTANT Null
VARIABLE input

On(suite) == input.suite = suite
Hold == [][UNCHANGED input]_input

LOCAL INSTANCE QueryBuilder
LOCAL INSTANCE TableRows
LOCAL INSTANCE SchemaTools

-----------------------------------------------------------------------------
(* Chains of up to two where() calls and a raw fragment *)

Tables == {[sqlName |-> [a |-> "a", b |-> "b_col", gone |-> "gone"], softDelete |-> s] : s \in {Null, "gone"}}

A(op, values) == [col |-> "a", cond |-> [op |-> op, values |-> values]]
B(op, values) == [col |-> "b", cond |-> [op |-> op, values |-> values]]
GoneIsNull == [col |-> "gone", cond |-> [op |-> "is null", values |-> <<>>]]
OnA == {A("=", <<1>>), A("!=", <<1>>), A("in", <<0, 1>>), A("in", <<>>), A("not in", <<1>>),
        A("not in", <<>>), A("is null", <<>>), A("undefined", <<>>)}
OnB == {B("=", <<0>>), B("is not null", <<>>), B("undefined", <<>>)}

Flats == {EmptyWhere} \cup {Flat(<<f>>) : f \in OnA \cup OnB} \cup {Flat(<<f, g>>) : f \in OnA, g \in OnB}
Branches == {Flat(<<A("=", <<1>>)>>), Flat(<<A("is null", <<>>)>>), Flat(<<A("undefined", <<>>)>>),
             Flat(<<GoneIsNull, A("!=", <<0>>)>>)}
Groups == {Group(op, s) : op \in {"AND", "OR"},
             s \in {<<>>} \cup {<<x>> : x \in Branches} \cup {<<x, y>> : x \in Branches, y \in Branches}}
Nested == {Group(op, <<Flat(<<A("!=", <<1>>)>>), g>>) : op \in {"AND", "OR"}, g \in Groups}
Firsts == {Flat(<<f>>) : f \in OnA} \cup {Flat(<<A("is null", <<>>), B("=", <<0>>)>>)}
            \cup {Group("OR", <<Flat(<<A("=", <<0>>)>>), EmptyWhere>>),
                  Group("OR", <<Flat(<<A("=", <<0>>)>>), Flat(<<GoneIsNull>>)>>)}
Seconds == {EmptyWhere, Flat(<<A("=", <<0>>)>>), Flat(<<B("=", <<1>>)>>),
            Group("OR", <<Flat(<<A("=", <<1>>)>>), Flat(<<GoneIsNull>>)>>)}

RawAnd == [sql |-> <<Comparison("b_col", "!=", 1)>>, params |-> <<Param("b_col", 0)>>]
RawOr  == [sql |-> <<Comparison("b_col", "=", 1), Mark("OR"), Comparison("a", "is null", 0)>>,
           params |-> <<Param("b_col", 0)>>]
Raws == {<<>>, <<RawAnd>>, <<RawOr>>}
Havings == {EmptyWhere, Flat(<<[col |-> "n", cond |-> [op |-> "=", values |-> <<1>>]]>>)}

Rows == [a : {0, 1, Null}, b_col : {0, Null}, gone : {1, Null}]

Queries == [suite : {"query"}, table : Tables, deleted : BOOLEAN, raw : Raws, having : {EmptyWhere},
            wheres : {<<w>> : w \in Flats \cup Groups \cup Nested} \cup {<<v, w>> : v \in Firsts, w \in Seconds}]

GroupedQueries == [suite : {"query"}, table : Tables, deleted : {FALSE}, raw : Raws, having : Havings,
                   wheres : {<<v>> : v \in Firsts}]

QueryInit ==
  \/ input \in Queries
  \/ input \in GroupedQueries

Builder ==
  LET b == FoldLeft(WhereRaw, FoldLeft(Where, From(input.table), input.wheres), input.raw)
  IN Having(IF input.deleted THEN WithDeleted(b) ELSE b, input.having)

-----------------------------------------------------------------------------
(* What the calls mean, without going through text. *)

RECURSIVE Restricts(_)
Restricts(w) ==
  IF w.kind = "flat" THEN \E i \in DOMAIN w.fields : w.fields[i].cond.op # "undefined"
                     ELSE \E i \in DOMAIN w.of : Restricts(w.of[i])

FieldMeans(f, row) ==
  \/ f.cond.op = "undefined"
  \/ f.cond.op = "not in" /\ f.cond.values = <<>>
  \/ Satisfies(f.cond.op, row[input.table.sqlName[f.col]], f.cond.values)

RECURSIVE Means(_, _)
Means(w, row) ==
  IF w.kind = "flat" THEN \A i \in DOMAIN w.fields : FieldMeans(w.fields[i], row)
  ELSE LET branches == {i \in DOMAIN w.of : Restricts(w.of[i])} IN
       IF w.kind = "AND" THEN \A i \in branches : Means(w.of[i], row)
                         ELSE branches = {} \/ \E i \in branches : Means(w.of[i], row)

\* All that was asked for.
Asked(row) ==
  /\ \A i \in DOMAIN input.wheres : Means(input.wheres[i], row)
  /\ \A i \in DOMAIN input.raw : EvaluateText(BindParams(input.raw[i].sql, input.raw[i].params), row)
  /\ input.table.softDelete = Null \/ input.deleted \/ row.gone = Null

ColumnsOf(w) == IF w.kind = "flat" THEN {w.fields[i].col : i \in DOMAIN w.fields} ELSE {}

\* Two where() calls name the same column.
Overwritten ==
  Len(input.wheres) = 2 /\ ColumnsOf(input.wheres[1]) \cap ColumnsOf(input.wheres[2]) # {}
RawHasOr == RawOr \in Range(input.raw)
\* A flat object with a renamed column was merged with a group, which is not mapped.
Unmapped ==
  /\ Builder.conditions.kind # "flat"
  /\ \E i \in DOMAIN input.wheres : "b" \in ColumnsOf(input.wheres[i])

ExactlyAsked == LET s == Select(Builder) IN \A row \in Rows : Keeps(s, row) <=> Asked(row)

-----------------------------------------------------------------------------
(* Properties *)

InPlace(text, params) ==
  LET bound == BindParams(text, params) IN
  /\ HolesIn(text) = Len(params)
  /\ \A i \in DOMAIN bound : \A p \in Range(bound[i].args) : p.col = bound[i].token.col

\* Every question mark of a statement has a parameter, the one of its own
\* column: WHERE, raw fragments, HAVING, the legs of a union and the new value
\* of softDelete() are numbered by their place in the text.
ParamsMatchTheirMarks ==
  On("query") =>
    LET select == Select(Builder)
        union == Union(<<Subquery(Builder), select>>)
    IN /\ \A s \in {select, Subquery(Builder), Scalar(Builder), Aggregate(Builder)} :
            InPlace(s.where \o s.having, s.params)
       /\ InPlace(union.sql, union.params)
       /\ input.table.softDelete # Null =>
            LET s == SoftDelete(input.table, input.wheres, 1) IN InPlace(s.sql, s.params)

\* A query returns the rows that meet all its where() and whereRaw() calls and
\* are not soft-deleted, when no call repeats a column, no raw fragment holds
\* an OR, and no renamed column is merged into a group.
SelectsWhatWasAsked ==
  On("query") /\ ~Overwritten /\ ~RawHasOr /\ ~Unmapped => ExactlyAsked

\* count() and a subquery look at the rows select() returns.
TerminalsAgree ==
  On("query") /\ ~Unmapped =>
    LET select == Select(Builder)
        others == {Subquery(Builder), Scalar(Builder)}
    IN \A s \in others, row \in Rows : Keeps(s, row) = Keeps(select, row)

\* Successive pages show every row once.
PagesPartitionRows ==
  On("query") /\ input.wheres = <<EmptyWhere>> =>
    \A size \in 1 .. 3, n \in 0 .. 6 :
      LET shows(page) == LET w == Window(Page(Builder, page, size).options)
                         IN w.offset <= n /\ n < w.offset + w.limit
      IN Cardinality({page \in 1 .. 7 : shows(page)}) = 1

\* db/index.ts:573: "Multiple .where() calls are combined with AND."
WheresAreConjoined ==
  On("query") /\ ~RawHasOr /\ ~Unmapped => ExactlyAsked

-----------------------------------------------------------------------------
(* Every insert and update of a few values, relations, declarations *)

Column(type, name, default, primaryKey) ==
  [type |-> type, name |-> name, default |-> default, primaryKey |-> primaryKey]
Number(n) == Value("number", n)
Bool(n)   == Value("boolean", n)
Date(n)   == Value("date", n)

\* x and y are plain, renamed, or named like each other.
Names2 == {<<Null, Null>>, <<"x_col", Null>>, <<"y", "x">>}
Schemas ==
  {[id |-> Column("INTEGER", idName, Undefined, TRUE),
    x  |-> Column(type, names[1], default, FALSE),
    y  |-> Column("BOOLEAN", names[2], Bool(0), FALSE)] :
     idName \in {Null, "row_id"}, names \in Names2, type \in {"TIMESTAMP", "BOOLEAN", "INTEGER"},
     default \in {Undefined, NullValue}}

Typed(type) ==
  CASE type = "TIMESTAMP" -> {Date(0), Date(1)} [] type = "BOOLEAN" -> {Bool(0), Bool(1)}
    [] type = "INTEGER" -> {Number(0), Number(1)}
Given2(type) == Typed(type) \cup {NullValue, Undefined}
Data(schema) ==
  LET total == {[id |-> i, x |-> a, y |-> b] : i \in {Undefined, Number(7)}, a \in Given2(schema.x.type), b \in Given2("BOOLEAN")}
  IN total \cup {[key \in {"y"} |-> d.y] : d \in total} \cup {[key \in {"x"} |-> d.x] : d \in total}

\* Rows with an id of their own must not share it.
Distinct(rows) == \E i \in 1 .. 2 : Get(rows[i], "id") = Undefined
RowInputs == UNION {[suite : {"rows"}, schema : {schema}, rows : {r \in [1 .. 2 -> Data(schema)] : Distinct(r)}] : schema \in Schemas}
PatchInputs == UNION {[suite : {"patch"}, schema : {schema}, rows : [1 .. 1 -> Data(schema)],
                       patch : Data(schema)] : schema \in Schemas}

ForeignSchema(renamed) ==
  LET name(key) == IF key \in renamed THEN key \o "_col" ELSE Null
  IN [id   |-> Column("INTEGER", name("id"), Undefined, TRUE),
      of   |-> Column("INTEGER", name("of"), Undefined, FALSE),
      gone |-> Column("TIMESTAMP", name("gone"), Undefined, FALSE)]
Keys2 == {Number(1), Number(2), NullValue}
RelationInputs ==
  [suite : {"relation"}, rows : [1 .. 2 -> [id : {Number(1), Number(2)}, of : Keys2]],
   softDelete : {Null, "gone"}, renamed : SUBSET {"id", "of", "gone"},
   owners : UNION {[1 .. n -> [of : Keys2, gone : {NullValue, Value("text", 1)}]] : n \in 0 .. 2}]

Calls == {[op |-> "hook", arg |-> h] : h \in {"h1", "h2"}} \cup {[op |-> "emits", arg |-> e] : e \in {"e1", "e2"}}
           \cup {[op |-> "softDelete", arg |-> "x"], [op |-> "relation", arg |-> "r1"], [op |-> "relation", arg |-> "r2"]}
DeclareInputs == [suite : {"declare"}, calls : UNION {[1 .. n -> Calls] : n \in 0 .. 4}]

RowInit ==
  \/ input \in RowInputs
  \/ input \in PatchInputs
  \/ input \in RelationInputs
  \/ input \in DeclareInputs

-----------------------------------------------------------------------------
(* Properties *)

\* What insert() should return: the given values, else the defaults, else
\* the id of the database or null.
Expected(schema, data, id) ==
  [key \in DOMAIN schema |->
     IF Get(data, key) # Undefined THEN data[key]
     ELSE IF schema[key].default # Undefined THEN schema[key].default
     ELSE IF schema[key].primaryKey THEN Number(id) ELSE NullValue]

\* What goes into a table comes back: keys through their SQL names, dates
\* through text and booleans through numbers.
InsertRoundTrips ==
  On("rows") => \A i \in 1 .. 2 : Insert(input.schema, input.rows[i], i) = Expected(input.schema, input.rows[i], i)

Columns(data) == Defined(WithDefaults(input.schema, data))

\* insertMany() of rows that set the same columns does what as many insert()
\* calls do, and throws when a later row leaves a column out that the first sets.
InsertManyIsInserts ==
  On("rows") =>
    LET many == InsertMany(input.schema, input.rows, 1) IN
    /\ Columns(input.rows[1]) = Columns(input.rows[2]) =>
         many = [i \in 1 .. 2 |-> Insert(input.schema, input.rows[i], i)]
    /\ ~(Columns(input.rows[1]) \subseteq Columns(input.rows[2])) => many = <<>>

\* No SQL name is the key of another column.
NamesApart == input.schema.x.name # "y"

Bindable(patch) == \A key \in DOMAIN patch : patch[key] # Undefined /\ patch[key].kind # "date"

\* update() returns, and gives to its hooks and events, the row it has left in
\* the table, although it does not read it again: the fields of the patch are
\* defined and have kinds the driver takes, and no SQL name is another's key.
UpdateResultIsTheRow ==
  On("patch") /\ NamesApart /\ Bindable(input.patch) =>
    LET stored == Store(input.schema, Serialize(input.schema, WithDefaults(input.schema, input.rows[1])), 1)
    IN UpdateResult(input.schema, Deserialize(input.schema, stored), input.patch)
         = Deserialize(input.schema, UpdatedRow(input.schema, stored, input.patch))

Foreign ==
  LET schema == ForeignSchema(input.renamed)
      row(i) == [id |-> Number(i), of |-> input.owners[i].of, gone |-> input.owners[i].gone]
  IN [schema |-> schema, softDelete |-> input.softDelete,
      rows |-> [i \in DOMAIN input.owners |-> Serialize(schema, row(i))]]

Live       == {i \in DOMAIN input.owners : input.softDelete = Null \/ input.owners[i].gone = NullValue}
OwnersOf(row) == SelectSeq([j \in DOMAIN input.owners |-> j], LAMBDA j : j \in Live /\ input.owners[j].of = row.id)
Ids(rows)  == [j \in DOMAIN rows |-> rows[j].id.of]
Plain(key) == {key, input.softDelete} \cap input.renamed = {}

\* Every row gets exactly the live rows that belong to it, in their order,
\* and the one live row it belongs to, however many rows share a key:
\* loadRelation() and loadRelationOne() find them whatever the columns are
\* called, with() only if neither the column it looks in nor that of the soft
\* deletes has a name of its own; if one has, it attaches nothing (or fails).
AttachedIsRelated ==
  On("relation") =>
    LET groups == LoadRelation(input.rows, "id", Foreign, "of")
        single == LoadRelationOne(input.rows, "of", Foreign, "id")
        many   == AttachHasMany(input.rows, "id", Foreign, "of")
        one    == AttachBelongsTo(input.rows, "of", Foreign, "id")
    IN \A i \in DOMAIN input.rows :
         LET row   == input.rows[i]
             owned == OwnersOf(row)
             owner == row.of.kind = "number" /\ row.of.of \in Live
         IN /\ IF owned = <<>> THEN row.id \notin DOMAIN groups ELSE Ids(groups[row.id]) = owned
            /\ IF owner THEN single[row.of].id = row.of ELSE row.of \notin DOMAIN single
            /\ Ids(many[i]) = IF Plain("of") THEN owned ELSE <<>>
            /\ IF owner /\ Plain("id") THEN one[i].id = row.of ELSE one[i] = NullValue

\* Wherever emits() stands among the calls, the table has all of its hooks in
\* their order, its relations, its soft-delete column and the last event map.
DeclarationsSurviveEmits ==
  On("declare") /\ Declarable([x |-> 0], input.calls) =>
    LET built == FoldLeft(Declare, NewTable([x |-> 0]), input.calls)
        args(op) == LET calls == SelectSeq(input.calls, LAMBDA c : c.op = op)
                    IN [i \in DOMAIN calls |-> calls[i].arg]
    IN /\ built.hooks = args("hook")
       /\ built.relations = args("relation")
       /\ built.events = IF args("emits") = <<>> THEN <<>> ELSE <<Last(args("emits"))>>
       /\ built.softDelete = IF args("softDelete") = <<>> THEN Null ELSE "x"

\* docs/core/09-define-table.md:89: "`.defaultFn(fn)` | Dynamic default -
\* function called at insert time", for a primary key as well.
KeyDefaultsApply ==
  On("rows") =>
    LET schema == [input.schema EXCEPT !.id.type = "UUID", !.id.default = Value("text", 1)]
    IN \A i \in 1 .. 2 : Insert(schema, input.rows[i], i) = Expected(schema, input.rows[i], i)

-----------------------------------------------------------------------------
(* Databases and declared tables of up to two columns, and texts *)

Declared(type, nullable, unique, default, primaryKey) ==
  [type |-> type, nullable |-> nullable, unique |-> unique, default |-> default, primaryKey |-> primaryKey]
DeclaredColumns ==
  {Declared(type, n, u, d, FALSE) : type \in {"BOOLEAN", "TEXT", "INTEGER"}, n \in BOOLEAN, u \in BOOLEAN, d \in {<<>>, <<"1">>}}
    \cup {Declared("UUID", FALSE, u, <<>>, TRUE) : u \in BOOLEAN}
InStore(c) == [type |-> c.type, nullable |-> c.nullable, default |-> c.default, primaryKey |-> c.primaryKey]
FewColumns == {Declared("TEXT", FALSE, FALSE, <<>>, FALSE), Declared("INTEGER", TRUE, TRUE, <<"1">>, FALSE),
               Declared("TEXT", FALSE, FALSE, <<>>, TRUE)}

Tables1(columns) == UNION {[names -> columns] : names \in {{"a"}, {"a", "b"}}}
Targets == {[t \in names |-> shape] : names \in SUBSET {"t", "u"}, shape \in Tables1(FewColumns)}
StoredTables == {[columns |-> [n \in DOMAIN f |-> InStore(f[n])], uniques |-> us] :
                   f \in Tables1(FewColumns), us \in {{}, {{"a"}}, {{"a", "b"}}}}
Databases == {[t \in names \cup {"_oakbun_migrations"} |-> table] :
                names \in SUBSET {"t", "v"}, table \in {x \in StoredTables : \A u \in x.uniques : u \subseteq DOMAIN x.columns}}

DiffInputs == [suite : {"diff"}, db : Databases, target : Targets]
FreshInputs == [suite : {"fresh"}, target : {"t" :> shape : shape \in Tables1(DeclaredColumns)}]
Numbers == {0, 1, 8, 9, 10, 99, 100, 999, 1000, 9997, 9998}
NumberInputs == [suite : {"number"}, numbers : {s \in SUBSET Numbers : Cardinality(s) <= 3}]
Characters == {"-", "/", "*", "'", "\"", ";", "\n"}
TextInputs == [suite : {"text"}, text : UNION {[1 .. n -> Characters] : n \in 0 .. 5} \cup [1 .. 7 -> {"'", ";", "/", "*"}]]

SchemaInit ==
  \/ input \in DiffInputs
  \/ input \in FreshInputs
  \/ input \in NumberInputs
  \/ input \in TextInputs

-----------------------------------------------------------------------------
(* Properties *)

After(db, target, allowed) == ExecuteAll(db, GenerateSql(Compare(Introspect("postgres", db), target), allowed))

\* A migration generated without allowDestructive keeps every table, column
\* and constraint there is.
SafeByDefault ==
  On("diff") =>
    LET after == After(input.db, input.target, FALSE) IN
    \A t \in DOMAIN input.db :
      /\ t \in DOMAIN after
      /\ input.db[t].uniques \subseteq after[t].uniques
      /\ \A c \in DOMAIN input.db[t].columns :
           c \in DOMAIN after[t].columns /\ after[t].columns[c] = input.db[t].columns[c]

\* A destructive migration leaves no table and no column too many or too few
\* and no wrong type: what still differs are constraints and defaults.  The
\* table of the migrations themselves is left alone.
Converges ==
  On("diff") =>
    LET after == After(input.db, input.target, TRUE)
        left == Compare(Introspect("postgres", after), input.target)
        wanted(t, c) == ToColumnDefs(input.target[t])[c]
    IN /\ "_oakbun_migrations" \in DOMAIN after
       /\ after["_oakbun_migrations"] = input.db["_oakbun_migrations"]
       /\ DOMAIN left.addedTables = {} /\ left.droppedTables = {}
       /\ \A t \in DOMAIN left.added :
            /\ DOMAIN left.added[t] = {} /\ left.dropped[t] = {}
            /\ \A c \in DOMAIN left.modified[t] : after[t].columns[c].type = wanted(t, c).type

\* In a database made by a generated migration nothing is left to generate: on
\* SQLite and Postgres, and on MySQL without INTEGER and unique key columns.
NothingLeftToDo ==
  On("fresh") =>
    LET created == After([t \in {} |-> 0], input.target, FALSE)
        again(dialect) == Compare(Introspect(dialect, created), input.target)
        columns == ToColumnDefs(input.target["t"])
    IN \A dialect \in {"sqlite", "postgres", "mysql"} :
         IsEmpty(again(dialect)) <=>
           \/ dialect # "mysql"
           \/ \A c \in DOMAIN columns : columns[c].type # "INTEGER" /\ ~(columns[c].primaryKey /\ columns[c].unique)

\* A new migration sorts behind every numbered one, up to number 9999.
NewFileIsLast ==
  On("number") => \A n \in input.numbers : SortsBefore(Pad(n), Pad(NextNumber(input.numbers)))

\* What a reader of SQL takes a character for: code, or part of a comment or
\* of a literal.  rest counts the characters of a token still to be read.
Reading(text) ==
  LET mode[i \in 0 .. Len(text)] ==
        IF i = 0 THEN [in |-> "code", rest |-> 0]
        ELSE LET m == mode[i - 1]
                 c == text[i]
             IN CASE m.rest > 0 -> [m EXCEPT !.rest = 0]
                  [] m.in = "code" ->
                       CASE Pair(text, i, "-", "-") -> [in |-> "line", rest |-> 1]
                         [] Pair(text, i, "/", "*") -> [in |-> "block", rest |-> 1]
                         [] c \in {"'", "\""}       -> [in |-> c, rest |-> 0]
                         [] OTHER                   -> m
                  [] m.in = "line"  -> IF c = "\n" THEN [in |-> "code", rest |-> 0] ELSE m
                  [] m.in = "block" -> IF Pair(text, i, "*", "/") THEN [in |-> "code", rest |-> 1] ELSE m
                  [] OTHER          -> IF c = m.in THEN [in |-> "code", rest |-> 0] ELSE m
  IN mode

\* A migration file is cut at the semicolons outside of comments and literals,
\* and nowhere else.
SplitsAtFreeSemicolons ==
  On("text") =>
    LET mode == Reading(input.text)
    IN Cuts(input.text) = {i \in DOMAIN input.text : input.text[i] = ";" /\ mode[i - 1] = [in |-> "code", rest |-> 0]}
=============================================================================
