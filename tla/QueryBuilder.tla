---------------------------- MODULE QueryBuilder ----------------------------
(***************************************************************************)
(* The SELECT builder of packages/core/src/db: buildWhere() and            *)
(* buildSelect() of sql.ts, and of index.ts the calls of SelectBuilder     *)
(* that collect conditions with the terminals that turn them into SQL.     *)
(*                                                                         *)
(* SQL text is a sequence of tokens: a comparison with the number of its   *)
(* question marks, a constant, a parenthesis, AND or OR.  Parameters carry *)
(* the column they were written for, so that the k-th question mark can be *)
(* compared with the k-th parameter.                                       *)
(***************************************************************************)
EXTENDS Integers, Sequences, SequencesExt

CONSTANT Null

\* WhereInput: an object of conditions by column, in the order of its keys, or
\* a group.  A condition has an operator and the values it compares with.
Flat(fields) == [kind |-> "flat", fields |-> fields]
Group(op, branches) == [kind |-> op, of |-> branches]
EmptyWhere == Flat(<<>>)

Comparison(col, op, holes) == [t |-> "cond", col |-> col, op |-> op, holes |-> holes]
Constant(value) == [t |-> "const", value |-> value, holes |-> 0]
Mark(text)      == [t |-> text, holes |-> 0]
Param(col, value) == [col |-> col, value |-> value]

-----------------------------------------------------------------------------
(* sql.ts *)

\* buildFieldCondition(): one question mark for every value; no row is in an
\* empty list and every row is outside it.
BuildField(col, c) ==
  IF c.op \in {"in", "not in"} /\ c.values = <<>>
  THEN [sql |-> <<Constant(c.op = "not in")>>, params |-> <<>>]
  ELSE [sql |-> <<Comparison(col, c.op, Len(c.values))>>,
        params |-> [i \in DOMAIN c.values |-> Param(col, c.values[i])]]

\* Array.join() on fragments.
Join(parts, separator) ==
  IF parts = <<>> THEN <<>>
  ELSE FoldLeft(LAMBDA text, part : text \o <<Mark(separator)>> \o part, Head(parts), Tail(parts))

\* A group of one is its only branch, a larger one is put into parentheses.
Parenthesize(parts, separator) ==
  IF Len(parts) > 1 THEN <<Mark("(")>> \o Join(parts, separator) \o <<Mark(")")>>
                    ELSE Join(parts, separator)

RECURSIVE BuildWhere(_)

\* Branches and fields without text (all of it undefined) are left out.
BuildWhere(w) ==
  IF w.kind = "flat"
  THEN LET defined == SelectSeq(w.fields, LAMBDA f : f.cond.op # "undefined")
           built == [i \in DOMAIN defined |-> BuildField(defined[i].col, defined[i].cond)]
       IN [sql |-> Join([i \in DOMAIN built |-> built[i].sql], "AND"),
           params |-> FlattenSeq([i \in DOMAIN built |-> built[i].params])]
  ELSE LET built == [i \in DOMAIN w.of |-> BuildWhere(w.of[i])]
           kept == SelectSeq(built, LAMBDA b : b.sql # <<>>)
       IN [sql |-> Parenthesize([i \in DOMAIN kept |-> kept[i].sql], w.kind),
           params |-> FlattenSeq([i \in DOMAIN kept |-> kept[i].params])]

\* appendPaginationAndOrder(): LIMIT -1 stands in when there is only an offset.
None == -2
AtLeastZero(n) == IF n < 0 THEN 0 ELSE n
Window(o) ==
  [limit  |-> IF o.limit # None THEN AtLeastZero(o.limit) ELSE IF o.offset # None THEN -1 ELSE None,
   offset |-> IF o.offset # None THEN AtLeastZero(o.offset) ELSE None]

\* buildSelect(): WHERE comes before HAVING in the text and in the parameters.
BuildSelect(w, o) ==
  LET where == BuildWhere(w)
      having == BuildWhere(o.having)
  IN [where |-> where.sql, having |-> having.sql, params |-> where.params \o having.params,
      distinct |-> o.distinct, groupBy |-> o.groupBy, window |-> Window(o)]

-----------------------------------------------------------------------------
(* SelectBuilder *)

NoOptions == [distinct |-> FALSE, groupBy |-> <<>>, having |-> EmptyWhere,
              limit |-> None, offset |-> None]

\* table: the SQL name of each column, and the soft-delete column or Null.
From(table) == [table |-> table, conditions |-> EmptyWhere, options |-> NoOptions,
                raw |-> <<>>, includeDeleted |-> FALSE]

\* { ...a, ...b }: a key of b takes the place and the condition of the same key of a.
Spread(a, b) ==
  LET cols(s) == {s[i].col : i \in DOMAIN s}
      of(s, col) == s[CHOOSE i \in DOMAIN s : s[i].col = col]
  IN [i \in DOMAIN a |-> IF a[i].col \in cols(b) THEN of(b, a[i].col) ELSE a[i]]
       \o SelectSeq(b, LAMBDA f : f.col \notin cols(a))

\* mergeWhereAnd()
MergeAnd(a, b) ==
  IF a.kind = "flat" /\ b.kind = "flat" THEN Flat(Spread(a.fields, b.fields))
                                         ELSE Group("AND", <<a, b>>)

\* Every call copies the builder.
Where(b, w)           == [b EXCEPT !.conditions = MergeAnd(@, w)]
WhereRaw(b, fragment) == [b EXCEPT !.raw = Append(@, fragment)]
WithDeleted(b)        == [b EXCEPT !.includeDeleted = TRUE]
Having(b, w)          == [b EXCEPT !.options.having = w]

Page(b, page, size) ==
  [b EXCEPT !.options.limit = size, !.options.offset = (page - 1) * size]

\* _effectiveConditions()
Effective(b) ==
  IF b.table.softDelete = Null \/ b.includeDeleted THEN b.conditions
  ELSE MergeAnd(b.conditions, Flat(<<[col |-> b.table.softDelete, cond |-> [op |-> "is null", values |-> <<>>]]>>))

\* mapWhere(): the keys of a flat object, and of a group none of those inside.
MapWhere(w, table) ==
  IF w.kind # "flat" THEN w
  ELSE Flat([i \in DOMAIN w.fields |-> [w.fields[i] EXCEPT !.col = table.sqlName[@]]])

\* WHERE of the paths with raw fragments: all of them joined with AND.
RawWhere(b) ==
  LET where == BuildWhere(MapWhere(Effective(b), b.table))
      parts == (IF where.sql = <<>> THEN <<>> ELSE <<where.sql>>)
                 \o [i \in DOMAIN b.raw |-> b.raw[i].sql]
  IN [sql |-> Join(parts, "AND"),
      params |-> where.params \o FlattenSeq([i \in DOMAIN b.raw |-> b.raw[i].params])]

\* select(): with raw fragments DISTINCT is forgotten.
Select(b) ==
  IF b.raw = <<>> THEN BuildSelect(MapWhere(Effective(b), b.table), b.options)
  ELSE LET where == RawWhere(b)
           having == BuildWhere(b.options.having)
       IN [where |-> where.sql, having |-> having.sql, params |-> where.params \o having.params,
           distinct |-> FALSE, groupBy |-> b.options.groupBy, window |-> Window(b.options)]

\* _buildSelectSQL() for subqueries and unions: with raw fragments GROUP BY and
\* HAVING are forgotten.
Subquery(b) ==
  IF b.raw = <<>> THEN BuildSelect(MapWhere(Effective(b), b.table), b.options)
  ELSE LET where == RawWhere(b)
       IN [where |-> where.sql, having |-> <<>>, params |-> where.params,
           distinct |-> b.options.distinct, groupBy |-> <<>>, window |-> Window(b.options)]

\* Mutant of Scalar: raw fragments are forgotten.
ScalarNoRaw(b) ==
  LET where == BuildWhere(MapWhere(Effective(b), b.table)) IN
  [where |-> where.sql, having |-> <<>>, params |-> where.params,
   distinct |-> FALSE, groupBy |-> <<>>, window |-> Window(NoOptions)]

\* _scalarAggregateRaw(): count(), sum(), avg(), min(), max().
Scalar(b) ==
  LET where == RawWhere(b) IN
  [where |-> where.sql, having |-> <<>>, params |-> where.params,
   distinct |-> FALSE, groupBy |-> <<>>, window |-> Window(NoOptions)]

\* aggregate(): the raw fragments and the column names are forgotten.
Aggregate(b) == BuildSelect(Effective(b), b.options)

\* buildUnion(): the texts of the legs, and their parameters, in their order.
Union(legs) ==
  [sql |-> FlattenSeq([i \in DOMAIN legs |-> legs[i].where \o legs[i].having]),
   params |-> FlattenSeq([i \in DOMAIN legs |-> legs[i].params])]

\* SoftDeleteBuilder.execute(): the new value is the first parameter.
SoftDelete(table, wheres, value) ==
  LET where == BuildWhere(MapWhere(FoldLeft(MergeAnd, EmptyWhere, wheres), table)) IN
  [sql |-> <<Comparison(table.sqlName[table.softDelete], "set", 1)>> \o where.sql,
   params |-> <<Param(table.sqlName[table.softDelete], value)>> \o where.params]

-----------------------------------------------------------------------------
(* What the database makes of it: question marks take the parameters in    *)
(* their order, AND binds tighter than OR.                                 *)

HolesIn(tokens) == FoldLeft(LAMBDA n, token : n + token.holes, 0, tokens)

BindParams(tokens, params) ==
  [i \in DOMAIN tokens |->
     LET before == HolesIn(SubSeq(tokens, 1, i - 1)) IN
     [token |-> tokens[i], args |-> SubSeq(params, before + 1, before + tokens[i].holes)]]

Satisfies(op, value, args) ==
  CASE op = "is null"     -> value = Null
    [] op = "is not null" -> value # Null
    [] op = "in"          -> value # Null /\ value \in Range(args)
    [] op = "not in"      -> value # Null /\ Null \notin Range(args) /\ value \notin Range(args)
    [] op = "="           -> value # Null /\ value = args[1]
    [] op = "!="          -> value # Null /\ Null # args[1] /\ value # args[1]

\* The stretches of a bound text between the separators outside parentheses.
Pieces(bound, separator) ==
  LET depth(i) == Len(SelectSeq(SubSeq(bound, 1, i), LAMBDA b : b.token.t = "("))
                - Len(SelectSeq(SubSeq(bound, 1, i), LAMBDA b : b.token.t = ")"))
      cuts == {0, Len(bound) + 1} \cup
              {i \in DOMAIN bound : bound[i].token.t = separator /\ depth(i) = 0}
  IN {SubSeq(bound, i + 1, j - 1) : <<i, j>> \in
        {p \in cuts \X cuts : p[1] < p[2] /\ \A c \in cuts : ~(p[1] < c /\ c < p[2])}}

RECURSIVE EvaluateText(_, _)
EvaluateText(bound, row) ==
  \E disjunct \in Pieces(bound, "OR") : \A piece \in Pieces(disjunct, "AND") :
    IF Len(piece) > 1 THEN EvaluateText(SubSeq(piece, 2, Len(piece) - 1), row)
    ELSE LET token == piece[1].token
             args == [i \in DOMAIN piece[1].args |-> piece[1].args[i].value]
         IN IF token.t = "const" THEN token.value ELSE Satisfies(token.op, row[token.col], args)

\* Does a statement keep a row?
Keeps(statement, row) ==
  statement.where = <<>> \/ EvaluateText(BindParams(statement.where, statement.params), row)
=============================================================================
