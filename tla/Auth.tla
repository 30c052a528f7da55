-------------------------------- MODULE Auth --------------------------------
(***************************************************************************)
(* The database adapter of @oakbun/auth (auth/src/adapter.ts, where.ts):   *)
(* what better-auth asks of a table and what SQLite answers; the user that *)
(* a session becomes, the gate of a plugin's routes and the navigation it  *)
(* shows (app/index.ts).                                                   *)
(*                                                                         *)
(* A value has a kind.  Text is a sequence of characters, a character a    *)
(* number; a date is written as text in the order of time.  Tables are     *)
(* sequences of rows in the order SQLite scans them.                       *)
(*                                                                         *)
(* A session's user has an id or Null or "", permissions (a set) or Null,  *)
(* and a role or Null or "".  A plugin has a name, the permissions of      *)
(* which one is enough, and items of the menu [label, order].              *)
(***************************************************************************)
EXTENDS Integers, Sequences, SequencesExt, TLC

CONSTANT Null

Value(kind, of) == [kind |-> kind, of |-> of]
NullValue == Value("null", 0)
Text(chars) == Value("text", chars)

Percent    == 37    \* % and _ of LIKE
Underscore == 95

-----------------------------------------------------------------------------
(* where.ts *)

\* toBindingValue() and toBindingParam(): toISOString() of a date.
ToBinding(v) ==
  CASE v.kind = "date"      -> Text(<<48 + (v.of \div 2), 48 + (v.of % 2)>>)
    [] v.kind = "boolean"   -> Value("number", v.of)
    [] v.kind = "undefined" -> NullValue
    [] OTHER                -> v

\* SQL comparisons: with NULL none is true, and numbers come before text.
Same(a, b) == a.kind = b.kind /\ a.kind # "null" /\ a.of = b.of
LexLess(s, t) ==
  \E k \in 0 .. Len(s) : /\ k < Len(t) /\ SubSeq(s, 1, k) = SubSeq(t, 1, k)
                         /\ k = Len(s) \/ s[k + 1] < t[k + 1]
Less(a, b) ==
  \/ a.kind = "number" /\ b.kind = "text"
  \/ a.kind = "number" /\ b.kind = "number" /\ a.of < b.of
  \/ a.kind = "text" /\ b.kind = "text" /\ LexLess(a.of, b.of)
Known(a, b) == a.kind # "null" /\ b.kind # "null"

Like(cell, pattern) ==
  LET text == cell.of
      matches[p \in 0 .. Len(pattern), t \in 0 .. Len(text)] ==
        CASE p = 0                       -> t = 0
          [] p > 0 /\ pattern[p] = Percent -> \E k \in 0 .. t : matches[p - 1, k]
          [] OTHER -> /\ t > 0 /\ pattern[p] \in {Underscore, text[t]}
                      /\ matches[p - 1, t - 1]
  IN cell.kind = "text" /\ matches[Len(pattern), Len(text)]

\* One clause [field, operator, value, values, connector] on a row; values are
\* those of in and not_in.
ClauseHolds(row, clause) ==
  LET cell == row[clause.field]
      operand == ToBinding(clause.value)
      op == clause.operator
  IN \/ op = "eq" /\ Same(cell, operand)
     \/ op = "ne" /\ Known(cell, operand) /\ ~Same(cell, operand)
     \/ op \in {"lt", "lte"} /\ Less(cell, operand)
     \/ op \in {"gt", "gte"} /\ Less(operand, cell)
     \/ op \in {"lte", "gte"} /\ Same(cell, operand)
     \/ op = "in" /\ \E v \in clause.values : Same(cell, v)
     \/ op = "not_in" /\ \A v \in clause.values : Known(cell, v) /\ ~Same(cell, v)
     \/ op = "contains" /\ Like(cell, <<Percent>> \o operand.of \o <<Percent>>)
     \/ op = "starts_with" /\ Like(cell, operand.of \o <<Percent>>)
     \/ op = "ends_with" /\ Like(cell, <<Percent>> \o operand.of)

\* convertWhere(): the clauses in a line, each behind its own connector; the
\* first one's is not used, and AND binds tighter than OR.
Matches(row, where) ==
  \/ where = <<>>
  \/ \E first \in 1 .. Len(where) :
       /\ first = 1 \/ where[first].connector = "OR"
       /\ \A i \in first .. Len(where) :
            (\A j \in first + 1 .. i : where[j].connector = "AND") => ClauseHolds(row, where[i])

-----------------------------------------------------------------------------
(* The operations of the adapter: the table after them and their answer *)

\* buildSelectCols()
Select(row, fields) == IF fields = {} THEN row ELSE [f \in fields |-> row[f]]

First(rows) == IF rows = <<>> THEN Null ELSE rows[1]

Find(table, where) == SelectSeq(table, LAMBDA row : Matches(row, where))

FindOne(table, where, fields) ==
  LET row == First(Find(table, where)) IN IF row = Null THEN Null ELSE Select(row, fields)

\* ORDER BY: NULL comes first; equal rows stay in the order of the scan.
SortBy(rows, field, direction) ==
  LET before(a, b) == \/ a.kind = "null" /\ b.kind # "null"
                      \/ Less(a, b)
      precedes(i, j) == IF direction = "desc" THEN before(rows[j][field], rows[i][field])
                        ELSE before(rows[i][field], rows[j][field])
      order == SortSeq([i \in 1 .. Len(rows) |-> i],
                       LAMBDA i, j : precedes(i, j) \/ (~precedes(j, i) /\ i < j))
  IN [k \in 1 .. Len(rows) |-> rows[order[k]]]

Window(rows, limit, offset) ==
  SubSeq(rows, offset + 1, IF offset + limit < Len(rows) THEN offset + limit ELSE Len(rows))

\* limit is always given: OFFSET is no SQL without it.
FindMany(table, where, sortBy, limit, offset) ==
  LET found == Find(table, where)
      sorted == IF sortBy = Null THEN found ELSE SortBy(found, sortBy.field, sortBy.direction)
  IN Window(sorted, limit, offset)

Count(table, where) == Len(Find(table, where))

Stored(fields, data) ==
  [f \in fields |-> IF f \in DOMAIN data THEN ToBinding(data[f]) ELSE NullValue]

\* The id is in the data, because better-auth makes it; a column that is not
\* in the data is NULL.
Create(table, data, fields) ==
  LET after == Append(table, Stored({"id", "name", "at"}, data))
      id == <<[field |-> "id", operator |-> "eq", value |-> data.id, values |-> {}, connector |-> "AND"]>>
      row == First(Find(after, id))
  IN [table |-> after, answer |-> Select(IF row = Null THEN data ELSE row, fields)]

\* Mutant of Patched: only the first row that matches is changed.
PatchedFirst(table, where, patch) ==
  [i \in 1 .. Len(table) |->
     IF Matches(table[i], where) /\ \A k \in 1 .. i - 1 : ~Matches(table[k], where)
     THEN [f \in DOMAIN table[i] |-> IF f \in DOMAIN patch THEN ToBinding(patch[f]) ELSE table[i][f]]
     ELSE table[i]]

\* SET on the rows that match.
Patched(table, where, patch) ==
  [i \in 1 .. Len(table) |->
     IF Matches(table[i], where)
     THEN [f \in DOMAIN table[i] |-> IF f \in DOMAIN patch THEN ToBinding(patch[f]) ELSE table[i][f]]
     ELSE table[i]]

\* The answer is read with the same conditions after the update.
Update(table, where, patch) ==
  IF where = <<>> \/ DOMAIN patch = {} THEN [table |-> table, answer |-> Null]
  ELSE LET after == Patched(table, where, patch)
       IN [table |-> after, answer |-> First(Find(after, where))]

UpdateMany(table, where, patch) ==
  IF where = <<>> \/ DOMAIN patch = {} THEN [table |-> table, answer |-> 0]
  ELSE [table |-> Patched(table, where, patch), answer |-> Count(table, where)]

\* delete() is the same without an answer.
DeleteMany(table, where) ==
  IF where = <<>> THEN [table |-> table, answer |-> 0]
  ELSE [table |-> SelectSeq(table, LAMBDA row : ~Matches(row, where)), answer |-> Count(table, where)]

-----------------------------------------------------------------------------
(* Who may what *)

RolePermission(role) == "role:" \o role

\* getUser(): no session, and one that cannot be read, is Null.
GetUser(session) ==
  IF session = Null THEN Null
  ELSE IF session.id \in {Null, ""} THEN Null
  ELSE [id |-> session.id,
        permissions |-> IF session.permissions # Null THEN session.permissions
                        ELSE {RolePermission(r) : r \in {session.role} \ {Null, ""}}]

\* _makeBaseCtx(): no auth adapter, no user.
ResolveUser(hasAdapter, session) == IF hasAdapter THEN GetUser(session) ELSE Null

HasAny(user, permissions) == user.permissions \cap permissions # {}

\* _runPermissionGate(): the plugin is looked up by name, the first one is
\* taken.  The status of a refusal, or Null.
PermissionGate(plugins, name, user) ==
  LET named    == SelectSeq(plugins, LAMBDA p : p.name = name)
      required == IF named = <<>> THEN {} ELSE named[1].permissions
  IN CASE required = {}                   -> Null
       [] required # {} /\ user = Null    -> 401
       [] OTHER -> IF HasAny(user, required) THEN Null ELSE 403

\* The navigation endpoint: the items the user may see.
NavItems(plugins, user) ==
  FlattenSeq([i \in 1 .. Len(plugins) |->
    CASE plugins[i].permissions = {} -> plugins[i].nav
      [] plugins[i].permissions # {} /\ user = Null -> <<>>
      [] OTHER -> IF HasAny(user, plugins[i].permissions) THEN plugins[i].nav ELSE <<>>])

\* ... in their order, then by label (a number here).
Nav(plugins, user) ==
  SortSeq(NavItems(plugins, user),
          LAMBDA a, b : a.order < b.order \/ (a.order = b.order /\ a.label < b.label))

=============================================================================
