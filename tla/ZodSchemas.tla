----------------------------- MODULE ZodSchemas -----------------------------
(***************************************************************************)
(* Zod schemas: those derived from a table (resource/zod-table.ts), what   *)
(* they accept, and the JSON schema that documents them                    *)
(* (openapi/zod-to-schema.ts); and the OpenAPI document made of the routes *)
(* (openapi/generator.ts).                                                 *)
(*                                                                         *)
(* A schema has a type; values of an enum, checks [check, value,           *)
(* inclusive], the inner schema of a wrapper or an array, the shape of an  *)
(* object.  A value has a kind and items or fields; of a text only its     *)
(* length counts, and a number counts halves.                              *)
(*                                                                         *)
(* A path is a sequence of segments [param, name].  A route has a method,  *)
(* a path, a visibility and that of its module ("public", "hidden", Null), *)
(* whether its module uses the jwt plugin, an operationId or Null, and the *)
(* sets of its query parameters, [name, optional].                         *)
(***************************************************************************)
EXTENDS Integers, Sequences, SequencesExt

CONSTANT Null

Schema(type) == [type |-> type, values |-> {}, checks |-> <<>>, inner |-> Null, shape |-> <<>>]
Wrap(type, inner) == [Schema(type) EXCEPT !.inner = inner]
Object(shape) == [Schema("object") EXCEPT !.shape = shape]

Value(kind, of) == [kind |-> kind, of |-> of, items |-> <<>>, fields |-> <<>>]
Items(items)    == [kind |-> "array", of |-> 0, items |-> items, fields |-> <<>>]
Fields(fields)  == [kind |-> "object", of |-> 0, items |-> <<>>, fields |-> fields]
Undefined == Value("undefined", 0)
NullValue == Value("null", 0)
Invalid   == Value("invalid", 0)
Field(object, key) == IF key \in DOMAIN object THEN object[key] ELSE Undefined

CheckHolds(check, n) ==
  CASE check.check \in {"min_length", "greater_than"} -> n > check.value \/ (check.inclusive /\ n = check.value)
    [] check.check \in {"max_length", "less_than"}    -> n < check.value \/ (check.inclusive /\ n = check.value)
    [] check.check = "multiple_of"                    -> n % check.value = 0
    [] check.check = "int"                            -> n % 2 = 0

\* parse() of Zod: the value that comes out, or Invalid.
RECURSIVE Parse(_, _)
Parse(schema, v) ==
  CASE schema.type = "optional" -> IF v = Undefined THEN v ELSE Parse(schema.inner, v)
    [] schema.type = "default"  -> IF v = Undefined THEN Value("default", 0) ELSE Parse(schema.inner, v)
    [] schema.type = "nullable" -> IF v = NullValue THEN v ELSE Parse(schema.inner, v)
    [] schema.type = "unknown"  -> v
    \* new Date(null) is the epoch.
    [] schema.type = "date"     -> IF v.kind \in {"date", "number", "boolean", "null"} THEN Value("date", v.of) ELSE Invalid
    [] schema.type = "enum"     -> IF v.kind = "string" /\ v.of \in schema.values THEN v ELSE Invalid
    [] schema.type = "array"    ->
         IF v.kind # "array" THEN Invalid
         ELSE LET out == [i \in DOMAIN v.items |-> Parse(schema.inner, v.items[i])]
              IN IF Invalid \in {out[i] : i \in DOMAIN out} THEN Invalid ELSE Items(out)
    [] schema.type = "object"   ->
         IF v.kind # "object" THEN Invalid
         ELSE LET out == [key \in DOMAIN schema.shape |-> Parse(schema.shape[key], Field(v.fields, key))]
              IN IF \E key \in DOMAIN out : out[key] = Invalid THEN Invalid
                 ELSE Fields([key \in {k \in DOMAIN out : out[k] # Undefined} |-> out[key]])
    [] OTHER ->
         IF v.kind = schema.type /\ \A i \in DOMAIN schema.checks : CheckHolds(schema.checks[i], v.of)
         THEN v ELSE Invalid

Accepts(schema, v) == Parse(schema, v) # Invalid

-----------------------------------------------------------------------------
(* zod-table.ts.  A column has a type, may be nullable, have a default, and *)
(* be the primary key the database counts up.                              *)

ColumnType(type) ==
  CASE type = "INTEGER" -> [Schema("number") EXCEPT !.checks = <<[check |-> "int", value |-> 0, inclusive |-> TRUE]>>]
    [] type = "REAL"    -> Schema("number")
    [] type \in {"TEXT", "UUID"} -> Schema("string")
    [] type = "BOOLEAN" -> Schema("boolean")
    [] type = "TIMESTAMP" -> Schema("date")
    [] OTHER            -> Schema("unknown")

ColumnToZod(col) ==
  IF col.nullable THEN Wrap("nullable", ColumnType(col.type)) ELSE ColumnType(col.type)

TableToZodInsert(columns) ==
  Object([key \in {k \in DOMAIN columns : ~columns[k].counted} |->
            IF columns[key].default THEN Wrap("optional", ColumnToZod(columns[key])) ELSE ColumnToZod(columns[key])])

TableToZodRow(columns) == Object([key \in DOMAIN columns |-> ColumnToZod(columns[key])])

\* partial() of Zod.
Partial(schema) == [schema EXCEPT !.shape = [key \in DOMAIN schema.shape |-> Wrap("optional", schema.shape[key])]]

-----------------------------------------------------------------------------
(* zod-to-schema.ts.  A JSON schema allows some types, all if there are    *)
(* none, and says more about them; descriptions are left out.              *)

JsonSchema(types) ==
  [types |-> types, enum |-> Null, bounds |-> <<>>, properties |-> <<>>, required |-> {}, items |-> Null]

\* minLength, minimum, exclusiveMinimum ... have one value each, that of the
\* last check of the kind; int() is not documented.
SameBound(c, d) == c.check = d.check /\ c.inclusive = d.inclusive
Bounds(checks) ==
  LET stays(i) == /\ checks[i].check # "int"
                  /\ \A j \in i + 1 .. Len(checks) : ~SameBound(checks[i], checks[j])
      kept == SelectSeq([i \in DOMAIN checks |-> i], stays)
  IN [k \in DOMAIN kept |-> checks[kept[k]]]

Required(shape) == {key \in DOMAIN shape : shape[key].type # "optional"}

RECURSIVE ZodToJsonSchema(_)
ZodToJsonSchema(schema) ==
  CASE schema.type \in {"string", "number", "boolean"} -> [JsonSchema({schema.type}) EXCEPT !.bounds = Bounds(schema.checks)]
    [] schema.type = "enum"    -> [JsonSchema({"string"}) EXCEPT !.enum = schema.values]
    [] schema.type = "object"  ->
         [JsonSchema({"object"}) EXCEPT
            !.properties = [key \in DOMAIN schema.shape |-> ZodToJsonSchema(schema.shape[key])],
            !.required = Required(schema.shape)]
    [] schema.type = "array"   -> [JsonSchema({"array"}) EXCEPT !.items = ZodToJsonSchema(schema.inner)]
    [] schema.type \in {"optional", "default"} -> ZodToJsonSchema(schema.inner)
    [] schema.type = "nullable" ->
         LET inner == ZodToJsonSchema(schema.inner)
         IN IF inner.types = {} THEN inner ELSE [inner EXCEPT !.types = @ \cup {"null"}]
    [] OTHER -> JsonSchema({})

\* A value a JSON schema allows.
RECURSIVE Validates(_, _)
Validates(json, v) ==
  /\ json.types = {} \/ v.kind \in json.types
  /\ json.enum = Null \/ (v.kind = "string" /\ v.of \in json.enum)
  /\ v.kind \in {"string", "number"} => \A i \in DOMAIN json.bounds : CheckHolds(json.bounds[i], v.of)
  /\ v.kind = "object" =>
       /\ json.required \subseteq DOMAIN v.fields
       /\ \A key \in DOMAIN json.properties \cap DOMAIN v.fields : Validates(json.properties[key], v.fields[key])
  /\ v.kind = "array" /\ json.items # Null => \A i \in DOMAIN v.items : Validates(json.items, v.items[i])

-----------------------------------------------------------------------------
(* generateOpenApiSpec() *)

\* extractPathParams()
PathParams(path) == {path[i].name : i \in {k \in DOMAIN path : path[k].param}}

ListVerb(method) == CASE method = "GET" -> "list" [] method = "POST" -> "create" [] method = "DELETE" -> "delete" [] OTHER -> "update"

\* inferOperationId(): <<verb, resource, by>>; inferSummary() tells the same
\* cases apart.
InferOperationId(method, path) ==
  LET literals == SelectSeq(path, LAMBDA s : ~s.param)
      resource == IF literals = <<>> THEN "resource" ELSE literals[1].name
      last == path[Len(path)]
  IN CASE path = <<>>                              -> <<method, "", "">>
       [] path # <<>> /\ ~last.param /\ last.name # resource -> <<last.name, resource, "">>
       [] path # <<>> /\ last.param /\ method = "GET"        -> <<"get", resource, last.name>>
       [] OTHER                                    -> <<ListVerb(method), resource, "">>

\* A route's own visibility goes before its module's.
Documented(route) ==
  IF route.visibility # Null THEN route.visibility # "hidden" ELSE route.moduleVisibility # "hidden"

Operation(route) ==
  [operationId |-> IF route.operationId # Null THEN <<route.operationId>> ELSE InferOperationId(route.method, route.path),
   secured |-> route.jwt,
   parameters |-> {[in |-> "path", name |-> p, required |-> TRUE] : p \in PathParams(route.path)}
                    \cup {[in |-> "query", name |-> q.name, required |-> ~q.optional] : q \in route.query}]

Document(spec, route) ==
  IF ~Documented(route) THEN spec
  ELSE [place \in DOMAIN spec \cup {<<route.path, route.method>>} |->
          IF place = <<route.path, route.method>> THEN Operation(route) ELSE spec[place]]

GenerateOpenApiSpec(routes) ==
  LET paths == FoldLeft(Document, <<>>, routes)
  IN [paths |-> paths,
      bearerAuth |-> \E i \in DOMAIN routes : Documented(routes[i]) /\ routes[i].jwt]

=============================================================================
