---------------------------- MODULE MCAlgorithms ----------------------------
(***************************************************************************)
(* The pure algorithms, each on its own set of inputs: those of the        *)
(* database and of the auth package in modules of their own, here those of *)
(* HTTP (the middleware plugins, what an application tells the outside)    *)
(* and the small ones a request meets: the router, the services, the       *)
(* listeners of a bus and the statement cache.                             *)
(***************************************************************************)
EXTENDS Naturals, Sequences, FiniteSets, MCAuth

LOCAL INSTANCE PathMatch
LOCAL INSTANCE Services
LOCAL INSTANCE EventHandlers
LOCAL INSTANCE StatementCache
LOCAL INSTANCE HttpHooks
LOCAL INSTANCE TLC
LOCAL INSTANCE SequencesExt
LOCAL INSTANCE ZodSchemas
LOCAL Api == INSTANCE Client

-----------------------------------------------------------------------------
(* Every order of up to three response hooks; browsers with a token *)

HookNames == {"cors", "secure", "requestId", "csrf", "compression"}
HookOrders == {s \in UNION {[1 .. n -> HookNames] : n \in 0 .. 3} :
                 \A i, j \in DOMAIN s : s[i] = s[j] /\ i # j => s[i] = "compression"}

CorsChoices == {c \in [any : BOOLEAN, origins : {{"site"}}, credentials : BOOLEAN] : CorsAccepts(c)}
HookOptions(cors) == [cors |-> cors, secure |-> ("X-Frame-Options" :> "false"),
                      compression |-> [encodings |-> <<"gzip", "deflate">>, threshold |-> 4, maxSize |-> 8]]
HttpRequest(method, origin, accept) ==
  [method |-> method, path |-> "/x", origin |-> origin, accept |-> accept, cookie |-> Null, token |-> Null,
   length |-> Null, id |-> Null, requestId |-> "id"]

HeaderChoices == {"Content-Type" :> "text/plain", "Content-Type" :> "text/event-stream", <<>>,
                  ("Content-Type" :> "text/plain") @@ ("Content-Security-Policy" :> "own"),
                  ("Content-Type" :> "application/json") @@ ("Content-Encoding" :> "br")}
HandlerResponses == {Response(200, h, [size |-> n, coding |-> <<>>, used |-> FALSE]) : h \in HeaderChoices, n \in {0, 3, 4, 8, 9}}
                    \cup {Response(204, <<>>, NoBody)}

ResponseInputs ==
  [suite : {"response"}, hooks : HookOrders, cors : CorsChoices, res : HandlerResponses,
   req : {HttpRequest("GET", o, a) : o \in {Null, "site", "other"}, a \in {{}, {"deflate"}, {"gzip", "deflate"}}}]
CookieParts == {[name |-> Null, value |-> "junk"], [name |-> "theme", value |-> "dark"],
                [name |-> "csrf_token", value |-> "old"], [name |-> "csrf_token", value |-> "older"]}
TokenInputs == [suite : {"token"}, method : {"GET", "OPTIONS", "POST", "DELETE"},
                parts : UNION {[1 .. n -> CookieParts] : n \in 0 .. 2}, forged : {Null, "old", "guess"}]
\* Three pages of one browser load: each sends its GET and gets its answer.
Pages == {"p1", "p2", "p3"}
PageEvents == {"send", "answer"} \X Pages
PageOrders == {o \in [1 .. 6 -> PageEvents] : IsInjective(o) /\ \A p \in Pages :
                 \E i, j \in 1 .. 6 : i < j /\ o[i] = <<"send", p>> /\ o[j] = <<"answer", p>>}
LoadInputs == [suite : {"pages"}, order : PageOrders, parts : UNION {[1 .. n -> CookieParts] : n \in 0 .. 1}]
ChainHooks == {"cors", "csrf", "limit", "health", "requestId"}
ChainInputs == [suite : {"chain"}, hooks : {s \in [1 .. 5 -> ChainHooks] : {s[i] : i \in 1 .. 5} = ChainHooks},
                method : {"GET", "OPTIONS", "POST"}, path : {"/ready", "/x"}, length : {Null, 8, 9},
                token : {Null, "old"}, id : {Null, "safe-1", "<unsafe>"}, check : {"ok", "failing"}]
ReadyInputs == [suite : {"ready"}, path : {"/health", "/ready", "/x"},
                checks : UNION {[1 .. n -> {"ok", "failing", "throws"}] : n \in 0 .. 3}]

HttpInit ==
  \/ input \in ResponseInputs
  \/ input \in TokenInputs
  \/ input \in LoadInputs
  \/ input \in ReadyInputs
  \/ input \in ChainInputs

Sent == RunOnResponse(input.hooks, HookOptions(input.cors), input.req, input.res)
Uses(hook) == \E i \in DOMAIN input.hooks : input.hooks[i] = hook

\* Compression reads a body it will not compress.
BodyWasEaten == Uses("compression") /\ (Sent.threw \/ Sent.body.used)

-----------------------------------------------------------------------------
(* Properties *)

\* A response that says it is encoded is, once, with what the client takes
\* and the handler had not encoded, whatever hooks ran.
EncodedOnce ==
  On("response") /\ ~BodyWasEaten =>
    IF Sent.body.coding = <<>>
    THEN Has(Sent.headers, "Content-Encoding") => Has(input.res.headers, "Content-Encoding")
    ELSE /\ Has(Sent.headers, "Content-Encoding") /\ Has(Sent.headers, "Content-Length")
         /\ Sent.headers["Content-Encoding"] \in input.req.accept
         /\ Sent.body.coding = <<Sent.headers["Content-Encoding"]>>
         /\ ~Has(input.res.headers, "Content-Encoding")
         /\ input.res.body.size \in 4 .. 8 /\ Sent.headers["Content-Length"] = Sent.body.size

\* secureHeadersPlugin in any place: its headers arrive, those of the handler
\* win and none that was switched off is there.
SecuredInAnyPlace ==
  On("response") /\ ~BodyWasEaten /\ Uses("secure") =>
    /\ Has(Sent.headers, "X-Content-Type-Options") /\ Has(Sent.headers, "Strict-Transport-Security")
    /\ ~Has(Sent.headers, "X-Frame-Options")
    /\ Sent.headers["Content-Security-Policy"] =
         IF Has(input.res.headers, "Content-Security-Policy") THEN "own" ELSE "relaxed"

\* An origin is granted if it is allowed, by answers and preflights alike, and
\* never any origin together with credentials.
GrantsOnlyAllowed ==
  On("response") /\ ~BodyWasEaten /\ Uses("cors") =>
    \A answer \in {Sent, CorsOnRequest(input.cors, [input.req EXCEPT !.method = "OPTIONS"])} :
      /\ Has(answer.headers, "Access-Control-Allow-Origin") <=>
           input.req.origin # Null /\ (input.cors.any \/ input.req.origin = "site")
      /\ Has(answer.headers, "Access-Control-Allow-Origin") /\ Has(answer.headers, "Access-Control-Allow-Credentials") =>
           answer.headers["Access-Control-Allow-Origin"] = input.req.origin

TokenRequest(method, parts, token) ==
  [HttpRequest(method, Null, {}) EXCEPT !.cookie = CookieOf(parts, "csrf_token"), !.token = token]

\* A page that loads, reads its cookie and sends it back gets through, also
\* after another page has loaded; one that cannot read it does not.
OnePagesToken ==
  On("token") =>
    LET load(parts, method, token) ==
          parts \o SetToSeq({SetCookie("csrf_token", t) : t \in CsrfOnResponse(TokenRequest(method, parts, Null), token)})
        loaded == load(input.parts, input.method, "fresh")
        again == load(loaded, "GET", "fresher")
        old == CookieOf(input.parts, "csrf_token")
    IN IF input.method \in StateChanging
       THEN CsrfOnRequest(TokenRequest(input.method, loaded, input.forged)) = Null <=> old # Null /\ input.forged = old
       ELSE /\ CookieOf(loaded, "csrf_token") # Null
            /\ CsrfOnRequest(TokenRequest("POST", again, CookieOf(loaded, "csrf_token"))) = Null

\* The browser's cookies after these events, those each page sent with its
\* GET, and the token each page read when its answer came.
Browsed(event, browser) ==
  LET page == event[2]
      fresh == CsrfOnResponse(TokenRequest("GET", browser.sent[page], Null), page)
      cookies == browser.cookies \o SetToSeq({SetCookie("csrf_token", t) : t \in fresh})
  IN IF event[1] = "send" THEN [browser EXCEPT !.sent[page] = browser.cookies]
     ELSE [browser EXCEPT !.cookies = cookies, !.token[page] = CookieOf(cookies, "csrf_token")]

\* Whatever the order of their requests and answers, a page that reads the
\* cookie when it sends gets through.  The token it read when it loaded stays
\* good, unless another page had sent its GET before there was any token and
\* is answered later: that answer brings a token of its own.
PagesShareTheToken ==
  On("pages") =>
    LET end == FoldLeft(LAMBDA browser, event : Browsed(event, browser),
                        [cookies |-> input.parts, sent |-> [p \in Pages |-> <<>>], token |-> [p \in Pages |-> Null]],
                        input.order)
        at(what, page) == CHOOSE i \in 1 .. 6 : input.order[i] = <<what, page>>
        bare(page) == /\ CookieOf(input.parts, "csrf_token") = Null
                      /\ \A other \in Pages : at("send", page) < at("answer", other)
        passes(token) == CsrfOnRequest(TokenRequest("POST", end.cookies, token)) = Null
    IN /\ passes(CookieOf(end.cookies, "csrf_token"))
       /\ \A page \in Pages :
            passes(end.token[page]) <=> \A other \in Pages : bare(other) => at("answer", other) <= at("answer", page)

\* Both, for a page alone and for pages that load at once.
TokensWork == OnePagesToken /\ PagesShareTheToken

ChainOptions == [cors |-> [any |-> TRUE, origins |-> {}, credentials |-> FALSE], maxSize |-> 8, checks |-> <<input.check>>]
ChainRequest == [HttpRequest(input.method, "site", {}) EXCEPT !.path = input.path, !.length = input.length,
                   !.cookie = "old", !.token = input.token, !.id = input.id]
Handled == Response(200, "Content-Type" :> "text/plain", [size |-> 4, coding |-> <<>>, used |-> FALSE])

\* In what order the hooks are registered does not decide what a request is
\* answered, unless its body is too long.
OrderIsFree ==
  On("chain") /\ input.length # 9 =>
    Exchange(input.hooks, ChainOptions, ChainRequest, Handled).status =
      Exchange(<<"requestId", "limit", "health", "csrf", "cors">>, ChainOptions, ChainRequest, Handled).status

\* An answer bears the client's id if it is safe and a new one otherwise, for
\* requests that get as far as requestIdPlugin.
IdsComeBack ==
  On("chain") /\ "requestId" \in ToSet(Ran(input.hooks, ChainOptions, ChainRequest)) =>
    Exchange(input.hooks, ChainOptions, ChainRequest, Handled).headers["x-request-id"] =
      IF input.id = "safe-1" THEN "safe-1" ELSE "generated"

\* /ready is 200 only while every check passes, a throwing one included, and
\* /health does not ask.
ReadyMeansAllPass ==
  On("ready") =>
    LET answer == HealthOnRequest(input.checks, [HttpRequest("GET", Null, {}) EXCEPT !.path = input.path])
    IN CASE input.path = "/x" -> answer = Null
         [] input.path = "/health" -> answer.status = 200
         [] input.path = "/ready" -> answer.status = 200 <=> {input.checks[i] : i \in DOMAIN input.checks} \subseteq {"ok"}

\* Claimed ("Responses smaller than this are sent uncompressed", "larger than
\* this are passed through", compression.ts): the body arrives.  The hook has
\* read it by then and hands back the response it read it from.
BodiesArrive == On("response") => ~BodyWasEaten

-----------------------------------------------------------------------------
(* Schemas of small values, pairs of routes and calls of a client *)

\* Schemas of one field: every type, check and wrapper.
Check(check, value, inclusive) == [check |-> check, value |-> value, inclusive |-> inclusive]
Checked(type, checks) == [Schema(type) EXCEPT !.checks = checks]
Enum == [Schema("enum") EXCEPT !.values = {1, 2}]
Bases ==
  {Schema("string"), Schema("boolean"), Schema("number"), Enum, Checked("string", <<Check("min_length", 1, TRUE), Check("max_length", 2, TRUE)>>)}
    \cup {Checked("number", <<Check("greater_than", 1, i), Check("less_than", 3, j)>>) : i, j \in BOOLEAN}
    \cup {Checked("number", <<Check("greater_than", m, i), Check("greater_than", n, TRUE)>>) : m, n \in {1, 3}, i \in BOOLEAN}
    \cup {Checked("string", <<Check("max_length", m, TRUE), Check("max_length", n, TRUE)>>) : m, n \in 1 .. 2}
    \cup {Checked("number", <<Check("multiple_of", 2, TRUE)>>), Checked("number", <<Check("int", 0, TRUE), Check("less_than", 3, FALSE)>>),
          Schema("unknown"), Schema("date")}
Wrapped(schemas) == schemas \cup {Wrap(w, s) : w \in {"array", "nullable"}, s \in schemas}
FieldSchemas == LET some == Wrapped(Bases) IN some \cup {Wrap(w, s) : w \in {"optional", "default"}, s \in some}
Scalars == {Value("string", n) : n \in 0 .. 3} \cup {Value("number", n) : n \in 0 .. 4} \cup {Value("boolean", 1), NullValue}
Arrays == {Items(<<>>)} \cup {Items(<<v>>) : v \in Scalars}
Bodies == {Fields(<<>>)} \cup {Fields([f |-> v]) : v \in Scalars \cup Arrays} \cup Scalars
SchemaInputs == [suite : {"schema"}, schema : {Object([f |-> s]) : s \in FieldSchemas} \cup {Wrap("array", Object([f |-> s])) : s \in Bases},
                 body : Bodies \cup {Items(<<b>>) : b \in Bodies}]

\* Tables of a counted or a given key and one more column.
ColumnOf(type, nullable, default, counted) == [type |-> type, nullable |-> nullable, default |-> default, counted |-> counted]
ColumnTables == {[id |-> ColumnOf("INTEGER", FALSE, FALSE, c), x |-> ColumnOf(t, n, d, FALSE)] :
             c \in BOOLEAN, t \in {"INTEGER", "TEXT", "BOOLEAN", "TIMESTAMP"}, n \in BOOLEAN, d \in BOOLEAN}
Keyed(K) == [K -> Scalars]
TableInputs == [suite : {"table"}, columns : ColumnTables, body : {Fields(o) : o \in UNION {Keyed(K) : K \in SUBSET {"id", "x"}}}]

\* Two routes, of what matters to the documentation.
DocRoutes ==
  {[method |-> m, path |-> p, visibility |-> v, moduleVisibility |-> mv, jwt |-> j, operationId |-> Null, query |-> q] :
     m \in {"GET", "POST"}, v \in {Null, "public", "hidden"}, mv \in {"public", "hidden"}, j \in BOOLEAN,
     p \in {<<[param |-> FALSE, name |-> "users"]>>, <<[param |-> FALSE, name |-> "users"], [param |-> TRUE, name |-> "id"]>>},
     q \in {{}, {[name |-> "page", optional |-> TRUE]}}}
DocInputs == [suite : {"docs"}, routes : {<<r, t>> : r, t \in DocRoutes}]

\* Routes behind the prefixes /orgs/:org and /a-b, called with their
\* parameters, a body and options.
Text(word) == <<word>>
Org == <<Api!Literal(Text("orgs")), Api!Param(Text("org"))>>
Dashed == <<Api!Literal(<<"a", "b">>)>>
Behind == {<<>>, <<Api!Param(Text("id"))>>, <<Api!Literal(Text("all"))>>, <<Api!Param(Text("id")), Api!Literal(Text("all"))>>,
             <<Api!Literal(Text("all")), Api!Param(Text("id"))>>}
ClientRoutes ==
  {[method |-> m, path |-> p \o s, prefixLength |-> Len(p)] :
     m \in {"GET", "POST", "PATCH", "DELETE"}, p \in {Org, Dashed}, s \in Behind}
Responses == {Null} \cup [status : {200, 201, 404, 500}, json : {Null} \cup [code : {Null, "NOT_FOUND"}]]
CallInputs == [suite : {"call"}, routes : {<<r, t>> : r, t \in ClientRoutes}, query : {Null, "page"}, body : {Null, "data"},
               response : {[status |-> 200, json |-> Null]}, throws : {FALSE}]
         \cup [suite : {"call"}, routes : {<<CHOOSE r \in ClientRoutes : TRUE>>}, query : {Null}, body : {Null}, response : Responses, throws : BOOLEAN]

InterfaceInit ==
  \/ input \in SchemaInputs
  \/ input \in TableInputs
  \/ input \in DocInputs
  \/ input \in CallInputs

-----------------------------------------------------------------------------
(* Properties *)

\* A schema and those inside it.
RECURSIVE Inside(_)
Inside(schema) ==
  {schema} \cup (IF schema.inner = Null THEN {} ELSE Inside(schema.inner))
    \cup UNION {Inside(schema.shape[key]) : key \in DOMAIN schema.shape}

\* Documented stricter than it is: keys with a default and those of unknown
\* type are required, and null is not in an enum that may be null.
Demanding(schema) ==
  \E s \in Inside(schema) : \/ s.type \in {"default", "unknown"}
                            \/ s.type = "nullable" /\ s.inner.type = "enum"

\* Documented looser than it is: dates are not documented, nor is int(), and a
\* check is overwritten by a later, weaker one of its kind.
Loose(schema) ==
  \E s \in Inside(schema) :
    \/ s.type = "date"
    \/ \E i \in DOMAIN s.checks :
         \/ s.checks[i].check = "int"
         \/ \E j \in i + 1 .. Len(s.checks) :
              /\ SameBound(s.checks[i], s.checks[j])
              /\ \E n \in 0 .. 4 : CheckHolds(s.checks[j], n) /\ ~CheckHolds(s.checks[i], n)

\* zod-to-schema.ts: what the route accepts its documentation allows, and what
\* that allows the route accepts, but for the schemas named above.
DocumentedIsAccepted ==
  On("schema") =>
    LET allowed  == Validates(ZodToJsonSchema(input.schema), input.body)
        accepted == Accepts(input.schema, input.body)
    IN /\ accepted /\ ~Demanding(input.schema) => allowed
       /\ allowed /\ ~Loose(input.schema) => accepted

Insert == TableToZodInsert(input.columns)

\* Whatever the insert schema of a table lets pass has all the database will
\* not do without, and nothing of the key it counts up; a row made of it is
\* what the row schema lets pass, and stays that under any patch (a patch of
\* nothing passes, too, and is no SQL: see MCResource).
InsertsAreComplete ==
  On("table") =>
    LET columns == input.columns
        row == Parse(Insert, input.body)
        patch == Parse(Partial(Insert), input.body)
        sample == [key \in DOMAIN columns |-> Parse(ColumnType(columns[key].type), Value(IF columns[key].type = "TEXT" THEN "string"
                     ELSE IF columns[key].type = "BOOLEAN" THEN "boolean" ELSE "number", 0))]
    IN /\ row # Invalid =>
            /\ \A key \in DOMAIN columns :
                 LET v == Field(row.fields, key)
                 IN \/ v \notin {Undefined, NullValue} \/ columns[key].counted \/ (v = Undefined /\ columns[key].default)
                    \/ (v = NullValue /\ columns[key].nullable)
            /\ Accepts(TableToZodRow(columns), Fields([key \in DOMAIN columns |-> IF Field(row.fields, key) = Undefined THEN sample[key] ELSE row.fields[key]]))
       /\ patch # Invalid =>
            /\ \A key \in DOMAIN patch.fields : ~columns[key].counted
            /\ Accepts(TableToZodRow(columns), Fields([key \in DOMAIN columns |-> IF Field(patch.fields, key) = Undefined THEN sample[key] ELSE patch.fields[key]]))

\* Every route that is to be seen is in the documentation and no other: with
\* exactly the parameters of its path, all required, and a bearer token where
\* and only where one is asked for.
DocumentsWhatIsPublic ==
  On("docs") =>
    LET spec == GenerateOpenApiSpec(input.routes)
        shown == {i \in 1 .. 2 : LET r == input.routes[i] IN r.visibility = "public" \/ (r.visibility = Null /\ r.moduleVisibility = "public")}
        place(i) == <<input.routes[i].path, input.routes[i].method>>
    IN /\ DOMAIN spec.paths = {place(i) : i \in shown}
       /\ \A p \in DOMAIN spec.paths :
            \E i \in shown :
              /\ place(i) = p /\ spec.paths[p].secured = input.routes[i].jwt
              /\ \A param \in spec.paths[p].parameters : param.required => param.in = "path" /\ PathParams(p[1]) = {param.name}
              /\ Cardinality(spec.paths[p].parameters) = Cardinality(PathParams(p[1])) + Cardinality(input.routes[i].query)
       /\ \A p \in DOMAIN spec.paths : spec.paths[p].secured => spec.bearerAuth

\* Of two routes of the spec at one place the later is documented, which is
\* the one Bun's own table serves.
LastIsDocumented ==
  On("docs") /\ Documented(input.routes[2]) =>
    LET r == input.routes[2]
    IN GenerateOpenApiSpec(input.routes).paths[<<r.path, r.method>>] = Operation(r)

\* Called by its name with its parameters in the order of the path, a route
\* of a client is requested as it is: the server finds the same parameters
\* under their names, and body and query arrive.  createClient asks the same.
CallReachesRoute ==
  On("call") =>
    \A i \in DOMAIN input.routes :
      LET route == input.routes[i]
          values == [k \in 1 .. Api!ParamCount(route.path) |-> IF k = 1 THEN Text("1") ELSE Text("2")]
          args == values \o (IF route.method \in Api!BodyMethods THEN <<input.body, input.query>> ELSE <<input.query>>)
          called == Api!ProxyRoute(input.routes, Api!ClientKey(Api!Prefix(route)), Api!MethodName(route.method, Api!Suffix(route)))
          request == Api!ProxyRequest(called, args)
          found == Api!MatchPath([segments |-> route.path, wildcard |-> FALSE], request.path)
          at == Api!ParamsAt(route.path)
          byName == [name \in {route.path[at[k]].text : k \in DOMAIN at} |->
                       values[CHOOSE k \in DOMAIN at : route.path[at[k]].text = name]]
      IN /\ called.method = route.method /\ found.matched
         /\ \A name \in DOMAIN byName : found.params[name] = byName[name]
         /\ request.query = input.query /\ request.body = IF route.method \in Api!BodyMethods THEN input.body ELSE Null
         /\ route.method \in {"GET", "DELETE"} => request = Api!ClientRequest(route, byName, input.query, input.body)

\* A result says what the server said: data where it is ok, else the code of
\* the error and its status, thrown if that was asked for.
ResultIsTheAnswer ==
  On("call") =>
    LET result == Api!ProxyResult(input.response, input.throws)
        fine == input.response # Null /\ input.response.status \in {200, 201}
    IN /\ result.status = IF input.response = Null THEN 0 ELSE input.response.status
       /\ result.ok = fine /\ result.thrown = (input.throws /\ ~fine)
       /\ fine => result.data = input.response.json /\ result.code = Null
       /\ ~fine => /\ result.data = Null /\ result.code # Null
                   /\ input.response # Null /\ input.response.json # Null =>
                        input.response.json.code \in {Null, result.code}

\* Claimed (app/types.ts:94): the operationIds the generator makes are unique.
OperationIdsAreUnique ==
  On("docs") =>
    LET paths == GenerateOpenApiSpec(input.routes).paths
    IN \A p, q \in DOMAIN paths : paths[p].operationId = paths[q].operationId => p = q


-----------------------------------------------------------------------------
(* matchPath(): every pattern and path of up to MaxLen segments *)

Names == {"a", "b"}
MaxLen == 3

Segments == {Literal(n) : n \in Names \cup {""}} \cup {Param("p"), Param("q"), Optional("o")}
AllPatterns == {[segments |-> <<>>, wildcard |-> TRUE]} \cup
  [segments : UNION {[1 .. n -> Segments] : n \in 1 .. MaxLen}, wildcard : BOOLEAN]
AllPaths == UNION {[1 .. n -> Names \cup {""}] : n \in 1 .. MaxLen}

PathInit == input \in [suite : {"path"}, pattern : AllPatterns, path : AllPaths]

-----------------------------------------------------------------------------
(* Graphs of up to three definitions, with every sharing of keys *)

\* Two dependencies at most: with three definitions that covers chains,
\* diamonds and cycles of every length.
DepLists == {<<>>} \cup {<<i>> : i \in 1 .. 3} \cup {<<1, 2>>, <<2, 1>>, <<1, 3>>, <<3, 1>>, <<2, 3>>, <<3, 2>>}
WithKeys(keys) == {Define("service", k, d) : k \in keys, d \in DepLists} \cup {Define("model", k, <<>>) : k \in keys}

\* Keys are named in the order they appear in.
ServiceInit ==
  \E first \in WithKeys({"x"}), second \in WithKeys({"x", "y"}), third \in WithKeys({"x", "y", "z"}),
     declared \in {<<1>>, <<1, 2>>, <<2, 1>>, <<1, 2, 3>>} :
    LET defs == <<first, second, third>>
    IN /\ \A i \in 1 .. Len(declared) : defs[declared[i]].kind = "service"
       /\ input = [suite |-> "services", defs |-> defs, declared |-> declared]

-----------------------------------------------------------------------------
(* Properties *)

\* What passes the check is made in finite time, namesakes included.
CheckedIsFinite ==
  On("services") => \/ Circular(input.defs, input.declared)
                    \/ ~InstantiateServices(input.defs, input.declared).endless

HasNamesakes == Cardinality({input.defs[i].key : i \in 1 .. 3}) < 3

\* Where keys are unique only a cycle is taken for one.
NoFalseAlarm ==
  On("services") => \/ HasNamesakes \/ ~Circular(input.defs, input.declared)
                    \/ InstantiateServices(input.defs, input.declared).endless

\* Where keys are unique a factory is called once for all that depend on it,
\* after the factories of its own dependencies, and is given those it named.
MadeOnceInOrder ==
  On("services") =>
    LET run == InstantiateServices(input.defs, input.declared)
        made == run.made
    IN \/ HasNamesakes \/ run.endless
       \/ /\ \A i, j \in 1 .. Len(made) : made[i].id = made[j].id => i = j
          /\ \A k \in 1 .. Len(input.declared) : \E i \in 1 .. Len(made) : made[i].id = input.declared[k]
          /\ \A i \in 1 .. Len(made) :
               LET deps == input.defs[made[i].id].deps
               IN \A k \in 1 .. Len(deps) :
                    /\ made[i].given[input.defs[deps[k]].key] < i
                    /\ made[made[i].given[input.defs[deps[k]].key]].id = deps[k]

-----------------------------------------------------------------------------
(* Event handlers and the statement cache *)

\* Builders, services and handlers have the number of the call that made or
\* added them; builder 0 is defineEventHandler(table), handler 0 the plain one.
BuilderCalls == [op : {"use", "on x", "on y"}, on : 0 .. 2]
Builders(calls) == {0} \cup {i \in 1 .. Len(calls) : calls[i].op = "use"}

EventInit ==
  \E first \in {c \in BuilderCalls : c.on = 0}, second, third \in BuilderCalls, adapter \in BOOLEAN,
     broken \in {{}, {1}, {2}}, failing \in {{}, {0}, {0, 3}} :
    LET calls == <<first, second, third>>
    IN /\ \A i \in 1 .. 3 : calls[i].on \in Builders(SubSeq(calls, 1, i - 1))
       /\ \E one, other \in Builders(calls) :
            input = [suite |-> "events", calls |-> calls, built |-> <<one, other>>,
                     world |-> [adapter |-> adapter, broken |-> broken, failing |-> failing]]

StatementInit ==
  \E statements \in [1 .. 5 -> {"a", "b", "c", "d"}], bad \in {{}, {"d"}}, limit \in 1 .. 3 :
    input = [suite |-> "statements", statements |-> statements, bad |-> bad, limit |-> limit]

-----------------------------------------------------------------------------
(* What the input makes *)

Defs ==
  FoldLeft(LAMBDA defs, i :
             CASE input.calls[i].op = "use"  -> Use(defs, input.calls[i].on, i, i)
               [] input.calls[i].op = "on x" -> AddHandler(defs, "x", i)
               [] OTHER                      -> AddHandler(defs, "y", i),
           NewBuilder(0), <<1, 2, 3>>)

Bus == Events(Events(Listen(<<>>, "x", 0), Build(Defs, input.built[1])), Build(Defs, input.built[2]))

\* The services on the way from the first builder to this one.
Path[b \in 0 .. 3] == IF b = 0 THEN {} ELSE Path[input.calls[b].on] \cup {b}

-----------------------------------------------------------------------------
(* Properties *)

\* events/handler.ts:54: a handler is given the services of the builder it was
\* added to when it is part of a definition built from this or a later one.
ServicesAreGiven ==
  On("events") =>
    \A builder \in Builders(input.calls), event \in {"x", "y"} :
      LET done == Emit(Events(<<>>, Build(Defs, builder)), event, input.world)
      IN \A i \in 1 .. Len(done) :
           LET needs == Path[input.calls[done[i].handler].on]
           IN (input.world.adapter /\ needs \subseteq Path[builder]) => needs \subseteq done[i].given

\* events/index.ts:98: an event reaches the plain listener and, of each
\* definition, the last handler for it, whatever the others throw; only one
\* whose services cannot be made is left out.
ReachesEveryListener ==
  On("events") =>
    \A event \in {"x", "y"} :
      LET done  == SelectSeq(Emit(Bus, event, input.world), LAMBDA d : d.called)
          added == {i \in 1 .. 3 : input.calls[i].op = "on " \o event}
          last  == CHOOSE i \in added : \A j \in added : j <= i
          able  == SelectSeq(input.built, LAMBDA b : ~input.world.adapter \/ Path[b] \cap input.world.broken = {})
          plain == IF event = "x" THEN <<0>> ELSE <<>>
      IN [i \in 1 .. Len(done) |-> done[i].handler] =
           plain \o (IF added = {} THEN <<>> ELSE [i \in 1 .. Len(able) |-> last])

\* The Map of prepared statements is a least-recently-used one.
RecentAreCached == On("statements") => RecentAreKept(input.statements, input.bad, input.limit)

-----------------------------------------------------------------------------
(* All inputs *)

Init == PathInit \/ QueryInit \/ RowInit \/ SchemaInit \/ ServiceInit \/ HttpInit \/ AuthInit \/ InterfaceInit
        \/ EventInit \/ StatementInit
Spec == Init /\ Hold

-----------------------------------------------------------------------------
(* Properties, by what they are about *)

\* matchPath() of router.ts.
PathsMatch ==
  On("path") => /\ MatchIsExact(input.pattern, input.path)
                /\ ParamsRebuildPath(input.pattern, input.path)
                /\ SlashIsIgnored(input.pattern, input.path)

\* The text that sql.ts and db/index.ts put together, what a database makes of
\* it, and the statements kept for it.
QueriesAskForTheRows ==
  ParamsMatchTheirMarks /\ SelectsWhatWasAsked /\ TerminalsAgree /\ PagesPartitionRows /\ RecentAreCached

\* Rows on their way to the database and back, and the tables they are of.
RowsAreKept ==
  InsertRoundTrips /\ InsertManyIsInserts /\ UpdateResultIsTheRow /\ AttachedIsRelated /\ DeclarationsSurviveEmits

\* Introspection, diff, generator and the files of migrations.
MigrationsConverge == SafeByDefault /\ Converges /\ NothingLeftToDo /\ NewFileIsLast /\ SplitsAtFreeSemicolons

\* What service factories, event handlers and listeners get.
EveryoneGetsTheirs ==
  CheckedIsFinite /\ NoFalseAlarm /\ MadeOnceInOrder /\ ServicesAreGiven /\ ReachesEveryListener

\* The HTTP plugins, in any order.
HooksCompose ==
  EncodedOnce /\ SecuredInAnyPlace /\ GrantsOnlyAllowed /\ TokensWork /\ OrderIsFree /\ IdsComeBack /\ ReadyMeansAllPass

\* The auth adapter, permissions, navigation and tokens.
AccessIsRight ==
  ConditionsMean /\ DeletesWhatIsFound /\ DatesCompareAsTimes /\ UpdateAnswersItsRow /\ CreatedIsFound
  /\ AuthPagesInOrder /\ MenuShowsWhatOpens /\ OnlyOwnPermissions /\ GoodInItsTime /\ InOnlyWithToken

\* Validation, OpenAPI documents and the clients, against the routes.
InterfacesAgree ==
  DocumentedIsAccepted /\ InsertsAreComplete /\ DocumentsWhatIsPublic /\ LastIsDocumented
  /\ CallReachesRoute /\ ResultIsTheAnswer
=============================================================================
