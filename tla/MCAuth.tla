------------------------------- MODULE MCAuth -------------------------------
(***************************************************************************)
(* Tables of two users with every pair of conditions, every write; plugins *)
(* and sessions with every set of permissions; tokens at every instant.    *)
(***************************************************************************)
EXTENDS Integers, Sequences, SequencesExt, FiniteSets, MCDatabase
LOCAL INSTANCE Auth
LOCAL INSTANCE Jwt

\* id is a number here; a name may hold a wildcard; at is a date as stored.
Num(n) == Value("number", n)
Time(n)   == Value("date", n)
LetterA == 97
LetterB == 98
UserNames  == {Text(<<LetterA>>), Text(<<LetterA, LetterB>>), Text(<<Percent, LetterA>>), NullValue}
Users(id) == {[id |-> Num(id), name |-> n, at |-> ToBinding(t)] : n \in UserNames, t \in {Time(1), Time(2), NullValue}}
UserTables == {<<a, b>> : a \in Users(1), b \in Users(2)}

Clause(field, operator, value, connector) == [field |-> field, operator |-> operator, value |-> value, values |-> {}, connector |-> connector]
InClause(field, operator, values, connector) == [field |-> field, operator |-> operator, value |-> NullValue, values |-> values, connector |-> connector]
NameClauses(c) ==
  {Clause("name", op, Text(v), c) : op \in {"eq", "ne", "contains", "starts_with", "ends_with"}, v \in {<<LetterA>>, <<Percent>>}}
    \cup {Clause("name", "eq", NullValue, c), InClause("name", "in", {Text(<<LetterA>>), Text(<<LetterA, LetterB>>)}, c), InClause("name", "not_in", {Text(<<LetterA>>)}, c)}
IdClauses(c)  == {Clause("id", op, Num(1), c) : op \in {"eq", "ne", "gt"}} \cup {InClause("id", "in", {}, c)}
DateClauses(c) == {Clause("at", op, Time(2), c) : op \in {"lt", "lte", "gt", "gte", "eq"}}
OneClause(c)  == NameClauses(c) \cup DateClauses(c) \cup IdClauses(c)
Some(c) == {Clause("name", "contains", Text(<<LetterA>>), c), Clause("at", "lt", Time(2), c), Clause("id", "eq", Num(1), c)}
Wheres == {<<>>} \cup {<<a>> : a \in OneClause("AND") \cup IdClauses("OR")}
            \cup {<<a, b>> : a \in Some("AND") \cup Some("OR"), b \in Some("AND") \cup Some("OR")}
            \cup {<<a, b, c>> : a \in IdClauses("AND"), b \in Some("AND") \cup Some("OR"), c \in Some("AND") \cup Some("OR")}
Patches == [{} -> {}] \cup [{"name"} -> {Text(<<LetterA>>)}] \cup [{"at"} -> {Time(1), NullValue}]

WhereInputs == [suite : {"where"}, table : UserTables, where : Wheres]
AuthPatches == [suite : {"auth_update"}, table : UserTables, patch : Patches,
                where : {w \in Wheres : Len(w) < 2}]
CreateInputs == [suite : {"create"}, table : {<<a>> : a \in Users(1)}, fields : SUBSET {"id", "at"},
                 data : {[id |-> Num(2), at |-> t, name |-> n] : t \in {Time(2), Value("boolean", 1), Value("undefined", 0)},
                                                                           n \in UserNames}]
PageInputs == [suite : {"auth_pages"}, table : {<<a, b, c>> : a \in Users(1), b \in Users(2), c \in {u \in Users(3) : u.name = Text(<<LetterA>>)}},
               sortBy : {Null} \cup [field : {"at", "name"}, direction : {"asc", "desc"}], limit : 1 .. 2]

Perms == {"p", "q", RolePermission("admin")}
Plugin(name, permissions, item, order) ==
  [name |-> name, permissions |-> permissions, nav |-> <<[label |-> item, order |-> order]>>]
Sessions == {Null} \cup [id : {Null, "", "u"}, permissions : {Null} \cup SUBSET {"p", "q"}, role : {Null, "admin"}]
MenuInputs == {[suite |-> "menu", session |-> s, adapter |-> ad,
                plugins |-> <<Plugin("one", p1, 2, o), Plugin("two", p2, 1, 1), Plugin("three", {}, 3, 0)>>] :
                 s \in Sessions, ad \in BOOLEAN, p1 \in SUBSET Perms, p2 \in SUBSET Perms, o \in 0 .. 2}

\* A token is signed at 0 with one config and shown, whole or garbled or not
\* at all, at some instant to a plugin with another.
Config(alg, sign, verify) == [algorithm |-> alg, signKey |-> sign, verifyKey |-> verify]
Configs == {Config("HS256", "secret", "secret"), Config("HS256", "weak", "weak"), Config("HS256", "public", "public"),
            Config("RS256", "private", "public"), Config("RS256", "private", Null), Config("RS256", Null, "public"),
            Config("RS256", "private", "bad")}
Payloads == [sub : {"u"}, exp : {Null, 2, 3}, nbf : {Null, 2}, aud : {Null, {"app", "me"}}, iss : {Null, "app", "me"}, iat : {Null, 9}]
TimeInputs == [suite : {"jwt"}, payload : {p \in Payloads : p.aud = Null /\ p.iss = Null}, signer : Configs, verifier : {c \in Configs : ~Weak(c)},
               now : 1 .. 4, shown : {"bearer"},
               options : [skew : 0 .. 1, issuer : {Null}, audience : {Null}, optional : {FALSE}, source : {"header"}]]
ClaimInputs == [suite : {"jwt"}, payload : {p \in Payloads : p.iat = Null /\ p.exp # 2}, signer : {Config("HS256", "secret", "secret")},
                verifier : {Config("HS256", "secret", "secret"), Config("RS256", "private", "public")}, now : {1, 3}, 
                shown : {"bearer", "cookie", "garbled", "nowhere"},
                options : [skew : {0}, issuer : {Null, "me"}, audience : {Null, "app"}, optional : BOOLEAN,
                           source : {"header", "cookie", "auto"}]]

AuthInit ==
  \/ input \in WhereInputs
  \/ input \in AuthPatches
  \/ input \in CreateInputs
  \/ input \in PageInputs
  \/ input \in MenuInputs
  \/ input \in TimeInputs
  \/ input \in ClaimInputs

-----------------------------------------------------------------------------
(* Properties *)

AllHold(row, where) == \A i \in 1 .. Len(where) : ClauseHolds(row, where[i])
AnyHolds(row, where) == \E i \in 1 .. Len(where) : ClauseHolds(row, where[i])
Joined(where, connector) == \A i \in 2 .. Len(where) : where[i].connector = connector

\* Conditions that are all joined with AND are conjoined and with OR disjoined,
\* whatever the first one says; alternatives only ever add rows.
ConditionsMean ==
  On("where") =>
    \A i \in 1 .. 2 :
      LET row == input.table[i]
      IN /\ Joined(input.where, "AND") => (Matches(row, input.where) <=> AllHold(row, input.where))
         /\ Joined(input.where, "OR") /\ input.where # <<>> => (Matches(row, input.where) <=> AnyHolds(row, input.where))
         /\ AllHold(row, input.where) => Matches(row, input.where)

\* A deletion takes the rows that can be found with the same conditions, all
\* of them, and says how many; without conditions it takes none.
DeletesWhatIsFound ==
  On("where") =>
    LET found == FindMany(input.table, input.where, Null, 9, 0)
        done == DeleteMany(input.table, input.where)
    IN IF input.where = <<>> THEN done.table = input.table
       ELSE /\ ToSet(done.table) = ToSet(input.table) \ ToSet(found)
            /\ done.answer = Len(found) /\ Count(input.table, input.where) = Len(found)
            /\ FindMany(done.table, input.where, Null, 9, 0) = <<>>
            /\ FindOne(input.table, input.where, {}) = IF found = <<>> THEN Null ELSE found[1]

\* Conditions on dates pick the rows of that time, sessions that expired above
\* all, however dates are stored.
DatesCompareAsTimes ==
  On("where") /\ Len(input.where) = 1 /\ input.where[1].field = "at" =>
    \A i \in 1 .. 2 :
      LET at(n) == input.table[i].at = ToBinding(Time(n))
          op == input.where[1].operator
      IN Matches(input.table[i], input.where) <=>
           \/ at(1) /\ op \in {"lt", "lte"}
           \/ at(2) /\ op \in {"lte", "gte", "eq"}

\* adapter.ts:146: whatever update() answers with is a row that was found, as it
\* is now, although it is read again with the conditions from before; it says
\* null of rows it has changed only if the patch has taken all of them out of
\* the conditions.  The rows that were not found stay as they were.
UpdateAnswersItsRow ==
  On("auth_update") =>
    LET done == Update(input.table, input.where, input.patch)
        many == UpdateMany(input.table, input.where, input.patch)
        hit == {i \in 1 .. 2 : input.where # <<>> /\ DOMAIN input.patch # {} /\ Matches(input.table[i], input.where)}
    IN /\ done.table = many.table /\ many.answer = Cardinality(hit)
       /\ done.answer # Null => \E i \in hit : done.answer = done.table[i]
       /\ done.answer = Null /\ hit # {} =>
            /\ \E i \in 1 .. Len(input.where) : input.where[i].field \in DOMAIN input.patch
            /\ \A i \in hit : ~Matches(done.table[i], input.where)
       /\ \A i \in 1 .. 2, f \in {"id", "name", "at"} :
            done.table[i][f] = IF i \in hit /\ f \in DOMAIN input.patch THEN ToBinding(input.patch[f]) ELSE input.table[i][f]

\* Claimed (the type of update(), adapter.ts:129, and better-auth's contract):
\* who has changed a row is given it.
UpdateAnswersAnyway ==
  On("auth_update") /\ UpdateMany(input.table, input.where, input.patch).answer > 0 =>
    Update(input.table, input.where, input.patch).answer # Null

\* What create() answers is what a later findOne() finds.
CreatedIsFound ==
  On("create") =>
    LET done == Create(input.table, input.data, input.fields)
        byId == <<Clause("id", "eq", Num(2), "AND")>>
    IN done.answer = FindOne(done.table, byId, input.fields)

\* Page after page gives every row once, in order.
AuthPagesInOrder ==
  On("auth_pages") =>
    LET page(k) == FindMany(input.table, <<>>, input.sortBy, input.limit, k * input.limit)
        all == page(0) \o page(1) \o page(2)
    IN /\ Len(all) = 3 /\ ToSet(all) = ToSet(input.table)
       /\ input.sortBy # Null => \A i, j \in 1 .. 3 : i < j =>
            LET a == all[i][input.sortBy.field]
                b == all[j][input.sortBy.field]
            IN IF input.sortBy.direction = "asc" THEN ~Less(b, a) ELSE ~Less(a, b)

\* The menu shows a plugin's items to those its gate lets in and to no others,
\* in the order they ask for.
MenuShowsWhatOpens ==
  On("menu") =>
    LET user == ResolveUser(input.adapter, input.session)
        menu == Nav(input.plugins, user)
    IN /\ \A i \in 1 .. 3 : input.plugins[i].nav[1] \in ToSet(menu) <=> PermissionGate(input.plugins, input.plugins[i].name, user) = Null
       /\ \A i, j \in 1 .. Len(menu) : i < j => menu[i].order <= menu[j].order

\* Only what the session says opens a gate: its own permissions if it lists
\* any list, else its role; and a session that names nobody opens none.
OnlyOwnPermissions ==
  On("menu") =>
    \A i \in 1 .. 3 :
      LET plugin == input.plugins[i]
          s == input.session
          own == IF s.permissions # Null THEN s.permissions ELSE {RolePermission(r) : r \in {s.role} \ {Null}}
      IN PermissionGate(input.plugins, plugin.name, ResolveUser(input.adapter, s)) = Null =>
           \/ plugin.permissions = {}
           \/ input.adapter /\ s # Null /\ s.id = "u" /\ own \cap plugin.permissions # {}

Token == SignJwt(input.payload, input.signer, 0)
Shown == [bearer |-> CASE input.shown = "bearer" -> Token
                       [] input.shown = "garbled" /\ Token # Null -> [Token EXCEPT !.readable = FALSE]
                       [] OTHER -> Null,
          cookie |-> IF input.shown = "cookie" THEN Token ELSE Null]
Verdict == JwtRequest(Shown, input.verifier, input.options, input.now)

\* A signed token is good to its verifier from nbf until exp, give or take the
\* skew, and comes back as it was signed.
GoodInItsTime ==
  On("jwt") /\ input.shown = "bearer" /\ Token # Null /\ input.options.source # "cookie"
     /\ input.options.issuer = Null /\ input.options.audience = Null =>
    LET p == input.payload
        skew == input.options.skew
        inTime == (p.nbf = Null \/ p.nbf <= input.now + skew) /\ (p.exp = Null \/ input.now < p.exp + skew)
        pair == input.signer.algorithm = input.verifier.algorithm /\ Public(input.signer.signKey) = input.verifier.verifyKey
    IN /\ Verdict.ok <=> pair /\ inTime
       /\ Verdict.ok => Verdict.claims = [p EXCEPT !.iat = 0]
       /\ Verdict.code = "TOKEN_EXPIRED" => pair /\ p.exp # Null /\ p.exp <= input.now

\* Whoever is let in as a user showed a token in a place that is looked at,
\* from the issuer and for the audience asked for; "optional" only lets in
\* those who show none.
InOnlyWithToken ==
  On("jwt") /\ Verdict.ok =>
    IF Verdict.claims = Null
    THEN input.options.optional /\ TokenOf(Shown, input.options.source) = Null
    ELSE /\ input.shown \in {"bearer", "cookie"}
         /\ input.options.source \in {"auto", IF input.shown = "bearer" THEN "header" ELSE "cookie"}
         /\ input.options.issuer \in {Null, input.payload.iss}
         /\ input.options.audience # Null => input.payload.aud # Null /\ input.options.audience \in input.payload.aud

=============================================================================
