----------------------------- MODULE HttpHooks ------------------------------
(***************************************************************************)
(* The hooks that come with the framework and the chain they run in:       *)
(* app/cors.ts, csrf.ts, compression.ts, secure-headers.ts, request-id.ts, *)
(* body-size-limit.ts, health.ts and cookies.ts, with _runGlobalOnRequest  *)
(* and _runOnResponse of app/index.ts.  Headers are functions from names   *)
(* to values, a body is its size, its coding and whether it has been read. *)
(***************************************************************************)
EXTENDS Integers, Sequences, SequencesExt, FiniteSetsExt, TLC

CONSTANT Null

Threw == [threw |-> TRUE]
Response(status, headers, body) == [threw |-> FALSE, status |-> status, headers |-> headers, body |-> body]
NoBody == [size |-> 0, coding |-> <<>>, used |-> FALSE]
Has(headers, name) == name \in DOMAIN headers
With(headers, name, value) == (name :> value) @@ headers

\* new Response(res.body, ...) throws for a body that has been read.
Rebuilt(res, headers) == IF res.body.used THEN Threw ELSE [res EXCEPT !.headers = headers]

StateChanging == {"POST", "PUT", "PATCH", "DELETE"}

-----------------------------------------------------------------------------
(* corsPlugin; origin "*" is any, a string, a list or a predicate are the   *)
(* set of origins they stand for                                           *)

ResolveOrigin(options, origin) ==
  IF origin = Null THEN Null
  ELSE IF options.any THEN "*" ELSE IF origin \in options.origins THEN origin ELSE Null

CorsHeaders(options, origin) ==
  LET granted == ResolveOrigin(options, origin)
  IN (IF granted = Null THEN <<>> ELSE "Access-Control-Allow-Origin" :> granted) @@
     (IF granted \in {Null, "*"} THEN <<>> ELSE "Vary" :> "Origin") @@
     (IF options.credentials THEN "Access-Control-Allow-Credentials" :> "true" ELSE <<>>)

\* corsPlugin() itself throws for credentials with any origin.
CorsAccepts(options) == ~(options.any /\ options.credentials)

CorsOnRequest(options, req) ==
  IF req.method # "OPTIONS" THEN Null
  ELSE Response(204, ("Access-Control-Allow-Methods" :> "methods") @@ ("Access-Control-Max-Age" :> "86400") @@
                     CorsHeaders(options, req.origin), NoBody)

CorsOnResponse(options, req, res) == Rebuilt(res, CorsHeaders(options, req.origin) @@ res.headers)

-----------------------------------------------------------------------------
(* csrfPlugin *)

CsrfOnRequest(req) ==
  IF req.method \notin StateChanging \/ (req.cookie # Null /\ req.token = req.cookie) THEN Null
  ELSE Response(403, "Content-Type" :> "application/json", NoBody)

\* The cookies the jar has pending after the hook.
CsrfOnResponse(req, fresh) == IF req.method \in StateChanging \/ req.cookie # Null THEN {} ELSE {fresh}

-----------------------------------------------------------------------------
(* compressionPlugin *)

Compressible == {"text/plain", "application/json"}

NegotiateEncoding(accept, offered) ==
  LET common == SelectSeq(offered, LAMBDA e : e \in accept)
  IN IF common = <<>> THEN Null ELSE common[1]

\* A result of Null leaves the response as it is, except that its body has
\* been read.
\* Mutant of CompressOnResponse: an encoded response is encoded again.
CompressOnResponseTwice(options, req, res) ==
  LET encoding == NegotiateEncoding(req.accept, options.encodings)
  IN IF encoding = Null \/ res.body.size < options.threshold THEN [result |-> Null, read |-> FALSE]
     ELSE [result |-> Response(res.status, ("Content-Encoding" :> encoding) @@ res.headers,
                               [size |-> res.body.size \div 2, coding |-> Append(res.body.coding, encoding), used |-> FALSE]),
           read |-> TRUE]

CompressOnResponse(options, req, res) ==
  LET encoding == NegotiateEncoding(req.accept, options.encodings)
      skip == \/ res.status \in {204, 304}
              \/ Has(res.headers, "Content-Encoding")
              \/ ~Has(res.headers, "Content-Type")
              \/ res.headers["Content-Type"] \notin Compressible
              \/ encoding = Null
  IN IF skip THEN [result |-> Null, read |-> FALSE]
     ELSE IF res.body.used THEN [result |-> Threw, read |-> TRUE]
     ELSE IF res.body.size < options.threshold \/ res.body.size > options.maxSize THEN [result |-> Null, read |-> TRUE]
     ELSE [result |-> Response(res.status,
                               ("Content-Encoding" :> encoding) @@ ("Content-Length" :> res.body.size \div 2) @@
                               ("Vary" :> "Accept-Encoding") @@ res.headers,
                               [size |-> res.body.size \div 2, coding |-> Append(res.body.coding, encoding), used |-> FALSE]),
           read |-> TRUE]

-----------------------------------------------------------------------------
(* secureHeadersPlugin, requestIdPlugin, bodySizeLimitPlugin, healthPlugin *)

Defaults ==
  ("Strict-Transport-Security" :> "max-age=15552000; includeSubDomains") @@ ("X-Content-Type-Options" :> "nosniff") @@
  ("X-Frame-Options" :> "SAMEORIGIN")

\* options maps a header to a value, or to FALSE to leave it out.
SecureHeaders(options) ==
  LET all == options @@ Defaults @@ ("Content-Security-Policy" :> "relaxed")
  IN [name \in {n \in DOMAIN all : all[n] # "false"} |-> all[name]]

SecureOnResponse(options, res) == Rebuilt(res, res.headers @@ SecureHeaders(options))

\* An id of the client's is kept when it is safe.
RequestId(req, generated) == IF req.id # Null /\ req.id \in {"safe-1", "safe-2"} THEN req.id ELSE generated

RequestIdOnResponse(req, res) == Rebuilt(res, With(res.headers, "x-request-id", req.requestId))

\* No length, or one that is no number, passes.
BodyLimitOnRequest(maxSize, req) ==
  IF req.length \in Int /\ req.length > maxSize THEN Response(413, <<>>, NoBody) ELSE Null

\* A check is "ok", "failing" or "throws".
HealthOnRequest(checks, req) ==
  IF req.method # "GET" \/ req.path \notin {"/health", "/ready"} THEN Null
  ELSE Response(IF req.path = "/health" \/ \A i \in DOMAIN checks : checks[i] = "ok" THEN 200 ELSE 503, <<>>, NoBody)

-----------------------------------------------------------------------------
(* createCookieJar *)

\* A Cookie header is a sequence of parts; the last of a name counts, parts
\* without "=" or name are skipped.
ParseCookies(parts) ==
  FoldLeft(LAMBDA jar, p : IF p.name = Null THEN jar ELSE With(jar, p.name, p.value), <<>>, parts)

\* set() encodes what get() does not decode.
Encode(text) == IF text = "a b" THEN "a%20b" ELSE text
CookieOf(parts, name) == LET jar == ParseCookies(parts) IN IF Has(jar, name) THEN jar[name] ELSE Null
SetCookie(name, value) == [name |-> Encode(name), value |-> Encode(value)]

-----------------------------------------------------------------------------
(* The chains *)

OnRequest(hook, options, req) ==
  CASE hook = "cors" -> CorsOnRequest(options.cors, req)
    [] hook = "csrf" -> CsrfOnRequest(req)
    [] hook = "limit" -> BodyLimitOnRequest(options.maxSize, req)
    [] hook = "health" -> HealthOnRequest(options.checks, req)
    [] OTHER -> Null

\* The hooks that run: up to the first that answers.
Ran(hooks, options, req) ==
  LET answering == {i \in DOMAIN hooks : OnRequest(hooks[i], options, req) # Null}
  IN IF answering = {} THEN hooks ELSE SubSeq(hooks, 1, Min(answering))

\* What a hook throws is swallowed and the response it was given goes on.
RunHook(hook, options, req, state) ==
  LET after(result) == IF result.threw THEN state ELSE [state EXCEPT !.res = result]
  IN CASE hook = "cors" -> after(CorsOnResponse(options.cors, req, state.res))
       [] hook = "secure" -> after(SecureOnResponse(options.secure, state.res))
       [] hook = "requestId" -> after(RequestIdOnResponse(req, state.res))
       [] hook = "csrf" -> [state EXCEPT !.cookies = @ \cup CsrfOnResponse(req, "fresh")]
       [] hook \in {"limit", "health"} -> state
       [] hook = "compression" ->
            LET c == CompressOnResponse(options.compression, req, state.res)
                read == [state EXCEPT !.res.body.used = @ \/ c.read]
            IN IF c.result = Null \/ c.result.threw THEN read ELSE [state EXCEPT !.res = c.result]

\* Pending cookies make a last copy of the response, outside of any try.
RunOnResponse(hooks, options, req, res) ==
  LET end == FoldLeft(LAMBDA state, hook : RunHook(hook, options, req, state), [res |-> res, cookies |-> {}], hooks)
  IN IF end.cookies = {} THEN end.res ELSE Rebuilt(end.res, With(end.res.headers, "Set-Cookie", end.cookies))

\* ctx.requestId stays undefined when the chain ends before requestIdPlugin.
Exchange(hooks, options, req, handled) ==
  LET ran == Ran(hooks, options, req)
      answer == IF ran = <<>> THEN Null ELSE OnRequest(Last(ran), options, req)
      id == IF "requestId" \in ToSet(ran) THEN RequestId(req, "generated") ELSE "undefined"
  IN RunOnResponse(hooks, options, [req EXCEPT !.requestId = id], IF answer = Null THEN handled ELSE answer)

=============================================================================
