------------------------------- MODULE Client -------------------------------
(***************************************************************************)
(* The clients of client/proxy.ts and client/index.ts: from the routes of  *)
(* an application to methods, and from a call to a request and a result.   *)
(*                                                                         *)
(* A path is a sequence of segments as in PathMatch; a text is the         *)
(* sequence of its words, which dashes separate.  A route has a method, a  *)
(* path and the length of its module's prefix.                             *)
(***************************************************************************)
EXTENDS Naturals, Sequences, FiniteSets, SequencesExt, PathMatch

CONSTANT Null

BodyMethods == {"POST", "PUT", "PATCH"}

\* buildDescriptors(): the prefix and what is behind it.
Prefix(route) == SubSeq(route.path, 1, route.prefixLength)
Suffix(route) == SubSeq(route.path, route.prefixLength + 1, Len(route.path))

\* pathToClientKey(): all words of the prefix, in camel case.
ClientKey(prefix) == FlattenSeq([i \in DOMAIN prefix |-> prefix[i].text])

\* pathToMethodName(): short names for the routes of a resource, else method
\* and segments; a parameter is "by" its name.
MethodName(method, suffix) ==
  LET root == suffix = <<>> \/ suffix = <<Literal(<<>>)>>
      one  == Len(suffix) = 1 /\ suffix[1].kind = "param"
  IN CASE root /\ method = "GET"    -> <<<<"index">>>>
       [] root /\ method = "POST"   -> <<<<"store">>>>
       [] one /\ method = "GET"     -> <<<<"show">>>>
       [] one /\ method = "PATCH"   -> <<<<"update">>>>
       [] one /\ method = "DELETE"  -> <<<<"destroy">>>>
       [] OTHER -> <<<<method>>>> \o FlattenSeq([i \in DOMAIN suffix |->
                     IF suffix[i].kind = "param" THEN <<<<"by">>, suffix[i].text>> ELSE <<suffix[i].text>>])

\* createProxyClient(): of two routes with one name the last is called.
ProxyRoute(routes, key, name) ==
  Last(SelectSeq(routes, LAMBDA r : ClientKey(Prefix(r)) = key /\ MethodName(r.method, Suffix(r)) = name))

-----------------------------------------------------------------------------
(* A call *)

ParamsAt(path) == SelectSeq([i \in DOMAIN path |-> i], LAMBDA i : path[i].kind = "param")
ParamCount(path) == Len(ParamsAt(path))
Argument(args, i) == IF i \in DOMAIN args THEN args[i] ELSE Null

\* substitutePathParams(): in the order of the path.
Substitute(path, params) ==
  [i \in DOMAIN path |->
     IF path[i].kind = "param" THEN params[Cardinality({k \in 1 .. i : path[k].kind = "param"})] ELSE path[i].text]

\* Mutant of ProxyRequest: only the parameters of the suffix are taken off
\* the arguments.
ProxyRequestSuffix(route, args) ==
  LET count == ParamCount(Suffix(route))
      sends == route.method \in BodyMethods
      options == IF sends THEN Argument(args, count + 2) ELSE Argument(args, count + 1)
  IN [method |-> route.method, path |-> Substitute(route.path, args),
      query |-> options, body |-> IF sends THEN Argument(args, count + 1) ELSE Null]

\* executeProxyRequest(): the parameters, the body if the method has one, the
\* options (their query, here).
ProxyRequest(route, args) ==
  LET count == ParamCount(route.path)
      sends == route.method \in BodyMethods
      options == IF sends THEN Argument(args, count + 2) ELSE Argument(args, count + 1)
  IN [method |-> route.method, path |-> Substitute(route.path, args),
      query |-> options, body |-> IF sends THEN Argument(args, count + 1) ELSE Null]

\* request() of createClient: parameters by name; the query only where there
\* is no body.
ClientRequest(route, params, query, body) ==
  [method |-> route.method,
   path |-> [i \in DOMAIN route.path |->
               IF route.path[i].kind = "param" /\ route.path[i].text \in DOMAIN params
               THEN params[route.path[i].text] ELSE route.path[i].text],
   query |-> IF route.method \in {"GET", "DELETE"} THEN query ELSE Null,
   body  |-> IF route.method \in BodyMethods THEN body ELSE Null]

\* A response has a status and a JSON body (its error code or Null), or Null for what is no JSON; the
\* network failed if it is Null itself; "HTTP" is the code made of the status.
ProxyResult(response, throws) ==
  CASE response = Null ->
         [ok |-> FALSE, status |-> 0, code |-> "NETWORK_ERROR", data |-> Null, thrown |-> throws]
    [] response # Null /\ response.status \in 200 .. 299 ->
         [ok |-> TRUE, status |-> response.status, code |-> Null, data |-> response.json, thrown |-> FALSE]
    [] OTHER ->
         [ok |-> FALSE, status |-> response.status, data |-> Null, thrown |-> throws,
          code |-> IF response.json # Null /\ response.json.code # Null THEN response.json.code ELSE "HTTP"]

=============================================================================
