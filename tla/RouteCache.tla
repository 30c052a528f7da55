----------------------------- MODULE RouteCache -----------------------------
(***************************************************************************)
(* The route table of an application and the cache in front of it:         *)
(* packages/core/src/app/index.ts, _addRoute(), register() and the route   *)
(* scan of fetch().  The scan and the update of the cache are one step:    *)
(* nothing is awaited in between.                                          *)
(***************************************************************************)
EXTENDS PathMatch

CONSTANTS
  Methods,     \* HTTP methods
  Patterns,    \* patterns of routes
  Paths,       \* paths of requests
  PathTexts,   \* texts of the segments of both
  MaxRoutes,   \* bound: routes registered
  CacheMax,    \* _ROUTE_CACHE_MAX
  DirectLate   \* whether app.get() & co. are called after the first request

ASSUME CacheAssumption == CacheMax \in Nat \ {0} /\ MaxRoutes \in Nat /\ DirectLate \in BOOLEAN

\* split("/") gives a segment at least; "/*" alone has none before the "*".
ASSUME PathAssumption ==
  /\ "" \in PathTexts
  /\ Paths \subseteq Seq(PathTexts) \ {<<>>}
  /\ Patterns \subseteq [segments : Seq(SegmentsOf(PathTexts)), wildcard : BOOLEAN]
  /\ \A p \in Patterns : p.wildcard \/ p.segments # <<>>

Routes == [method : Methods, pattern : Patterns]
Keys   == Methods \X Paths

VARIABLES
  routes,   \* the route table, in registration order
  cache,    \* _routeCache, oldest first: <<key, index of the route or 0 for null>>
  served,   \* whether a request was answered yet
  answers   \* history: the answer each key got last, <<index of the route, status>>

tableVars == <<routes, cache, served, answers>>

-----------------------------------------------------------------------------
Hits(key) == {i \in 1 .. Len(routes) : MatchPath(routes[i].pattern, key[2]).matched}

\* The scan: the first route of the method, in registration order; 0 if none.
Scan(key) ==
  LET own == {i \in Hits(key) : routes[i].method = key[1]}
  IN IF own = {} THEN 0 ELSE CHOOSE i \in own : \A j \in own : i <= j

Status(key) ==
  IF Scan(key) # 0 THEN "route" ELSE IF Hits(key) # {} THEN "405" ELSE "404"

Cached(key) == {i \in 1 .. Len(cache) : cache[i][1] = key}

\* A full cache drops its oldest entry.
Insert(key, hit) ==
  cache' = Append(IF Len(cache) >= CacheMax THEN Tail(cache) ELSE cache, <<key, hit>>)

-----------------------------------------------------------------------------
\* A request finds its key in the cache; null is answered with 404.
Hit(key) ==
  /\ \E i \in Cached(key) :
       answers' = [answers EXCEPT ![key] =
                     <<cache[i][2], IF cache[i][2] = 0 THEN "404" ELSE "route">>]
  /\ served' = TRUE
  /\ UNCHANGED <<routes, cache>>

\* A request that does not scans the table; what it found goes into the cache.
Miss(key) ==
  /\ Cached(key) = {}
  /\ answers' = [answers EXCEPT ![key] = <<Scan(key), Status(key)>>]
  /\ Insert(key, Scan(key))
  /\ served' = TRUE
  /\ UNCHANGED routes

\* Mutant of RegisterRoute: the cache is kept, as by AddRoute.
RegisterKeepsCache(route) ==
  /\ Len(routes) < MaxRoutes
  /\ routes' = Append(routes, route)
  /\ answers' = [key \in Keys |-> <<0, "none">>]
  /\ UNCHANGED <<served, cache>>

\* register(): a route of a module; the cache is cleared.
RegisterRoute(route) ==
  /\ Len(routes) < MaxRoutes
  /\ routes' = Append(routes, route)
  /\ cache' = <<>>
  /\ answers' = [key \in Keys |-> <<0, "none">>]
  /\ UNCHANGED served

\* _addRoute(): a route of the app itself; the cache is kept.
AddRoute(route) ==
  /\ Len(routes) < MaxRoutes
  /\ DirectLate \/ ~served
  /\ routes' = Append(routes, route)
  /\ answers' = [key \in Keys |-> <<0, "none">>]
  /\ UNCHANGED <<cache, served>>

TableInit ==
  /\ routes = <<>>
  /\ cache = <<>>
  /\ served = FALSE
  /\ answers = [key \in Keys |-> <<0, "none">>]

TableNext ==
  \/ \E key \in Keys : Hit(key) \/ Miss(key)
  \/ \E route \in Routes : RegisterRoute(route) \/ AddRoute(route)

TableSpec == TableInit /\ [][TableNext]_tableVars

-----------------------------------------------------------------------------
(* Properties *)

\* Types of the variables; the cache is a map with at most CacheMax keys.
TableTypeOK ==
  /\ routes \in Seq(Routes) /\ Len(routes) <= MaxRoutes
  /\ cache \in Seq(Keys \X (0 .. MaxRoutes)) /\ Len(cache) <= CacheMax
  /\ \A i, j \in 1 .. Len(cache) : cache[i][1] = cache[j][1] => i = j
  /\ served \in BOOLEAN
  /\ answers \in [Keys -> (0 .. MaxRoutes) \X {"none", "route", "404", "405"}]

\* A request is routed to the route a scan of the current table would find,
\* whether its key was cached before or after a module was registered.
CacheIsTransparent ==
  \A key \in Keys : answers[key][2] # "none" => answers[key][1] = Scan(key)

\* A pattern without "*" stands for the path (router.ts).
StandsFor(pattern, path) == ~pattern.wildcard /\ Fits(Sought(pattern), Given(path))

\* The route of an answer stands for the path, and every route of the method
\* that does so and was registered before has an optional parameter in front.
FirstFitIsServed ==
  \A key \in Keys : answers[key][2] # "none" =>
    LET found == answers[key][1]
        passed == IF found = 0 THEN 1 .. Len(routes) ELSE 1 .. found - 1
    IN /\ found # 0 => routes[found].pattern.wildcard \/ StandsFor(routes[found].pattern, key[2])
       /\ \A i \in passed :
            routes[i].method = key[1] /\ OptionalsLast(Sought(routes[i].pattern)) =>
              ~StandsFor(routes[i].pattern, key[2])

\* Types, a bounded map, answers that do not depend on it and that are those
\* the documentation of patterns promises.
CacheIsSound == TableTypeOK /\ CacheIsTransparent /\ FirstFitIsServed

\* tests/app/method-not-allowed.test.ts: "returns 405 when path matches but
\* method does not", however often it is asked.
MissesKeepTheirStatus ==
  \A key \in Keys : answers[key][2] # "none" => answers[key][2] = Status(key)

\* app/index.ts:531 "new routes may match previously-cached paths differently":
\* the cache never answers for an older table.
LateRoutesAreFound == CacheIsTransparent
=============================================================================
