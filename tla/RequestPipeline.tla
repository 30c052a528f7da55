--------------------------- MODULE RequestPipeline ---------------------------
(***************************************************************************)
(* The life of HTTP requests inside OakBun, from the moment the global     *)
(* plugins are installed until the promise fetch() returned is settled:    *)
(* packages/core/src/app/index.ts, fetch() / the native Bun route handlers,*)
(* _runRoute() and the phases it calls.                                    *)
(*                                                                         *)
(* Each `await` of a user callback (hook, guard, plugin, handler) is one   *)
(* step, so concurrent requests interleave exactly where the event loop    *)
(* can switch between them.  The result of a callback is chosen freely:    *)
(* it may pass, answer with a Response, or throw.  What a Response holds   *)
(* is left out; only its origin is kept, in resp.                          *)
(***************************************************************************)
EXTENDS Naturals, Sequences, FiniteSets

CONSTANTS
  Requests,     \* identities of the requests
  Routes,       \* identities of the registered routes
  NoRoute,      \* no route is known (yet)
  RouteCfg,     \* [Routes -> RouteRecord]: what was declared for a route
  Plugins,      \* app.plugins in registration order, a sequence of PluginRecord
  Count,        \* how many callbacks the application registered per phase
  BuiltGuards,  \* the tiers whose guards are made with defineGuard()
  AppOnError,   \* whether app.onError() was called
  EmitPhases,   \* the phases whose callbacks call ctx.emit()
  MaxEvents,    \* bound: events one request collects
  Users,        \* what the auth adapter can answer, a subset of UserKinds
  Bus           \* "memory" (InMemoryEventBus) or "external" (EventBusAdapter)

UserKinds == {"null", "lacks", "has"}   \* no user; without, with a permission

GuardPhases  == {"pluginGuards", "moduleGuards", "routeGuards"}
ModulePhases == {"moduleOnRequest", "modulePlugins", "moduleGuards",
                 "moduleBeforeHandle", "moduleOnResponse"}
RoutePhases  == ModulePhases \cup GuardPhases
AppPhases    == {"onRequest", "plugins", "beforeHandle", "onResponse"}
\* The phases that loop over a list of callbacks.
LoopPhases   == AppPhases \cup RoutePhases
Phases       == LoopPhases \cup {"idle", "match", "permission", "validation",
                  "services", "handler", "onError", "flush", "emitting", "send", "settled"}

PluginRecord == [name: STRING, permissions: BOOLEAN, guards: Nat]
RouteRecord  == [owner: Nat,           \* index of the plugin that bundled it, 0: none
                 module: BOOLEAN, guardOptOut: BOOLEAN, schema: BOOLEAN,
                 responseSchema: BOOLEAN,
                 services: {"none", "fine", "circular"},
                 onError: SUBSET {"route", "module"}]   \* "module" only with a module

ASSUME ConfigAssumption ==
  /\ NoRoute \notin Routes
  /\ RouteCfg \in [Routes -> RouteRecord]
  /\ Plugins \in Seq(PluginRecord)
  /\ \A rt \in Routes : RouteCfg[rt].owner \in 0 .. Len(Plugins)
  /\ Count \in [LoopPhases -> Nat]
  /\ BuiltGuards \subseteq GuardPhases
  /\ AppOnError \in BOOLEAN
  /\ MaxEvents \in Nat
  /\ Users \subseteq UserKinds
  /\ Bus \in {"memory", "external"}

VARIABLES
  pc,          \* the phase a request is in
  at,          \* callbacks of this phase already run (onError: levels tried)
  route,       \* the matched route
  user,        \* ctx.user, as _createBaseCtx resolved it
  resp,        \* where the response came from, or why the promise rejected
  flushQueue,  \* whether _runOnResponse was handed the request queue
  queue,       \* the RequestEventQueue of the request
  outbox,      \* the array flush() spliced out of it and still has to emit
  collected,   \* history: events collected so far
  bus,         \* history: <<request, n>> for each event emitted, in order
  ran,         \* history: callbacks started
  passed,      \* history: callbacks that returned without blocking
  circularChecked   \* _serviceCircularChecked, shared by all requests

vars == <<pc, at, route, user, resp, flushQueue, queue, outbox, collected,
          bus, ran, passed, circularChecked>>

-----------------------------------------------------------------------------
(* What applies to a request *)

\* _pluginName: plugin() tags the routes it bundles when it declares
\* permissions or guards; plugins.find() then looks the name up again.
Tagged(rt) ==
  /\ RouteCfg[rt].owner # 0
  /\ \/ Plugins[RouteCfg[rt].owner].permissions
     \/ Plugins[RouteCfg[rt].owner].guards > 0

FindPlugin(name) ==
  CHOOSE i \in 1 .. Len(Plugins) :
    /\ Plugins[i].name = name
    /\ \A j \in 1 .. (i - 1) : Plugins[j].name # name

GatePlugin(rt) == FindPlugin(Plugins[RouteCfg[rt].owner].name)

Gated(rt) == Tagged(rt) /\ Plugins[GatePlugin(rt)].permissions

HasModule(r) == route[r] # NoRoute /\ RouteCfg[route[r]].module

\* How many callbacks the loop of phase ph runs for request r.
Callbacks(r, ph) ==
  IF \/ ph \in ModulePhases /\ ~HasModule(r)
     \/ ph = "moduleGuards" /\ RouteCfg[route[r]].guardOptOut
     \/ ph = "pluginGuards" /\ ~Tagged(route[r])
    THEN 0
    ELSE IF ph = "pluginGuards" THEN Plugins[GatePlugin(route[r])].guards
                                ELSE Count[ph]

\* The identity of the i-th callback of a phase: a plugin guard belongs to a plugin.
Callback(r, ph, i) ==
  <<ph, IF ph = "pluginGuards" THEN GatePlugin(route[r]) ELSE 0, i>>

AllCallbacks(r, ph) == {Callback(r, ph, i) : i \in 1 .. Callbacks(r, ph)}

\* _handleError: the levels of the cascade, innermost first.
Cascade == <<"route", "module", "app">>

HasOnError(r, level) ==
  IF level = "app" THEN AppOnError
                   ELSE route[r] # NoRoute /\ level \in RouteCfg[route[r]].onError

\* The phase that follows when a loop ends; a native Bun route has skipped matching.
After(r) ==
  CASE pc[r] = "onRequest"          -> IF route[r] = NoRoute THEN "match" ELSE "permission"
    [] pc[r] = "moduleOnRequest"    -> "plugins"
    [] pc[r] = "plugins"            -> "modulePlugins"
    [] pc[r] = "modulePlugins"      -> "validation"
    [] pc[r] = "pluginGuards"       -> "moduleGuards"
    [] pc[r] = "moduleGuards"       -> "routeGuards"
    [] pc[r] = "routeGuards"        -> "beforeHandle"
    [] pc[r] = "beforeHandle"       -> "moduleBeforeHandle"
    [] pc[r] = "moduleBeforeHandle" -> "handler"
    [] pc[r] = "onResponse"         -> "moduleOnResponse"
    [] pc[r] = "moduleOnResponse"   -> "flush"

-----------------------------------------------------------------------------
(* Steps of a callback loop *)

\* ctx.emit(), or a table hook, collects an event while a callback runs.
Collect(r) ==
  \/ UNCHANGED <<queue, collected>>
  \/ /\ pc[r] \in EmitPhases
     /\ collected[r] < MaxEvents
     /\ collected' = [collected EXCEPT ![r] = @ + 1]
     /\ queue' = [queue EXCEPT ![r] = Append(@, collected[r] + 1)]

\* The next callback starts; marks are further entries of the history.
StartMarked(r, marks) ==
  /\ at[r] < Callbacks(r, pc[r])
  /\ ran' = [ran EXCEPT ![r] = @ \cup {Callback(r, pc[r], at[r] + 1)} \cup marks]
  /\ Collect(r)
  /\ UNCHANGED <<route, user, flushQueue, outbox, bus, circularChecked>>

Start(r) == StartMarked(r, {})

Pass(r) ==
  /\ at' = [at EXCEPT ![r] = @ + 1]
  /\ passed' = [passed EXCEPT ![r] = @ \cup {Callback(r, pc[r], at[r] + 1)}]
  /\ UNCHANGED <<pc, resp>>

\* Mutant of Swallow: the loop is sent back instead of on.
SwallowBackwards(r) ==
  /\ at' = [at EXCEPT ![r] = @ - 1]
  /\ UNCHANGED <<pc, resp, passed>>

\* The error is swallowed and the loop goes on.
Swallow(r) ==
  /\ at' = [at EXCEPT ![r] = @ + 1]
  /\ UNCHANGED <<pc, resp, passed>>

GoTo(r, ph) ==
  /\ pc' = [pc EXCEPT ![r] = ph]
  /\ at' = [at EXCEPT ![r] = 0]

\* Mutant of Respond: the `return` is forgotten and the loop goes on.
RespondWithoutReturn(r, origin) ==
  /\ at' = [at EXCEPT ![r] = @ + 1]
  /\ resp' = [resp EXCEPT ![r] = origin]
  /\ UNCHANGED <<pc, passed>>

\* A Response is at hand: _runOnResponse takes over.
Respond(r, origin) ==
  /\ GoTo(r, "onResponse")
  /\ resp' = [resp EXCEPT ![r] = origin]
  /\ UNCHANGED passed

\* Something threw: _handleError takes over.
Raise(r) == GoTo(r, "onError") /\ UNCHANGED <<resp, passed>>

\* The promise of the request is rejected: nobody catches the error.
Reject(r, why) ==
  /\ GoTo(r, "settled")
  /\ resp' = [resp EXCEPT ![r] = why]
  /\ UNCHANGED passed

\* A loop has run all its callbacks.
EndLoop(r) ==
  /\ pc[r] \in LoopPhases
  /\ at[r] = Callbacks(r, pc[r])
  /\ GoTo(r, After(r))
  /\ UNCHANGED <<route, user, resp, flushQueue, queue, outbox, collected, bus,
                 ran, passed, circularChecked>>

-----------------------------------------------------------------------------
(* The phases *)

\* A request enters through fetch(), or through a native Bun route that is
\* already matched; the auth adapter resolves its user once.
Arrive(r) ==
  /\ pc[r] = "idle"
  /\ GoTo(r, "onRequest")
  /\ \E rt \in Routes \cup {NoRoute} : route' = [route EXCEPT ![r] = rt]
  /\ \E u \in Users : user' = [user EXCEPT ![r] = u]
  /\ UNCHANGED <<resp, flushQueue, queue, outbox, collected, bus, ran, passed,
                 circularChecked>>

\* _runGlobalOnRequest
GlobalOnRequest(r) ==
  /\ pc[r] = "onRequest"
  /\ Start(r)
  /\ Pass(r) \/ Respond(r, "early") \/ Raise(r)

\* fetch(): the route scan; a miss is answered with 404 or 405.
MatchRoute(r) ==
  /\ pc[r] = "match"
  /\ \/ /\ \E rt \in Routes : route' = [route EXCEPT ![r] = rt]
        /\ GoTo(r, "permission")
        /\ UNCHANGED <<resp, passed>>
     \/ /\ \E status \in {"404", "405"} : Respond(r, status)
        /\ UNCHANGED route
  /\ UNCHANGED <<user, flushQueue, queue, outbox, collected, bus, ran,
                 circularChecked>>

\* Mutant of PermissionGate: any user will do, hasPermission() is not asked.
GateOnUserOnly(r) ==
  /\ pc[r] = "permission"
  /\ IF Gated(route[r]) /\ user[r] = "null"
       THEN Raise(r)
       ELSE GoTo(r, "moduleOnRequest") /\ UNCHANGED <<resp, passed>>
  /\ UNCHANGED <<route, user, flushQueue, queue, outbox, collected, bus, ran,
                 circularChecked>>

\* _runPermissionGate: a gated route needs a user with one of the permissions.
PermissionGate(r) ==
  /\ pc[r] = "permission"
  /\ IF Gated(route[r]) /\ user[r] # "has"
       THEN Raise(r)
       ELSE GoTo(r, "moduleOnRequest") /\ UNCHANGED <<resp, passed>>
  /\ UNCHANGED <<route, user, flushQueue, queue, outbox, collected, bus, ran,
                 circularChecked>>

\* _runModuleOnRequest: what a hook throws is swallowed.
ModuleOnRequest(r) ==
  /\ pc[r] = "moduleOnRequest"
  /\ Start(r)
  /\ Pass(r) \/ Respond(r, "early") \/ Swallow(r)

\* _runPlugins: plugin.request() of the global, then of the module's plugins.
PluginRequest(r) ==
  /\ pc[r] \in {"plugins", "modulePlugins"}
  /\ Start(r)
  /\ Pass(r) \/ Raise(r)

\* _runValidation: the schemas of the route accept the request or raise.
Validate(r) ==
  /\ pc[r] = "validation"
  /\ \/ GoTo(r, "services") /\ UNCHANGED <<resp, passed>>
     \/ RouteCfg[route[r]].schema /\ Raise(r)
  /\ UNCHANGED <<route, user, flushQueue, queue, outbox, collected, bus, ran,
                 circularChecked>>

\* _runServices: the cycle check runs once per application, for the services
\* of the request that comes first; an error here is caught by nobody.
\* Instantiating services that depend on each other never ends: the stack overflows.
Services(r) ==
  LET declared == RouteCfg[route[r]].services
  IN /\ pc[r] = "services"
     /\ circularChecked' = (circularChecked \/ declared # "none")
     /\ \/ /\ declared \in {"none", "fine"}
           /\ GoTo(r, "pluginGuards")
           /\ UNCHANGED <<resp, passed>>
        \/ declared = "fine" /\ Reject(r, "serviceFailed")
        \/ /\ declared = "circular"
           /\ Reject(r, IF circularChecked THEN "stackOverflow" ELSE "circularDependency")
     /\ UNCHANGED <<route, user, flushQueue, queue, outbox, collected, bus, ran>>

\* Mutant of Guard: what a guard throws is swallowed, as for module hooks.
GuardSwallows(r) ==
  /\ pc[r] \in GuardPhases
  /\ Start(r)
  /\ Pass(r) \/ Respond(r, "guard") \/ Swallow(r)

\* _runGuards.  A guard made with defineGuard() returns null whatever its
\* check function returned; a guard that is a plain function is taken at its word.
GuardAnswered == <<"guardAnswered", 0, 0>>

Guard(r) ==
  /\ pc[r] \in GuardPhases
  /\ \/ Start(r) /\ (Pass(r) \/ Raise(r))
     \/ /\ StartMarked(r, {GuardAnswered})
        /\ IF pc[r] \in BuiltGuards THEN Pass(r) ELSE Respond(r, "guard")

\* Mutant of BeforeHandle: what a hook throws is swallowed.
BeforeHandleSwallows(r) ==
  /\ pc[r] \in {"beforeHandle", "moduleBeforeHandle"}
  /\ Start(r)
  /\ Pass(r) \/ Respond(r, "early") \/ Swallow(r)

\* _runBeforeHandle
BeforeHandle(r) ==
  /\ pc[r] \in {"beforeHandle", "moduleBeforeHandle"}
  /\ Start(r)
  /\ Pass(r) \/ Respond(r, "early") \/ Raise(r)

\* Mutant of Handler: the queue is handed to _runOnResponse on every path.
HandlerAlwaysFlushes(r) ==
  /\ pc[r] = "handler"
  /\ ran' = [ran EXCEPT ![r] = @ \cup {<<"handler", 0, 1>>}]
  /\ Collect(r)
  /\ flushQueue' = [flushQueue EXCEPT ![r] = TRUE]
  /\ Respond(r, "handler") \/ Respond(r, "500") \/ Raise(r)
  /\ UNCHANGED <<route, user, outbox, bus, circularChecked>>

\* _runHandler: only a response that survives its validation gets the queue.
Handler(r) ==
  LET cb == <<"handler", 0, 1>>
  IN /\ pc[r] = "handler"
     /\ ran' = [ran EXCEPT ![r] = @ \cup {cb}]
     /\ Collect(r)
     /\ \/ /\ GoTo(r, "onResponse")
           /\ resp' = [resp EXCEPT ![r] = "handler"]
           /\ flushQueue' = [flushQueue EXCEPT ![r] = TRUE]
           /\ passed' = [passed EXCEPT ![r] = @ \cup {cb}]
        \/ /\ RouteCfg[route[r]].responseSchema
           /\ Respond(r, "500")
           /\ UNCHANGED flushQueue
        \/ Raise(r) /\ UNCHANGED flushQueue
     /\ UNCHANGED <<route, user, outbox, bus, circularChecked>>

\* Mutant of OnError: the levels are tried from the application inwards.
OnErrorInwards(r) ==
  LET i == Len(Cascade) - at[r]
  IN /\ pc[r] = "onError" /\ at[r] < Len(Cascade)
     /\ IF HasOnError(r, Cascade[i])
          THEN /\ ran' = [ran EXCEPT ![r] = @ \cup {<<"onError", 0, i>>}]
               /\ Respond(r, Cascade[i]) \/ Swallow(r) \/ Reject(r, "onErrorRejected")
          ELSE Swallow(r) /\ UNCHANGED ran
     /\ UNCHANGED <<route, user, flushQueue, queue, outbox, collected, bus,
                    circularChecked>>

\* _handleError: one level of the cascade.  A handler that throws leaves the
\* error to the next level; a promise it returns is handed out as it is, so
\* one that rejects rejects the request.
OnError(r) ==
  LET level == Cascade[at[r] + 1]
  IN /\ pc[r] = "onError" /\ at[r] < Len(Cascade)
     /\ IF HasOnError(r, level)
          THEN /\ ran' = [ran EXCEPT ![r] = @ \cup {<<"onError", 0, at[r] + 1>>}]
               /\ Respond(r, level) \/ Swallow(r) \/ Reject(r, "onErrorRejected")
          ELSE Swallow(r) /\ UNCHANGED ran
     /\ UNCHANGED <<route, user, flushQueue, queue, outbox, collected, bus,
                    circularChecked>>

\* _handleError: no level answered, the built-in fallback does.
BuiltinError(r) ==
  /\ pc[r] = "onError" /\ at[r] = Len(Cascade)
  /\ Respond(r, "builtin")
  /\ UNCHANGED <<route, user, flushQueue, queue, outbox, collected, bus, ran,
                 circularChecked>>

\* Mutant of OnResponse: a throwing hook enters the error cascade again.
OnResponseRaises(r) ==
  /\ pc[r] \in {"onResponse", "moduleOnResponse"}
  /\ Start(r)
  /\ Pass(r) \/ Raise(r)

\* _runOnResponse: the hooks of the app, then of the module; errors are swallowed.
OnResponse(r) ==
  /\ pc[r] \in {"onResponse", "moduleOnResponse"}
  /\ Start(r)
  /\ Pass(r) \/ Swallow(r)

Entries(r, ns) == [i \in 1 .. Len(ns) |-> <<r, ns[i]>>]

\* _runOnResponse: the queue is spliced out.  The in-memory bus takes all its
\* events in one go; an external bus is awaited event by event.
Flush(r) ==
  /\ pc[r] = "flush"
  /\ IF ~flushQueue[r]
       THEN GoTo(r, "send") /\ UNCHANGED <<queue, outbox, bus>>
       ELSE /\ queue' = [queue EXCEPT ![r] = <<>>]
            /\ IF Bus = "memory"
                 THEN /\ bus' = bus \o Entries(r, queue[r])
                      /\ GoTo(r, "send")
                      /\ UNCHANGED outbox
                 ELSE /\ outbox' = [outbox EXCEPT ![r] = queue[r]]
                      /\ GoTo(r, "emitting")
                      /\ UNCHANGED bus
  /\ UNCHANGED <<route, user, resp, flushQueue, collected, ran, passed, circularChecked>>

\* Mutant of EmitNext: an emit that failed is swallowed and its event is lost.
EmitLosesFailed(r) ==
  /\ pc[r] = "emitting"
  /\ IF outbox[r] = <<>>
       THEN GoTo(r, "send") /\ UNCHANGED <<outbox, bus>>
       ELSE /\ bus' \in {bus, Append(bus, <<r, Head(outbox[r])>>)}
            /\ outbox' = [outbox EXCEPT ![r] = Tail(@)]
            /\ UNCHANGED <<pc, at>>
  /\ UNCHANGED <<route, user, resp, flushQueue, queue, collected, ran, passed,
                 circularChecked>>

\* RequestEventQueue.flush: await bus.emit() for the next event; if it rejects,
\* the rest of the events is dropped and the request is rejected.
EmitNext(r) ==
  /\ pc[r] = "emitting"
  /\ IF outbox[r] = <<>>
       THEN GoTo(r, "send") /\ UNCHANGED <<outbox, bus, resp>>
       ELSE \/ /\ bus' = Append(bus, <<r, Head(outbox[r])>>)
               /\ outbox' = [outbox EXCEPT ![r] = Tail(@)]
               /\ UNCHANGED <<pc, at, resp>>
            \/ /\ GoTo(r, "settled")
               /\ resp' = [resp EXCEPT ![r] = "emitRejected"]
               /\ outbox' = [outbox EXCEPT ![r] = <<>>]
               /\ UNCHANGED bus
  /\ UNCHANGED <<route, user, flushQueue, queue, collected, ran, passed, circularChecked>>

\* _runOnResponse: Set-Cookie headers are added and the Response is handed out.
Send(r) ==
  /\ pc[r] = "send"
  /\ GoTo(r, "settled")
  /\ UNCHANGED <<route, user, resp, flushQueue, queue, outbox, collected, bus,
                 ran, passed, circularChecked>>

-----------------------------------------------------------------------------
Init ==
  /\ pc = [r \in Requests |-> "idle"]
  /\ at = [r \in Requests |-> 0]
  /\ route = [r \in Requests |-> NoRoute]
  /\ user = [r \in Requests |-> "null"]
  /\ resp = [r \in Requests |-> "none"]
  /\ flushQueue = [r \in Requests |-> FALSE]
  /\ queue = [r \in Requests |-> <<>>]
  /\ outbox = [r \in Requests |-> <<>>]
  /\ collected = [r \in Requests |-> 0]
  /\ bus = <<>>
  /\ ran = [r \in Requests |-> {}]
  /\ passed = [r \in Requests |-> {}]
  /\ circularChecked = FALSE

Work(r) ==
  \/ GlobalOnRequest(r) \/ MatchRoute(r) \/ PermissionGate(r) \/ ModuleOnRequest(r)
  \/ PluginRequest(r) \/ Validate(r) \/ Services(r) \/ Guard(r) \/ BeforeHandle(r)
  \/ Handler(r) \/ OnError(r) \/ BuiltinError(r) \/ OnResponse(r) \/ EndLoop(r)
  \/ Flush(r) \/ EmitNext(r) \/ Send(r)

\* Every request was answered: the server goes on waiting.
AllSettled == (\A r \in Requests : pc[r] = "settled") /\ UNCHANGED vars

Next == (\E r \in Requests : Arrive(r) \/ Work(r)) \/ AllSettled

Spec == Init /\ [][Next]_vars

\* The event loop resumes every request whose awaited promise has settled.
Fairness == \A r \in Requests : WF_vars(Work(r))

FairSpec == Spec /\ Fairness

-----------------------------------------------------------------------------
(* Properties *)

Rejections == {"serviceFailed", "circularDependency", "stackOverflow",
               "onErrorRejected", "emitRejected"}
Origins    == {"none", "early", "404", "405", "guard", "handler", "500", "route",
               "module", "app", "builtin"} \cup Rejections

HandlerCall == <<"handler", 0, 1>>

Emitted(r) == {bus[i][2] : i \in {k \in 1 .. Len(bus) : bus[k][1] = r}}

\* The entries of the histories: a phase or a mark, a plugin (or 0), a position.
CallbackIds == (LoopPhases \cup {"handler", "onError", "guardAnswered"}) \X Nat \X Nat

\* Types of the variables.
TypeOK ==
  /\ pc \in [Requests -> Phases]
  /\ at \in [Requests -> Nat]
  /\ route \in [Requests -> Routes \cup {NoRoute}]
  /\ user \in [Requests -> UserKinds]
  /\ resp \in [Requests -> Origins]
  /\ flushQueue \in [Requests -> BOOLEAN]
  /\ queue \in [Requests -> Seq(1 .. MaxEvents)]
  /\ outbox \in [Requests -> Seq(1 .. MaxEvents)]
  /\ collected \in [Requests -> 0 .. MaxEvents]
  /\ bus \in Seq(Requests \X (1 .. MaxEvents))
  /\ ran \in [Requests -> SUBSET CallbackIds]
  /\ passed \in [Requests -> SUBSET CallbackIds]
  /\ circularChecked \in BOOLEAN

\* The callbacks that can stop a request, in the order the phases of _runRoute
\* give them (errors of module onRequest hooks are swallowed: they cannot).
Barriers == <<"onRequest", "plugins", "modulePlugins", "pluginGuards", "moduleGuards",
              "routeGuards", "beforeHandle", "moduleBeforeHandle">>

\* Whatever a tier runs, and the handler above all, every callback of every
\* earlier tier that applies to the route has passed: a guard, a hook or a
\* plugin that blocked stops the chain for good (docs/guides/02: "If any guard
\* returns a Response, the chain stops immediately - lower tiers never run").
NothingRunsBehindABlock ==
  \A r \in Requests : \A j \in 1 .. Len(Barriers) :
    (\E c \in ran[r] : c[1] = Barriers[j]) \/ HandlerCall \in ran[r] =>
      \A i \in 1 .. (j - 1) : AllCallbacks(r, Barriers[i]) \subseteq passed[r]

\* The handler runs behind all tiers, the last one included.
HandlerFullyGuarded ==
  \A r \in Requests : HandlerCall \in ran[r] =>
    \A j \in 1 .. Len(Barriers) : AllCallbacks(r, Barriers[j]) \subseteq passed[r]

\* The permission gate of a plugin's routes comes before every side effect of
\* plugins, guards, module hooks and the handler ("no plugin side-effects occur
\* for a request that will be blocked anyway").
GateBeforeSideEffects ==
  \A r \in Requests :
    (\E c \in ran[r] : c[1] \in LoopPhases \ {"onRequest", "onResponse", "moduleOnResponse"})
      => ~Gated(route[r]) \/ user[r] = "has"

\* A subscriber sees an event only of a request whose handler answered, whose
\* guards all passed and whose onResponse hooks have all run.
EventsOnlyAfterSuccess ==
  \A r \in Requests : Emitted(r) # {} =>
    /\ HandlerCall \in passed[r] /\ resp[r] \in {"handler", "emitRejected"}
    /\ \A ph \in {"onResponse", "moduleOnResponse"} : AllCallbacks(r, ph) \subseteq ran[r]

\* The events of a request leave in the order they were collected, none twice,
\* whatever other requests emit in between.
EmittedInOrder ==
  \A i, j \in 1 .. Len(bus) :
    i < j /\ bus[i][1] = bus[j][1] => bus[i][2] < bus[j][2]

\* When a request is answered, its events are all out or, if its handler did
\* not answer, none is: only a failing external bus leaves a part behind, and
\* then a prefix.
AllOrNothing ==
  \A r \in Requests :
    /\ \A n \in Emitted(r) : 1 .. n \subseteq Emitted(r)
    /\ pc[r] = "settled" /\ resp[r] # "emitRejected" =>
         Emitted(r) = IF resp[r] = "handler" THEN 1 .. collected[r] ELSE {}

\* The outbox of a request: nothing before success, all of it then, in order.
EventsKeepTheirPromise == EventsOnlyAfterSuccess /\ EmittedInOrder /\ AllOrNothing

\* An error is answered by the innermost level that has an onError handler which
\* does not throw: all levels inside it that have one were tried before.
InnermostOnError ==
  \A r \in Requests :
    \A i \in 1 .. Len(Cascade) : resp[r] \in {Cascade[i], "builtin"} =>
      \A j \in 1 .. Len(Cascade) :
        HasOnError(r, Cascade[j]) /\ (j <= i \/ resp[r] = "builtin")
          => <<"onError", 0, j>> \in ran[r]

\* A request that gets a Response, of whatever phase, has gone through every
\* onResponse hook of the app and of its route's module.
ResponsesAreHooked ==
  \A r \in Requests : pc[r] = "settled" /\ resp[r] \notin Rejections =>
    \A ph \in {"onResponse", "moduleOnResponse"} : AllCallbacks(r, ph) \subseteq ran[r]

\* Whatever level answers, an error goes outwards level by level and its
\* response through every hook.
ErrorsAreAnswered == InnermostOnError /\ ResponsesAreHooked

\* Once a response is decided nothing but onResponse hooks runs for the request,
\* and the decision stands: no guard, plugin or handler starts late.
DecisionIsFinal ==
  [][\A r \in Requests : resp[r] # "none" =>
       /\ \A c \in ran'[r] \ ran[r] : c[1] \in {"onResponse", "moduleOnResponse"}
       /\ resp'[r] \in {resp[r], "emitRejected"}
       /\ flushQueue'[r] = flushQueue[r]]_vars

\* Every request that arrives is settled, if the promises of its callbacks settle.
EveryRequestSettles ==
  \A r \in Requests : (pc[r] = "onRequest") ~> (pc[r] = "settled")

\* The abstract outbox, seen through the pipeline.
Outbox == INSTANCE EventOutbox WITH
  status    <- [r \in Requests |->
                  IF pc[r] = "settled" THEN "closed"
                  ELSE IF flushQueue[r] THEN "committed" ELSE "open"],
  staged    <- collected,
  published <- [r \in Requests |-> Cardinality(Emitted(r))],
  log       <- bus

\* Every behaviour of the pipeline is one of the outbox: staged, committed by
\* the handler, published in order, finished or abandoned.
ImplementsOutbox == Outbox!Spec

(* What documentation and comments claim, and the code does not do *)

\* app/index.ts:1271 "Always called - even on error paths - so onResponse truly
\* 'always runs'": no request ends without its app-level onResponse hooks.
OnResponseAlwaysRuns ==
  \A r \in Requests : pc[r] = "settled" => AllCallbacks(r, "onResponse") \subseteq ran[r]

\* docs/guides/01 "Error Cascade": an error goes on to the next level until
\* handled, the default handler last: onError never rejects a request.
CascadeEndsInAResponse == \A r \in Requests : resp[r] # "onErrorRejected"

\* docs/plugins/01 "Lifecycle": module-level onRequest hooks come after
\* plugin.request() of the app's plugins.
ModuleHooksFollowPlugins ==
  \A r \in Requests : (\E c \in ran[r] : c[1] = "moduleOnRequest") =>
    AllCallbacks(r, "plugins") \subseteq ran[r]

\* docs/guides/03: "Events are queued during the request and flushed **after**
\* the response is sent."
EventsFollowTheResponse ==
  \A r \in Requests : Emitted(r) # {} => pc[r] = "settled"

\* docs/guides/02: "a guard on plugin A never runs for plugin B's routes".
GuardsAreIsolated ==
  \A r \in Requests : \A c \in ran[r] :
    c[1] = "pluginGuards" => c[2] = RouteCfg[route[r]].owner

\* app/types.ts:305 "Throw any error or return a `Response` inside `fn` to block
\* the request": no handler runs after a guard's check function answered.
GuardResponsesBlock ==
  \A r \in Requests : GuardAnswered \in ran[r] => HandlerCall \notin ran[r]

\* docs/core/05: "OakBun detects circular dependencies at startup": none is left
\* to overflow the stack of a request.
CyclesAreDetected == \A r \in Requests : resp[r] # "stackOverflow"
=============================================================================
