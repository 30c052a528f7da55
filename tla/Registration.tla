---------------------------- MODULE Registration ----------------------------
(***************************************************************************)
(* What the calls that set an application up leave behind: plugin(),       *)
(* register(), use(), get(), cron(), registerWsAdapter() and ws() of       *)
(* app/index.ts.  Calls come in any order, a module object may be          *)
(* registered more than once and be listed by several plugins.             *)
(***************************************************************************)
EXTENDS Naturals, Sequences, FiniteSets, SequencesExt

CONSTANTS
  Modules,       \* built modules, by identity (ModuleBuilder)
  Plugins,       \* built plugins, by identity (ModuleBuilder)
  Services,      \* services there are: each has a key
  KeyOf,         \* the key of a service
  AppCalls,      \* the paths of app.get() calls
  None,          \* undefined
  MaxModules,    \* bound: register() calls, those of plugin() included
  MaxPlugins     \* bound: plugin() calls

\* What the builders return: lists, a name for every plugin.
List(s) == s \in Seq(ToSet(s))

ASSUME RegistrationAssumption ==
  /\ MaxModules \in Nat /\ MaxPlugins \in Nat /\ None \notin DOMAIN Modules
  /\ Services \subseteq DOMAIN KeyOf
  /\ \A m \in DOMAIN Modules :
       /\ List(Modules[m].routes) /\ List(Modules[m].wsRoutes) /\ List(Modules[m].hooks)
       /\ List(Modules[m].audits) /\ List(Modules[m].events) /\ List(Modules[m].crons)
       /\ Modules[m].services \in Seq(DOMAIN KeyOf)
       /\ \A job \in ToSet(Modules[m].crons) : job.services \in Seq(DOMAIN KeyOf)
  /\ \A p \in DOMAIN Plugins :
       Plugins[p].name # None /\ Plugins[p].modules \in Seq(DOMAIN Modules) /\ List(Plugins[p].requires)

VARIABLES
  app,           \* what the application holds
  refused        \* the codes of the errors calls have thrown

appVars == <<app, refused>>

-----------------------------------------------------------------------------
(* Helpers of the application *)

KeysIn(services) == {KeyOf[services[i]] : i \in DOMAIN services}

\* register() gives a job the services of its module, its own first.
\* Mutant of JobServices: the module's services come first.
JobServicesModuleFirst(job, module) ==
  module.services \o SelectSeq(job.services, LAMBDA s : KeyOf[s] \notin KeysIn(module.services))

JobServices(job, module) ==
  LET merged[n \in 0 .. Len(module.services)] ==
        IF n = 0 THEN job.services
        ELSE IF KeyOf[module.services[n]] \in KeysIn(job.services) THEN merged[n - 1]
        ELSE Append(merged[n - 1], module.services[n])
  IN merged[Len(module.services)]

\* The first declaration of each key, the module's before the global ones.
AllServices(module) ==
  LET declared == (IF module = None THEN <<>> ELSE Modules[module].services) \o app.services
      merged[n \in 0 .. Len(declared)] ==
        IF n = 0 THEN <<>>
        ELSE IF KeyOf[declared[n]] \in KeysIn(merged[n - 1]) THEN merged[n - 1]
        ELSE Append(merged[n - 1], declared[n])
  IN merged[Len(declared)]

\* A fetch() takes the first route that matches, the table for Bun's router
\* keeps the last of each path and method.
Matching(method, path) == {i \in DOMAIN app.routes : app.routes[i].method = method /\ app.routes[i].path = path}
FetchRoute(method, path) == CHOOSE i \in Matching(method, path) : \A j \in Matching(method, path) : i <= j
NativeRoute(method, path) == CHOOSE i \in Matching(method, path) : \A j \in Matching(method, path) : i >= j

\* The plugin whose guards and permissions a route is held to: the first of
\* its name.
GatingPlugin(route) ==
  LET named == {i \in DOMAIN app.plugins : Plugins[app.plugins[i]].name = route.plugin}
  IN IF route.plugin = None \/ named = {} THEN None
     ELSE app.plugins[CHOOSE i \in named : \A j \in named : i <= j]

-----------------------------------------------------------------------------
(* register() and plugin() *)

Mounted(m) ==
  LET module == Modules[m]
  IN [i \in DOMAIN module.routes |->
        [method |-> module.routes[i].method, path |-> <<module.prefix, module.routes[i].path>>,
         guards |-> module.routes[i].guards, optOut |-> module.routes[i].optOut, module |-> m, plugin |-> None]]

SocketPaths(m) == {<<Modules[m].prefix, path>> : path \in ToSet(Modules[m].wsRoutes)}

\* The adapter keeps a Map from full paths to sockets; of a socket the model
\* keeps the module it comes from.  A later socket of a path takes the place
\* of the earlier one.
NoSockets == [path \in {} |-> None]

RegisterRoutes(sockets, paths, owner) ==
  [path \in DOMAIN sockets \cup paths |-> IF path \in paths THEN owner ELSE sockets[path]]

AllMounted(modules) ==
  LET mounted[n \in 0 .. Len(modules)] ==
        IF n = 0 THEN NoSockets ELSE RegisterRoutes(mounted[n - 1], SocketPaths(modules[n]), modules[n])
  IN mounted[Len(modules)]

Registered(a, m) ==
  LET module == Modules[m]
      jobs == [i \in DOMAIN module.crons |->
                 [name |-> module.crons[i].name, module |-> m,
                  services |-> JobServices(module.crons[i], module)]]
  IN [a EXCEPT !.modules  = Append(@, m),
               !.hooks    = @ \o module.hooks,
               !.audits   = @ \o module.audits,
               !.routes   = @ \o Mounted(m),
               !.wsRoutes = IF a.wsAdapter THEN RegisterRoutes(@, SocketPaths(m), m) ELSE @,
               !.bus      = @ \o module.events,
               !.crons    = @ \o jobs]

\* A plugin that asks for something puts its name on its modules' routes,
\* unless another plugin's name is there.
\* Mutant of Tagged: every route of the module gets the name, tagged or not.
TaggedAgain(a, p, m) ==
  IF ~Plugins[p].gated THEN a
  ELSE [a EXCEPT !.routes = [i \in DOMAIN @ |->
                               IF @[i].module = m THEN [@[i] EXCEPT !.plugin = Plugins[p].name] ELSE @[i]]]

Tagged(a, p, m) ==
  IF ~Plugins[p].gated THEN a
  ELSE [a EXCEPT !.routes = [i \in DOMAIN @ |->
                               IF @[i].module = m /\ @[i].plugin = None
                               THEN [@[i] EXCEPT !.plugin = Plugins[p].name] ELSE @[i]]]

Missing(p) == ToSet(Plugins[p].requires) \ {Plugins[app.plugins[i]].name : i \in DOMAIN app.plugins}

\* One module of a plugin after the other.
Contributed(a, p) ==
  LET mods == Plugins[p].modules
      after[n \in 0 .. Len(mods)] ==
        IF n = 0 THEN [a EXCEPT !.plugins = Append(@, p)]
        ELSE Tagged(Registered(after[n - 1], mods[n]), p, mods[n])
  IN after[Len(mods)]

PluginCall(p) ==
  /\ Len(app.plugins) < MaxPlugins /\ Len(app.modules) + Len(Plugins[p].modules) <= MaxModules
  /\ Missing(p) = {}
  /\ app' = Contributed(app, p)
  /\ UNCHANGED refused

\* The error is thrown before anything is changed.
PluginRefused(p) ==
  /\ Missing(p) # {}
  /\ refused' = refused \cup {"PLUGIN_MISSING_DEP"}
  /\ UNCHANGED app

RegisterCall(m) ==
  /\ Len(app.modules) < MaxModules
  /\ app' = Registered(app, m)
  /\ UNCHANGED refused

-----------------------------------------------------------------------------
(* The other calls; use(), get() and cron() are made at most once each *)

UseCall(s) ==
  /\ s \notin ToSet(app.services)
  /\ app' = [app EXCEPT !.services = Append(@, s)]
  /\ UNCHANGED refused

\* app.get() and the other methods: no guard of their own is kept.
GetCall(path) ==
  /\ \A i \in DOMAIN app.routes : app.routes[i].module = None => app.routes[i].path # path
  /\ app' = [app EXCEPT !.routes = Append(@, [method |-> "GET", path |-> path, guards |-> <<>>,
                                              optOut |-> FALSE, module |-> None, plugin |-> None])]
  /\ UNCHANGED refused

CronCall(job) ==
  /\ \A i \in DOMAIN app.crons : app.crons[i].module # None
  /\ app' = [app EXCEPT !.crons = Append(@, [name |-> job.name, module |-> None, services |-> job.services])]
  /\ UNCHANGED refused

\* A new adapter gets the routes of the modules there are, not those of ws().
RegisterWsAdapter ==
  /\ app' = [app EXCEPT !.wsAdapter = TRUE, !.wsRoutes = AllMounted(app.modules)]
  /\ UNCHANGED refused

WsCall(path) ==
  /\ app.wsAdapter
  /\ app' = [app EXCEPT !.wsRoutes = RegisterRoutes(@, {path}, None)]
  /\ UNCHANGED refused

\* Thrown for want of an adapter.
WsRefused(path) ==
  /\ ~app.wsAdapter
  /\ refused' = refused \cup {"NO_WS_ADAPTER"}
  /\ UNCHANGED app

-----------------------------------------------------------------------------

AppInit ==
  /\ app = [plugins |-> <<>>, modules |-> <<>>, routes |-> <<>>, wsRoutes |-> NoSockets, wsAdapter |-> FALSE,
            hooks |-> <<>>, audits |-> <<>>, services |-> <<>>, bus |-> <<>>, crons |-> <<>>]
  /\ refused = {}

AppNext ==
  \/ \E p \in DOMAIN Plugins : PluginCall(p) \/ PluginRefused(p)
  \/ \E m \in DOMAIN Modules : RegisterCall(m)
  \/ \E s \in Services : UseCall(s)
  \/ \E path \in AppCalls : GetCall(path) \/ WsCall(path) \/ WsRefused(path)
  \/ \E m \in DOMAIN Modules : \E i \in DOMAIN Modules[m].crons : CronCall(Modules[m].crons[i])
  \/ RegisterWsAdapter

AppSpec == AppInit /\ [][AppNext]_appVars

-----------------------------------------------------------------------------
(* Properties *)

Owners     == DOMAIN Modules \cup {None}
RouteDecls == UNION {ToSet(Modules[m].routes) : m \in DOMAIN Modules}
Prefixed(m, paths) == {<<Modules[m].prefix, path>> : path \in paths}

AppRoute ==
  [method : {"GET"} \cup {r.method : r \in RouteDecls},
   path   : AppCalls \cup UNION {Prefixed(m, {r.path : r \in RouteDecls}) : m \in DOMAIN Modules},
   guards : {<<>>} \cup {r.guards : r \in RouteDecls},
   optOut : {FALSE} \cup {r.optOut : r \in RouteDecls},
   module : Owners,
   plugin : {Plugins[p].name : p \in DOMAIN Plugins} \cup {None}]
WsPaths    == AppCalls \cup UNION {SocketPaths(m) : m \in DOMAIN Modules}
AppSockets == UNION {[paths -> Owners] : paths \in SUBSET WsPaths}
AppJob ==
  [name     : {job.name : job \in UNION {ToSet(Modules[m].crons) : m \in DOMAIN Modules}},
   module   : Owners,
   services : Seq(DOMAIN KeyOf)]

Apps ==
  [plugins : Seq(DOMAIN Plugins), modules : Seq(DOMAIN Modules), routes : Seq(AppRoute),
   wsRoutes : AppSockets, wsAdapter : BOOLEAN,
   hooks : Seq(UNION {ToSet(Modules[m].hooks) : m \in DOMAIN Modules}),
   audits : Seq(UNION {ToSet(Modules[m].audits) : m \in DOMAIN Modules}),
   services : Seq(Services), bus : Seq(UNION {ToSet(Modules[m].events) : m \in DOMAIN Modules}),
   crons : Seq(AppJob)]

\* What is mounted or scheduled comes from a module that was registered or
\* from no module at all.
AppTypeOK ==
  LET owners == ToSet(app.modules) \cup {None}
  IN /\ app \in Apps
     /\ \A i \in DOMAIN app.routes : app.routes[i].module \in owners
     /\ \A path \in DOMAIN app.wsRoutes : app.wsRoutes[path] \in owners
     /\ \A i \in DOMAIN app.crons : app.crons[i].module \in owners
     /\ refused \subseteq {"PLUGIN_MISSING_DEP", "NO_WS_ADAPTER"}

Listing(m) == {p \in ToSet(app.plugins) : Plugins[p].gated /\ m \in ToSet(Plugins[p].modules)}
RoutePaths == {<<app.routes[i].method, app.routes[i].path>> : i \in DOMAIN app.routes}
Gated(i)   == LET m == app.routes[i].module IN Listing(m) = {} \/ GatingPlugin(app.routes[i]) \in Listing(m)

\* Whatever the order of the calls, the route fetch() picks is held to the
\* guards and permissions of a plugin that contributes its module, if there
\* is one (_runGuards and _runPermissionGate).
ServedRouteIsGated == \A r \in RoutePaths : Gated(FetchRoute(r[1], r[2]))

\* Claimed for every way in ("guards applied to all routes contributed via
\* .modules()", plugin.ts): the table for Bun's router keeps the last route
\* of a path, which a later register() of the module adds without a tag.
GatedBothWays == \A r \in RoutePaths : Gated(NativeRoute(r[1], r[2])) /\ Gated(FetchRoute(r[1], r[2]))

\* No call moves a route or takes it from one plugin to another.
TagsAreKept ==
  [][\A i \in DOMAIN app.routes :
       /\ app'.routes[i].module = app.routes[i].module
       /\ app.routes[i].plugin # None => app'.routes[i].plugin = app.routes[i].plugin]_appVars

\* A plugin's required plugins stand before it.
DependenciesPrecede ==
  \A i \in DOMAIN app.plugins :
    \A dep \in ToSet(Plugins[app.plugins[i]].requires) : \E j \in 1 .. i - 1 : Plugins[app.plugins[j]].name = dep

FirstOf(services, key) ==
  services[CHOOSE i \in DOMAIN services : KeyOf[services[i]] = key /\ \A j \in 1 .. i - 1 : KeyOf[services[j]] # key]

\* A job of a module gets the services it asked for itself, and for every
\* other key of its module the one the handlers of the module get.
JobsAgreeWithHandlers ==
  \A i \in DOMAIN app.crons :
    LET scheduled == app.crons[i]
    IN scheduled.module # None =>
         \E job \in ToSet(Modules[scheduled.module].crons) :
           /\ job.name = scheduled.name
           /\ \A key \in KeysIn(Modules[scheduled.module].services \o job.services) :
                FirstOf(scheduled.services, key) =
                  IF key \in KeysIn(job.services) THEN FirstOf(job.services, key)
                  ELSE FirstOf(AllServices(scheduled.module), key)

\* Every path a module declares a socket for is mounted, whichever came
\* first, the module or the adapter; there is the socket of the last module
\* that was registered with the path, or one of a later ws().
SocketsAreMounted ==
  app.wsAdapter =>
    \A i \in DOMAIN app.modules : \A path \in SocketPaths(app.modules[i]) :
      /\ path \in DOMAIN app.wsRoutes
      /\ \/ app.wsRoutes[path] \in {app.modules[i], None}
         \/ \E j \in i + 1 .. Len(app.modules) : path \in SocketPaths(app.modules[j])

\* Not so, and no run checks it: each module keeps its sockets (the test "is
\* registered when adapter is attached after module registration" has one
\* module).  Another module or a ws() of the path takes them without an error.
SocketsAreKept ==
  app.wsAdapter => \A i \in DOMAIN app.modules : \A path \in SocketPaths(app.modules[i]) :
                     app.wsRoutes[path] = app.modules[i]

\* Types, and an application wired as modules and plugins declare, whatever
\* the order of the calls.
WiredAsDeclared ==
  AppTypeOK /\ ServedRouteIsGated /\ DependenciesPrecede /\ JobsAgreeWithHandlers /\ SocketsAreMounted

\* plugin() does not look whether there is a plugin of the name already;
\* guards and permissions are found by name.
PluginNamesDiffer == \A p, q \in DOMAIN Plugins : Plugins[p].name = Plugins[q].name => p = q

=============================================================================
