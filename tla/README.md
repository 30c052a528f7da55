# A TLA+ development of OakBun

OakBun (`src/packages/core` and its companion packages) is a Bun-native web
framework: an application object holds routes, plugins, modules, hooks, guards,
jobs and a database, and turns each HTTP request into a chain of awaited
callbacks. This directory models it where its correctness depends on the
*order* of things (what runs before what, what a failure leaves behind, what
two requests, two processes or a retry do to state they share), and where a
pure algorithm has many cases that must fit together.

Paths below are relative to `src/packages/core/src/` unless they start with
`packages/` or `docs/`.

## 1. Inventory

| Component | State it keeps | Operations | Interacts with | Hard behaviour | Correct when |
|---|---|---|---|---|---|
| Request pipeline (`app/index.ts` `fetch`, `_runRoute`, `_run*`, `_handleError`) | per request: context, queue, cookies, response; shared: `_serviceCircularChecked` | fourteen phases of callbacks, error cascade, response hooks | everything below: plugins, guards, services, events | each phase awaits user code that may pass, answer or throw, while other requests run | nothing runs behind a block; every response is hooked; every request settles |
| Request event queue (`events/index.ts`) | array of collected events | `collect`, `flush` (splices, then awaits the bus), `drain` | database hooks and `ctx.emit` collect; `_runOnResponse` flushes | an external bus is awaited per event and may fail half way | events leave only after success, in order, all or none |
| Event handlers and buses (`events/handler.ts`, `events/index.ts`) | subscriptions | `defineEventHandler`, `on`, `events`, `emit` | queue, services | fire-and-forget handlers; builders that share a map | every listener gets every event, with the services it asked for |
| Route cache and router (`fetch`, `app/router.ts`) | `Map` of at most 500 entries; compiled routes | lookup, scan, insert, FIFO eviction, invalidation by `register` | registration, pipeline | what a cached miss means later; late registration | a cached answer equals the one of a fresh scan |
| Modules and registration (`app/module.ts`, `app/plugin.ts`, `plugin`, `register`, `use`, `ws`, `cron`) | lists of routes, plugins, modules, jobs, sockets; tags on routes | builder calls, application calls in any order | pipeline, router, Bun's router, cron | one module object in several plugins; two routing tables | a route of a gated module is gated; jobs and sockets get what the module declares |
| Plugin installation (`_ensurePluginsInstalled`, `_runPlugins`) | `installedPlugins`, `installPromise`, module-plugin set, pending audits | install on first request, retry after failure, optimistic module install | every request awaits it; audit wiring; `close` | concurrent first requests, a failed install retried, a request that overtakes an install | each plugin is installed before it serves, one installation at a time |
| Server lifecycle (`listen`, `close`, `_buildBunRoutes`) | Bun server, cron timers, adapters | listen, close, signals | plugins, cron | close while jobs run, two closers | every plugin is torn down, last first, whatever throws |
| Transactions and database access (`db/index.ts`, `adapter/*.ts`) | one connection (SQLite) or a pool (Postgres, MySQL); event queue of the transaction; statement cache | `insert`, `insertMany`, `update`, `updateMany`, `delete`, `softDelete`, `transaction`, eager loading | hooks, audit rows, request queue | `BEGIN` on a connection other requests share; a pool that runs out; hooks between read and write | a transaction is atomic; its events exist only if it commits; nobody waits forever |
| SQL building (`db/sql.ts`, `SelectBuilder`) | conditions collected by a builder | `where`, `whereRaw`, groups, pages, `withDeleted`, terminals | adapters | marks and parameters in step, groups, soft deletes, raw fragments | a query selects the rows the calls describe |
| Rows and tables (`schema/*.ts`, `InsertBuilder`, relation loading) | – | defaults, serialization, column mapping, relations | SQL building, resources | renamed columns, typed values, absent keys | what is inserted comes back; relations are attached to their rows |
| Hook executor (`hooks/executor.ts`) | registry of module hooks | before- and after-hooks of a table | database layer, plugins | a hook that throws stops the write or leaves it behind | before-hooks precede the statement, events follow the after-hooks |
| Audit wiring (`app/audit-wiring.ts`) | hooks registered per declaration | wire once, write an audit row per change | database layer | audit row versus rollback, and its own connection | one row per change; wired once |
| Cron scheduler (`cron/index.ts`, `_scheduleCrons`) | timers, distributed lock | schedule, run, acquire, release | lock server, database | lock expires while the job runs; several instances; crashes | one instance runs a job at a time, unless a run outlives the lock |
| Rate limiter (`app/rate-limit.ts`) | map of counters with expiry, at most `maxEntries` | increment, sweep, evict, reset | pipeline | the window boundary and the full map | no more than the limit in a window; nobody refused without cause |
| Services and models (`service/index.ts`, `model/index.ts`) | per-request instance cache | cycle check, instantiate | pipeline, jobs, event handlers | dependency order, cycles, keys that clash | each service is made once, after its dependencies |
| Migrations (`db/migrations/*`, `cli/commands/migrate/*`) | migration files, tracking table | run, status, rollback | database | a statement fails in the middle; two deployments migrate at once | the table says what was executed; nothing is repeated without cause |
| Schema tools (`db/migrations/diff.ts`, `generator.ts`, introspection) | – | introspect, compare, print SQL, split a file | migrations | three dialects, irreversible statements | applying the diff leaves nothing to do; a file is cut at its free semicolons |
| WebSocket plugin (`packages/ws`) | per connection: data, rate window | upgrade, message, close | pipeline (`onRequest`), Bun server | upgrade awaits plugins while other requests of the key are counted | a socket opens behind limiter and plugins; messages are limited |
| Resources (`resource/*.ts`) | none of their own | index, show, store, update, destroy | models, validation, guards | look, load and write are three statements | what is answered was so; a deletion lasts |
| JWT and auth packages | none of their own | sign, verify; conditions on tables; permissions and navigation | pipeline, database | operators and connectors, time boundaries | a request without a good token has no user; a condition means what it says |
| HTTP middleware plugins (`cors`, `csrf`, `compression`, `cookies`, …) | headers of one request | request and response hooks | each other, by the headers they share | any order of any of them | one encoding; headers survive other hooks |
| OpenAPI, Scalar, typed client | none | generate a document; build requests, read answers | routes | what the document says versus what the routes do | documented input is accepted; a call reaches its route |
| CLI, logger, errors | none that is shared | straight-line | – | – | – |

Where the hazards bite, line by line, is listed in `PROJECT.json` under
"hazards", with the properties that cover each.

## 2. Structure

| Module | Models | Composes / implements |
|---|---|---|
| `RequestPipeline` | a request from arrival to response, with its events | implements `EventOutbox` |
| `PluginInstall` | lazy installation, its callers and retries | – |
| `PathMatch`, `RouteCache` | `matchPath()`; the route table and its cache | `RouteCache` extends `PathMatch` |
| `SqliteTx` | writes and transactions on one connection | implements `WriteStore` |
| `PooledTx` | writes and transactions on a pool | – |
| `CronJobs` | jobs, their lock, `listen()` and `close()` of several instances | – |
| `Migrator` | commands of several deployments on one database | – |
| `RateLimit`, `WebSocket` | the limiter; sockets that are opened behind it | `WebSocket` extends `RateLimit` |
| `ModuleBuilder`, `Registration` | builders; the application they are given to | `MCRegistration` composes both |
| `Resource` | the five routes of a table under concurrent requests | – |
| `QueryBuilder`, `TableRows`, `SchemaTools`, `StatementCache` | algorithms of the database layer | `MCDatabase`, `MCAlgorithms` |
| `Services`, `EventHandlers` | what factories and listeners are given | `MCAlgorithms` |
| `HttpHooks`, `ZodSchemas`, `Client` | middleware, validation, document and client | `MCAlgorithms` (`Client` extends `PathMatch`) |
| `Auth`, `Jwt` | adapter, permissions, navigation; tokens | `MCAuth` |
| `MCAlgorithms` | one state per input of a pure algorithm | extends `MCDatabase` and `MCAuth` |
| `MC*` | instances and, for algorithms, reference definitions | – |
| `RequestPipelineProofs`, `FetchProofs`, `SqliteTxProofs`, `PooledTxProofs`, `CronJobsProofs`, `MigratorProofs`, `ResourceProofs`, `WebSocketProofs` | – | theorems, each about the module it extends; `FetchProofs` extends `PluginInstall`, `RouteCache` and `Registration`, which share no state, and `PathMatch`, `Client` and `StatementCache`, which have none |

Modules that have theorems use no recursive operators and take their parameters
as constants with a named assumption; a loop of the code is a recursive function
in a `LET`. Recursive operators are only in `QueryBuilder`, `Services`,
`ZodSchemas` and `MCDatabase`, which are for model checking. Worth proving next:
what `EventHandlers` says of listeners, and the cycle check of `Services` once its
walk is a recursive function.

## 3. Modules and the code

The TLA+ definitions keep the names of the source where they can; the exact
lines of each are in `PROJECT.json` under "map".

**`RequestPipeline`** – one request is one process. `pc` is the phase of
`_runRoute` it is in, `at` the index of the loop over that phase's callbacks,
`resp` where its `Response` came from or why its promise was rejected. One step
is one awaited callback, which passes, answers or throws; between two steps any
other request may move, as on the event loop. `Arrive` stands for
`_createBaseCtx` (which resolves `ctx.user` once), and starts either in
`fetch()` (no route yet) or in a native Bun route handler (route known, matching
skipped). `PermissionGate`, `ModuleOnRequest`, `PluginRequest`, `Validate`,
`Services`, `Guard`, `BeforeHandle`, `Handler` are the methods of those names
in call order; `OnError` is one level of `_handleError`, `BuiltinError` its
fallback; `OnResponse`, `Flush`, `EmitNext`, `Send` are `_runOnResponse` and
`RequestEventQueue.flush`. The configuration of the application (routes, their
modules and plugins, number of callbacks) is constant. `ran` and `passed`
record which callbacks were started and which let the request pass. Left out:
the contents of requests and responses, cookies, and `Object.assign` onto the
context.

**`EventOutbox`** – what a subscriber may rely on: staged, committed by the
handler, published in order, or abandoned. `RequestPipeline!Outbox` is the
refinement mapping (`status` from `pc` and `flushQueue`, `log` from the events
the bus has seen).

**`PluginInstall`** – callers are requests and `listen()`. `runs` is the list of
executions of the asynchronous block in `_ensurePluginsInstalled`; `current` is
`installPromise`, `holds` the promise each caller awaits, `installed` the flag
`installedPlugins`. `Ensure` is the method up to its first `await`, `Behind` and
`Continue` the loop between two awaits, `Resume` the code after the await
(including the `installPromise = null` of the starter). The second half is the
lazy installation of module plugins in `_runPlugins`, where the name is marked
(`marked`) before `install()` is awaited. `listen()` also captures the adapter
for the cron jobs.

**`RouteCache`, `PathMatch`** – `routes` and `cache` are the fields of that name;
a lookup, the scan and the insertion are one step because nothing is awaited in
between. `MatchPath` translates `matchPath()`: a path is a sequence of segments,
a pattern a sequence of literals, parameters and optional parameters with a
wildcard flag; `MatchSegments` is its loop, `Fits` says what a pattern stands for
without one. `PathTexts` is what segments are made of. `FirstFitIsServed` says of
every answer what the router promises, cache or no cache: it is the first route
of the table that the path fits (`StandsFor`). Native Bun routes, which bypass the cache, are part of
`RequestPipeline!Arrive` and `Registration!NativeRoute`.

**`SqliteTx`, `WriteStore`** – one client is one request that calls the builders
of `db/index.ts`. `db` is what the single connection of `SQLiteAdapter` sees,
`saved` what `ROLLBACK` returns to, `open` who ran `BEGIN`. Each builder call is
`Choose`, `Read` (the `SELECT` of `update`, `delete`, `updateMany`), `Execute`
(the statement), then per row `AuditAndCollect` (the audit hook and the event).
Hooks are the gaps between these steps, and `Fail` is any of them, or the
statement, throwing; the code of the request may catch it. `Begin`,
`BeginFails`, `Commit`, `Rollback` are `SQLiteAdapter.transaction`, with what
`BoundOakBunDB.transaction` and `updateMany` do with their event queue. Rows
have a state but no columns; a write is identified by client, operation and row.
`WriteStore` is what remains without builders, hooks and events: one
transaction at a time, everything written meanwhile shares its fate, and what
is committed stays. Left out: a handler that uses `ctx.db` instead of the bound
database inside its own transaction.

**`PooledTx`** – the same on the Postgres and MySQL adapters. `sql.begin()`
reserves a connection (`Reserve`), plain statements and audit hooks have one
while they run (`Acquire`, `Free`); a row that is written stays locked until its
transaction ends, and a circle of waiting transactions is broken by the server
(`Deadlocked`, `RunFails`). `Nest` is `transaction()` inside `transaction()`,
which runs on the same connection without a savepoint: one that fails and is
caught leaves its writes in the outer transaction and loses its events. One that
resolves hands its events to its caller (`Leave`), in a `TransactionResult` of
its own that nothing merges into the outer queue; the caller may drop them, return
them to the handler, or flush them on the spot (`FlushInner`), before the outer
transaction has ended, and `early` remembers these. A
statement that fails dooms the transaction on Postgres even if the handler
catches the error; the `COMMIT` then rolls back and says nothing, so its events
leave all the same. `swallowed` remembers these. Audit hooks inside a
transaction need a second connection: with as many audited transactions under
way as connections everybody waits forever, which is why `RequestsEnd` has a
premise.

**`CronJobs`** – an instance has timers and concurrent runs (croner does not
guard against overlap). A run is `Fire`, `Acquire`, `HandlerEnds`, `Release`,
with the lock adapter as docs/guides/07-cron-jobs.md builds it on Redis: set if
absent with an expiry, delete by name. Time is a tick in which locks count down
and runs up. `Close` and `Teardown` are `close()` called by a signal (followed
by `Exit`) or by user code; `Crash`, `Restart` and failures of the lock server
are bounded faults. `overdue` and `leaked` remember why a lock may be wrong.

**`Migrator`** – one deployment is one process that runs `migrate:run` or
`migrate:rollback`. Every await is a step: reading the directory, the tracking
table, each statement, the insertion, each hook; any of them may fail (`Fail`,
`OnError`) and the process may be killed (`Kill`). Files are numbers in name
order; `Write` adds one while commands run. `table` holds the id of each file's
row, `listed` and `queue` what `readMigrationFiles()` returned and what of it is
still pending (sets: both are sorted by name, so the loop takes the least,
`current`), `result` the last entry of the results, which is all a run says
differently from one that succeeds. `effects` counts how often the database
executed each statement; `excused`, `raced`, `late` remember what may excuse a
repetition.

**`RateLimit`, `WebSocket`** – `increment()` awaits nothing before it has updated
the map, so a request is one step: sweep (or not, it is probabilistic), evict,
count. `entries` is a sequence because ties are broken by insertion order; what a
sweep, an eviction or a reset deletes is named by position (`Kept`). `passes`,
`until` and `forgotten` are history: when a key's requests passed, what it was
told, and whether a counter inside its window was given up, which the cap and
`reset()` may do.
`WebSocket` adds `handleUpgrade()` (one step per awaited plugin, then
`server.upgrade`) behind that hook, the gates of a message and its limit.
`ticket` is history: which of the passes of its key an upgrade request was, or 0.
Handlers of a socket are started and not awaited; how they overlap is left out.

**`ModuleBuilder`, `Registration`** – builders return records; the application
is a record of lists and this function. `Contributed` is the loop of `plugin()` over its modules,
each registered and then tagged, and `AllMounted` the one a new WebSocket adapter
makes over the modules there are. The adapter keeps a Map, so `wsRoutes` is a
function from full paths to the module whose socket is there (`RegisterRoutes`). `RegisterCall`, `PluginCall`, `UseCall`, `GetCall`,
`CronCall`, `RegisterWsAdapter`, `WsCall` are the calls, in any order.
`FetchRoute` is the route `fetch()` finds, `NativeRoute` the one Bun's table
holds, `GatingPlugin` the plugin whose guards and permissions apply.

**`Resource`** – a call is `Start` (guards, validation), `Check` (the look of
`show`), `Load` (the row again, by the builder), `Write`, `Reread`; the steps of
other requests fall between. `options` is how the resource was configured.

**Pure algorithms.** `QueryBuilder` builds SQL as tokens with the parameters of
their question marks, then evaluates it on rows with three-valued logic;
`MCDatabase` holds what the calls mean (`Means`, `Restricts`). `TableRows`
translates declarations, defaults, serialization, inserts, updates and the two
ways relations are loaded, `loadRelation()` by mapped names and `with()` by keys; `SchemaTools` introspection, comparison, generation and file splitting
for three dialects, with a database that executes the statements; `StatementCache`
the Map of prepared statements, `Prepare` by `Prepare` (`CacheAfter`); `Services` the cycle check and the instantiation;
`EventHandlers` builders, subscriptions and delivery; `HttpHooks` each
middleware plugin and the chains; `ZodSchemas` parsing, the schemas derived
from a table, the JSON schema that documents them and the OpenAPI document;
`Client` the two clients; `Auth` conditions, statements, permissions and the
menu; `Jwt` tokens at every instant. Zod, the database and better-auth are
modelled only as far as this code uses them and are marked external in the map.

## 4. Runs, bounds and what they show

Properties that the runs check are conjunctions of named parts, each stated
above it in its module; a row names the parts in words.

| Run | Instance | States | Shows |
|---|---|---|---|
| `pipeline_guards` | one request; four routes (gated plugin route with all phases, a `guard: false` sibling, a plain route, a route with cyclic services); one callback per phase, two for plugins and module guards | 13,109 | no callback runs behind one that blocked; the permission gate precedes every side effect; the innermost working `onError` answers and every `Response` passes the hooks (`ErrorsAreAnswered`); a decision is final; every request settles |
| `pipeline_events` | two requests, three events each, an external bus that may reject | 200,771 | events leave only after success, in order, completely or as a prefix (`EventsKeepTheirPromise`); `EventOutbox` is implemented |
| `install_race` | three requests and `listen()`, three plugins of which two install, the first the `dbPlugin`, one module plugin, one audit, two failures | 171,504 | one installation at a time, failures forgotten, audits and module plugins wired once (`InstalledOnce`); nobody served before it; every caller resumes |
| `route_cache` | four overlapping patterns, three paths, two methods (six keys), two routes, a cache of two entries | 108,083 | a cached answer names the route a scan would find, which is the first one the path fits, through evictions and registrations (`CacheIsSound`) |
| `sqlite_tx` | two requests, one with two write operations and one with one, one row | 662,548 | transactions are atomic whatever others do on the connection and their events follow the commit; events and audit rows of undisturbed requests are about changes that are there; `WriteStore` is implemented; no transaction stays open |
| `pooled_tx` | two requests of two operations or nested transactions, two rows; a pool of one, and an audited one of three | 958,290 | atomicity, no event for what was rolled back unless the server doomed it silently or the callback flushed a nested result itself; every request ends if there are connections enough |
| `cron_jobs` | two instances, one job with `runOnStart`, three concurrent runs, a lock of two ticks, two plugins, two closers, two faults | 90,883 | two runs hold a lock only after one outlived it, none leaks but by a fault, holders keep theirs (`LocksHold`); teardown is complete and in reverse; jobs recover from crashed holders |
| `migrator` | two deployments, three files, one written late and one of two statements that cannot be repeated; three runs, a rollback, a fault | 425,412 | the table says what was executed, once, and is repaired only after trouble (`TrackingIsTrue`); a run stops at its first error and success means up to date (`RunsAreHonest`); commands end |
| `websocket` | five clients behind a proxy, three keys, three requests, a map of two entries, a limit of one per two ticks, two sockets of one key, three messages on one of them | 668,130 | at most twice the limit in any window and a bounded map (`LimitsHold`); who is refused had used up the limit, expired counters go first (`RefusalsAreFair`); a socket opens behind all plugins, on a pass of the limiter that is its own |
| `registration` | two modules with a socket of one path, three plugins, two services of one key, all orders of up to three `plugin()` and `register()` calls with the others between | 103,536 | the route `fetch()` picks is gated, dependencies precede, jobs agree with handlers, of a socket's path the last declaration is mounted (`WiredAsDeclared`); tags stay |
| `resource` | three requests, two ids, four configurations, patches of nothing, one and both fields | 125,500 | every answer was true at some time during the call, what was destroyed is gone (`AnswersFitTheTable`); ids are not reused, hidden rows untouched, overlapping patches keep each other's fields (`RowsChangeAsAsked`) |
| `algorithms` | one state per input | 448,540 | below |

The inputs of `algorithms`: every pattern and path of up to three segments over
two names (`PathsMatch`); chains of up to two `where()` calls with groups, raw
fragments, pages and soft deletes, on all small tables, and sequences of
statements longer than the cache (`QueriesAskForTheRows`); rows of every column
type, with defaults, absent and undefined keys and renamed columns, and
relations with and without renamed columns, loaded both ways (`RowsAreKept`); pairs of schemas of up to two columns in three dialects, file
lists, and texts cut at semicolons (`MigrationsConverge`); service graphs with
cycles and keys that clash, listeners and handlers (`EveryoneGetsTheirs`); every
order of up to three response hooks with browsers that accept or refuse
encodings, origins and tokens, and three pages of one browser that load at once,
in every order of their requests and answers (`HooksCompose`); two users with
every pair of conditions and write, patches of the fields they ask for included, sessions with every set of permissions, tokens at every
instant (`AccessIsRight`); schemas of every type with checks at their
boundaries, alone and repeated, and defaulted fields, sets of routes, calls of the clients (`InterfacesAgree`).

Why the bounds are enough. Requests of the pipeline share only
`_serviceCircularChecked` and the bus, so one request explores every path
through the phases and two are enough to interleave on the bus; two callbacks in
one phase distinguish "the first blocked" from "the last blocked", and
`HandlerGuarded` and `ChainStops` are proved for any number. Three callers are
the fewest in which a starter, a waiter and a late retrier differ. Two failures
let a retry fail, too. A cache of two entries with six keys evicts and is hit
after eviction. Two operations in a transaction are needed for a partial one,
and a single operation of another request falls into it at every point. Two
pooled transactions and two rows are enough for a deadlock, one connection for
a wait, and three for two audited transactions to be safe. A lock of two ticks
can expire during a run and during another's, two instances and a second run of
one are the fewest that can delete each other's lock. Two deployments, of which
one may be anywhere in a run, exhaust what a third one could see, because they
share only the table and the database. A map of two counters and three keys
evicts with and without expired ones; a limit of one makes each boundary a
single step, and three requests of a key are the fewest that could be one too
many in a window. Two sockets of one key could share a pass; messages of one
say what there is to say of both. A deletion between a look and a write, and a third request that
changes the row meanwhile, are three requests.

`MaxFailures`, `MaxEvents`, `MaxRoutes`, `MaxOps`, `MaxFaults`, `MaxRuns`,
`MaxRollbacks`, `MaxCalls`, `MaxTime`, `MaxMessages`, `MaxId`, `MaxModules`,
`MaxPlugins`, `Slots` and one transaction per request are bounds of the model,
not of the code; `CacheMax` and `MaxEntries` are limits of the code (500, 100,000
by default), made small. `DirectLate = FALSE` in `route_cache` keeps
`app.get()` after the first request out, where the claim fails (section 7).

`CHECK_DEADLOCK FALSE` stands where the system may stop: all callers, requests
or commands are done, or the bounds are used up. `RequestPipeline` has an
explicit idle step instead.

## 5. Fairness

`FairSpec` of each module assumes weak fairness of the steps the event loop
takes once the promise it waits for has settled: it resumes a continuation
that is due.

* `RequestPipeline`, `SqliteTx`, `PooledTx`: the next step of each request that
  has started. The operations a handler chooses are not fair, committing and
  returning are: that user code settles in the end is an assumption about the
  application, the code has no timeouts for it. Without it a handler that
  never resolves blocks only its own request, except inside a SQLite
  transaction, which then stays open, and a reserved connection of a pool,
  which is then lost.
* `PluginInstall`: the installation, resumed callers, and requests behind it.
  Arrivals, `listen()` and `register()` are not fair.
* `CronJobs`: the clock, the timers (`Fire`), the steps of a run and those of
  `close()` once called. Crashes, restarts, calls of `close()` and of `listen()`
  are not fair; `JobsRecover` therefore has as its premise an instance that
  keeps its timers.
* `Migrator`: the steps of a command once started. Commands, kills and files
  are not fair.

The modules without liveness properties have no fairness.

## 6. What is proved

Every theorem holds for every value of the constants that satisfies the
assumption named in its module: any number of requests, routes, plugins, rows,
connections, instances, deployments or files, and any bound. Each is proved
from an inductive invariant that TLC had found true on the run's instance; the
proofs have one step per action and, under it, one per part the action can
disturb.

| Module | Theorem | States | Why the property alone is not inductive |
|---|---|---|---|
| `RequestPipelineProofs` | `TypeCorrect` | `TypeOK` | a loop's length is defined by the route, so beyond `match` there must be one (`Routed`) |
| | `HandlerGuarded`, `ChainStops` | `HandlerFullyGuarded`, `NothingRunsBehindABlock` | it says what has run, not where the request stands: `Chain` below |
| | `GateFirst` | `GateBeforeSideEffects` | whoever is behind the gate was admitted (`Gate`), whether or not anything has run yet |
| | `FinalDecision` | `DecisionIsFinal` (a property of steps) | a response is decided only in the closing phases (`Decision`) |
| | `AnswersAreOrderly` | `ErrorsAreAnswered` | while an error travels, the levels inside were tried (`Tried`); while hooks run, those up to `at` have run (`Hooked`) |
| | `EventsAreKept` | `EventsKeepTheirPromise` | what is sent, in `outbox` and in `queue` are consecutive pieces of what was collected (`Events`) |
| | `OutboxImplemented` | `ImplementsOutbox` | each step is one of `EventOutbox`, or none, under the mapping; uses `Events` |
| `FetchProofs` | `TypeCorrect` | `TypeOK` | a waiting caller holds a run, one behind the match has a plugin |
| | `InstallsOnce` | `InstalledOnce` | the last run is the one `_installPromise` holds unless it failed, and its starter still waits for it; what is not wired or marked has not been |
| | `ServedInstalled` | `ServedByInstalledPlugins` | the plugins in front of the pending one are complete, and `installed` means that a run was fulfilled |
| | `CacheTransparent` | `CacheIsSound` of `RouteCache` | it says what was answered, not what is cached: every entry is what a scan finds now, and before the first answer there is none (`CacheHolds`, `TableInv`); that a scan finds the first route that fits comes from `PlacesFit` |
| | `WiringHolds` | `WiredAsDeclared` of `Registration` | see below |
| | `TagsStay` | `TagsAreKept` (a property of steps) | lists only grow, and a name is put only where there is none |
| | `MatchesAreExact` | `MatchIsExact`, `ParamsRebuildPath`, `SlashIsIgnored` of `PathMatch`, the parts of `PathsMatch` | about an operator; see below |
| | `CallsArrive` | `ProxyRequest` of `Client` against `MatchPath`, the path part of `CallReachesRoute` | about two operators; see below |
| | `StatementsAreKept` | `RecentAreKept` of `StatementCache`, which `RecentAreCached` instantiates | about an operator; see below |
| `SqliteTxProofs` | `TypeCorrect` | `TypeOK` | rows are left to audit only behind a statement (`Busy`) |
| | `AtomicTransactions` | `TransactionsAreAtomic` | while it is open a transaction's writes are in the database and not in `saved`; nothing carries the identity of an operation still to come; no queue leaks an event early (`Fresh`, `Fate`, `NoLeak`) |
| | `KeptWork` | `UndisturbedWorkIsKept` | what waits in a queue or is still to be audited is kept, too (`Kept`) |
| | `StoreImplemented` | `ImplementsStore` | what `ROLLBACK` returns to was never more than there is |
| `PooledTxProofs` | `AtomicTransactions` | `TransactionsAreAtomic` | connections in use are counted; who holds a lock is in a transaction; queued events are about own writes that are still undecided |
| `CronJobsProofs` | `LocksAreHeld` | `LocksHold` | a run's age and what is left of its lock add up to the TTL as long as the lock is its own (`Synced`, `Expires`, `Young`) |
| | `TeardownOrder` | `TeardownsInReverse` | who has not called `close()` has torn down nothing |
| `MigratorProofs` | `TrackingStaysTrue` | `TrackingIsTrue` | see below |
| | `RunsStayHonest` | `RunsAreHonest` | what was listed is pending, recorded or was rolled back (`Covered`) |
| `ResourceProofs` | `AnswersAreSound` | `AnswersFitTheTable` | what a call has looked at so far (`Progress`, `Passed`, `Truthful`, `Seeing`), and that ids not given out name no row |
| | `RowsAreKept` | `RowsChangeAsAsked` (properties of steps) | the same, and that there are ids enough for the calls that store |
| `WebSocketProofs` | `Consistent` | the invariant itself, `TypeOK` in it | – |
| | `LimitsAreKept` | `LimitsHold` | see below |
| | `OpenedProperly` | `OpenedBehindPlugins` | a client behind the hook has a ticket, one behind the plugins has been through all of them (`UpgradeInv`); passes are never taken back and each is one request's (`Tickets`) |
| | `RefusalsAreKept` | `RefusalsAreFair` (properties of steps) | see below |

*The chain.* `Chain(r)`, with phases ranked in call order: (a) all callbacks of
blocking phases ranked below the current one have passed, (b) in the current
phase the first `at[r]` have passed, (c) whatever has ever run had all lower
blocking phases passed before it, and (d) until the route is known only the
`onRequest` phase has run, because the set of callbacks that apply to a request
depends on its route. Loops share the lemmas `MoveChain` and `LeaveChain`.

*Wiring.* `ServedRouteIsGated` speaks of the first route of a path, and a step
adds routes behind it, so the invariant `AppInv` says what there is of each
module some gated plugin of the application contributes: every route it declares
is in the table with a name (`Named`), a copy without a name, from another
`register()` of the module, stands behind the same route with one (`Shadowed`),
and a name is that of a plugin that contributes the module (`NamesExplained`).
Of two modules that declare one path the first in the table is served, and that
one has a name if its module is contributed. Inside `plugin()` this holds only
of the modules handled so far, which is the second argument of `Wired(a, ms)`:
`Contributed` is one call of `plugin()`, and the invariant is carried through
its loop. Jobs are merged as they are registered (`JobsMerged`), and a lemma
says that this is the merge handlers get, key by key; at each declared path is the
socket the last of the first n modules or a `ws()` has put there (`SocketsOf`),
by `register()` or by the adapter's loop (`AllSocketsMounted`).

*Paths.* The loop of `matchPath()` never goes back, so what it does to a path is
decided place by place: segment k of the pattern takes segment k of the path,
and where the path has ended only optional segments are left (`TakesPlace`,
`WalkGoesByPlaces`, `MatchByPlaces`). With optional parameters at the end that is
what a pattern stands for (`FitsByPlaces`, `PlacesFit`): an increasing choice of
segments that leaves out only optional ones cannot leave one out before it ends.
`CallsArrive` needs that a trailing slash comes off the route and off the path
made of it, or off neither, and then the path takes its places.

*Statements.* Each entry of the Map is the last run of its statement, and entries
are in the order of these runs. What was evicted has at least as many different
statements after it as the Map has room for, since all entries were used later
and the one that wanted room is none of them; statements that cannot be prepared
evict as well, which is why `Recent` counts them (`PrepareKeeps`).

*Loops.* These are recursive functions over the numbers up to a length. That the
function exists, and what it is at each number, follows from `RecursionExists`,
and what holds along it from `UpTo`: both are proved from the least number that
would be a counterexample, which needs no induction scheme with an operator.

*Migrations.* A row comes only when its deployment is past every statement of
the file, so the invariant follows what a deployment has passed (`Past`,
`ExecInv`). That nothing is repeated needs, as long as commands do not overlap,
that one command runs, that nothing of its queue is recorded (`Alone`), and that
a statement executed once either belongs to a recorded file or has just been
passed (`Once`). That a rollback removes the row it printed, although one
function sorts by name and the other by id, needs that ids grow with the names
(`InOrder`), which holds because every file still to be recorded comes after
those that are (`LateInv`, `Covered`): the argument shows where it fails, with a
file written late.

*Windows.* `LimitsHold` counts what passed in any interval as long as a window,
and the code knows only the counter of the current one. The invariant ties the
two together (`KeyInv`, `Counting`): for a key that was not forgotten, the
counter, up to the limit, is the number of requests that passed since its window
began, no more than the limit passed in the window's length just before that,
and every earlier interval has at most twice the limit already. When there is no
entry, or an expired one, nothing has passed at this instant and at most the
limit within the last window (`Past`), so a new window may start (`WindowExpires`,
`WindowStarts`, `WindowLetsThrough`, `WindowAges`). The two limiters share these
lemmas; that of a connection counts refused messages as well, so its counter
lies between what was handled and what arrived (`MessageInv`), which is what
`TurnedAwayWhenBusy` needs. A refusal is justified because the counter above the
limit says that the limit was let through in this window, and announced resets
are honoured because an entry never moves inside its window. The map needs lemmas
of its own: what `Kept` leaves is in order and each once (`KeptProperties`), an
eviction removes at least one entry because some entry expires first
(`EvictsSome`), and none that expires before one that stays (`EvictsSoonest`);
with one entry per key the number of keys is the length of the sequence
(`KeysCounted`).

*Assumptions.* The constants have the shapes the code gives them: bounds and
`MaxOps` are natural numbers, `Installs` is a set of the registered plugins, a
route belongs to one of them, and the values that stand for absence (`Null`,
`Nobody`, `NoRoute`, `NoPlugin`, `NoRun`) are none of the values they stand
beside. `ResourceAssumption` also says that an override of `show` hides only
ids of the table, and that the stored rows fit the ids of the model. `CacheTransparent`
has one hypothesis more, `~DirectLate`: an application registers its own routes
before its first request, without which the property fails (section 7).
`PathAssumption` says that paths and patterns are made of segments and that none
is without any. `RegistrationAssumption` gives modules and plugins the shape the
builders return. `WiringHolds` has the hypothesis `PluginNamesDiffer`: `plugin()`
does not look whether there is a plugin of the name already, and guards and
permissions are found by name. `ParamsRebuildPath` is about patterns whose
parameters have names of their own, the exactness of `MatchIsExact` in one direction about
optional parameters that come last. `CallsArrive` is about routes
without optional parameters and arguments that are single segments, not empty and
not changed by a URL: the client does not encode them. `StatementsAreKept` has no
hypothesis but that the limit is a positive number.
The window of each limiter and the cap of the map are positive (`RateAssumption`,
`WsAssumption`); the limits may be 0. No theorem
assumes anything about fairness.

*Only model-checked.* Liveness (`EveryRequestSettles`, `EveryCallerResumes`,
`TransactionsEnd`, `RequestsEnd`, `JobsRecover`, `CommandsEnd`): fairness and
`ENABLED` are out of the prover's reach. The invariants of `MCAlgorithms` are about
the inputs listed in section 4, all of them. Of these `PathsMatch` and the part
`RecentAreCached` are instances of `MatchesAreExact` and `StatementsAreKept`; the
theorems name their parts because `MCAlgorithms` reaches recursive operators. The
others compare recursive definitions with their references (SQL with the rows it
selects, schemas with bodies, graphs with their instances) or compose folds over
sequences, and for every input they would be inductions over data in modules
with recursive operators, which the installed provers cannot do.

## 7. Where the code and what is said about it disagree

The properties of the runs are what the code does keep; these it does not. Where the model can tell, the claim is a definition at the end of its
module (or among the properties of its `MC` module) with the quoted text; put
in the place of a property of the module's run, TLC finds the counterexample.
Six need another instance: `GuardsAreIsolated` two plugins of one name,
`CyclesAreDetected` two requests, `JobsHaveDb` the `dbPlugin` behind another one
that installs, `LateRoutesAreFound` `DirectLate = TRUE`, `DownWaitsForRollback` a
file with a down section, `SlidingWindow` a limit of two.

*Pipeline.* `CascadeEndsInAResponse`: an `onError` that returns a rejecting
promise rejects the request instead of handing the error on.
`GuardsAreIsolated`: plugins are looked up by name, and `plugin()` never removes
duplicates; with two of one name the second one's routes run the first one's
guards. `GuardResponsesBlock`: `defineGuard().check()` drops the `Response` its
function returns. `OnResponseAlwaysRuns`: a failing service rejects the request
past all hooks. `ModuleHooksFollowPlugins`: module `onRequest` hooks come first.
`EventsFollowTheResponse`: events are awaited *before* the response is handed
out. `CyclesAreDetected`: the check runs once per application, for the services
of the first request.

*Installation and registration.* `RequestFollowsInstall`: a concurrent request
runs `request()` of a module plugin whose `install()` is pending or has failed.
`InstallOnce`: a retry repeats the installs that succeeded. `AuditsAreWired`,
`JobsHaveDb`: what comes after, or is captured before, the installation is
missed. `GatedBothWays`: Bun's table keeps the last route of a path, `fetch()`
finds the first, so a module registered again is not gated natively. Services of
`app.use()` are not given to jobs. The guards array of a plugin builder is shared
by the plugins built from it, the handler map of an event-handler definition by
its builders, and the cached instance by services of one key.

*Router.* `MissesKeepTheirStatus`: only the first request with a wrong method
gets 405, from then on the cached `null` means 404. `LateRoutesAreFound`:
`app.get()` keeps stale misses (with `DirectLate = TRUE`).

*Database.* `EventsNeverFireOnRollback` (of `SqliteTx`): a write of one request
that falls into the open transaction of another is rolled back with it, although
it was acknowledged and its event emitted. `AuditSurvivesRollback`: on SQLite
the audit row is in the transaction that is rolled back. `NoEventOnRollback` (of
`PooledTx`): a nested `transaction()` returns its events to the outer callback,
and flushing them there, as docs/sql/01-overview.md:87 does with a result, emits
them although the outer transaction may still roll back; a callback that does not
look at the nested result loses them. `EventsAreChanges`: an
update of a row that was deleted meanwhile returns a result and emits an event.
`WheresAreConjoined`: `whereRaw()` fragments are joined without parentheses
(`db/index.ts:581`). `KeyDefaultsApply`: `defaultFn` of a primary key is not
called. With raw fragments `_buildSelectSQL` forgets `GROUP BY` and `HAVING`,
`select()` forgets `DISTINCT`, `aggregate()` the fragments and the column names;
names inside groups are not mapped; `{a: undefined}` is no condition.
`insertMany()` writes the columns of the first row only; `updateMany()` takes
the property name of the key for its column; an empty patch is invalid SQL; the
result of an update is wrong where one column's SQL name is another's key.
`with()` takes property keys for names of columns (`db/index.ts:967`, `:1002`):
where the key it looks for or the foreign table's soft-delete column is renamed,
it attaches nothing on SQLite and fails on the other servers; `loadRelation()`
maps the names.

*Migrations.* `DownWaitsForRollback`: a run executes the statements of a file's
down section. The docs call the table `_migrations`, the code
`_oakbun_migrations`. An `onAfterMigrate` that throws reports a failure although
the row is recorded. Diff and generator use property keys instead of `.name()`,
compare no indexes, and change only the type of a modified column; SQLite cannot
execute what they write for one; a MySQL `INTEGER` never compares equal to the
`INT` it reports; file names stop sorting by number past 9999.

*Jobs, limits, sockets.* `HandlersCompleteBeforeShutdown`: `close()` awaits no
job. `TeardownOnce`: two calls of `close()` tear down twice. `SlidingWindow`: the
limiter's window is fixed, so twice the limit may pass around its end.
`ExceedingCloses`: a socket that exceeds its limit gets an error and stays open.
`SocketsAreKept`: the adapter's Map has one socket per full path
(`packages/ws/src/adapter.ts:36`); a second module or a `ws()` of the path takes
the first module's place, without an error.

*Resources.* `PublicRoutesArePublic`: the guard of one route becomes one of all.
`AbsentIsNotFound`: a row deleted between look and load is answered with 500, so
is a unique violation (documented as 409), and a `PATCH` of `{}`. `update` is
documented as `PUT`. `Number(id)` makes text keys unreachable; two concurrent
deletions may both be answered with success.

*Auth and tokens.* AND and OR of the adapter are written without grouping, `eq`
with null never matches, wildcards in `contains` are not escaped, `transaction()`
ignores its transaction. `UpdateAnswersAnyway`: `update()` reads its answer with
the conditions from before it (`auth/src/adapter.ts:146`), so a patch that takes
every row out of them is answered with null; `UpdateAnswersItsRow` checks that it is the
only case, as long as nobody writes between the two statements, which is not
modelled. `startsWith(basePath)` takes `/api/authors`. A public
key that cannot be read is a 500 on every request; RS256 without one a 401. The
menu shows plugins without permissions to anonymous users, where a comment says
that it is empty.

*HTTP hooks.* `BodiesArrive`: a body that turns out too small or too large to be
compressed has been read by then and is handed on used. CORS and compression
overwrite each other's `Vary`; of several pages that load before a browser has a
token each is given its own (`csrf.ts:114`), so one that keeps the token it read
when it loaded is refused once the answer of another has come, and one that
reads the cookie when it sends is not (`PagesShareTheToken`); `Accept-Encoding` is matched as a substring;
cookies are encoded when set and not decoded when read; `x-request-id` is
`undefined` when an earlier hook answers; `statusText` is dropped.

*Interfaces.* `OperationIdsAreUnique`: the ids inferred for two routes may be
the same. Fields with a default and of unknown type are documented as required
(`Demanding`), `int()` and dates not at all, and of two checks of a kind only the
later one (`Loose`, `zod-to-schema.ts:108`), so `min(3).min(1)` is documented as
`min(1)`; `store` is documented as 200 though it answers 201. Path parameters of the client are not URI-encoded; its
types take `(body, options)` where the runtime wants the parameters first
(`client/proxy.ts:104`, `:257`); `createClient` drops the query of methods with
a body; prefixes `a-b` and `a/b`, and `POST /:id` and `POST /by/id`, share a name.

## 8. What is not modelled

`PROJECT.json` lists every component with its status. Left out: formatting and
masking of the logger; error classes; terminal input and output, file discovery
and the tinker shell of the CLI; the Scalar page, a constant string; raw SQL of
the application; `reload()` and Bun's server itself; jobs of mode `os`, which run
in another process that the application does not see; better-auth and its
migration script; how the asynchronous handlers of one WebSocket overlap, which is
the application's; the contents of audit snapshots and their redaction; the type
definitions that exist only for the compiler, the benchmarks and the examples.
Nothing in these depends on order or on state that is shared.
