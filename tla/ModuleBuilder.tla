---------------------------- MODULE ModuleBuilder ----------------------------
(***************************************************************************)
(* defineModule (app/module.ts) and definePlugin (app/plugin.ts): what     *)
(* build() returns for a chain of calls.  A plugin builder is not used     *)
(* again once its plugin is built.                                         *)
(***************************************************************************)
EXTENDS Sequences

CONSTANT None    \* undefined

Create(prefix) ==
  [prefix |-> prefix, routes |-> <<>>, wsRoutes |-> <<>>, hooks |-> <<>>, audits |-> <<>>,
   services |-> <<>>, guards |-> <<>>, onRequest |-> <<>>, onBeforeHandle |-> <<>>,
   onResponse |-> <<>>, events |-> <<>>, crons |-> <<>>]

\* plugin(), use(service), guard(), onRequest() ... cron(): the builder of the
\* call before it is left as it was.
Add(builder, field, x) == [builder EXCEPT ![field] = Append(@, x)]

UseMiddleware(builder, middleware) ==
  LET one(b, field) == IF middleware[field] = None THEN b ELSE Add(b, field, middleware[field])
  IN one(one(builder, "onRequest"), "onResponse")

\* guard is a guard, "false" for a route that opts out, or None.
AddRoute(builder, method, path, guard) ==
  Add(builder, "routes",
      [method |-> method, path |-> path, optOut |-> guard = "false",
       guards |-> IF guard \in {"false", None} THEN <<>> ELSE <<guard>>])

\* An empty list of modules, permissions or guards is left out of the plugin.
BuildPlugin(name, requires, modules, permissions, guards) ==
  [name |-> name, requires |-> requires, modules |-> modules,
   gated |-> permissions # <<>> \/ guards # <<>>]

=============================================================================
