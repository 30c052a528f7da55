-------------------------- MODULE MCRequestPipeline --------------------------
(***************************************************************************)
(* Small applications for RequestPipeline.                                 *)
(***************************************************************************)
EXTENDS RequestPipeline, TLC

CONSTANTS r1, r2, inModule, optOut, direct, cyclic, none

Symmetry == Permutations(Requests)

Plain == [owner |-> 0, module |-> FALSE, guardOptOut |-> FALSE, schema |-> FALSE,
          responseSchema |-> FALSE, services |-> "none", onError |-> {}]

\* A route bundled by plugin 2 with everything on, one of the same module with
\* guard: false, and one registered on the app itself.
AppRoutes ==
  (inModule :> [owner |-> 2, module |-> TRUE, guardOptOut |-> FALSE, schema |-> TRUE,
                responseSchema |-> TRUE, services |-> "fine", onError |-> {"route", "module"}]) @@
  (optOut   :> [owner |-> 2, module |-> TRUE, guardOptOut |-> TRUE, schema |-> FALSE,
                responseSchema |-> FALSE, services |-> "none", onError |-> {"module"}]) @@
  (direct   :> Plain) @@
  (cyclic   :> [Plain EXCEPT !.module = TRUE, !.services = "circular"])

EventRoutes == inModule :> [Plain EXCEPT !.module = TRUE, !.responseSchema = TRUE]

\* db has no guards; admin has two and declares permissions.
NamedPlugins ==
  << [name |-> "db", permissions |-> FALSE, guards |-> 0],
     [name |-> "admin", permissions |-> TRUE, guards |-> 2] >>

NoPlugins == <<>>

FullCount ==
  [ph \in LoopPhases |-> IF ph \in {"plugins", "moduleGuards"} THEN 2 ELSE 1]

EventCount ==
  [ph \in LoopPhases |-> IF ph \in {"routeGuards", "onResponse", "moduleOnResponse"}
                           THEN 1 ELSE 0]
=============================================================================
