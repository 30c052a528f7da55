------------------------ MODULE RequestPipelineProofs ------------------------
(***************************************************************************)
(* Theorems about RequestPipeline, for every set of requests, every table  *)
(* of routes and plugins and every number of callbacks.                    *)
(***************************************************************************)
EXTENDS RequestPipeline, SequenceTheorems, FiniteSetTheorems, WellFoundedInduction, TLAPS

\* plugins.find() by the name of an existing plugin finds one of the plugins.
LEMMA FindPluginFinds ==
  ASSUME NEW p \in 1 .. Len(Plugins)
  PROVE  FindPlugin(Plugins[p].name) \in 1 .. Len(Plugins)
<1> DEFINE name == Plugins[p].name
           S == {i \in 1 .. Len(Plugins) : Plugins[i].name = name}
<1>1. Len(Plugins) \in Nat
  BY ConfigAssumption, LenProperties
<1>2. S \subseteq Nat /\ S # {}
  BY <1>1
<1>3. PICK i \in S : \A j \in S : ~ (<<j, i>> \in OpToRel(<, Nat))
  BY <1>2, NatLessThanWellFounded, WFMin, Zenon
<1>4. \A j \in S : ~ (j < i)
  BY <1>2, <1>3, Zenon DEF OpToRel
<1>5. /\ i \in 1 .. Len(Plugins)
      /\ Plugins[i].name = name
      /\ \A j \in 1 .. (i - 1) : Plugins[j].name # name
  BY <1>1, <1>4
<1>6. QED
  BY <1>5, Zenon DEF FindPlugin

\* A callback identity is a phase, a plugin (or 0) and a position.
LEMMA CallbackType ==
  ASSUME TypeOK, NEW r \in Requests, NEW i \in Nat,
         pc[r] \in LoopPhases,
         pc[r] = "pluginGuards" => route[r] \in Routes /\ Tagged(route[r])
  PROVE  Callback(r, pc[r], i) \in CallbackIds
<1>1. CASE pc[r] = "pluginGuards"
  <2>1. RouteCfg[route[r]].owner \in 1 .. Len(Plugins)
    BY <1>1, ConfigAssumption DEF Tagged, RouteRecord
  <2>2. GatePlugin(route[r]) \in Nat
    BY <2>1, FindPluginFinds, LenProperties, ConfigAssumption DEF GatePlugin
  <2>3. QED
    BY <1>1, <2>2 DEF Callback, CallbackIds
<1>2. CASE pc[r] # "pluginGuards"
  BY <1>2 DEF Callback, CallbackIds, LoopPhases, AppPhases, RoutePhases, ModulePhases, GuardPhases
<1>3. QED
  BY <1>1, <1>2

\* The pairs a flush appends to the bus.
LEMMA EntriesType ==
  ASSUME NEW r \in Requests, NEW ns \in Seq(1 .. MaxEvents)
  PROVE  Entries(r, ns) \in Seq(Requests \X (1 .. MaxEvents))
<1>1. \A i \in 1 .. Len(ns) : <<r, ns[i]>> \in Requests \X (1 .. MaxEvents)
  BY ElementOfSeq
<1>2. Len(ns) \in Nat
  BY LenProperties
<1>3. QED
  BY <1>1, <1>2 DEF Entries

-----------------------------------------------------------------------------
(* Type correctness *)

\* A matched route: the phases behind the route scan have one.
RoutedPhases == {"permission", "moduleOnRequest", "plugins", "modulePlugins", "validation",
                 "services", "pluginGuards", "moduleGuards", "routeGuards", "beforeHandle",
                 "moduleBeforeHandle", "handler"}

Routed == \A r \in Requests : pc[r] \in RoutedPhases => route[r] \in Routes

TypeInv == TypeOK /\ Routed

\* The initial state has the types.
LEMMA InitTypeInv == Init => TypeInv
<1> SUFFICES ASSUME Init PROVE TypeInv
  OBVIOUS
<1>1. /\ pc \in [Requests -> Phases]
      /\ Routed
  BY DEF Init, Phases, Routed, RoutedPhases, RoutePhases, ModulePhases, GuardPhases
<1>2. /\ at \in [Requests -> Nat]
      /\ route \in [Requests -> Routes \cup {NoRoute}]
      /\ user \in [Requests -> UserKinds]
      /\ resp \in [Requests -> Origins]
      /\ flushQueue \in [Requests -> BOOLEAN]
  BY DEF Init, UserKinds, Origins
<1>3. /\ queue \in [Requests -> Seq(1 .. MaxEvents)]
      /\ outbox \in [Requests -> Seq(1 .. MaxEvents)]
      /\ collected \in [Requests -> 0 .. MaxEvents]
      /\ bus \in Seq(Requests \X (1 .. MaxEvents))
  BY ConfigAssumption DEF Init
<1>4. /\ ran \in [Requests -> SUBSET CallbackIds]
      /\ passed \in [Requests -> SUBSET CallbackIds]
      /\ circularChecked \in BOOLEAN
  BY DEF Init
<1>5. QED
  BY <1>1, <1>2, <1>3, <1>4, Zenon DEF TypeInv, TypeOK

\* Collecting an event keeps the queue a sequence of event numbers within the bound.
LEMMA CollectTypes ==
  ASSUME TypeInv, NEW r \in Requests, Collect(r)
  PROVE  /\ queue' \in [Requests -> Seq(1 .. MaxEvents)]
         /\ collected' \in [Requests -> 0 .. MaxEvents]
<1>1. ASSUME collected[r] < MaxEvents,
             collected' = [collected EXCEPT ![r] = @ + 1],
             queue' = [queue EXCEPT ![r] = Append(@, collected[r] + 1)]
      PROVE  /\ queue' \in [Requests -> Seq(1 .. MaxEvents)]
             /\ collected' \in [Requests -> 0 .. MaxEvents]
  <2>1. collected[r] + 1 \in 1 .. MaxEvents /\ queue[r] \in Seq(1 .. MaxEvents)
    BY <1>1, ConfigAssumption DEF TypeInv, TypeOK
  <2>2. Append(queue[r], collected[r] + 1) \in Seq(1 .. MaxEvents)
    BY <2>1, AppendProperties
  <2>3. QED
    BY <1>1, <2>1, <2>2 DEF TypeInv, TypeOK
<1>2. CASE UNCHANGED <<queue, collected>>
  BY <1>2 DEF TypeInv, TypeOK
<1>3. QED
  BY <1>1, <1>2, Zenon DEF Collect

\* The part of the invariant a callback that starts maintains.
LEMMA StartTypes ==
  ASSUME TypeInv, NEW r \in Requests, pc[r] \in LoopPhases,
         NEW marks \in SUBSET CallbackIds, StartMarked(r, marks)
  PROVE  /\ Callback(r, pc[r], at[r] + 1) \in CallbackIds
         /\ ran' \in [Requests -> SUBSET CallbackIds]
         /\ queue' \in [Requests -> Seq(1 .. MaxEvents)]
         /\ collected' \in [Requests -> 0 .. MaxEvents]
<1>1. pc[r] = "pluginGuards" => route[r] \in Routes /\ Tagged(route[r])
  BY DEF StartMarked, Callbacks, TypeInv, TypeOK, Routed, RoutedPhases, RoutePhases,
         ModulePhases, GuardPhases
<1>2. Callback(r, pc[r], at[r] + 1) \in CallbackIds
  BY <1>1, CallbackType DEF TypeInv, TypeOK
<1>3. ran' \in [Requests -> SUBSET CallbackIds]
  BY <1>2 DEF StartMarked, TypeInv, TypeOK
<1>4. Collect(r)
  BY DEF StartMarked
<1>5. QED
  BY <1>2, <1>3, <1>4, CollectTypes

\* The phases without a route, and the ones an outcome can lead to.
LEMMA PhaseSets ==
  /\ {"onRequest", "match", "onResponse", "onError", "flush", "emitting", "send",
      "settled", "moduleOnResponse"} \subseteq Phases \ RoutedPhases
  /\ RoutedPhases \subseteq Phases
  /\ {"permission", "moduleOnRequest", "services", "pluginGuards"} \subseteq RoutedPhases
  /\ LoopPhases \subseteq Phases
<1>1. LoopPhases \subseteq Phases
  BY Zenon DEF Phases
<1>2. {"onRequest", "match", "onResponse", "onError", "flush", "emitting", "send",
       "settled", "moduleOnResponse"} \subseteq Phases
  BY DEF Phases, LoopPhases, AppPhases, RoutePhases, ModulePhases
<1>3. {"onRequest", "match", "onResponse", "onError", "flush", "emitting", "send",
       "settled", "moduleOnResponse"} \cap RoutedPhases = {}
  BY DEF RoutedPhases
<1>4. RoutedPhases \subseteq Phases
  BY DEF RoutedPhases, Phases, LoopPhases, AppPhases, RoutePhases, ModulePhases, GuardPhases
<1>5. {"permission", "moduleOnRequest", "services", "pluginGuards"} \subseteq RoutedPhases
  BY DEF RoutedPhases
<1>6. QED
  BY <1>1, <1>2, <1>3, <1>4, <1>5

\* What one request's pc, at and route can become: a move to another phase.
LEMMA GoToTypes ==
  ASSUME TypeInv, NEW r \in Requests, NEW ph \in Phases, GoTo(r, ph),
         route' \in [Requests -> Routes \cup {NoRoute}],
         \A q \in Requests \ {r} : route'[q] = route[q],
         ph \in RoutedPhases => route'[r] \in Routes
  PROVE  /\ pc' \in [Requests -> Phases]
         /\ at' \in [Requests -> Nat]
         /\ Routed'
<1>1. /\ pc' \in [Requests -> Phases]
      /\ at' \in [Requests -> Nat]
  BY DEF GoTo, TypeInv, TypeOK
<1>2. pc'[r] = ph /\ \A q \in Requests \ {r} : pc'[q] = pc[q]
  BY DEF GoTo, TypeInv, TypeOK
<1>3. Routed'
  BY <1>2 DEF Routed, TypeInv
<1>4. QED
  BY <1>1, <1>3

\* The ways one step can leave a request: it goes on, it is answered, or it fails.
Outcome(r) ==
  \/ Pass(r) \/ Swallow(r) \/ Raise(r)
  \/ \E origin \in Origins : Respond(r, origin) \/ Reject(r, origin)

\* However a step leaves its request, the request keeps its types.
LEMMA OutcomeTypes ==
  ASSUME TypeInv, NEW r \in Requests, Outcome(r), route' = route,
         passed' = passed \/ Callback(r, pc[r], at[r] + 1) \in CallbackIds
  PROVE  /\ pc' \in [Requests -> Phases]
         /\ at' \in [Requests -> Nat]
         /\ Routed'
         /\ resp' \in [Requests -> Origins]
         /\ passed' \in [Requests -> SUBSET CallbackIds]
<1>0. /\ pc \in [Requests -> Phases] /\ at \in [Requests -> Nat] /\ Routed
      /\ resp \in [Requests -> Origins] /\ passed \in [Requests -> SUBSET CallbackIds]
      /\ route \in [Requests -> Routes \cup {NoRoute}]
  BY DEF TypeInv, TypeOK
<1>1. CASE Pass(r)
  <2>1. passed' \in [Requests -> SUBSET CallbackIds]
    BY <1>0, <1>1 DEF Pass
  <2>2. QED
    BY <1>0, <1>1, <2>1 DEF Pass, Routed
<1>2. CASE Swallow(r)
  BY <1>0, <1>2 DEF Swallow, Routed
<1>3. ASSUME NEW ph \in {"onError", "onResponse", "settled"}, GoTo(r, ph)
      PROVE  /\ pc' \in [Requests -> Phases]
             /\ at' \in [Requests -> Nat]
             /\ Routed'
  <2>1. ph \in Phases /\ ph \notin RoutedPhases
    BY PhaseSets
  <2>2. QED
    BY <1>0, <1>3, <2>1, GoToTypes
<1>4. CASE Raise(r)
  <2>1. /\ pc' \in [Requests -> Phases]
        /\ at' \in [Requests -> Nat]
        /\ Routed'
    BY <1>3, <1>4 DEF Raise
  <2>2. QED
    BY <1>0, <1>4, <2>1 DEF Raise
<1>5. ASSUME NEW origin \in Origins, Respond(r, origin) \/ Reject(r, origin)
      PROVE  /\ pc' \in [Requests -> Phases]
             /\ at' \in [Requests -> Nat]
             /\ Routed'
             /\ resp' \in [Requests -> Origins]
             /\ passed' \in [Requests -> SUBSET CallbackIds]
  <2>1. GoTo(r, "onResponse") \/ GoTo(r, "settled")
    BY <1>5 DEF Respond, Reject
  <2>2. /\ pc' \in [Requests -> Phases]
        /\ at' \in [Requests -> Nat]
        /\ Routed'
    BY <1>3, <2>1
  <2>3. resp' = [resp EXCEPT ![r] = origin] /\ passed' = passed
    BY <1>5 DEF Respond, Reject
  <2>4. QED
    BY <1>0, <2>2, <2>3
<1>6. QED
  BY <1>1, <1>2, <1>4, <1>5 DEF Outcome

\* A step of a callback loop: a callback starts, and one outcome follows.
LEMMA LoopStepTypes ==
  ASSUME TypeInv, NEW r \in Requests, pc[r] \in LoopPhases,
         NEW marks \in SUBSET CallbackIds, StartMarked(r, marks), Outcome(r)
  PROVE  TypeInv'
<1>1. /\ Callback(r, pc[r], at[r] + 1) \in CallbackIds
      /\ ran' \in [Requests -> SUBSET CallbackIds]
      /\ queue' \in [Requests -> Seq(1 .. MaxEvents)]
      /\ collected' \in [Requests -> 0 .. MaxEvents]
  BY StartTypes
<1>2. /\ route' = route /\ user' = user /\ flushQueue' = flushQueue /\ outbox' = outbox
      /\ bus' = bus /\ circularChecked' = circularChecked
  BY DEF StartMarked
<1>3. /\ pc' \in [Requests -> Phases]
      /\ at' \in [Requests -> Nat]
      /\ Routed'
      /\ resp' \in [Requests -> Origins]
      /\ passed' \in [Requests -> SUBSET CallbackIds]
  BY <1>1, <1>2, OutcomeTypes
<1>4. QED
  BY <1>1, <1>2, <1>3 DEF TypeInv, TypeOK

\* The phase a loop leads to is a phase, and one behind the scan has a route.
LEMMA AfterTypes ==
  ASSUME TypeInv, NEW r \in Requests, pc[r] \in LoopPhases
  PROVE  /\ After(r) \in Phases
         /\ After(r) \in RoutedPhases => route[r] \in Routes
<1>1. CASE pc[r] \in {"onRequest", "onResponse", "moduleOnResponse"}
  <2>1. After(r) \in {"match", "moduleOnResponse", "flush"}
        \/ (After(r) = "permission" /\ route[r] # NoRoute)
    BY <1>1 DEF After
  <2>2. QED
    BY <2>1, PhaseSets DEF TypeInv, TypeOK
<1>2. CASE pc[r] \notin {"onRequest", "onResponse", "moduleOnResponse"}
  <2>1. pc[r] \in RoutedPhases
    BY <1>2 DEF LoopPhases, AppPhases, RoutePhases, ModulePhases, GuardPhases, RoutedPhases
  <2>2. After(r) \in RoutedPhases
    BY <1>2 DEF After, LoopPhases, AppPhases, RoutePhases, ModulePhases, GuardPhases,
                RoutedPhases
  <2>3. QED
    BY <2>1, <2>2, PhaseSets DEF TypeInv, Routed
<1>3. QED
  BY <1>1, <1>2

\* Every step keeps the types.
LEMMA StepTypeInv == TypeInv /\ [Next]_vars => TypeInv'
<1> SUFFICES ASSUME TypeInv, [Next]_vars PROVE TypeInv'
  OBVIOUS
<1>a. /\ {} \in SUBSET CallbackIds /\ {GuardAnswered} \in SUBSET CallbackIds
      /\ \A i \in Nat : <<"handler", 0, i>> \in CallbackIds /\ <<"onError", 0, i>> \in CallbackIds
  BY DEF GuardAnswered, CallbackIds
<1>b. /\ {"early", "404", "405", "guard", "handler", "500", "route", "module", "app",
          "builtin"} \subseteq Origins
      /\ Rejections \subseteq Origins
      /\ {"serviceFailed", "circularDependency", "stackOverflow",
          "onErrorRejected", "emitRejected"} \subseteq Rejections
  BY DEF Origins, Rejections
<1>c. TypeOK /\ Routed
  BY DEF TypeInv
<1>1. ASSUME NEW r \in Requests, Arrive(r) PROVE TypeInv'
  <2>1. /\ route' \in [Requests -> Routes \cup {NoRoute}]
        /\ \A q \in Requests \ {r} : route'[q] = route[q]
        /\ user' \in [Requests -> UserKinds]
    BY <1>1, ConfigAssumption DEF Arrive, TypeInv, TypeOK
  <2>2. GoTo(r, "onRequest")
    BY <1>1 DEF Arrive
  <2>3. /\ pc' \in [Requests -> Phases]
        /\ at' \in [Requests -> Nat]
        /\ Routed'
    BY <2>1, <2>2, GoToTypes, PhaseSets
  <2>4. QED
    BY <1>1, <2>1, <2>3 DEF Arrive, TypeInv, TypeOK
<1>2. ASSUME NEW r \in Requests, GlobalOnRequest(r) PROVE TypeInv'
  BY <1>a, <1>b, <1>2, LoopStepTypes
  DEF GlobalOnRequest, Start, Outcome, LoopPhases, AppPhases
<1>3. ASSUME NEW r \in Requests, MatchRoute(r) PROVE TypeInv'
  <2>1. ASSUME NEW rt \in Routes, route' = [route EXCEPT ![r] = rt], GoTo(r, "permission"),
               UNCHANGED <<resp, passed>>
        PROVE  TypeInv'
    <3>1. /\ route' \in [Requests -> Routes \cup {NoRoute}]
          /\ \A q \in Requests \ {r} : route'[q] = route[q]
          /\ route'[r] \in Routes
      BY <2>1, <1>c DEF TypeOK
    <3>2. /\ pc' \in [Requests -> Phases]
          /\ at' \in [Requests -> Nat]
          /\ Routed'
      BY <2>1, <3>1, GoToTypes, PhaseSets
    <3>3. QED
      BY <1>3, <2>1, <3>1, <3>2, <1>c DEF MatchRoute, TypeInv, TypeOK
  <2>2. ASSUME NEW status \in {"404", "405"}, Respond(r, status), UNCHANGED route
        PROVE  TypeInv'
    <3>1. Outcome(r) /\ passed' = passed
      BY <1>b, <2>2 DEF Outcome, Respond
    <3>2. QED
      BY <1>3, <1>c, <2>2, <3>1, OutcomeTypes DEF MatchRoute, TypeInv, TypeOK
  <2>3. QED
    BY <1>3, <2>1, <2>2 DEF MatchRoute
<1>4. ASSUME NEW r \in Requests, PermissionGate(r) PROVE TypeInv'
  <2>1. /\ UNCHANGED <<route, user, flushQueue, queue, outbox, collected, bus, ran, passed,
                       circularChecked>>
        /\ resp' = resp
        /\ GoTo(r, "onError") \/ GoTo(r, "moduleOnRequest")
    BY <1>4 DEF PermissionGate, Raise
  <2>2. route[r] \in Routes
    BY <1>4, <1>c DEF PermissionGate, Routed, RoutedPhases
  <2>3. /\ pc' \in [Requests -> Phases]
        /\ at' \in [Requests -> Nat]
        /\ Routed'
    BY <1>c, <2>1, <2>2, GoToTypes, PhaseSets DEF TypeOK
  <2>4. QED
    BY <1>c, <2>1, <2>3 DEF TypeInv, TypeOK
<1>5. ASSUME NEW r \in Requests, ModuleOnRequest(r) PROVE TypeInv'
  BY <1>a, <1>b, <1>5, LoopStepTypes
  DEF ModuleOnRequest, Start, Outcome, LoopPhases, RoutePhases, ModulePhases
<1>6. ASSUME NEW r \in Requests, PluginRequest(r) PROVE TypeInv'
  BY <1>a, <1>b, <1>6, LoopStepTypes
  DEF PluginRequest, Start, Outcome, LoopPhases, AppPhases, RoutePhases, ModulePhases
<1>7. ASSUME NEW r \in Requests, Validate(r) PROVE TypeInv'
  <2>1. /\ UNCHANGED <<route, user, flushQueue, queue, outbox, collected, bus, ran, passed,
                       circularChecked>>
        /\ resp' = resp
        /\ GoTo(r, "onError") \/ GoTo(r, "services")
    BY <1>7 DEF Validate, Raise
  <2>2. route[r] \in Routes
    BY <1>7, <1>c DEF Validate, Routed, RoutedPhases
  <2>3. /\ pc' \in [Requests -> Phases]
        /\ at' \in [Requests -> Nat]
        /\ Routed'
    BY <1>c, <2>1, <2>2, GoToTypes, PhaseSets DEF TypeOK
  <2>4. QED
    BY <1>c, <2>1, <2>3 DEF TypeInv, TypeOK
<1>8. ASSUME NEW r \in Requests, Services(r) PROVE TypeInv'
  <2>1. /\ UNCHANGED <<route, user, flushQueue, queue, outbox, collected, bus, ran>>
        /\ circularChecked' \in BOOLEAN
    BY <1>8 DEF Services
  <2>2. CASE GoTo(r, "pluginGuards") /\ UNCHANGED <<resp, passed>>
    <3>1. route[r] \in Routes
      BY <1>8, <1>c DEF Services, Routed, RoutedPhases
    <3>2. /\ pc' \in [Requests -> Phases]
          /\ at' \in [Requests -> Nat]
          /\ Routed'
      BY <1>c, <2>1, <2>2, <3>1, GoToTypes, PhaseSets DEF TypeOK
    <3>3. QED
      BY <1>c, <2>1, <2>2, <3>2 DEF TypeInv, TypeOK
  <2>3. ASSUME NEW why \in Rejections, Reject(r, why) PROVE TypeInv'
    <3>1. Outcome(r) /\ passed' = passed
      BY <1>b, <2>3 DEF Outcome, Reject
    <3>2. QED
      BY <1>c, <2>1, <3>1, OutcomeTypes DEF TypeInv, TypeOK
  <2>4. QED
    BY <1>8, <1>b, <2>2, <2>3 DEF Services
<1>9. ASSUME NEW r \in Requests, Guard(r) PROVE TypeInv'
  BY <1>a, <1>b, <1>9, LoopStepTypes
  DEF Guard, Start, Outcome, LoopPhases, RoutePhases, GuardPhases
<1>10. ASSUME NEW r \in Requests, BeforeHandle(r) PROVE TypeInv'
  BY <1>a, <1>b, <1>10, LoopStepTypes
  DEF BeforeHandle, Start, Outcome, LoopPhases, AppPhases, RoutePhases, ModulePhases
<1>11. ASSUME NEW r \in Requests, Handler(r) PROVE TypeInv'
  <2>1. /\ ran' \in [Requests -> SUBSET CallbackIds]
        /\ UNCHANGED <<route, user, outbox, bus, circularChecked>>
    BY <1>11, <1>a, <1>c DEF Handler, TypeOK
  <2>2. /\ queue' \in [Requests -> Seq(1 .. MaxEvents)]
        /\ collected' \in [Requests -> 0 .. MaxEvents]
    BY <1>11, CollectTypes DEF Handler
  <2>3. /\ pc' \in [Requests -> Phases]
        /\ at' \in [Requests -> Nat]
        /\ Routed'
        /\ resp' \in [Requests -> Origins]
        /\ passed' \in [Requests -> SUBSET CallbackIds]
        /\ flushQueue' \in [Requests -> BOOLEAN]
    <3>1. CASE /\ GoTo(r, "onResponse")
               /\ resp' = [resp EXCEPT ![r] = "handler"]
               /\ flushQueue' = [flushQueue EXCEPT ![r] = TRUE]
               /\ passed' = [passed EXCEPT ![r] = @ \cup {<<"handler", 0, 1>>}]
      <4>1. /\ pc' \in [Requests -> Phases]
            /\ at' \in [Requests -> Nat]
            /\ Routed'
        BY <1>c, <2>1, <3>1, GoToTypes, PhaseSets DEF TypeOK
      <4>2. QED
        BY <1>a, <1>b, <1>c, <3>1, <4>1 DEF TypeOK
    <3>2. CASE Outcome(r) /\ passed' = passed /\ UNCHANGED flushQueue
      <4>1. flushQueue' \in [Requests -> BOOLEAN]
        BY <1>c, <3>2 DEF TypeOK
      <4>2. QED
        BY <2>1, <3>2, <4>1, OutcomeTypes
    <3>3. QED
      BY <1>11, <1>b, <3>1, <3>2 DEF Handler, Respond, Raise, Outcome
  <2>4. QED
    BY <1>c, <2>1, <2>2, <2>3 DEF TypeInv, TypeOK
<1>12. ASSUME NEW r \in Requests, OnError(r) PROVE TypeInv'
  <2>1. UNCHANGED <<route, user, flushQueue, queue, outbox, collected, bus, circularChecked>>
    BY <1>12 DEF OnError
  <2>2. ran' \in [Requests -> SUBSET CallbackIds]
    <3>1. \A i \in Nat : i + 1 \in Nat
      OBVIOUS
    <3>2. <<"onError", 0, at[r] + 1>> \in CallbackIds
      BY <1>a, <1>c, <3>1 DEF TypeOK
    <3>3. ran' = ran \/ ran' = [ran EXCEPT ![r] = @ \cup {<<"onError", 0, at[r] + 1>>}]
      BY <1>12 DEF OnError
    <3>4. ran \in [Requests -> SUBSET CallbackIds]
      BY <1>c DEF TypeOK
    <3>5. ASSUME NEW id \in CallbackIds, ran' = [ran EXCEPT ![r] = @ \cup {id}]
          PROVE  ran' \in [Requests -> SUBSET CallbackIds]
      BY <3>4, <3>5
    <3>6. QED
      BY <3>2, <3>3, <3>4, <3>5, Zenon
  <2>3. Cascade[at[r] + 1] \in Origins
    BY <1>12, <1>b, <1>c DEF OnError, Cascade, TypeOK
  <2>4. Outcome(r) /\ passed' = passed
    BY <1>12, <1>b, <2>3 DEF OnError, Outcome, Swallow, Respond, Reject
  <2>5. QED
    BY <1>c, <2>1, <2>2, <2>4, OutcomeTypes DEF TypeInv, TypeOK
<1>13. ASSUME NEW r \in Requests, BuiltinError(r) PROVE TypeInv'
  <2>1. UNCHANGED <<route, user, flushQueue, queue, outbox, collected, bus, ran,
                    circularChecked>>
    BY <1>13 DEF BuiltinError
  <2>2. Outcome(r) /\ passed' = passed
    BY <1>13, <1>b DEF BuiltinError, Outcome, Respond
  <2>3. QED
    BY <1>c, <2>1, <2>2, OutcomeTypes DEF TypeInv, TypeOK
<1>14. ASSUME NEW r \in Requests, OnResponse(r) PROVE TypeInv'
  BY <1>a, <1>b, <1>14, LoopStepTypes
  DEF OnResponse, Start, Outcome, LoopPhases, AppPhases, RoutePhases, ModulePhases
<1>15. ASSUME NEW r \in Requests, EndLoop(r) PROVE TypeInv'
  <2>1. UNCHANGED <<route, user, resp, flushQueue, queue, outbox, collected, bus,
                    ran, passed, circularChecked>>
    BY <1>15 DEF EndLoop
  <2>2. pc[r] \in LoopPhases /\ GoTo(r, After(r))
    BY <1>15 DEF EndLoop
  <2>3. /\ pc' \in [Requests -> Phases]
        /\ at' \in [Requests -> Nat]
        /\ Routed'
    BY <1>c, <2>1, <2>2, AfterTypes, GoToTypes DEF TypeOK
  <2>4. QED
    BY <1>c, <2>1, <2>3 DEF TypeInv, TypeOK
<1>16. ASSUME NEW r \in Requests, Flush(r) PROVE TypeInv'
  <2>1. UNCHANGED <<route, user, resp, flushQueue, collected, ran, passed, circularChecked>>
    BY <1>16 DEF Flush
  <2>2. GoTo(r, "send") \/ GoTo(r, "emitting")
    BY <1>16 DEF Flush
  <2>3. /\ pc' \in [Requests -> Phases]
        /\ at' \in [Requests -> Nat]
        /\ Routed'
    BY <1>c, <2>1, <2>2, GoToTypes, PhaseSets DEF TypeOK
  <2>4. /\ queue' \in [Requests -> Seq(1 .. MaxEvents)]
        /\ outbox' \in [Requests -> Seq(1 .. MaxEvents)]
    <3>1. <<>> \in Seq(1 .. MaxEvents)
      BY EmptySeq
    <3>2. queue' = queue \/ queue' = [queue EXCEPT ![r] = <<>>]
      BY <1>16, Zenon DEF Flush
    <3>3. outbox' = outbox \/ outbox' = [outbox EXCEPT ![r] = queue[r]]
      BY <1>16, Zenon DEF Flush
    <3>4. QED
      BY <1>c, <3>1, <3>2, <3>3 DEF TypeOK
  <2>5. bus' \in Seq(Requests \X (1 .. MaxEvents))
    <3>1. Entries(r, queue[r]) \in Seq(Requests \X (1 .. MaxEvents))
      BY <1>c, EntriesType DEF TypeOK
    <3>2. bus' = bus \/ bus' = bus \o Entries(r, queue[r])
      BY <1>16 DEF Flush
    <3>3. bus \in Seq(Requests \X (1 .. MaxEvents))
      BY <1>c DEF TypeOK
    <3>4. bus \o Entries(r, queue[r]) \in Seq(Requests \X (1 .. MaxEvents))
      BY <3>1, <3>3, ConcatProperties, Zenon
    <3>5. QED
      BY <3>2, <3>3, <3>4, Zenon
  <2>6. QED
    BY <1>c, <2>1, <2>3, <2>4, <2>5 DEF TypeInv, TypeOK
<1>17. ASSUME NEW r \in Requests, EmitNext(r) PROVE TypeInv'
  <2>1. UNCHANGED <<route, user, flushQueue, queue, collected, ran, passed, circularChecked>>
    BY <1>17 DEF EmitNext
  <2>2. UNCHANGED <<pc, at>> \/ GoTo(r, "send") \/ GoTo(r, "settled")
    BY <1>17 DEF EmitNext
  <2>3. /\ pc' \in [Requests -> Phases]
        /\ at' \in [Requests -> Nat]
        /\ Routed'
    <3>1. CASE UNCHANGED <<pc, at>>
      BY <1>c, <2>1, <3>1 DEF TypeOK, Routed
    <3>2. CASE GoTo(r, "send") \/ GoTo(r, "settled")
      BY <1>c, <2>1, <3>2, GoToTypes, PhaseSets DEF TypeOK
    <3>3. QED
      BY <2>2, <3>1, <3>2
  <2>4. /\ outbox[r] \in Seq(1 .. MaxEvents)
        /\ outbox[r] # <<>> => /\ Head(outbox[r]) \in 1 .. MaxEvents
                               /\ Tail(outbox[r]) \in Seq(1 .. MaxEvents)
    BY <1>c, HeadTailProperties DEF TypeOK
  <2>5. outbox' \in [Requests -> Seq(1 .. MaxEvents)]
    <3>1. <<>> \in Seq(1 .. MaxEvents)
      BY EmptySeq
    <3>2. \/ outbox' = outbox
          \/ outbox[r] # <<>> /\ outbox' = [outbox EXCEPT ![r] = Tail(@)]
          \/ outbox' = [outbox EXCEPT ![r] = <<>>]
      BY <1>17, Zenon DEF EmitNext
    <3>3. QED
      BY <1>c, <2>4, <3>1, <3>2 DEF TypeOK
  <2>6. bus' \in Seq(Requests \X (1 .. MaxEvents))
    <3>1. bus' = bus \/ (outbox[r] # <<>> /\ bus' = Append(bus, <<r, Head(outbox[r])>>))
      BY <1>17, Zenon DEF EmitNext
    <3>2. bus \in Seq(Requests \X (1 .. MaxEvents))
      BY <1>c DEF TypeOK
    <3>3. outbox[r] # <<>> => <<r, Head(outbox[r])>> \in Requests \X (1 .. MaxEvents)
      BY <2>4
    <3>4. ASSUME NEW e \in Requests \X (1 .. MaxEvents), bus' = Append(bus, e)
          PROVE  bus' \in Seq(Requests \X (1 .. MaxEvents))
      BY <3>2, <3>4, AppendProperties
    <3>5. QED
      BY <3>1, <3>2, <3>3, <3>4, Zenon
  <2>7. resp' \in [Requests -> Origins]
    BY <1>17, <1>b, <1>c DEF EmitNext, TypeOK
  <2>8. QED
    BY <1>c, <2>1, <2>3, <2>5, <2>6, <2>7 DEF TypeInv, TypeOK
<1>18. ASSUME NEW r \in Requests, Send(r) PROVE TypeInv'
  <2>1. /\ UNCHANGED <<route, user, resp, flushQueue, queue, outbox, collected, bus, ran,
                       passed, circularChecked>>
        /\ GoTo(r, "settled")
    BY <1>18 DEF Send
  <2>2. /\ pc' \in [Requests -> Phases]
        /\ at' \in [Requests -> Nat]
        /\ Routed'
    BY <1>c, <2>1, GoToTypes, PhaseSets DEF TypeOK
  <2>3. QED
    BY <1>c, <2>1, <2>2 DEF TypeInv, TypeOK
<1>19. CASE UNCHANGED vars
  BY <1>19 DEF vars, TypeInv, TypeOK, Routed
<1>20. QED
  BY <1>1, <1>2, <1>3, <1>4, <1>5, <1>6, <1>7, <1>8, <1>9, <1>10, <1>11, <1>12, <1>13,
     <1>14, <1>15, <1>16, <1>17, <1>18, <1>19, Zenon
  DEF Next, Work, AllSettled

\* The variables of the pipeline keep their types, for every configuration.
THEOREM TypeCorrect == Spec => []TypeOK
<1>1. TypeInv => TypeOK
  BY DEF TypeInv
<1>2. QED
  BY <1>1, InitTypeInv, StepTypeInv, PTL DEF Spec

-----------------------------------------------------------------------------
(* Nothing runs behind a block *)

Barrier == {"onRequest", "plugins", "modulePlugins", "pluginGuards", "moduleGuards",
            "routeGuards", "beforeHandle", "moduleBeforeHandle"}

\* The place of a phase in the chain of _runRoute; 0 outside the chain.
Rank(ph) ==
  CASE ph = "onRequest"          -> 1
    [] ph = "match"              -> 2
    [] ph = "permission"         -> 3
    [] ph = "moduleOnRequest"    -> 4
    [] ph = "plugins"            -> 5
    [] ph = "modulePlugins"      -> 6
    [] ph = "validation"         -> 7
    [] ph = "services"           -> 8
    [] ph = "pluginGuards"       -> 9
    [] ph = "moduleGuards"       -> 10
    [] ph = "routeGuards"        -> 11
    [] ph = "beforeHandle"       -> 12
    [] ph = "moduleBeforeHandle" -> 13
    [] ph = "handler"            -> 14
    [] OTHER                     -> 0

Done(r, b) == AllCallbacks(r, b) \subseteq passed[r]

\* What makes the safety of the chain inductive, for one request: the barriers
\* before its phase are passed, so are the callbacks before its position in the
\* current one, and the barriers before everything that ever ran.  Until the
\* route is known only app-level onRequest hooks have run, so learning the route
\* (and with it which barriers apply) disturbs nothing.
Chain(r) ==
  /\ \A b \in Barrier : Rank(b) < Rank(pc[r]) => Done(r, b)
  /\ pc[r] \in Barrier => \A i \in 1 .. at[r] : Callback(r, pc[r], i) \in passed[r]
  /\ \A c \in ran[r] : \A b \in Barrier : Rank(b) < Rank(c[1]) => Done(r, b)
  /\ pc[r] \in {"idle", "onRequest", "match"} => \A c \in ran[r] : Rank(c[1]) <= 1

ChainInv == \A r \in Requests : Chain(r)

\* There are fourteen phases of the chain.
LEMMA RankType == \A ph : Rank(ph) \in 0 .. 14
  BY DEF Rank

\* Only the route decides which callbacks apply to a request.
LEMMA SameRoute ==
  ASSUME NEW r \in Requests, route'[r] = route[r]
  PROVE  /\ \A ph, i : Callback(r, ph, i)' = Callback(r, ph, i)
         /\ \A ph : AllCallbacks(r, ph)' = AllCallbacks(r, ph)
<1>1. ASSUME NEW ph, NEW i PROVE Callback(r, ph, i)' = Callback(r, ph, i)
  BY DEF Callback
<1>2. ASSUME NEW ph PROVE Callbacks(r, ph)' = Callbacks(r, ph)
  BY DEF Callbacks, HasModule
<1>3. ASSUME NEW ph PROVE AllCallbacks(r, ph)' = AllCallbacks(r, ph)
  BY DEF AllCallbacks, Callbacks, Callback, HasModule
<1>4. QED
  BY <1>1, <1>3, Zenon

\* A step that moves a request along the chain, or out of it.
LEMMA ChainStep ==
  ASSUME NEW r \in Requests, Chain(r), route'[r] = route[r],
         passed[r] \subseteq passed'[r],
         \A c \in ran'[r] \ ran[r] : Rank(c[1]) <= Rank(pc[r]),
         \A b \in Barrier : Rank(b) < Rank(pc'[r]) =>
           Rank(b) < Rank(pc[r]) \/ AllCallbacks(r, b) \subseteq passed'[r],
         pc'[r] \in Barrier =>
           \A i \in 1 .. at'[r] : Callback(r, pc'[r], i) \in passed'[r],
         pc'[r] \in {"idle", "onRequest", "match"} =>
           pc[r] = "onRequest" \/ (pc[r] = pc'[r] /\ ran'[r] = ran[r])
  PROVE  Chain(r)'
<1>1. /\ \A ph, i : Callback(r, ph, i)' = Callback(r, ph, i)
      /\ \A ph : AllCallbacks(r, ph)' = AllCallbacks(r, ph)
  BY SameRoute
<1>2. \A b : Done(r, b) => Done(r, b)'
  BY <1>1 DEF Done
<1>3. \A b \in Barrier : Rank(b) < Rank(pc'[r]) => Done(r, b)'
  BY <1>1, <1>2 DEF Chain, Done
<1>4. (pc[r] \in Barrier => \A i \in 1 .. at[r] : Callback(r, pc[r], i) \in passed[r])'
  BY DEF Callback
<1>5. \A c \in ran'[r] : \A b \in Barrier : Rank(b) < Rank(c[1]) => Done(r, b)'
  <2>1. ASSUME NEW c \in ran'[r], NEW b \in Barrier, Rank(b) < Rank(c[1])
        PROVE  Done(r, b)'
    <3>1. CASE c \in ran[r]
      BY <1>2, <2>1, <3>1 DEF Chain
    <3>2. CASE c \notin ran[r]
      <4>1. Rank(b) < Rank(pc[r])
        BY <2>1, <3>2, RankType
      <4>2. QED
        BY <1>2, <4>1 DEF Chain
    <3>3. QED
      BY <3>1, <3>2
  <2>2. QED
    BY <2>1
<1>6. pc'[r] \in {"idle", "onRequest", "match"} => \A c \in ran'[r] : Rank(c[1]) <= 1
  <2>1. ASSUME pc[r] = "onRequest", NEW c \in ran'[r] PROVE Rank(c[1]) <= 1
    <3>1. Rank(pc[r]) = 1
      BY <2>1 DEF Rank
    <3>2. QED
      BY <2>1, <3>1 DEF Chain
  <2>2. QED
    BY <2>1 DEF Chain
<1>7. QED
  BY <1>3, <1>4, <1>5, <1>6 DEF Chain

\* A step of one request leaves the chain of every other request alone.
Frame(r) ==
  \A q \in Requests \ {r} :
    /\ pc'[q] = pc[q] /\ at'[q] = at[q] /\ route'[q] = route[q]
    /\ ran'[q] = ran[q] /\ passed'[q] = passed[q]

\* What a request has passed is its own: others do not change it.
LEMMA OthersKeepTheirChain ==
  ASSUME NEW r \in Requests, NEW q \in Requests \ {r}, Frame(r), Chain(q)
  PROVE  Chain(q)'
<1>1. /\ pc'[q] = pc[q] /\ at'[q] = at[q] /\ route'[q] = route[q]
      /\ ran'[q] = ran[q] /\ passed'[q] = passed[q]
  BY DEF Frame
<1>2. pc'[q] \in Barrier => \A i \in 1 .. at'[q] : Callback(q, pc'[q], i) \in passed'[q]
  BY <1>1 DEF Chain
<1>3. QED
  BY <1>1, <1>2, ChainStep

\* However a step leaves its request, others are where they were.
LEMMA OutcomeFrame ==
  ASSUME TypeInv, NEW r \in Requests, Outcome(r)
  PROVE  \A q \in Requests \ {r} :
           pc'[q] = pc[q] /\ at'[q] = at[q] /\ passed'[q] = passed[q]
  BY DEF Outcome, Pass, Swallow, Raise, Respond, Reject, GoTo, TypeInv, TypeOK

\* A callback of one request is no event of another.
LEMMA LoopFrame ==
  ASSUME TypeInv, NEW r \in Requests, NEW marks, StartMarked(r, marks), Outcome(r)
  PROVE  Frame(r)
<1>1. route' = route /\ \A q \in Requests \ {r} : ran'[q] = ran[q]
  BY DEF StartMarked, TypeInv, TypeOK
<1>2. QED
  BY <1>1, OutcomeFrame DEF Frame

\* The callback of a loop step belongs to the phase of the loop.
LEMMA CallbackPhase == \A r, ph, i : Callback(r, ph, i)[1] = ph
  BY DEF Callback

\* A callback starts and passes.
LEMMA PassChain ==
  ASSUME TypeInv, NEW r \in Requests, Chain(r), pc[r] \in LoopPhases,
         NEW marks, \A c \in marks : Rank(c[1]) = 0, StartMarked(r, marks), Pass(r)
  PROVE  Chain(r)'
<1>1. /\ pc'[r] = pc[r] /\ route'[r] = route[r] /\ at'[r] = at[r] + 1 /\ at[r] \in Nat
      /\ passed'[r] = passed[r] \cup {Callback(r, pc[r], at[r] + 1)}
      /\ ran'[r] = ran[r] \cup {Callback(r, pc[r], at[r] + 1)} \cup marks
  BY DEF StartMarked, Pass, TypeInv, TypeOK
<1>2. \A c \in ran'[r] \ ran[r] : Rank(c[1]) <= Rank(pc[r])
  BY <1>1, CallbackPhase, RankType
<1>3. pc'[r] \in Barrier =>
        \A i \in 1 .. at'[r] : Callback(r, pc'[r], i) \in passed'[r]
  <2>1. ASSUME pc[r] \in Barrier, NEW i \in 1 .. (at[r] + 1)
        PROVE  Callback(r, pc[r], i) \in passed'[r]
    <3>1. i \in 1 .. at[r] \/ i = at[r] + 1
      BY <1>1
    <3>2. QED
      BY <1>1, <2>1, <3>1 DEF Chain
  <2>2. QED
    BY <1>1, <2>1
<1>4. pc'[r] \in {"idle", "onRequest", "match"} => pc[r] = "onRequest"
  BY <1>1 DEF LoopPhases, AppPhases, RoutePhases, ModulePhases, GuardPhases
<1>5. QED
  BY <1>1, <1>2, <1>3, <1>4, ChainStep

\* A request leaves the chain: it is answered, or it fails.
Leave(r) == \/ Raise(r)
            \/ \E origin \in Origins : Respond(r, origin) \/ Reject(r, origin)

\* A request that is answered or fails has still run nothing out of order.
LEMMA LeaveChain ==
  ASSUME TypeInv, NEW r \in Requests, Chain(r), Leave(r), route'[r] = route[r],
         \A c \in ran'[r] \ ran[r] : Rank(c[1]) <= Rank(pc[r])
  PROVE  Chain(r)'
<1>1. /\ pc'[r] \in {"onError", "onResponse", "settled"}
      /\ passed'[r] = passed[r]
  BY DEF Leave, Raise, Respond, Reject, GoTo, TypeInv, TypeOK
<1>2. /\ Rank(pc'[r]) = 0
      /\ pc'[r] \notin Barrier /\ pc'[r] \notin {"idle", "onRequest", "match"}
  BY <1>1 DEF Rank, Barrier
<1>3. \A b \in Barrier : ~ (Rank(b) < Rank(pc'[r]))
  BY <1>2, RankType
<1>4. QED
  BY <1>1, <1>2, <1>3, ChainStep

\* A callback starts and blocks the request.
LEMMA BlockChain ==
  ASSUME TypeInv, NEW r \in Requests, Chain(r),
         NEW marks, \A c \in marks : Rank(c[1]) = 0, StartMarked(r, marks), Leave(r)
  PROVE  Chain(r)'
<1>1. /\ route'[r] = route[r]
      /\ ran'[r] = ran[r] \cup {Callback(r, pc[r], at[r] + 1)} \cup marks
  BY DEF StartMarked, TypeInv, TypeOK
<1>2. \A c \in ran'[r] \ ran[r] : Rank(c[1]) <= Rank(pc[r])
  BY <1>1, CallbackPhase, RankType
<1>3. QED
  BY <1>1, <1>2, LeaveChain

\* An error is swallowed by a loop that is no barrier.
LEMMA SwallowChain ==
  ASSUME TypeInv, NEW r \in Requests, Chain(r), Swallow(r), route'[r] = route[r],
         pc[r] \notin Barrier \cup {"idle", "match"},
         \A c \in ran'[r] \ ran[r] : Rank(c[1]) <= Rank(pc[r])
  PROVE  Chain(r)'
<1>1. pc'[r] = pc[r] /\ passed'[r] = passed[r]
  BY DEF Swallow
<1>2. pc[r] \notin {"idle", "onRequest", "match"}
  BY DEF Barrier
<1>3. QED
  BY <1>1, <1>2, ChainStep

\* A request moves on, with nothing started.
LEMMA MoveChain ==
  ASSUME TypeInv, NEW r \in Requests, Chain(r), NEW ph, GoTo(r, ph),
         route'[r] = route[r], ran'[r] = ran[r], passed'[r] = passed[r],
         \A b \in Barrier : Rank(b) < Rank(ph) => Rank(b) < Rank(pc[r]) \/ Done(r, b),
         ph \in {"idle", "onRequest", "match"} => pc[r] = "onRequest"
  PROVE  Chain(r)'
<1>1. pc'[r] = ph /\ at'[r] = 0
  BY DEF GoTo, TypeInv, TypeOK
<1>2. \A b \in Barrier : Rank(b) < Rank(pc'[r]) =>
        Rank(b) < Rank(pc[r]) \/ AllCallbacks(r, b) \subseteq passed'[r]
  BY <1>1 DEF Done
<1>3. \A i \in 1 .. at'[r] : Callback(r, pc'[r], i) \in passed'[r]
  BY <1>1
<1>4. QED
  BY <1>1, <1>2, <1>3, ChainStep

\* No request has run anything at the start.
LEMMA InitChainInv == Init => ChainInv
<1> SUFFICES ASSUME Init, NEW r \in Requests PROVE Chain(r)
  BY DEF ChainInv
<1>1. pc[r] = "idle" /\ ran[r] = {}
  BY DEF Init
<1>2. Rank(pc[r]) = 0 /\ pc[r] \notin Barrier
  BY <1>1 DEF Rank, Barrier
<1>3. \A b \in Barrier : ~ (Rank(b) < Rank(pc[r]))
  BY <1>2, RankType
<1>4. QED
  BY <1>1, <1>2, <1>3 DEF Chain

\* Every step keeps the order of the chain, for every request.
LEMMA StepChainInv == TypeInv /\ ChainInv /\ [Next]_vars => ChainInv'
<1> SUFFICES ASSUME TypeInv, ChainInv, [Next]_vars PROVE ChainInv'
  OBVIOUS
<1>a. /\ \A r \in Requests : Chain(r)
      /\ \A c \in {} : Rank(c[1]) = 0
      /\ \A c \in {GuardAnswered} : Rank(c[1]) = 0
  BY DEF ChainInv, GuardAnswered, Rank
<1>b. /\ {"early", "404", "405", "guard", "handler", "500", "route", "module", "app",
          "builtin"} \subseteq Origins
      /\ {"serviceFailed", "circularDependency", "stackOverflow",
          "onErrorRejected", "emitRejected"} \subseteq Origins
  BY DEF Origins, Rejections
<1>1. ASSUME NEW r \in Requests, Arrive(r) PROVE Frame(r) /\ Chain(r)'
  <2>1. /\ pc[r] = "idle" /\ pc'[r] = "onRequest" /\ at'[r] = 0
        /\ ran' = ran /\ passed' = passed /\ Frame(r)
    BY <1>1, ConfigAssumption DEF Arrive, GoTo, Frame, TypeInv, TypeOK
  <2>2. \A c \in ran'[r] : Rank(c[1]) <= 1
    BY <1>a, <2>1 DEF Chain
  <2>3. \A b \in Barrier : Rank(b) >= 1 /\ Rank(pc'[r]) = 1
    BY <2>1 DEF Barrier, Rank
  <2>4. (\A b \in Barrier : Rank(b) < Rank(pc[r]) => Done(r, b))'
    BY <2>3, RankType
  <2>5. (\A c \in ran[r] : \A b \in Barrier : Rank(b) < Rank(c[1]) => Done(r, b))'
    BY <2>2, <2>3, RankType
  <2>6. (\A i \in 1 .. at[r] : Callback(r, pc[r], i) \in passed[r])'
    BY <2>1
  <2>7. QED
    BY <2>1, <2>2, <2>4, <2>5, <2>6 DEF Chain
<1>2. ASSUME NEW r \in Requests, GlobalOnRequest(r) PROVE Frame(r) /\ Chain(r)'
  <2>1. pc[r] \in LoopPhases /\ Start(r)
    BY <1>2 DEF GlobalOnRequest, LoopPhases, AppPhases, RoutePhases, ModulePhases, GuardPhases
  <2>2. Pass(r) \/ Leave(r)
    BY <1>2, <1>b DEF GlobalOnRequest, Leave
  <2>3. QED
    BY <1>a, <2>1, <2>2, LoopFrame, PassChain, BlockChain DEF Start, Outcome, Leave
<1>3. ASSUME NEW r \in Requests, MatchRoute(r) PROVE Frame(r) /\ Chain(r)'
  <2>1. pc[r] = "match" /\ ran' = ran /\ passed' = passed
    BY <1>3 DEF MatchRoute, Respond
  <2>2. CASE Leave(r) /\ route' = route
    <3>1. Frame(r)
      BY <2>1, <2>2 DEF Leave, Raise, Respond, Reject, GoTo, Frame, TypeInv, TypeOK
    <3>2. QED
      BY <1>a, <2>1, <2>2, <3>1, LeaveChain
  <2>3. ASSUME NEW rt \in Routes, route' = [route EXCEPT ![r] = rt], GoTo(r, "permission")
        PROVE  Frame(r) /\ Chain(r)'
    <3>1. pc'[r] = "permission" /\ at'[r] = 0 /\ Frame(r)
      BY <2>1, <2>3 DEF GoTo, Frame, TypeInv, TypeOK
    <3>2. \A c \in ran'[r] : Rank(c[1]) <= 1
      BY <1>a, <2>1 DEF Chain
    <3>3. Done(r, "onRequest")'
      <4>1. "onRequest" \in Barrier /\ Rank("onRequest") < Rank(pc[r])
        BY <2>1 DEF Barrier, Rank
      <4>2. Done(r, "onRequest")
        BY <1>a, <4>1 DEF Chain
      <4>3. AllCallbacks(r, "onRequest")' = AllCallbacks(r, "onRequest")
        BY DEF AllCallbacks, Callbacks, Callback, ModulePhases
      <4>4. QED
        BY <2>1, <4>2, <4>3 DEF Done
    <3>4. \A b \in Barrier : Rank(b) < 3 => b = "onRequest"
      BY DEF Barrier, Rank
    <3>5. Rank(pc'[r]) = 3 /\ pc'[r] \notin Barrier
      BY <3>1 DEF Rank, Barrier
    <3>6. \A b \in Barrier : Rank(b) < Rank(pc'[r]) => Done(r, b)'
      BY <3>3, <3>4, <3>5
    <3>7. \A c \in ran'[r] : \A b \in Barrier : Rank(b) < Rank(c[1]) => Done(r, b)'
      BY <3>2, <3>3, <3>4, RankType
    <3>8. QED
      BY <3>1, <3>2, <3>5, <3>6, <3>7 DEF Chain
  <2>4. QED
    BY <1>3, <1>b, <2>2, <2>3 DEF MatchRoute, Leave
<1>4. ASSUME NEW r \in Requests, PermissionGate(r) PROVE Frame(r) /\ Chain(r)'
  <2>1. /\ pc[r] = "permission" /\ route' = route /\ ran' = ran /\ passed' = passed
        /\ GoTo(r, "moduleOnRequest") \/ Leave(r)
    BY <1>4, <1>b DEF PermissionGate, Leave, Reject, Raise
  <2>2. Frame(r)
    BY <2>1 DEF Leave, Raise, Respond, Reject, GoTo, Frame, TypeInv, TypeOK
  <2>3. CASE GoTo(r, "moduleOnRequest")
    <3>1. \A b \in Barrier : Rank(b) < Rank("moduleOnRequest") => Rank(b) < Rank(pc[r])
      BY <2>1 DEF Barrier, Rank
    <3>2. QED
      BY <1>a, <2>1, <2>2, <2>3, <3>1, MoveChain
  <2>4. CASE Leave(r)
    BY <1>a, <2>1, <2>2, <2>4, LeaveChain
  <2>5. QED
    BY <2>1, <2>3, <2>4
<1>5. ASSUME NEW r \in Requests, ModuleOnRequest(r) PROVE Frame(r) /\ Chain(r)'
  <2>1. pc[r] \in LoopPhases /\ Start(r)
    BY <1>5 DEF ModuleOnRequest, LoopPhases, AppPhases, RoutePhases, ModulePhases, GuardPhases
  <2>2. Pass(r) \/ Leave(r) \/ Swallow(r)
    BY <1>5, <1>b DEF ModuleOnRequest, Leave
  <2>3. CASE Pass(r) \/ Leave(r)
    BY <1>a, <2>1, <2>3, LoopFrame, PassChain, BlockChain DEF Start, Outcome, Leave
  <2>4. CASE Swallow(r)
    <3>1. pc[r] \notin Barrier \cup {"idle", "match"}
      BY <1>5 DEF ModuleOnRequest, Barrier
    <3>2. /\ route'[r] = route[r]
          /\ ran'[r] = ran[r] \cup {Callback(r, pc[r], at[r] + 1)}
      BY <2>1 DEF Start, StartMarked, TypeInv, TypeOK
    <3>3. \A c \in ran'[r] \ ran[r] : Rank(c[1]) <= Rank(pc[r])
      BY <3>2, CallbackPhase, RankType
    <3>4. Frame(r)
      BY <2>1, <2>4, LoopFrame DEF Start, Outcome
    <3>5. QED
      BY <1>a, <2>4, <3>1, <3>2, <3>3, <3>4, SwallowChain
  <2>5. QED
    BY <2>2, <2>3, <2>4
<1>6. ASSUME NEW r \in Requests, PluginRequest(r) PROVE Frame(r) /\ Chain(r)'
  <2>1. pc[r] \in LoopPhases /\ Start(r)
    BY <1>6 DEF PluginRequest, LoopPhases, AppPhases, RoutePhases, ModulePhases, GuardPhases
  <2>2. Pass(r) \/ Leave(r)
    BY <1>6, <1>b DEF PluginRequest, Leave
  <2>3. QED
    BY <1>a, <2>1, <2>2, LoopFrame, PassChain, BlockChain DEF Start, Outcome, Leave
<1>7. ASSUME NEW r \in Requests, Validate(r) PROVE Frame(r) /\ Chain(r)'
  <2>1. /\ pc[r] = "validation" /\ route' = route /\ ran' = ran /\ passed' = passed
        /\ GoTo(r, "services") \/ Leave(r)
    BY <1>7, <1>b DEF Validate, Leave, Reject, Raise
  <2>2. Frame(r)
    BY <2>1 DEF Leave, Raise, Respond, Reject, GoTo, Frame, TypeInv, TypeOK
  <2>3. CASE GoTo(r, "services")
    <3>1. \A b \in Barrier : Rank(b) < Rank("services") => Rank(b) < Rank(pc[r])
      BY <2>1 DEF Barrier, Rank
    <3>2. QED
      BY <1>a, <2>1, <2>2, <2>3, <3>1, MoveChain
  <2>4. CASE Leave(r)
    BY <1>a, <2>1, <2>2, <2>4, LeaveChain
  <2>5. QED
    BY <2>1, <2>3, <2>4
<1>8. ASSUME NEW r \in Requests, Services(r) PROVE Frame(r) /\ Chain(r)'
  <2>1. /\ pc[r] = "services" /\ route' = route /\ ran' = ran /\ passed' = passed
        /\ GoTo(r, "pluginGuards") \/ Leave(r)
    BY <1>8, <1>b DEF Services, Leave, Reject, Raise
  <2>2. Frame(r)
    BY <2>1 DEF Leave, Raise, Respond, Reject, GoTo, Frame, TypeInv, TypeOK
  <2>3. CASE GoTo(r, "pluginGuards")
    <3>1. \A b \in Barrier : Rank(b) < Rank("pluginGuards") => Rank(b) < Rank(pc[r])
      BY <2>1 DEF Barrier, Rank
    <3>2. QED
      BY <1>a, <2>1, <2>2, <2>3, <3>1, MoveChain
  <2>4. CASE Leave(r)
    BY <1>a, <2>1, <2>2, <2>4, LeaveChain
  <2>5. QED
    BY <2>1, <2>3, <2>4
<1>9. ASSUME NEW r \in Requests, Guard(r) PROVE Frame(r) /\ Chain(r)'
  <2>1. (pc[r] \in LoopPhases /\ Pass(r)) \/ Leave(r)
    BY <1>9, <1>b DEF Guard, Leave, LoopPhases, RoutePhases
  <2>2. Start(r) \/ StartMarked(r, {GuardAnswered})
    BY <1>9 DEF Guard
  <2>3. pc[r] \in LoopPhases
    BY <1>9 DEF Guard, LoopPhases, RoutePhases
  <2>4. QED
    BY <1>a, <2>1, <2>2, <2>3, LoopFrame, PassChain, BlockChain DEF Start, Outcome, Leave
<1>10. ASSUME NEW r \in Requests, BeforeHandle(r) PROVE Frame(r) /\ Chain(r)'
  <2>1. pc[r] \in LoopPhases /\ Start(r)
    BY <1>10 DEF BeforeHandle, LoopPhases, AppPhases, RoutePhases, ModulePhases, GuardPhases
  <2>2. Pass(r) \/ Leave(r)
    BY <1>10, <1>b DEF BeforeHandle, Leave
  <2>3. QED
    BY <1>a, <2>1, <2>2, LoopFrame, PassChain, BlockChain DEF Start, Outcome, Leave
<1>11. ASSUME NEW r \in Requests, Handler(r) PROVE Frame(r) /\ Chain(r)'
  <2>1. /\ pc[r] = "handler" /\ route' = route
        /\ ran'[r] = ran[r] \cup {<<"handler", 0, 1>>}
        /\ pc'[r] \in {"onResponse", "onError"}
        /\ passed[r] \subseteq passed'[r]
    BY <1>11 DEF Handler, Respond, Raise, GoTo, TypeInv, TypeOK
  <2>2. Frame(r)
    BY <1>11, <2>1 DEF Handler, Respond, Raise, GoTo, Frame, TypeInv, TypeOK
  <2>3. /\ Rank(pc'[r]) = 0 /\ pc'[r] \notin Barrier
        /\ pc'[r] \notin {"idle", "onRequest", "match"}
    BY <2>1 DEF Rank, Barrier
  <2>4. \A c \in ran'[r] \ ran[r] : Rank(c[1]) <= Rank(pc[r])
    BY <2>1, RankType
  <2>5. \A b \in Barrier : ~ (Rank(b) < Rank(pc'[r]))
    BY <2>3, RankType
  <2>6. QED
    BY <1>a, <2>1, <2>2, <2>3, <2>4, <2>5, ChainStep
<1>12. ASSUME NEW r \in Requests, OnError(r) PROVE Frame(r) /\ Chain(r)'
  <2>1. /\ pc[r] = "onError" /\ route' = route
        /\ ran'[r] = ran[r] \/ ran'[r] = ran[r] \cup {<<"onError", 0, at[r] + 1>>}
        /\ \A q \in Requests \ {r} : ran'[q] = ran[q]
    BY <1>12 DEF OnError, TypeInv, TypeOK
  <2>2. Swallow(r) \/ Leave(r)
    <3>1. at[r] \in {0, 1, 2}
      BY <1>12 DEF OnError, Cascade, TypeInv, TypeOK
    <3>2. Cascade[at[r] + 1] \in Origins
      BY <1>b, <3>1 DEF Cascade
    <3>3. QED
      BY <1>12, <1>b, <3>2 DEF OnError, Leave
  <2>3. Frame(r)
    BY <2>1, <2>2, OutcomeFrame DEF Frame, Outcome, Leave
  <2>4. \A c \in ran'[r] \ ran[r] : Rank(c[1]) <= Rank(pc[r])
    BY <2>1 DEF Rank
  <2>5. pc[r] \notin Barrier \cup {"idle", "match"}
    BY <2>1 DEF Barrier
  <2>6. QED
    BY <1>a, <2>1, <2>2, <2>3, <2>4, <2>5, LeaveChain, SwallowChain
<1>13. ASSUME NEW r \in Requests, BuiltinError(r) PROVE Frame(r) /\ Chain(r)'
  <2>1. route' = route /\ ran' = ran /\ Leave(r)
    BY <1>13, <1>b DEF BuiltinError, Leave
  <2>2. Frame(r)
    BY <2>1, OutcomeFrame DEF Frame, Outcome, Leave
  <2>3. QED
    BY <1>a, <2>1, <2>2, LeaveChain
<1>14. ASSUME NEW r \in Requests, OnResponse(r) PROVE Frame(r) /\ Chain(r)'
  <2>1. pc[r] \in LoopPhases /\ Start(r)
    BY <1>14 DEF OnResponse, LoopPhases, AppPhases, RoutePhases, ModulePhases, GuardPhases
  <2>2. Pass(r) \/ Leave(r) \/ Swallow(r)
    BY <1>14, <1>b DEF OnResponse, Leave
  <2>3. CASE Pass(r) \/ Leave(r)
    BY <1>a, <2>1, <2>3, LoopFrame, PassChain, BlockChain DEF Start, Outcome, Leave
  <2>4. CASE Swallow(r)
    <3>1. pc[r] \notin Barrier \cup {"idle", "match"}
      BY <1>14 DEF OnResponse, Barrier
    <3>2. /\ route'[r] = route[r]
          /\ ran'[r] = ran[r] \cup {Callback(r, pc[r], at[r] + 1)}
      BY <2>1 DEF Start, StartMarked, TypeInv, TypeOK
    <3>3. \A c \in ran'[r] \ ran[r] : Rank(c[1]) <= Rank(pc[r])
      BY <3>2, CallbackPhase, RankType
    <3>4. Frame(r)
      BY <2>1, <2>4, LoopFrame DEF Start, Outcome
    <3>5. QED
      BY <1>a, <2>4, <3>1, <3>2, <3>3, <3>4, SwallowChain
  <2>5. QED
    BY <2>2, <2>3, <2>4
<1>15. ASSUME NEW r \in Requests, EndLoop(r) PROVE Frame(r) /\ Chain(r)'
  <2>1. /\ pc[r] \in LoopPhases /\ at[r] = Callbacks(r, pc[r]) /\ GoTo(r, After(r))
        /\ route' = route /\ ran' = ran /\ passed' = passed
    BY <1>15 DEF EndLoop
  <2>2. Frame(r)
    BY <2>1 DEF GoTo, Frame, TypeInv, TypeOK
  <2>3. pc[r] \in Barrier => Done(r, pc[r])
    BY <1>a, <2>1 DEF Chain, Done, AllCallbacks
  <2>4. \A b \in Barrier : Rank(b) < Rank(After(r)) => Rank(b) < Rank(pc[r]) \/ b = pc[r]
    <3>1. \/ Rank(After(r)) = 0
          \/ Rank(After(r)) = Rank(pc[r]) + 1
          \/ pc[r] = "onRequest" /\ Rank(After(r)) = 3
      <4>1. \/ pc[r] = "onRequest" /\ After(r) \in {"match", "permission"}
            \/ pc[r] = "moduleOnRequest" /\ After(r) = "plugins"
            \/ pc[r] = "plugins" /\ After(r) = "modulePlugins"
            \/ pc[r] = "modulePlugins" /\ After(r) = "validation"
            \/ pc[r] = "pluginGuards" /\ After(r) = "moduleGuards"
            \/ pc[r] = "moduleGuards" /\ After(r) = "routeGuards"
            \/ pc[r] = "routeGuards" /\ After(r) = "beforeHandle"
            \/ pc[r] = "beforeHandle" /\ After(r) = "moduleBeforeHandle"
            \/ pc[r] = "moduleBeforeHandle" /\ After(r) = "handler"
            \/ After(r) \in {"moduleOnResponse", "flush"}
        BY <2>1 DEF After, LoopPhases, AppPhases, RoutePhases, ModulePhases, GuardPhases
      <4>2. QED
        BY <4>1 DEF Rank
    <3>2. \A b \in Barrier : Rank(b) = Rank(pc[r]) => b = pc[r]
      BY DEF Barrier, Rank
    <3>3. \A b \in Barrier : Rank(b) < 3 => b = "onRequest"
      BY DEF Barrier, Rank
    <3>4. \A ph : Rank(ph) \in Nat
      BY RankType
    <3>5. ASSUME NEW b \in Barrier, Rank(b) < Rank(After(r))
          PROVE  Rank(b) < Rank(pc[r]) \/ b = pc[r]
      <4>1. Rank(b) \in Nat /\ Rank(pc[r]) \in Nat
        BY <3>4
      <4>2. CASE pc[r] = "onRequest" /\ Rank(After(r)) = 3
        BY <3>3, <3>5, <4>2
      <4>3. CASE Rank(After(r)) = Rank(pc[r]) + 1
        <5>1. Rank(b) < Rank(pc[r]) \/ Rank(b) = Rank(pc[r])
          BY <3>5, <4>1, <4>3
        <5>2. QED
          BY <3>2, <5>1
      <4>4. QED
        BY <3>1, <3>5, <4>1, <4>2, <4>3
    <3>6. QED
      BY <3>5
  <2>5. After(r) \in {"idle", "onRequest", "match"} => pc[r] = "onRequest"
    BY <2>1 DEF After, LoopPhases, AppPhases, RoutePhases, ModulePhases, GuardPhases
  <2>6. QED
    BY <1>a, <2>1, <2>2, <2>3, <2>4, <2>5, MoveChain
<1>16. ASSUME NEW r \in Requests, Flush(r) PROVE Frame(r) /\ Chain(r)'
  <2>1. /\ route' = route /\ ran' = ran /\ passed' = passed
        /\ pc'[r] \in {"send", "emitting"}
    BY <1>16 DEF Flush, GoTo, TypeInv, TypeOK
  <2>2. Frame(r)
    BY <1>16, <2>1 DEF Flush, GoTo, Frame, TypeInv, TypeOK
  <2>3. /\ Rank(pc'[r]) = 0 /\ pc'[r] \notin Barrier
        /\ pc'[r] \notin {"idle", "onRequest", "match"}
    BY <2>1 DEF Rank, Barrier
  <2>4. \A b \in Barrier : ~ (Rank(b) < Rank(pc'[r]))
    BY <2>3, RankType
  <2>5. QED
    BY <1>a, <2>1, <2>2, <2>3, <2>4, ChainStep
<1>17. ASSUME NEW r \in Requests, EmitNext(r) PROVE Frame(r) /\ Chain(r)'
  <2>1. /\ route' = route /\ ran' = ran /\ passed' = passed
        /\ pc'[r] \in {"send", "settled", "emitting"}
    BY <1>17 DEF EmitNext, GoTo, TypeInv, TypeOK
  <2>2. Frame(r)
    BY <1>17, <2>1 DEF EmitNext, GoTo, Frame, TypeInv, TypeOK
  <2>3. /\ Rank(pc'[r]) = 0 /\ pc'[r] \notin Barrier
        /\ pc'[r] \notin {"idle", "onRequest", "match"}
    BY <2>1 DEF Rank, Barrier
  <2>4. \A b \in Barrier : ~ (Rank(b) < Rank(pc'[r]))
    BY <2>3, RankType
  <2>5. QED
    BY <1>a, <2>1, <2>2, <2>3, <2>4, ChainStep
<1>18. ASSUME NEW r \in Requests, Send(r) PROVE Frame(r) /\ Chain(r)'
  <2>1. /\ route' = route /\ ran' = ran /\ passed' = passed
        /\ pc'[r] \in {"settled"}
    BY <1>18 DEF Send, GoTo, TypeInv, TypeOK
  <2>2. Frame(r)
    BY <1>18, <2>1 DEF Send, GoTo, Frame, TypeInv, TypeOK
  <2>3. /\ Rank(pc'[r]) = 0 /\ pc'[r] \notin Barrier
        /\ pc'[r] \notin {"idle", "onRequest", "match"}
    BY <2>1 DEF Rank, Barrier
  <2>4. \A b \in Barrier : ~ (Rank(b) < Rank(pc'[r]))
    BY <2>3, RankType
  <2>5. QED
    BY <1>a, <2>1, <2>2, <2>3, <2>4, ChainStep
<1>19. CASE UNCHANGED vars
  <2>1. UNCHANGED <<pc, at, route, ran, passed>>
    BY <1>19 DEF vars
  <2>2. QED
    BY <2>1 DEF ChainInv, Chain, Done, AllCallbacks, Callbacks, Callback, HasModule
<1>20. ASSUME NEW r \in Requests, Frame(r), Chain(r)' PROVE ChainInv'
  BY <1>20, <1>a, OthersKeepTheirChain, Zenon DEF ChainInv
<1>21. QED
  BY <1>1, <1>2, <1>3, <1>4, <1>5, <1>6, <1>7, <1>8, <1>9, <1>10, <1>11, <1>12, <1>13,
     <1>14, <1>15, <1>16, <1>17, <1>18, <1>19, <1>20, Zenon
  DEF Next, Work, AllSettled

\* The order of the chain holds in every behaviour.
LEMMA ChainIsInvariant == Spec => [](TypeInv /\ ChainInv)
<1>1. Init => TypeInv /\ ChainInv
  BY InitTypeInv, InitChainInv
<1>2. TypeInv /\ ChainInv /\ [Next]_vars => (TypeInv /\ ChainInv)'
  BY StepTypeInv, StepChainInv
<1>3. QED
  BY <1>1, <1>2, PTL DEF Spec

\* No handler runs for a request that a hook, plugin or guard of any tier has
\* not let pass, whatever was registered and however requests interleave.
THEOREM HandlerGuarded == Spec => []HandlerFullyGuarded
<1>1. ChainInv => HandlerFullyGuarded
  <2> SUFFICES ASSUME ChainInv, NEW r \in Requests, HandlerCall \in ran[r],
                      NEW j \in 1 .. Len(Barriers)
               PROVE  AllCallbacks(r, Barriers[j]) \subseteq passed[r]
    BY DEF HandlerFullyGuarded
  <2>1. Barriers[j] \in Barrier /\ Rank(Barriers[j]) < Rank(HandlerCall[1])
    BY DEF Barriers, Barrier, Rank, HandlerCall
  <2>2. QED
    BY <2>1 DEF ChainInv, Chain, Done
<1>2. QED
  BY <1>1, ChainIsInvariant, PTL

\* A tier that runs at all has every earlier tier behind it, passed.
THEOREM ChainStops == Spec => []NothingRunsBehindABlock
<1>1. ChainInv => NothingRunsBehindABlock
  <2> SUFFICES ASSUME ChainInv, NEW r \in Requests, NEW j \in 1 .. Len(Barriers),
                      NEW c \in ran[r], c[1] = Barriers[j] \/ c = HandlerCall,
                      NEW i \in 1 .. (j - 1)
               PROVE  AllCallbacks(r, Barriers[i]) \subseteq passed[r]
    BY DEF NothingRunsBehindABlock
  <2>1. Barriers[i] \in Barrier /\ Rank(Barriers[i]) < Rank(Barriers[j])
        /\ Rank(Barriers[i]) < Rank(HandlerCall[1])
    BY DEF Barriers, Barrier, Rank, HandlerCall
  <2>2. QED
    BY <2>1 DEF ChainInv, Chain, Done
<1>2. QED
  BY <1>1, ChainIsInvariant, PTL

-----------------------------------------------------------------------------
(* What one step does *)

\* The phases of a request whose response is decided.
Closing == {"onResponse", "moduleOnResponse", "flush", "emitting", "send", "settled"}

\* The phases up to the permission gate, and those behind it.
Early  == {"idle", "onRequest", "match", "permission"}
Behind == {"moduleOnRequest", "plugins", "modulePlugins", "validation", "services",
           "pluginGuards", "moduleGuards", "routeGuards", "beforeHandle",
           "moduleBeforeHandle", "handler"}

Admitted(r) == ~Gated(route[r]) \/ user[r] = "has"

\* A step of r is no step of another request.
OnlyOf(r) ==
  \A q \in Requests \ {r} :
    /\ pc'[q] = pc[q] /\ at'[q] = at[q] /\ route'[q] = route[q] /\ user'[q] = user[q]
    /\ resp'[q] = resp[q] /\ flushQueue'[q] = flushQueue[q] /\ queue'[q] = queue[q]
    /\ outbox'[q] = outbox[q] /\ collected'[q] = collected[q]
    /\ ran'[q] = ran[q] /\ passed'[q] = passed[q]

SameRequest(r) == route'[r] = route[r] /\ user'[r] = user[r]
SameEvents(r)  == queue'[r] = queue[r] /\ outbox'[r] = outbox[r] /\ collected'[r] = collected[r] /\ bus' = bus

\* At most one event is collected.
Collects(r) ==
  /\ \/ queue'[r] = queue[r] /\ collected'[r] = collected[r]
     \/ queue'[r] = Append(queue[r], collected[r] + 1) /\ collected'[r] = collected[r] + 1
  /\ outbox'[r] = outbox[r] /\ bus' = bus

Turns(r, ph) == pc'[r] = ph /\ at'[r] = 0
Errs(r)      == Turns(r, "onError") /\ resp'[r] = resp[r]
Answers(r, origins) == Turns(r, "onResponse") /\ resp'[r] \in origins

\* A request arrives, or its route is found.
Enters(r) ==
  /\ \/ pc[r] = "idle" /\ Turns(r, "onRequest")
     \/ pc[r] = "match" /\ Turns(r, "permission")
  /\ SameEvents(r)
  /\ resp'[r] = resp[r] /\ flushQueue'[r] = flushQueue[r] /\ ran'[r] = ran[r] /\ passed'[r] = passed[r]

\* It goes on to another phase, or is stopped, without any callback.
Moves(r) ==
  /\ SameRequest(r) /\ SameEvents(r)
  /\ \/ pc[r] = "onRequest" /\ pc'[r] \in {"match", "permission"}
     \/ pc[r] = "permission" /\ pc'[r] = "moduleOnRequest" /\ Admitted(r)
     \/ pc[r] = "permission" /\ pc'[r] = "onError"
     \/ pc[r] \in Behind /\ pc'[r] \in Behind \cup {"onError"}
  /\ at'[r] = 0
  /\ resp'[r] = resp[r] /\ flushQueue'[r] = flushQueue[r] /\ ran'[r] = ran[r] /\ passed'[r] = passed[r]

\* It is answered before any callback could, or rejected by its services.
Ends(r) ==
  /\ SameRequest(r) /\ SameEvents(r)
  /\ \/ pc[r] = "match" /\ Answers(r, {"404", "405"})
     \/ /\ pc[r] = "services" /\ Turns(r, "settled")
        /\ resp'[r] \in {"serviceFailed", "stackOverflow", "circularDependency"}
  /\ flushQueue'[r] = flushQueue[r] /\ ran'[r] = ran[r] /\ passed'[r] = passed[r]

\* A callback in front of the handler runs.
Runs(r) ==
  /\ SameRequest(r) /\ Collects(r)
  /\ pc[r] = "onRequest" \/ pc[r] \in Behind \cap LoopPhases
  /\ ran'[r] \in {ran[r] \cup {Callback(r, pc[r], at[r] + 1)},
                  ran[r] \cup {Callback(r, pc[r], at[r] + 1), GuardAnswered}}
  /\ passed[r] \subseteq passed'[r]
  /\ \/ pc'[r] = pc[r] /\ resp'[r] = resp[r]
     \/ Errs(r)
     \/ Answers(r, {"early", "guard"})
  /\ flushQueue'[r] = flushQueue[r]

\* The handler runs.
Handles(r) ==
  /\ SameRequest(r) /\ Collects(r)
  /\ pc[r] = "handler"
  /\ ran'[r] = ran[r] \cup {HandlerCall}
  /\ \/ /\ Answers(r, {"handler"})
        /\ flushQueue'[r] = TRUE /\ passed'[r] = passed[r] \cup {HandlerCall}
     \/ /\ Answers(r, {"500"}) \/ Errs(r)
        /\ flushQueue'[r] = flushQueue[r] /\ passed'[r] = passed[r]

\* One level of the error cascade is tried, or its end is reached.
Cascades(r) ==
  /\ SameRequest(r) /\ SameEvents(r)
  /\ pc[r] = "onError"
  /\ \/ /\ at[r] < 3 /\ HasOnError(r, Cascade[at[r] + 1])
        /\ ran'[r] = ran[r] \cup {<<"onError", 0, at[r] + 1>>}
        /\ \/ Answers(r, {Cascade[at[r] + 1]})
           \/ pc'[r] = "onError" /\ at'[r] = at[r] + 1 /\ resp'[r] = resp[r]
           \/ Turns(r, "settled") /\ resp'[r] = "onErrorRejected"
     \/ /\ at[r] < 3 /\ ~HasOnError(r, Cascade[at[r] + 1])
        /\ ran'[r] = ran[r]
        /\ pc'[r] = "onError" /\ at'[r] = at[r] + 1 /\ resp'[r] = resp[r]
     \/ /\ at[r] = 3 /\ ran'[r] = ran[r] /\ Answers(r, {"builtin"})
  /\ flushQueue'[r] = flushQueue[r] /\ passed'[r] = passed[r]

\* An onResponse hook runs, or a loop of them ends.
Hooks(r) ==
  /\ SameRequest(r) /\ Collects(r)
  /\ \/ /\ pc[r] \in {"onResponse", "moduleOnResponse"} /\ pc'[r] = pc[r] /\ at'[r] = at[r] + 1
        /\ ran'[r] = ran[r] \cup {Callback(r, pc[r], at[r] + 1)}
     \/ /\ \/ pc[r] = "onResponse" /\ Turns(r, "moduleOnResponse")
           \/ pc[r] = "moduleOnResponse" /\ Turns(r, "flush")
        /\ at[r] = Callbacks(r, pc[r])
        /\ ran'[r] = ran[r]
  /\ passed[r] \subseteq passed'[r]
  /\ resp'[r] = resp[r] /\ flushQueue'[r] = flushQueue[r]

\* The queue is flushed, the outbox emitted, or the response sent.
Publishes(r) ==
  /\ SameRequest(r) /\ collected'[r] = collected[r]
  /\ ran'[r] = ran[r] /\ passed'[r] = passed[r] /\ flushQueue'[r] = flushQueue[r]
  /\ \/ /\ pc[r] = "flush" /\ ~flushQueue[r]
        /\ pc'[r] = "send" /\ bus' = bus /\ resp'[r] = resp[r]
     \/ /\ pc[r] = "flush" /\ flushQueue[r]
        /\ pc'[r] = "send" /\ bus' = bus \o Entries(r, queue[r]) /\ resp'[r] = resp[r]
     \/ /\ pc[r] = "flush" /\ flushQueue[r]
        /\ pc'[r] = "emitting" /\ bus' = bus /\ outbox'[r] = queue[r] /\ resp'[r] = resp[r]
     \/ /\ pc[r] = "emitting" /\ outbox[r] = <<>>
        /\ pc'[r] = "send" /\ bus' = bus /\ resp'[r] = resp[r]
     \/ /\ pc[r] = "emitting" /\ outbox[r] # <<>>
        /\ pc'[r] = pc[r] /\ bus' = Append(bus, <<r, Head(outbox[r])>>)
        /\ outbox'[r] = Tail(outbox[r]) /\ resp'[r] = resp[r]
     \/ /\ pc[r] = "emitting" /\ outbox[r] # <<>>
        /\ pc'[r] = "settled" /\ bus' = bus /\ resp'[r] = "emitRejected"
     \/ /\ pc[r] = "send" /\ pc'[r] = "settled" /\ bus' = bus /\ resp'[r] = resp[r]

Effect(r) ==
  \/ Enters(r) \/ Moves(r) \/ Ends(r) \/ Runs(r) \/ Handles(r) \/ Cascades(r)
  \/ Hooks(r) \/ Publishes(r)

\* What an outcome changes.
LEMMA OutcomeOnly ==
  ASSUME TypeInv, NEW r \in Requests, Outcome(r)
  PROVE  /\ \A q \in Requests \ {r} :
              pc'[q] = pc[q] /\ at'[q] = at[q] /\ resp'[q] = resp[q] /\ passed'[q] = passed[q]
         /\ passed[r] \subseteq passed'[r]
BY DEF Outcome, Pass, Swallow, Raise, Respond, Reject, GoTo, TypeInv, TypeOK

\* What a callback that starts changes.
LEMMA StartOnly ==
  ASSUME TypeInv, NEW r \in Requests, NEW marks, StartMarked(r, marks)
  PROVE  /\ \A q \in Requests \ {r} :
              /\ route'[q] = route[q] /\ user'[q] = user[q] /\ flushQueue'[q] = flushQueue[q]
              /\ queue'[q] = queue[q] /\ outbox'[q] = outbox[q] /\ collected'[q] = collected[q]
              /\ ran'[q] = ran[q]
         /\ SameRequest(r) /\ Collects(r) /\ flushQueue'[r] = flushQueue[r]
         /\ ran'[r] = ran[r] \cup {Callback(r, pc[r], at[r] + 1)} \cup marks
<1>1. /\ route' = route /\ user' = user /\ flushQueue' = flushQueue /\ outbox' = outbox /\ bus' = bus
      /\ ran' = [ran EXCEPT ![r] = @ \cup {Callback(r, pc[r], at[r] + 1)} \cup marks]
      /\ Collect(r)
  BY DEF StartMarked
<1>2. /\ \A q \in Requests \ {r} : queue'[q] = queue[q] /\ collected'[q] = collected[q]
      /\ Collects(r)
  BY <1>1 DEF Collect, Collects, TypeInv, TypeOK
<1>3. \A q \in Requests \ {r} : ran'[q] = ran[q]
  BY <1>1 DEF TypeInv, TypeOK
<1>4. ran'[r] = ran[r] \cup {Callback(r, pc[r], at[r] + 1)} \cup marks
  BY <1>1 DEF TypeInv, TypeOK
<1>5. QED
  BY <1>1, <1>2, <1>3, <1>4 DEF SameRequest

\* A callback in front of the handler has one of three outcomes.
LEMMA RunsEffect ==
  ASSUME TypeInv, NEW r \in Requests, pc[r] = "onRequest" \/ pc[r] \in Behind \cap LoopPhases,
         NEW marks \in {{}, {GuardAnswered}}, StartMarked(r, marks),
         \/ Pass(r) \/ Swallow(r) \/ Raise(r)
         \/ \E origin \in {"early", "guard"} : Respond(r, origin)
  PROVE  OnlyOf(r) /\ Runs(r)
<1>1. Outcome(r)
  BY DEF Outcome, Origins
<1>2. \/ pc'[r] = pc[r] /\ resp'[r] = resp[r]
      \/ Errs(r)
      \/ Answers(r, {"early", "guard"})
  BY DEF Pass, Swallow, Raise, Respond, GoTo, Errs, Answers, Turns, TypeInv, TypeOK
<1>3. ran'[r] \in {ran[r] \cup {Callback(r, pc[r], at[r] + 1)},
                   ran[r] \cup {Callback(r, pc[r], at[r] + 1), GuardAnswered}}
  <2>1. ran'[r] = ran[r] \cup {Callback(r, pc[r], at[r] + 1)} \cup marks
    BY StartOnly
  <2>2. QED
    BY <2>1
<1>4. OnlyOf(r)
  BY <1>1, OutcomeOnly, StartOnly DEF OnlyOf
<1>5. SameRequest(r) /\ Collects(r) /\ flushQueue'[r] = flushQueue[r] /\ passed[r] \subseteq passed'[r]
  BY <1>1, OutcomeOnly, StartOnly
<1>6. QED
  BY <1>2, <1>3, <1>4, <1>5 DEF Runs

\* Every step is a step of one request, of one of a few kinds.
LEMMA StepEffect ==
  ASSUME TypeInv, NEW r \in Requests, Arrive(r) \/ Work(r)
  PROVE  OnlyOf(r) /\ Effect(r)
<1>t. TypeOK
  BY DEF TypeInv
<1>p. Behind \cap LoopPhases = {"moduleOnRequest", "plugins", "modulePlugins", "pluginGuards",
                                "moduleGuards", "routeGuards", "beforeHandle", "moduleBeforeHandle"}
  BY DEF Behind, LoopPhases, AppPhases, RoutePhases, ModulePhases, GuardPhases
<1>1. ASSUME Arrive(r) PROVE OnlyOf(r) /\ Effect(r)
  <2>1. OnlyOf(r)
    BY <1>1, <1>t DEF Arrive, GoTo, OnlyOf, TypeOK
  <2>2. Enters(r)
    BY <1>1, <1>t DEF Arrive, GoTo, Enters, Turns, SameEvents, TypeOK
  <2>3. QED
    BY <2>1, <2>2 DEF Effect
<1>2. ASSUME GlobalOnRequest(r) PROVE OnlyOf(r) /\ Effect(r)
  BY <1>2, RunsEffect DEF GlobalOnRequest, Start, Effect
<1>3. ASSUME MatchRoute(r) PROVE OnlyOf(r) /\ Effect(r)
  <2>1. /\ OnlyOf(r) /\ SameEvents(r) /\ pc[r] = "match"
        /\ flushQueue'[r] = flushQueue[r] /\ ran'[r] = ran[r] /\ passed'[r] = passed[r] /\ user'[r] = user[r]
    BY <1>3, <1>t DEF MatchRoute, GoTo, Respond, OnlyOf, SameEvents, TypeOK
  <2>2. \/ Turns(r, "permission") /\ resp'[r] = resp[r]
        \/ Answers(r, {"404", "405"}) /\ route'[r] = route[r]
    BY <1>3, <1>t DEF MatchRoute, GoTo, Respond, Turns, Answers, TypeOK
  <2>3. QED
    BY <2>1, <2>2 DEF Effect, Enters, Ends, SameRequest
<1>4. ASSUME PermissionGate(r) PROVE OnlyOf(r) /\ Effect(r)
  <2>1. OnlyOf(r) /\ SameEvents(r) /\ SameRequest(r)
    BY <1>4, <1>t DEF PermissionGate, GoTo, Raise, OnlyOf, SameEvents, SameRequest, TypeOK
  <2>2. Moves(r)
    BY <1>4, <1>t, <2>1 DEF PermissionGate, GoTo, Raise, Moves, Admitted, TypeOK
  <2>3. QED
    BY <2>1, <2>2 DEF Effect
<1>5. ASSUME ModuleOnRequest(r) PROVE OnlyOf(r) /\ Effect(r)
  BY <1>5, <1>p, RunsEffect DEF ModuleOnRequest, Start, Effect
<1>6. ASSUME PluginRequest(r) PROVE OnlyOf(r) /\ Effect(r)
  BY <1>6, <1>p, RunsEffect DEF PluginRequest, Start, Effect
<1>7. ASSUME Validate(r) PROVE OnlyOf(r) /\ Effect(r)
  <2>1. OnlyOf(r) /\ SameEvents(r) /\ SameRequest(r)
    BY <1>7, <1>t DEF Validate, GoTo, Raise, OnlyOf, SameEvents, SameRequest, TypeOK
  <2>2. Moves(r)
    BY <1>7, <1>t, <2>1 DEF Validate, GoTo, Raise, Moves, Behind, TypeOK
  <2>3. QED
    BY <2>1, <2>2 DEF Effect
<1>8. ASSUME Services(r) PROVE OnlyOf(r) /\ Effect(r)
  <2>1. OnlyOf(r) /\ SameEvents(r) /\ SameRequest(r)
    BY <1>8, <1>t DEF Services, GoTo, Reject, OnlyOf, SameEvents, SameRequest, TypeOK
  <2>2. Moves(r) \/ Ends(r)
    BY <1>8, <1>t, <2>1 DEF Services, GoTo, Reject, Moves, Ends, Turns, Behind, TypeOK
  <2>3. QED
    BY <2>1, <2>2 DEF Effect
<1>9. ASSUME Guard(r) PROVE OnlyOf(r) /\ Effect(r)
  <2>1. pc[r] \in Behind \cap LoopPhases
    BY <1>9, <1>p DEF Guard, GuardPhases
  <2>2. QED
    BY <1>9, <2>1, RunsEffect DEF Guard, Start, Effect
<1>10. ASSUME BeforeHandle(r) PROVE OnlyOf(r) /\ Effect(r)
  BY <1>10, <1>p, RunsEffect DEF BeforeHandle, Start, Effect
<1>11. ASSUME Handler(r) PROVE OnlyOf(r) /\ Effect(r)
  <2>1. OnlyOf(r)
    BY <1>11, <1>t DEF Handler, Collect, GoTo, Respond, Raise, OnlyOf, TypeOK
  <2>2. SameRequest(r) /\ Collects(r)
    BY <1>11, <1>t DEF Handler, Collect, SameRequest, Collects, TypeOK
  <2>3. Handles(r)
    BY <1>11, <1>t, <2>2 DEF Handler, GoTo, Respond, Raise, Handles, Answers, Errs, Turns, HandlerCall, TypeOK
  <2>4. QED
    BY <2>1, <2>3 DEF Effect
<1>12. ASSUME OnError(r) PROVE OnlyOf(r) /\ Effect(r)
  <2>1. OnlyOf(r) /\ SameEvents(r) /\ SameRequest(r)
    BY <1>12, <1>t DEF OnError, GoTo, Respond, Reject, Swallow, OnlyOf, SameEvents, SameRequest, TypeOK
  <2>2. at[r] \in Nat /\ at[r] < 3
    BY <1>12, <1>t DEF OnError, Cascade, TypeOK
  <2> DEFINE level == Cascade[at[r] + 1]
             id    == <<"onError", 0, at[r] + 1>>
  <2>3. /\ pc[r] = "onError" /\ flushQueue' = flushQueue /\ passed' = passed
        /\ \/ /\ HasOnError(r, level)
              /\ ran' = [ran EXCEPT ![r] = @ \cup {id}]
              /\ Respond(r, level) \/ Swallow(r) \/ Reject(r, "onErrorRejected")
           \/ ~HasOnError(r, level) /\ Swallow(r) /\ ran' = ran
    BY <1>12 DEF OnError, Respond, Swallow, Reject
  <2> HIDE DEF level, id
  <2>4. /\ Respond(r, level) => Answers(r, {level})
        /\ Swallow(r) => pc'[r] = pc[r] /\ at'[r] = at[r] + 1 /\ resp'[r] = resp[r]
        /\ Reject(r, "onErrorRejected") => Turns(r, "settled") /\ resp'[r] = "onErrorRejected"
    BY <1>t DEF Respond, Swallow, Reject, GoTo, Answers, Turns, TypeOK
  <2>5. ran' = [ran EXCEPT ![r] = @ \cup {id}] => ran'[r] = ran[r] \cup {id}
    BY <1>t DEF TypeOK
  <2>6. flushQueue'[r] = flushQueue[r] /\ passed'[r] = passed[r] /\ pc[r] = "onError"
    BY <2>3
  <2>7. Cascades(r)
    <3>1. CASE HasOnError(r, level)
      <4>1. /\ ran'[r] = ran[r] \cup {id}
            /\ \/ Answers(r, {level})
               \/ pc'[r] = "onError" /\ at'[r] = at[r] + 1 /\ resp'[r] = resp[r]
               \/ Turns(r, "settled") /\ resp'[r] = "onErrorRejected"
        BY <2>3, <2>4, <2>5, <2>6, <3>1
      <4>2. QED
        BY <2>1, <2>2, <2>6, <3>1, <4>1, Zenon DEF Cascades, level, id
    <3>2. CASE ~HasOnError(r, level)
      <4>1. ran'[r] = ran[r] /\ pc'[r] = "onError" /\ at'[r] = at[r] + 1 /\ resp'[r] = resp[r]
        BY <2>3, <2>4, <2>6, <3>2
      <4>2. QED
        BY <2>1, <2>2, <2>6, <3>2, <4>1, Zenon DEF Cascades, level
    <3>3. QED
      BY <3>1, <3>2
  <2>8. QED
    BY <2>1, <2>7 DEF Effect
<1>13. ASSUME BuiltinError(r) PROVE OnlyOf(r) /\ Effect(r)
  <2>1. OnlyOf(r) /\ SameEvents(r) /\ SameRequest(r)
    BY <1>13, <1>t DEF BuiltinError, GoTo, Respond, OnlyOf, SameEvents, SameRequest, TypeOK
  <2>2. Cascades(r)
    BY <1>13, <1>t, <2>1
    DEF BuiltinError, GoTo, Respond, Cascades, Answers, Turns, Cascade, TypeOK
  <2>3. QED
    BY <2>1, <2>2 DEF Effect
<1>14. ASSUME OnResponse(r) PROVE OnlyOf(r) /\ Effect(r)
  <2>1. StartMarked(r, {}) /\ Outcome(r)
    BY <1>14 DEF OnResponse, Start, Outcome
  <2>2. OnlyOf(r)
    BY <2>1, OutcomeOnly, StartOnly DEF OnlyOf
  <2>3. pc'[r] = pc[r] /\ at'[r] = at[r] + 1 /\ resp'[r] = resp[r]
    BY <1>14, <1>t DEF OnResponse, Pass, Swallow, TypeOK
  <2>4. /\ SameRequest(r) /\ Collects(r) /\ flushQueue'[r] = flushQueue[r]
        /\ passed[r] \subseteq passed'[r]
        /\ ran'[r] = ran[r] \cup {Callback(r, pc[r], at[r] + 1)}
    BY <2>1, OutcomeOnly, StartOnly
  <2>5. pc[r] \in {"onResponse", "moduleOnResponse"}
    BY <1>14 DEF OnResponse
  <2>6. QED
    BY <2>2, <2>3, <2>4, <2>5 DEF Effect, Hooks
<1>15. ASSUME EndLoop(r) PROVE OnlyOf(r) /\ Effect(r)
  <2>1. OnlyOf(r) /\ SameEvents(r) /\ SameRequest(r)
    BY <1>15, <1>t DEF EndLoop, GoTo, OnlyOf, SameEvents, SameRequest, TypeOK
  <2>2. /\ pc[r] \in LoopPhases /\ at[r] = Callbacks(r, pc[r]) /\ Turns(r, After(r))
        /\ resp'[r] = resp[r] /\ flushQueue'[r] = flushQueue[r] /\ ran'[r] = ran[r] /\ passed'[r] = passed[r]
    BY <1>15, <1>t DEF EndLoop, GoTo, Turns, TypeOK
  <2>3. pc[r] \in {"onRequest", "onResponse", "moduleOnResponse"} \cup (Behind \cap LoopPhases)
    BY <2>2, <1>p DEF LoopPhases, AppPhases, RoutePhases, ModulePhases, GuardPhases
  <2>4. CASE pc[r] \in {"onResponse", "moduleOnResponse"}
    <3>1. Collects(r)
      BY <2>1 DEF SameEvents, Collects
    <3>2. QED
      BY <2>1, <2>2, <2>4, <3>1 DEF After, Effect, Hooks
  <2>5. CASE pc[r] = "onRequest"
    <3>1. Moves(r)
      BY <2>1, <2>2, <2>5 DEF After, Moves, Turns
    <3>2. QED
      BY <2>1, <3>1 DEF Effect
  <2>6. CASE pc[r] \in Behind \cap LoopPhases
    <3>1. pc[r] \in Behind /\ After(r) \in Behind
      BY <2>6, <1>p DEF After, Behind
    <3>2. Moves(r)
      BY <2>1, <2>2, <3>1 DEF Moves, Turns
    <3>3. QED
      BY <2>1, <3>2 DEF Effect
  <2>7. QED
    BY <2>3, <2>4, <2>5, <2>6
<1>16. ASSUME Flush(r) PROVE OnlyOf(r) /\ Effect(r)
  <2>1. OnlyOf(r)
    BY <1>16, <1>t DEF Flush, GoTo, OnlyOf, TypeOK
  <2>2. Publishes(r)
    BY <1>16, <1>t DEF Flush, GoTo, Publishes, SameRequest, TypeOK
  <2>3. QED
    BY <2>1, <2>2 DEF Effect
<1>17. ASSUME EmitNext(r) PROVE OnlyOf(r) /\ Effect(r)
  <2>1. OnlyOf(r)
    BY <1>17, <1>t DEF EmitNext, GoTo, OnlyOf, TypeOK
  <2>2. /\ SameRequest(r) /\ collected'[r] = collected[r] /\ pc[r] = "emitting"
        /\ ran'[r] = ran[r] /\ passed'[r] = passed[r] /\ flushQueue'[r] = flushQueue[r]
    BY <1>17, <1>t DEF EmitNext, SameRequest, TypeOK
  <2>3. CASE outbox[r] = <<>>
    <3>1. pc'[r] = "send" /\ bus' = bus /\ resp'[r] = resp[r]
      BY <1>17, <1>t, <2>3 DEF EmitNext, GoTo, TypeOK
    <3>2. QED
      BY <2>1, <2>2, <2>3, <3>1 DEF Publishes, Effect
  <2>4. CASE outbox[r] # <<>>
    <3>1. \/ /\ pc'[r] = pc[r] /\ bus' = Append(bus, <<r, Head(outbox[r])>>)
             /\ outbox'[r] = Tail(outbox[r]) /\ resp'[r] = resp[r]
          \/ pc'[r] = "settled" /\ bus' = bus /\ resp'[r] = "emitRejected"
      BY <1>17, <1>t, <2>4 DEF EmitNext, GoTo, TypeOK
    <3>2. QED
      BY <2>1, <2>2, <2>4, <3>1 DEF Publishes, Effect
  <2>5. QED
    BY <2>3, <2>4
<1>18. ASSUME Send(r) PROVE OnlyOf(r) /\ Effect(r)
  <2>1. OnlyOf(r)
    BY <1>18, <1>t DEF Send, GoTo, OnlyOf, TypeOK
  <2>2. Publishes(r)
    BY <1>18, <1>t DEF Send, GoTo, Publishes, SameRequest, TypeOK
  <2>3. QED
    BY <2>1, <2>2 DEF Effect
<1>19. QED
  BY <1>1, <1>2, <1>3, <1>4, <1>5, <1>6, <1>7, <1>8, <1>9, <1>10, <1>11, <1>12, <1>13,
     <1>14, <1>15, <1>16, <1>17, <1>18 DEF Work

-----------------------------------------------------------------------------
(* The permission gate *)

SideEffect(c) == c[1] \in LoopPhases \ {"onRequest", "onResponse", "moduleOnResponse"}

\* Nothing with a side effect has run in front of the gate, and whoever is
\* behind it was let in.
Gate(r) ==
  /\ pc[r] \in Early => \A c \in ran[r] : ~SideEffect(c)
  /\ pc[r] \in Behind => Admitted(r)
  /\ (\E c \in ran[r] : SideEffect(c)) => Admitted(r)

GateInv == \A r \in Requests : Gate(r)

\* No request has caused a side effect at the start.
LEMMA InitGate == Init => GateInv
  BY DEF Init, GateInv, Gate, Early, Behind

\* What a request is admitted by depends on its route and its user alone.
LEMMA SameAdmission ==
  ASSUME NEW r \in Requests, SameRequest(r)
  PROVE  Admitted(r)' = Admitted(r)
  BY DEF SameRequest, Admitted, Gated, Tagged, GatePlugin, FindPlugin

\* No step causes a side effect of a request that has not passed its gate.
LEMMA StepGate == TypeInv /\ GateInv /\ [Next]_vars => GateInv'
<1> SUFFICES ASSUME TypeInv, GateInv, [Next]_vars, NEW q \in Requests PROVE Gate(q)'
  BY DEF GateInv
<1>1. Gate(q)
  BY DEF GateInv
<1>2. ASSUME SameRequest(q), pc'[q] = pc[q], ran'[q] = ran[q] PROVE Gate(q)'
  BY <1>1, <1>2, SameAdmission DEF Gate
<1>3. CASE UNCHANGED vars
  BY <1>2, <1>3 DEF vars, SameRequest
<1>4. ASSUME NEW r \in Requests, Arrive(r) \/ Work(r) PROVE Gate(q)'
  <2>1. OnlyOf(r) /\ Effect(r)
    BY <1>4, StepEffect
  <2>2. CASE q # r
    BY <1>2, <2>1, <2>2 DEF OnlyOf, SameRequest
  <2>3. CASE q = r
    <3> USE <2>3
    <3>1. CASE Enters(r)
      BY <1>1, <3>1 DEF Enters, Turns, Gate, Early, Behind
    <3>2. CASE Moves(r)
      BY <1>1, <3>2, SameAdmission DEF Moves, Gate, Early, Behind
    <3>3. CASE Ends(r)
      BY <1>1, <3>3, SameAdmission DEF Ends, Answers, Turns, Gate, Early, Behind
    <3>4. CASE Runs(r)
      <4>1. \A c \in ran'[r] : c \in ran[r] \/ c[1] = pc[r] \/ c = GuardAnswered
        BY <3>4, CallbackPhase DEF Runs
      <4>2. ~SideEffect(GuardAnswered)
        BY DEF SideEffect, GuardAnswered, LoopPhases, AppPhases, RoutePhases, ModulePhases, GuardPhases
      <4>3. SameRequest(r) /\ pc'[r] \in {pc[r], "onError", "onResponse"}
        BY <3>4 DEF Runs, Errs, Answers, Turns
      <4>4. CASE pc[r] = "onRequest"
        BY <1>1, <4>1, <4>2, <4>3, <4>4, SameAdmission DEF Gate, Early, Behind, SideEffect
      <4>5. CASE pc[r] \in Behind
        BY <1>1, <4>3, <4>5, SameAdmission DEF Gate, Early, Behind
      <4>6. QED
        BY <3>4, <4>4, <4>5 DEF Runs
    <3>5. CASE Handles(r)
      BY <1>1, <3>5, SameAdmission DEF Handles, Answers, Errs, Turns, Gate, Early, Behind
    <3>6. CASE Cascades(r)
      <4>1. \A c \in ran'[r] : c \in ran[r] \/ c[1] = "onError"
        BY <3>6 DEF Cascades
      <4>2. SameRequest(r) /\ pc'[r] \notin Early \cup Behind
        BY <3>6 DEF Cascades, Answers, Turns, Early, Behind
      <4>3. \A c : c[1] = "onError" => ~SideEffect(c)
        BY DEF SideEffect, LoopPhases, AppPhases, RoutePhases, ModulePhases, GuardPhases
      <4>4. QED
        BY <1>1, <4>1, <4>2, <4>3, SameAdmission DEF Gate
    <3>7. CASE Hooks(r)
      <4>1. \A c \in ran'[r] : c \in ran[r] \/ c[1] \in {"onResponse", "moduleOnResponse"}
        BY <3>7, CallbackPhase DEF Hooks
      <4>2. SameRequest(r) /\ pc'[r] \notin Early \cup Behind
        BY <3>7 DEF Hooks, Turns, Early, Behind
      <4>3. QED
        BY <1>1, <4>1, <4>2, SameAdmission DEF Gate, SideEffect
    <3>8. CASE Publishes(r)
      BY <1>1, <3>8, SameAdmission DEF Publishes, Gate, Early, Behind
    <3>9. QED
      BY <2>1, <3>1, <3>2, <3>3, <3>4, <3>5, <3>6, <3>7, <3>8 DEF Effect
  <2>4. QED
    BY <2>2, <2>3
<1>5. QED
  BY <1>3, <1>4 DEF Next, AllSettled

\* No plugin, guard, module hook or handler runs for a route whose plugin
\* declares permissions unless the user has one of them.
THEOREM GateFirst == Spec => []GateBeforeSideEffects
<1>1. GateInv => GateBeforeSideEffects
  BY DEF GateInv, Gate, GateBeforeSideEffects, SideEffect, Admitted
<1>2. QED
  BY <1>1, InitTypeInv, StepTypeInv, InitGate, StepGate, PTL DEF Spec

-----------------------------------------------------------------------------
(* A decision is final, and errors are answered *)

\* A response is known exactly in the closing phases; the queue is handed on
\* exactly when the handler answered.
Decision(r) ==
  /\ pc[r] \in Closing <=> resp[r] # "none"
  /\ flushQueue[r] <=> resp[r] \in {"handler", "emitRejected"}
  /\ flushQueue[r] => HandlerCall \in passed[r]
  /\ resp[r] \in Rejections => pc[r] = "settled"
  /\ pc[r] = "emitting" => flushQueue[r]

DecisionInv == \A r \in Requests : Decision(r)

\* No request has a response at the start.
LEMMA InitDecision == Init => DecisionInv
  BY DEF Init, DecisionInv, Decision, Closing, Rejections

\* Every step keeps a response until its request has settled.
LEMMA StepDecision == TypeInv /\ DecisionInv /\ [Next]_vars => DecisionInv'
<1> SUFFICES ASSUME TypeInv, DecisionInv, [Next]_vars, NEW q \in Requests PROVE Decision(q)'
  BY DEF DecisionInv
<1>1. Decision(q) /\ flushQueue[q] \in BOOLEAN
  BY DEF DecisionInv, TypeInv, TypeOK
<1>2. CASE UNCHANGED vars
  BY <1>1, <1>2 DEF vars, Decision
<1>3. ASSUME NEW r \in Requests, Arrive(r) \/ Work(r) PROVE Decision(q)'
  <2>1. OnlyOf(r) /\ Effect(r)
    BY <1>3, StepEffect
  <2>2. CASE q # r
    BY <1>1, <2>1, <2>2 DEF OnlyOf, Decision
  <2>3. CASE q = r
    <3> USE <1>1, <2>3 DEF Decision, Closing, Rejections, Turns, Answers, Errs
    <3>1. CASE Enters(r)
      BY <3>1 DEF Enters
    <3>2. CASE Moves(r)
      BY <3>2 DEF Moves, Behind
    <3>3. CASE Ends(r)
      BY <3>3 DEF Ends
    <3>4. CASE Runs(r)
      BY <3>4 DEF Runs, Behind
    <3>5. CASE Handles(r)
      BY <3>5 DEF Handles
    <3>6. CASE Cascades(r)
      <4>1. at[r] \in Nat /\ at[r] < 3 => Cascade[at[r] + 1] \in {"route", "module", "app"}
        BY DEF Cascade
      <4>2. at[r] \in Nat
        BY DEF TypeInv, TypeOK
      <4>3. QED
        BY <3>6, <4>1, <4>2 DEF Cascades
    <3>7. CASE Hooks(r)
      BY <3>7 DEF Hooks
    <3>8. CASE Publishes(r)
      BY <3>8 DEF Publishes
    <3>9. QED
      BY <2>1, <3>1, <3>2, <3>3, <3>4, <3>5, <3>6, <3>7, <3>8 DEF Effect
  <2>4. QED
    BY <2>2, <2>3
<1>4. QED
  BY <1>2, <1>3 DEF Next, AllSettled

\* Once a response is decided, only onResponse hooks run, and it stands.
THEOREM FinalDecision == Spec => DecisionIsFinal
<1> DEFINE Final(r) == resp[r] # "none" =>
             /\ \A c \in ran'[r] \ ran[r] : c[1] \in {"onResponse", "moduleOnResponse"}
             /\ resp'[r] \in {resp[r], "emitRejected"}
             /\ flushQueue'[r] = flushQueue[r]
<1>1. TypeInv /\ DecisionInv /\ [Next]_vars => [\A r \in Requests : Final(r)]_vars
  <2> SUFFICES ASSUME TypeInv, DecisionInv, Next, NEW q \in Requests PROVE Final(q)
    OBVIOUS
  <2>1. CASE UNCHANGED vars
    BY <2>1 DEF vars
  <2>2. ASSUME NEW r \in Requests, Arrive(r) \/ Work(r) PROVE Final(q)
    <3>1. OnlyOf(r) /\ Effect(r)
      BY <2>2, StepEffect
    <3>2. CASE q # r
      BY <3>1, <3>2 DEF OnlyOf
    <3>3. CASE q = r
      <4>1. resp[r] # "none" => pc[r] \in Closing
        BY DEF DecisionInv, Decision
      <4>2. pc[r] \in Closing => Hooks(r) \/ Publishes(r)
        BY <3>1 DEF Effect, Enters, Moves, Ends, Runs, Handles, Cascades, Closing, Behind
      <4>3. Hooks(r) => Final(r)
        BY CallbackPhase DEF Hooks
      <4>4. Publishes(r) => Final(r)
        BY DEF Publishes
      <4>5. QED
        BY <3>3, <4>1, <4>2, <4>3, <4>4
    <3>4. QED
      BY <3>2, <3>3
  <2>3. QED
    BY <2>1, <2>2 DEF Next, AllSettled
<1>2. QED
  BY <1>1, InitTypeInv, StepTypeInv, InitDecision, StepDecision, PTL DEF Spec, DecisionIsFinal

\* The onResponse hooks in front of the position have run, and all of them
\* once their loop is left.
Hooked(r) ==
  /\ pc[r] \in {"onResponse", "moduleOnResponse"} =>
       \A i \in 1 .. at[r] : Callback(r, pc[r], i) \in ran[r]
  /\ resp[r] \notin Rejections \ {"emitRejected"} =>
       /\ pc[r] \in Closing \ {"onResponse"} => AllCallbacks(r, "onResponse") \subseteq ran[r]
       /\ pc[r] \in Closing \ {"onResponse", "moduleOnResponse"} =>
            AllCallbacks(r, "moduleOnResponse") \subseteq ran[r]

HookedInv == \A r \in Requests : Hooked(r)

\* No request has a response at the start.
LEMMA InitHooked == Init => HookedInv
  BY DEF Init, HookedInv, Hooked, Closing

\* Every step keeps response hooks in front of the settled requests.
LEMMA StepHooked == TypeInv /\ DecisionInv /\ HookedInv /\ [Next]_vars => HookedInv'
<1> SUFFICES ASSUME TypeInv, DecisionInv, HookedInv, [Next]_vars, NEW q \in Requests PROVE Hooked(q)'
  BY DEF HookedInv
<1>1. Hooked(q) /\ Decision(q) /\ at[q] \in Nat
  BY DEF HookedInv, DecisionInv, TypeInv, TypeOK
<1>s. ASSUME route'[q] = route[q]
      PROVE  /\ \A ph, i : Callback(q, ph, i)' = Callback(q, ph, i)
             /\ \A ph : AllCallbacks(q, ph)' = AllCallbacks(q, ph)
  BY <1>s, SameRoute
<1>2. ASSUME route'[q] = route[q], pc'[q] = pc[q], at'[q] = at[q], resp'[q] = resp[q], ran'[q] = ran[q]
      PROVE  Hooked(q)'
  <2>1. \A i : Callback(q, pc[q], i)' = Callback(q, pc[q], i)
    BY <1>2 DEF Callback
  <2>2. QED
    BY <1>1, <1>2, <1>s, <2>1 DEF Hooked
<1>3. CASE UNCHANGED vars
  BY <1>2, <1>3 DEF vars
<1>4. ASSUME NEW r \in Requests, Arrive(r) \/ Work(r) PROVE Hooked(q)'
  <2>1. OnlyOf(r) /\ Effect(r)
    BY <1>4, StepEffect
  <2>2. CASE q # r
    BY <1>2, <2>1, <2>2 DEF OnlyOf
  <2>3. CASE q = r
    <3> USE <1>1, <2>3
    <3>a. ASSUME pc'[r] \notin Closing PROVE Hooked(r)'
      BY <3>a DEF Hooked, Closing
    <3>b. ASSUME pc'[r] = "onResponse", at'[r] = 0 PROVE Hooked(r)'
      BY <3>b DEF Hooked, Closing
    <3>c. ASSUME resp'[r] \in Rejections \ {"emitRejected"}, pc'[r] = "settled" PROVE Hooked(r)'
      BY <3>c DEF Hooked
    <3>1. CASE Enters(r)
      BY <3>1, <3>a DEF Enters, Turns, Closing
    <3>2. CASE Moves(r)
      BY <3>2, <3>a DEF Moves, Closing, Behind
    <3>3. CASE Ends(r)
      BY <3>3, <3>b, <3>c DEF Ends, Answers, Turns, Rejections
    <3>4. CASE Runs(r)
      BY <3>4, <3>a, <3>b DEF Runs, Answers, Errs, Turns, Closing, Behind
    <3>5. CASE Handles(r)
      BY <3>5, <3>a, <3>b DEF Handles, Answers, Errs, Turns, Closing
    <3>6. CASE Cascades(r)
      BY <3>6, <3>a, <3>b, <3>c DEF Cascades, Answers, Turns, Closing, Rejections
    <3>7. CASE Hooks(r)
      <4>1. /\ route'[r] = route[r] /\ ran[r] \subseteq ran'[r]
            /\ resp'[r] = resp[r] /\ resp[r] \notin Rejections
        BY <3>7 DEF Hooks, SameRequest, Decision
      <4>2. CASE /\ pc[r] \in {"onResponse", "moduleOnResponse"} /\ pc'[r] = pc[r] /\ at'[r] = at[r] + 1
                 /\ ran'[r] = ran[r] \cup {Callback(r, pc[r], at[r] + 1)}
        <5>1. \A i \in 1 .. (at[r] + 1) : Callback(r, pc[r], i) \in ran'[r]
          <6>1. \A i \in 1 .. (at[r] + 1) : i \in 1 .. at[r] \/ i = at[r] + 1
            OBVIOUS
          <6>2. QED
            BY <4>2, <6>1 DEF Hooked
        <5>2. \A i : Callback(r, pc[r], i)' = Callback(r, pc[r], i)
          BY <4>1, <4>2 DEF Callback
        <5>3. QED
          BY <4>1, <4>2, <5>1, <5>2, <1>s DEF Hooked, Closing
      <4>3. CASE /\ \/ pc[r] = "onResponse" /\ Turns(r, "moduleOnResponse")
                    \/ pc[r] = "moduleOnResponse" /\ Turns(r, "flush")
                 /\ at[r] = Callbacks(r, pc[r])
                 /\ ran'[r] = ran[r]
        <5>1. AllCallbacks(r, pc[r]) \subseteq ran[r]
          BY <4>3 DEF Hooked, AllCallbacks
        <5>2. QED
          BY <4>1, <4>3, <5>1, <1>s DEF Hooked, Closing, Turns
      <4>4. QED
        BY <3>7, <4>2, <4>3 DEF Hooks
    <3>8. CASE Publishes(r)
      <4>1. /\ route'[r] = route[r] /\ ran'[r] = ran[r] /\ pc'[r] \in Closing \ {"onResponse", "moduleOnResponse"}
            /\ pc[r] \in Closing \ {"onResponse", "moduleOnResponse"}
            /\ resp[r] \notin Rejections
        BY <3>8 DEF Publishes, SameRequest, Closing, Decision
      <4>2. QED
        BY <4>1, <1>s DEF Hooked
    <3>9. QED
      BY <2>1, <3>1, <3>2, <3>3, <3>4, <3>5, <3>6, <3>7, <3>8 DEF Effect
  <2>4. QED
    BY <2>2, <2>3
<1>5. QED
  BY <1>3, <1>4 DEF Next, AllSettled

\* The onError handlers of the levels tried so far, or up to the one that
\* answered, have run.
TriedUpTo(r, n) ==
  \A j \in 1 .. n : HasOnError(r, Cascade[j]) => <<"onError", 0, j>> \in ran[r]

Tried(r) ==
  /\ pc[r] = "onError" => at[r] \in 0 .. 3 /\ TriedUpTo(r, at[r])
  /\ \A i \in 1 .. 3 : resp[r] = Cascade[i] => TriedUpTo(r, i)
  /\ resp[r] = "builtin" => TriedUpTo(r, 3)

TriedInv == \A r \in Requests : Tried(r)

\* No request has failed at the start.
LEMMA InitTried == Init => TriedInv
  BY DEF Init, TriedInv, Tried, Cascade

\* Every step keeps the order in which error handlers are tried.
LEMMA StepTried == TypeInv /\ DecisionInv /\ TriedInv /\ [Next]_vars => TriedInv'
<1> SUFFICES ASSUME TypeInv, DecisionInv, TriedInv, [Next]_vars, NEW q \in Requests PROVE Tried(q)'
  BY DEF TriedInv
<1>1. Tried(q) /\ Decision(q) /\ at[q] \in Nat
  BY DEF TriedInv, DecisionInv, TypeInv, TypeOK
<1>c. /\ Cascade[1] = "route" /\ Cascade[2] = "module" /\ Cascade[3] = "app"
  BY DEF Cascade
\* What was tried stays tried while the route stays.
<1>s. ASSUME route'[q] = route[q], ran[q] \subseteq ran'[q], NEW n, TriedUpTo(q, n)
      PROVE  TriedUpTo(q, n)'
  BY <1>s DEF TriedUpTo, HasOnError
<1>2. ASSUME route'[q] = route[q], pc'[q] = pc[q], at'[q] = at[q], resp'[q] = resp[q], ran'[q] = ran[q]
      PROVE  Tried(q)'
  BY <1>1, <1>2, <1>s DEF Tried
<1>3. CASE UNCHANGED vars
  BY <1>2, <1>3 DEF vars
<1>4. ASSUME NEW r \in Requests, Arrive(r) \/ Work(r) PROVE Tried(q)'
  <2>1. OnlyOf(r) /\ Effect(r)
    BY <1>4, StepEffect
  <2>2. CASE q # r
    BY <1>2, <2>1, <2>2 DEF OnlyOf
  <2>3. CASE q = r
    <3> USE <1>1, <2>3
    <3>n. ASSUME resp'[r] \notin {"route", "module", "app", "builtin"},
                 pc'[r] = "onError" => at'[r] = 0
          PROVE  Tried(r)'
      BY <3>n, <1>c DEF Tried, TriedUpTo
    <3>d. pc[r] \notin Closing => resp[r] = "none"
      BY DEF Decision
    <3>1. CASE Enters(r)
      BY <3>1, <3>n, <3>d DEF Enters, Turns, Closing
    <3>2. CASE Moves(r)
      BY <3>2, <3>n, <3>d DEF Moves, Closing, Behind
    <3>3. CASE Ends(r)
      BY <3>3, <3>n DEF Ends, Answers, Turns
    <3>4. CASE Runs(r)
      BY <3>4, <3>n, <3>d DEF Runs, Answers, Errs, Turns, Closing, Behind
    <3>5. CASE Handles(r)
      BY <3>5, <3>n, <3>d DEF Handles, Answers, Errs, Turns, Closing
    <3>6. CASE Cascades(r)
      <4>1. /\ pc[r] = "onError" /\ resp[r] = "none" /\ TriedUpTo(r, at[r]) /\ at[r] \in 0 .. 3
            /\ route'[r] = route[r] /\ ran[r] \subseteq ran'[r]
        BY <3>6, <3>d DEF Cascades, Closing, Tried, SameRequest
      <4>2. PICK n \in 0 .. 3 : at[r] = n
        BY <4>1
      <4>3. TriedUpTo(r, n)'
        <5>1. TriedUpTo(r, n)
          BY <4>1, <4>2
        <5>2. QED
          BY <4>1, <5>1, <1>s
      <4>4. CASE n < 3
        <5>1. <<"onError", 0, n + 1>> \in ran'[r] \/ ~HasOnError(r, Cascade[n + 1])
          BY <3>6, <4>2, <4>4 DEF Cascades
        <5>2. HasOnError(r, Cascade[n + 1])' <=> HasOnError(r, Cascade[n + 1])
          BY <4>1 DEF HasOnError
        <5>3. TriedUpTo(r, n + 1)'
          <6>1. \A j \in 1 .. (n + 1) : j \in 1 .. n \/ j = n + 1
            OBVIOUS
          <6>2. QED
            BY <4>3, <5>1, <5>2, <6>1 DEF TriedUpTo
        <5>4. \/ pc'[r] = "onResponse" /\ resp'[r] = Cascade[n + 1]
              \/ pc'[r] = "onError" /\ at'[r] = n + 1 /\ resp'[r] = "none"
              \/ pc'[r] = "settled" /\ resp'[r] = "onErrorRejected"
          BY <3>6, <4>1, <4>2, <4>4 DEF Cascades, Answers, Turns
        <5>5. CASE pc'[r] = "onResponse" /\ resp'[r] = Cascade[n + 1]
          <6>1. n \in {0, 1, 2}
            BY <4>4
          <6>2. \A i \in 1 .. 3 : Cascade[i] = Cascade[n + 1] => i = n + 1
            BY <6>1, <1>c
          <6>3. resp'[r] # "builtin"
            BY <5>5, <6>1, <1>c
          <6>4. QED
            BY <5>3, <5>5, <6>2, <6>3 DEF Tried
        <5>6. CASE pc'[r] = "onError" /\ at'[r] = n + 1 /\ resp'[r] = "none"
          <6>1. \A i \in 1 .. 3 : Cascade[i] # "none"
            BY <1>c
          <6>2. QED
            BY <4>4, <5>3, <5>6, <6>1 DEF Tried
        <5>7. CASE pc'[r] = "settled" /\ resp'[r] = "onErrorRejected"
          BY <5>7, <3>n
        <5>8. QED
          BY <5>4, <5>5, <5>6, <5>7
      <4>5. CASE n = 3
        <5>1. pc'[r] = "onResponse" /\ resp'[r] = "builtin"
          BY <3>6, <4>2, <4>5 DEF Cascades, Answers, Turns
        <5>2. TriedUpTo(r, 3)'
          BY <4>3, <4>5
        <5>3. \A i \in 1 .. 3 : Cascade[i] # "builtin"
          BY <1>c
        <5>4. QED
          BY <5>1, <5>2, <5>3 DEF Tried
      <4>6. QED
        BY <4>4, <4>5
    <3>7. CASE Hooks(r)
      <4>1. route'[r] = route[r] /\ ran[r] \subseteq ran'[r] /\ resp'[r] = resp[r] /\ pc'[r] # "onError"
        BY <3>7 DEF Hooks, SameRequest, Turns
      <4>2. QED
        BY <4>1, <1>s DEF Tried
    <3>8. CASE Publishes(r)
      <4>1. /\ route'[r] = route[r] /\ ran'[r] = ran[r] /\ resp'[r] \in {resp[r], "emitRejected"}
            /\ pc'[r] # "onError"
        BY <3>8 DEF Publishes, SameRequest
      <4>2. QED
        BY <4>1, <1>s, <1>c DEF Tried
    <3>9. QED
      BY <2>1, <3>1, <3>2, <3>3, <3>4, <3>5, <3>6, <3>7, <3>8 DEF Effect
  <2>4. QED
    BY <2>2, <2>3
<1>5. QED
  BY <1>3, <1>4 DEF Next, AllSettled

\* An error is answered by the innermost level that can, every level inside it
\* having been tried, and every Response has gone through all onResponse hooks.
THEOREM AnswersAreOrderly == Spec => []ErrorsAreAnswered
<1>1. TriedInv => InnermostOnError
  <2> SUFFICES ASSUME TriedInv, NEW r \in Requests, NEW i \in 1 .. Len(Cascade),
                      resp[r] \in {Cascade[i], "builtin"}, NEW j \in 1 .. Len(Cascade),
                      HasOnError(r, Cascade[j]), j <= i \/ resp[r] = "builtin"
               PROVE  <<"onError", 0, j>> \in ran[r]
    BY DEF InnermostOnError
  <2>1. Len(Cascade) = 3 /\ Tried(r)
    BY DEF Cascade, TriedInv
  <2>2. \E n \in {i, 3} : j \in 1 .. n /\ TriedUpTo(r, n)
    BY <2>1 DEF Tried
  <2>3. QED
    BY <2>2 DEF TriedUpTo
<1>2. DecisionInv /\ HookedInv => ResponsesAreHooked
  BY DEF DecisionInv, Decision, HookedInv, Hooked, ResponsesAreHooked, Closing
<1>3. QED
  BY <1>1, <1>2, InitTypeInv, StepTypeInv, InitDecision, StepDecision, InitHooked, StepHooked,
     InitTried, StepTried, PTL DEF Spec, ErrorsAreAnswered

-----------------------------------------------------------------------------
(* The events of a request *)

\* The numbers a request has on a log of publications.
EmittedOf(b, q) == {b[i][2] : i \in {k \in 1 .. Len(b) : b[k][1] = q}}

\* Publications on the end of a log add the numbers they hold.
LEMMA EmittedOfConcat ==
  ASSUME NEW S, NEW b \in Seq(S), NEW c \in Seq(S), NEW q
  PROVE  EmittedOf(b \o c, q) = EmittedOf(b, q) \cup EmittedOf(c, q)
<1> DEFINE d == b \o c
<1>1. /\ Len(b) \in Nat /\ Len(c) \in Nat /\ Len(d) = Len(b) + Len(c)
      /\ \A i \in 1 .. Len(b) : d[i] = b[i]
      /\ \A i \in 1 .. Len(c) : d[Len(b) + i] = c[i]
      /\ \A i \in 1 .. Len(d) : i \in 1 .. Len(b) \/ (i - Len(b) \in 1 .. Len(c) /\ i = Len(b) + (i - Len(b)))
  <2>1. Len(b) \in Nat /\ Len(c) \in Nat
    BY LenProperties
  <2>2. /\ Len(d) = Len(b) + Len(c)
        /\ \A i \in 1 .. Len(b) + Len(c) : d[i] = IF i <= Len(b) THEN b[i] ELSE c[i - Len(b)]
    BY ConcatProperties
  <2> HIDE DEF d
  <2>3. QED
    BY <2>1, <2>2
<1> HIDE DEF d
<1>2. EmittedOf(d, q) \subseteq EmittedOf(b, q) \cup EmittedOf(c, q)
  <2> SUFFICES ASSUME NEW i \in 1 .. Len(d), d[i][1] = q
               PROVE  d[i][2] \in EmittedOf(b, q) \cup EmittedOf(c, q)
    BY DEF EmittedOf
  <2>1. CASE i \in 1 .. Len(b)
    BY <1>1, <2>1 DEF EmittedOf
  <2>2. ASSUME NEW j \in 1 .. Len(c), i = Len(b) + j
        PROVE  d[i][2] \in EmittedOf(c, q)
    BY <1>1, <2>2 DEF EmittedOf
  <2>3. QED
    BY <1>1, <2>1, <2>2
<1>3. EmittedOf(b, q) \subseteq EmittedOf(d, q)
  <2> SUFFICES ASSUME NEW i \in 1 .. Len(b), b[i][1] = q PROVE b[i][2] \in EmittedOf(d, q)
    BY DEF EmittedOf
  <2>1. i \in 1 .. Len(d) /\ d[i] = b[i]
    BY <1>1
  <2>2. QED
    BY <2>1 DEF EmittedOf
<1>4. EmittedOf(c, q) \subseteq EmittedOf(d, q)
  <2> SUFFICES ASSUME NEW i \in 1 .. Len(c), c[i][1] = q PROVE c[i][2] \in EmittedOf(d, q)
    BY DEF EmittedOf
  <2>1. Len(b) + i \in 1 .. Len(d) /\ d[Len(b) + i] = c[i]
    BY <1>1
  <2>2. QED
    BY <2>1 DEF EmittedOf
<1>5. QED
  BY <1>2, <1>3, <1>4 DEF d

\* What a request publishes together is its own.
LEMMA EmittedOfEntries ==
  ASSUME NEW r, NEW q, NEW ns \in Seq(1 .. MaxEvents)
  PROVE  EmittedOf(Entries(r, ns), q) = IF q = r THEN {ns[i] : i \in 1 .. Len(ns)} ELSE {}
<1>1. Len(ns) \in Nat
  BY LenProperties
<1>2. /\ Len(Entries(r, ns)) = Len(ns)
      /\ \A i \in 1 .. Len(ns) : Entries(r, ns)[i] = <<r, ns[i]>>
  BY <1>1 DEF Entries
<1>3. QED
  BY <1>2 DEF EmittedOf

\* The next numbers of a request go on the bus: its own numbers grow, and the
\* order of every request is kept.
LEMMA PublishingEffect ==
  ASSUME TypeOK, NEW r \in Requests, NEW m \in Nat, NEW ns \in Seq(1 .. MaxEvents),
         Emitted(r) = 1 .. m, \A i \in 1 .. Len(ns) : ns[i] = m + i,
         bus' = bus \o Entries(r, ns)
  PROVE  /\ Emitted(r)' = 1 .. (m + Len(ns))
         /\ \A q \in Requests \ {r} : Emitted(q)' = Emitted(q)
         /\ EmittedInOrder => EmittedInOrder'
<1> DEFINE S == Requests \X (1 .. MaxEvents)
<1>1. bus \in Seq(S) /\ Entries(r, ns) \in Seq(S)
  BY EntriesType DEF TypeOK
<1>2. \A q : Emitted(q) = EmittedOf(bus, q) /\ Emitted(q)' = EmittedOf(bus', q)
  BY DEF Emitted, EmittedOf
<1>3. \A q : EmittedOf(bus', q) = EmittedOf(bus, q) \cup EmittedOf(Entries(r, ns), q)
  BY <1>1, EmittedOfConcat
<1>4. Len(ns) \in Nat
  BY LenProperties
<1>5. EmittedOf(Entries(r, ns), r) = (m + 1) .. (m + Len(ns))
  <2>1. EmittedOf(Entries(r, ns), r) = {ns[i] : i \in 1 .. Len(ns)}
    BY EmittedOfEntries
  <2>2. \A n \in (m + 1) .. (m + Len(ns)) : n - m \in 1 .. Len(ns) /\ n = m + (n - m)
    BY <1>4
  <2>3. \A i \in 1 .. Len(ns) : m + i \in (m + 1) .. (m + Len(ns))
    BY <1>4
  <2>4. /\ \A n \in (m + 1) .. (m + Len(ns)) : n = ns[n - m]
        /\ \A i \in 1 .. Len(ns) : ns[i] \in (m + 1) .. (m + Len(ns))
    BY <2>2, <2>3
  <2>5. QED
    BY <2>1, <2>2, <2>4
<1>6. (1 .. m) \cup ((m + 1) .. (m + Len(ns))) = 1 .. (m + Len(ns))
  BY <1>4
<1>7. Emitted(r)' = 1 .. (m + Len(ns))
  BY <1>2, <1>3, <1>5, <1>6
<1>8. ASSUME NEW q \in Requests \ {r} PROVE Emitted(q)' = Emitted(q)
  <2>1. EmittedOf(Entries(r, ns), q) = {}
    BY EmittedOfEntries
  <2>2. QED
    BY <1>2, <1>3, <2>1
<1>9. ASSUME EmittedInOrder PROVE EmittedInOrder'
  <2>1. /\ Len(bus) \in Nat
        /\ Len(bus') = Len(bus) + Len(ns)
        /\ \A i \in 1 .. Len(bus) : bus'[i] = bus[i]
        /\ \A i \in 1 .. Len(ns) : bus'[Len(bus) + i] = <<r, m + i>>
    <3>1. Len(bus) \in Nat
      BY <1>1, LenProperties
    <3>2. /\ Len(Entries(r, ns)) = Len(ns)
          /\ \A i \in 1 .. Len(ns) : Entries(r, ns)[i] = <<r, m + i>>
      BY <1>4 DEF Entries
    <3>3. /\ Len(bus') = Len(bus) + Len(Entries(r, ns))
          /\ \A i \in 1 .. Len(bus) + Len(Entries(r, ns)) :
               bus'[i] = IF i <= Len(bus) THEN bus[i] ELSE Entries(r, ns)[i - Len(bus)]
      <4> DEFINE e == Entries(r, ns)
      <4>1. bus \in Seq(S) /\ e \in Seq(S)
        BY <1>1
      <4> HIDE DEF e, S
      <4>2. /\ Len(bus \o e) = Len(bus) + Len(e)
            /\ \A i \in 1 .. Len(bus) + Len(e) :
                 (bus \o e)[i] = IF i <= Len(bus) THEN bus[i] ELSE e[i - Len(bus)]
        BY <4>1, ConcatProperties
      <4>3. QED
        BY <4>2 DEF e
    <3>4. QED
      BY <1>4, <3>1, <3>2, <3>3
  <2> SUFFICES ASSUME NEW i \in 1 .. Len(bus'), NEW j \in 1 .. Len(bus'),
                      i < j, bus'[i][1] = bus'[j][1]
               PROVE  bus'[i][2] < bus'[j][2]
    BY DEF EmittedInOrder
  <2>2. CASE j \in 1 .. Len(bus)
    <3>1. i \in 1 .. Len(bus)
      BY <2>1, <2>2
    <3>2. QED
      BY <1>9, <2>1, <2>2, <3>1 DEF EmittedInOrder
  <2>3. ASSUME NEW l \in 1 .. Len(ns), j = Len(bus) + l PROVE bus'[i][2] < bus'[j][2]
    <3>1. bus'[j] = <<r, m + l>>
      BY <2>1, <2>3
    <3>2. CASE i \in 1 .. Len(bus)
      <4>1. bus[i][1] = r /\ bus'[i] = bus[i]
        BY <2>1, <3>1, <3>2
      <4>2. bus[i][2] \in 1 .. m
        BY <3>2, <4>1 DEF Emitted
      <4>3. QED
        BY <1>4, <3>1, <4>1, <4>2
    <3>3. ASSUME NEW k \in 1 .. Len(ns), i = Len(bus) + k PROVE bus'[i][2] < bus'[j][2]
      BY <1>4, <2>1, <2>3, <3>1, <3>3
    <3>4. i \in 1 .. Len(bus) \/ (i - Len(bus) \in 1 .. Len(ns) /\ i = Len(bus) + (i - Len(bus)))
      BY <1>4, <2>1
    <3>5. QED
      BY <3>2, <3>3, <3>4
  <2>4. j \in 1 .. Len(bus) \/ (j - Len(bus) \in 1 .. Len(ns) /\ j = Len(bus) + (j - Len(bus)))
    BY <1>4, <2>1
  <2>5. QED
    BY <2>2, <2>3, <2>4
<1>10. QED
  BY <1>7, <1>8, <1>9

Unflushed(r) == pc[r] \notin {"emitting", "send", "settled"}

\* How many events of a request were emitted before the ones in its outbox.
Left(r) == collected[r] - Len(outbox[r])

\* Up to the flush the queue holds all the request collected and the bus none
\* of it; then what is out, and what is left in the outbox, make up all of it.
Events(r) ==
  /\ Unflushed(r) => /\ Len(queue[r]) = collected[r]
                     /\ \A i \in 1 .. collected[r] : queue[r][i] = i
  /\ Unflushed(r) \/ ~flushQueue[r] => Emitted(r) = {}
  /\ pc[r] = "emitting" =>
       /\ Len(outbox[r]) <= collected[r]
       /\ Emitted(r) = 1 .. Left(r)
       /\ \A i \in 1 .. Len(outbox[r]) : outbox[r][i] = Left(r) + i
  /\ pc[r] \in {"send", "settled"} /\ resp[r] = "handler" => Emitted(r) = 1 .. collected[r]
  /\ resp[r] = "emitRejected" => \E n \in 0 .. collected[r] : Emitted(r) = 1 .. n

EventsInv == (\A r \in Requests : Events(r)) /\ EmittedInOrder

\* No event has been collected at the start.
LEMMA InitEvents == Init => EventsInv
  BY DEF Init, EventsInv, Events, Unflushed, Emitted, EmittedInOrder

\* A callback that runs, or any other step in front of the flush.
LEMMA QuietEvents ==
  ASSUME TypeOK, NEW r \in Requests, Events(r), Unflushed(r), Collects(r),
         pc'[r] \notin {"emitting", "send"},
         pc'[r] = "settled" => resp'[r] # "handler",
         resp'[r] # "emitRejected"
  PROVE  Events(r)'
<1>1. collected[r] \in Nat /\ queue[r] \in Seq(1 .. MaxEvents)
  BY ConfigAssumption DEF TypeOK
<1>2. Emitted(r)' = {}
  BY DEF Events, Collects, Emitted
<1>3. Len(queue'[r]) = collected'[r] /\ \A i \in 1 .. collected'[r] : queue'[r][i] = i
  <2>1. CASE queue'[r] = queue[r] /\ collected'[r] = collected[r]
    BY <2>1 DEF Events
  <2>2. CASE queue'[r] = Append(queue[r], collected[r] + 1) /\ collected'[r] = collected[r] + 1
    <3>1. Len(queue[r]) = collected[r] /\ \A i \in 1 .. collected[r] : queue[r][i] = i
      BY DEF Events
    <3>2. /\ Len(queue'[r]) = collected[r] + 1
          /\ \A i \in 1 .. (collected[r] + 1) :
               queue'[r][i] = IF i <= collected[r] THEN queue[r][i] ELSE collected[r] + 1
      BY <1>1, <2>2, <3>1
    <3>3. QED
      BY <1>1, <2>2, <3>1, <3>2
  <2>3. QED
    BY <2>1, <2>2 DEF Collects
<1>4. QED
  BY <1>2, <1>3 DEF Events

\* The flush, the emission of an event and the end of a request.
LEMMA PublishesEvents ==
  ASSUME TypeInv, NEW r \in Requests, Decision(r), Events(r), Publishes(r)
  PROVE  /\ Events(r)'
         /\ \A q \in Requests \ {r} : Emitted(q)' = Emitted(q)
         /\ EmittedInOrder => EmittedInOrder'
<1>1. /\ collected[r] \in Nat /\ queue[r] \in Seq(1 .. MaxEvents) /\ outbox[r] \in Seq(1 .. MaxEvents)
      /\ Len(outbox[r]) \in Nat /\ TypeOK
  <2>1. /\ collected[r] \in Nat /\ queue[r] \in Seq(1 .. MaxEvents)
        /\ outbox[r] \in Seq(1 .. MaxEvents)
    BY ConfigAssumption DEF TypeInv, TypeOK
  <2>2. QED
    BY <2>1, LenProperties DEF TypeInv
<1>2. /\ collected'[r] = collected[r] /\ flushQueue'[r] = flushQueue[r]
  BY DEF Publishes
<1>s. ASSUME bus' = bus
      PROVE  /\ \A q \in Requests : Emitted(q)' = Emitted(q)
             /\ EmittedInOrder => EmittedInOrder'
  BY <1>s DEF Emitted, EmittedInOrder
<1>3. CASE pc[r] = "flush" /\ ~flushQueue[r] /\ pc'[r] = "send" /\ bus' = bus /\ resp'[r] = resp[r]
  <2>1. resp[r] \notin {"handler", "emitRejected"}
    BY <1>3 DEF Decision
  <2>2. QED
    BY <1>2, <1>3, <1>s, <2>1 DEF Events, Unflushed
<1>4. CASE /\ pc[r] = "flush" /\ flushQueue[r] /\ pc'[r] = "send"
           /\ bus' = bus \o Entries(r, queue[r]) /\ resp'[r] = resp[r]
  <2>1. /\ Len(queue[r]) = collected[r] /\ Emitted(r) = 1 .. 0
        /\ \A i \in 1 .. Len(queue[r]) : queue[r][i] = 0 + i
    BY <1>1, <1>4 DEF Events, Unflushed
  <2>2. /\ Emitted(r)' = 1 .. (0 + Len(queue[r]))
        /\ \A q \in Requests \ {r} : Emitted(q)' = Emitted(q)
        /\ EmittedInOrder => EmittedInOrder'
    BY <1>1, <1>4, <2>1, PublishingEffect
  <2>3. resp'[r] # "emitRejected"
    BY <1>4 DEF Decision, Rejections
  <2>4. Emitted(r)' = 1 .. collected[r]
    BY <1>1, <2>1, <2>2
  <2>5. Events(r)'
    BY <1>2, <1>4, <2>3, <2>4 DEF Events, Unflushed
  <2>6. QED
    BY <2>2, <2>5
<1>5. CASE /\ pc[r] = "flush" /\ flushQueue[r] /\ pc'[r] = "emitting"
           /\ bus' = bus /\ outbox'[r] = queue[r] /\ resp'[r] = resp[r]
  <2>1. /\ Len(queue[r]) = collected[r] /\ Emitted(r) = {}
        /\ \A i \in 1 .. Len(queue[r]) : queue[r][i] = i
    BY <1>5 DEF Events, Unflushed
  <2>2. Left(r)' = 0
    BY <1>1, <1>2, <1>5, <2>1 DEF Left
  <2>3. resp'[r] # "emitRejected"
    BY <1>5 DEF Decision, Rejections
  <2>4. Emitted(r)' = 1 .. 0
    BY <1>5, <1>s, <2>1
  <2>5. /\ Len(outbox'[r]) <= collected'[r]
        /\ \A i \in 1 .. Len(outbox'[r]) : outbox'[r][i] = 0 + i
    BY <1>1, <1>2, <1>5, <2>1
  <2>6. Events(r)'
    BY <1>2, <1>5, <2>2, <2>3, <2>4, <2>5 DEF Events, Unflushed
  <2>7. QED
    BY <1>5, <1>s, <2>6
<1>6. CASE pc[r] = "emitting" /\ outbox[r] = <<>> /\ pc'[r] = "send" /\ bus' = bus /\ resp'[r] = resp[r]
  <2>1. Emitted(r) = 1 .. collected[r]
    BY <1>1, <1>6 DEF Events, Left
  <2>2. flushQueue[r] /\ resp'[r] # "emitRejected"
    BY <1>6 DEF Decision, Rejections
  <2>3. QED
    BY <1>2, <1>6, <1>s, <2>1, <2>2 DEF Events, Unflushed
<1>7. CASE /\ pc[r] = "emitting" /\ outbox[r] # <<>> /\ pc'[r] = pc[r]
           /\ bus' = Append(bus, <<r, Head(outbox[r])>>)
           /\ outbox'[r] = Tail(outbox[r]) /\ resp'[r] = resp[r]
  <2> DEFINE m == Left(r)
             ns == <<Head(outbox[r])>>
  <2>1. /\ Emitted(r) = 1 .. m /\ Len(outbox[r]) <= collected[r]
        /\ \A i \in 1 .. Len(outbox[r]) : outbox[r][i] = m + i
        /\ Len(outbox[r]) > 0
    BY <1>1, <1>7 DEF Events
  <2>2. m \in Nat /\ collected[r] = m + Len(outbox[r])
    BY <1>1, <2>1 DEF Left
  <2>3. /\ Head(outbox[r]) = m + 1 /\ Head(outbox[r]) \in 1 .. MaxEvents
        /\ Len(Tail(outbox[r])) = Len(outbox[r]) - 1
        /\ \A i \in 1 .. Len(Tail(outbox[r])) : Tail(outbox[r])[i] = m + (i + 1)
    <3>1. Head(outbox[r]) = outbox[r][1]
      BY <1>1, <1>7
    <3>2. /\ Head(outbox[r]) \in 1 .. MaxEvents
          /\ Len(Tail(outbox[r])) = Len(outbox[r]) - 1
          /\ \A i \in 1 .. Len(Tail(outbox[r])) : Tail(outbox[r])[i] = outbox[r][i + 1]
      BY <1>1, <1>7, HeadTailProperties
    <3> HIDE DEF m
    <3>3. QED
      BY <1>1, <2>1, <3>1, <3>2
  <2>4. /\ ns \in Seq(1 .. MaxEvents) /\ Len(ns) = 1
        /\ \A i \in 1 .. Len(ns) : ns[i] = m + i
    <3> HIDE DEF m
    <3>1. QED
      BY <2>3
  <2>5. bus' = bus \o Entries(r, ns)
    <3>1. Entries(r, ns) = << <<r, Head(outbox[r])>> >>
      BY DEF Entries
    <3>2. bus \in Seq(Requests \X (1 .. MaxEvents)) /\ <<r, Head(outbox[r])>> \in Requests \X (1 .. MaxEvents)
      BY <1>1, <2>3 DEF TypeOK
    <3>3. QED
      BY <1>7, <3>1, <3>2, AppendIsConcat
  <2> HIDE DEF m, ns
  <2>6. /\ Emitted(r)' = 1 .. (m + Len(ns))
        /\ \A q \in Requests \ {r} : Emitted(q)' = Emitted(q)
        /\ EmittedInOrder => EmittedInOrder'
    BY <1>1, <2>1, <2>2, <2>4, <2>5, PublishingEffect
  <2>7. Left(r)' = m + 1
    <3>1. Left(r)' = collected[r] - Len(Tail(outbox[r]))
      BY <1>2, <1>7 DEF Left
    <3>2. Len(outbox[r]) \in Nat
      BY <1>1
    <3>3. Len(Tail(outbox[r])) = Len(outbox[r]) - 1
      BY <2>3
    <3>4. \A a, b \in Nat : (a + b) - (b - 1) = a + 1
      OBVIOUS
    <3>5. collected[r] - (Len(outbox[r]) - 1) = m + 1
      BY <2>2, <3>2, <3>4
    <3>6. QED
      BY <3>1, <3>3, <3>5
  <2>8. /\ Len(outbox'[r]) <= collected'[r]
        /\ \A i \in 1 .. Len(outbox'[r]) : outbox'[r][i] = (m + 1) + i
    <3>1. Len(outbox[r]) \in Nat
      BY <1>1
    <3>2. Len(Tail(outbox[r])) <= collected[r]
      BY <2>2, <2>3, <3>1
    <3>3. \A i \in Int : m + (i + 1) = (m + 1) + i
      BY <2>2
    <3>4. \A i \in 1 .. Len(Tail(outbox[r])) : Tail(outbox[r])[i] = (m + 1) + i
      BY <2>3, <3>3
    <3>5. QED
      BY <1>2, <1>7, <3>2, <3>4
  <2>9. resp'[r] # "emitRejected" /\ flushQueue'[r]
    BY <1>2, <1>7 DEF Decision, Rejections
  <2>10. Events(r)'
    BY <1>7, <2>4, <2>6, <2>7, <2>8, <2>9 DEF Events, Unflushed
  <2>11. QED
    BY <2>6, <2>10
<1>8. CASE pc[r] = "emitting" /\ pc'[r] = "settled" /\ bus' = bus /\ resp'[r] = "emitRejected"
  <2>1. Emitted(r) = 1 .. Left(r) /\ Left(r) \in 0 .. collected[r]
    BY <1>1, <1>8 DEF Events, Left
  <2>2. flushQueue'[r]
    BY <1>2, <1>8 DEF Decision
  <2>3. QED
    BY <1>2, <1>8, <1>s, <2>1, <2>2 DEF Events, Unflushed
<1>9. CASE pc[r] = "send" /\ pc'[r] = "settled" /\ bus' = bus /\ resp'[r] = resp[r]
  BY <1>2, <1>9, <1>s DEF Events, Unflushed
<1>10. QED
  BY <1>3, <1>4, <1>5, <1>6, <1>7, <1>8, <1>9 DEF Publishes

\* In front of the flush the other kinds of steps are quiet.
LEMMA QuietSteps ==
  ASSUME TypeOK, NEW r \in Requests, Decision(r), Effect(r), ~Publishes(r)
  PROVE  /\ Unflushed(r) /\ Collects(r)
         /\ pc'[r] \notin {"emitting", "send"}
         /\ pc'[r] = "settled" => resp'[r] # "handler"
         /\ resp'[r] # "emitRejected"
<1>1. pc[r] # "settled" => resp[r] \notin Rejections
  BY DEF Decision
<1>2. SameEvents(r) => Collects(r)
  BY DEF SameEvents, Collects
<1>3. CASE Enters(r) \/ Moves(r)
  BY <1>1, <1>2, <1>3 DEF Enters, Moves, Turns, Unflushed, Behind, Rejections
<1>4. CASE Ends(r)
  BY <1>1, <1>2, <1>4 DEF Ends, Answers, Turns, Unflushed
<1>5. CASE Runs(r) \/ Handles(r)
  BY <1>1, <1>5 DEF Runs, Handles, Answers, Errs, Turns, Unflushed, Behind, Rejections
<1>6. CASE Cascades(r)
  <2>1. ASSUME at[r] < 3 PROVE Cascade[at[r] + 1] \in {"route", "module", "app"}
    <3>1. at[r] \in {0, 1, 2}
      BY <2>1 DEF TypeOK
    <3>2. QED
      BY <3>1 DEF Cascade
  <2>2. QED
    BY <1>1, <1>2, <1>6, <2>1 DEF Cascades, Answers, Turns, Unflushed, Rejections
<1>7. CASE Hooks(r)
  BY <1>1, <1>7 DEF Hooks, Turns, Unflushed, Rejections
<1>8. QED
  BY <1>3, <1>4, <1>5, <1>6, <1>7 DEF Effect

\* Every step keeps what was collected, sent and dropped of each request.
LEMMA StepEvents == TypeInv /\ DecisionInv /\ EventsInv /\ [Next]_vars => EventsInv'
<1> SUFFICES ASSUME TypeInv, DecisionInv, EventsInv, [Next]_vars PROVE EventsInv'
  OBVIOUS
<1>1. CASE UNCHANGED vars
  <2>1. EmittedInOrder' <=> EmittedInOrder
    BY <1>1 DEF vars, EmittedInOrder
  <2>2. ASSUME NEW q \in Requests PROVE Events(q)'
    <3>1. /\ pc'[q] = pc[q] /\ queue'[q] = queue[q] /\ collected'[q] = collected[q]
          /\ flushQueue'[q] = flushQueue[q] /\ resp'[q] = resp[q] /\ outbox'[q] = outbox[q]
          /\ Emitted(q)' = Emitted(q) /\ Events(q)
      BY <1>1 DEF vars, Emitted, EventsInv
    <3>2. Left(q)' = Left(q) /\ (Unflushed(q)' <=> Unflushed(q))
      BY <3>1 DEF Left, Unflushed
    <3>3. QED
      BY <3>1, <3>2 DEF Events
  <2>3. QED
    BY <2>1, <2>2 DEF EventsInv
<1>2. ASSUME NEW r \in Requests, Arrive(r) \/ Work(r) PROVE EventsInv'
  <2>1. OnlyOf(r) /\ Effect(r)
    BY <1>2, StepEffect
  <2>2. Decision(r) /\ Events(r) /\ TypeOK
    BY DEF DecisionInv, EventsInv, TypeInv
  <2>3. Events(r)' /\ (\A q \in Requests \ {r} : Emitted(q)' = Emitted(q)) /\ EmittedInOrder'
    <3>1. CASE Publishes(r)
      BY <2>2, <3>1, PublishesEvents DEF EventsInv
    <3>2. CASE ~Publishes(r)
      <4>1. Events(r)' /\ Collects(r)
        BY <2>1, <2>2, <3>2, QuietSteps, QuietEvents
      <4>2. bus' = bus
        BY <4>1 DEF Collects
      <4>3. QED
        BY <4>1, <4>2 DEF EventsInv, Emitted, EmittedInOrder
    <3>3. QED
      BY <3>1, <3>2
  <2>4. ASSUME NEW q \in Requests \ {r} PROVE Events(q)'
    <3>1. /\ pc'[q] = pc[q] /\ queue'[q] = queue[q] /\ collected'[q] = collected[q]
          /\ flushQueue'[q] = flushQueue[q] /\ resp'[q] = resp[q] /\ outbox'[q] = outbox[q]
          /\ Emitted(q)' = Emitted(q) /\ Events(q)
      BY <2>1, <2>3 DEF OnlyOf, EventsInv
    <3>2. Left(q)' = Left(q) /\ (Unflushed(q)' <=> Unflushed(q))
      BY <3>1 DEF Left, Unflushed
    <3>3. QED
      BY <3>1, <3>2 DEF Events
  <2>5. QED
    BY <2>3, <2>4 DEF EventsInv
<1>3. QED
  BY <1>1, <1>2 DEF Next, AllSettled

\* A subscriber sees the events of successful requests only, behind their hooks,
\* in the order they were collected, and all of them unless an external bus fails.
THEOREM EventsAreKept == Spec => []EventsKeepTheirPromise
<1>1. ASSUME TypeInv, DecisionInv, HookedInv, EventsInv PROVE EventsKeepTheirPromise
  <2>1. EventsOnlyAfterSuccess
    <3> SUFFICES ASSUME NEW r \in Requests, Emitted(r) # {}
                 PROVE  /\ HandlerCall \in passed[r] /\ resp[r] \in {"handler", "emitRejected"}
                        /\ \A ph \in {"onResponse", "moduleOnResponse"} : AllCallbacks(r, ph) \subseteq ran[r]
      BY DEF EventsOnlyAfterSuccess
    <3>1. Decision(r) /\ Hooked(r) /\ Events(r)
      BY <1>1 DEF DecisionInv, HookedInv, EventsInv
    <3>2. flushQueue[r] /\ pc[r] \in {"emitting", "send", "settled"}
      BY <3>1 DEF Events, Unflushed
    <3>3. resp[r] \in {"handler", "emitRejected"} /\ HandlerCall \in passed[r]
      BY <3>1, <3>2 DEF Decision
    <3>4. \A ph \in {"onResponse", "moduleOnResponse"} : AllCallbacks(r, ph) \subseteq ran[r]
      BY <3>1, <3>2, <3>3 DEF Hooked, Closing, Rejections
    <3>5. QED
      BY <3>3, <3>4
  <2>2. AllOrNothing
    <3> SUFFICES ASSUME NEW r \in Requests
                 PROVE  /\ \A n \in Emitted(r) : 1 .. n \subseteq Emitted(r)
                        /\ pc[r] = "settled" /\ resp[r] # "emitRejected" =>
                             Emitted(r) = IF resp[r] = "handler" THEN 1 .. collected[r] ELSE {}
      BY DEF AllOrNothing
    <3>1. Decision(r) /\ Events(r)
      BY <1>1 DEF DecisionInv, EventsInv
    <3>2. ASSUME NEW m \in Int, Emitted(r) = 1 .. m PROVE \A n \in Emitted(r) : 1 .. n \subseteq Emitted(r)
      BY <3>2
    <3>3. collected[r] \in Nat /\ Left(r) \in Int
      <4>1. collected[r] \in Nat /\ outbox[r] \in Seq(1 .. MaxEvents)
        BY <1>1, ConfigAssumption DEF TypeInv, TypeOK
      <4>2. QED
        BY <4>1, LenProperties DEF Left
    <3>4. \/ Emitted(r) = {} \/ Emitted(r) = 1 .. Left(r) \/ Emitted(r) = 1 .. collected[r]
          \/ \E n \in 0 .. collected[r] : Emitted(r) = 1 .. n
      BY <3>1 DEF Events, Decision, Unflushed
    <3>5. \A n \in Emitted(r) : 1 .. n \subseteq Emitted(r)
      BY <3>2, <3>3, <3>4
    <3>6. pc[r] = "settled" /\ resp[r] # "emitRejected" =>
            Emitted(r) = IF resp[r] = "handler" THEN 1 .. collected[r] ELSE {}
      BY <3>1 DEF Events, Decision
    <3>7. QED
      BY <3>5, <3>6
  <2>3. QED
    BY <1>1, <2>1, <2>2 DEF EventsKeepTheirPromise, EventsInv
<1>2. QED
  BY <1>1, InitTypeInv, StepTypeInv, InitDecision, StepDecision, InitHooked, StepHooked,
     InitEvents, StepEvents, PTL DEF Spec

-----------------------------------------------------------------------------
(* The pipeline implements the outbox *)

Status ==
  [r \in Requests |-> IF pc[r] = "settled" THEN "closed"
                      ELSE IF flushQueue[r] THEN "committed" ELSE "open"]

Published == [r \in Requests |-> Cardinality(Emitted(r))]

\* How many numbers a prefix has.
LEMMA PrefixSize ==
  ASSUME NEW n \in Nat
  PROVE  Cardinality(1 .. n) = n
<1>1. 1 \in Int /\ n \in Int
  OBVIOUS
<1>2. QED
  BY <1>1, FS_Interval

\* In a state of the pipeline what is published is a prefix of what is staged.
LEMMA PublishedCount ==
  ASSUME TypeInv, NEW r \in Requests, Decision(r), Events(r)
  PROVE  /\ Unflushed(r) \/ ~flushQueue[r] => Published[r] = 0
         /\ pc[r] = "emitting" => Published[r] = Left(r) /\ Left(r) \in 0 .. collected[r]
         /\ pc[r] = "send" /\ flushQueue[r] => Published[r] = collected[r]
<1>1. collected[r] \in Nat /\ Len(outbox[r]) \in Nat
  <2>1. collected[r] \in Nat /\ outbox[r] \in Seq(1 .. MaxEvents)
    BY ConfigAssumption DEF TypeInv, TypeOK
  <2>2. QED
    BY <2>1, LenProperties
<1>2. Published[r] = Cardinality(Emitted(r))
  BY DEF Published
<1>3. ASSUME Unflushed(r) \/ ~flushQueue[r] PROVE Published[r] = 0
  <2>1. Emitted(r) = {}
    BY <1>3 DEF Events
  <2>2. QED
    BY <1>2, <2>1, FS_EmptySet
<1>4. ASSUME pc[r] = "emitting" PROVE Published[r] = Left(r) /\ Left(r) \in 0 .. collected[r]
  <2>1. Emitted(r) = 1 .. Left(r) /\ Left(r) \in 0 .. collected[r]
    BY <1>1, <1>4 DEF Events, Left
  <2>2. Left(r) \in Nat
    BY <1>1, <2>1
  <2>3. QED
    BY <1>2, <2>1, <2>2, PrefixSize
<1>5. ASSUME pc[r] = "send", flushQueue[r] PROVE Published[r] = collected[r]
  <2>1. resp[r] = "handler"
    BY <1>5 DEF Decision, Rejections
  <2>2. Emitted(r) = 1 .. collected[r]
    BY <1>5, <2>1 DEF Events
  <2>3. QED
    BY <1>1, <1>2, <2>2, PrefixSize
<1>6. QED
  BY <1>3, <1>4, <1>5

\* The actions of the outbox, seen through the pipeline.
LEMMA OutboxStage ==
  ASSUME NEW r \in Requests, Status[r] # "closed", Published[r] = 0,
         collected' = [collected EXCEPT ![r] = @ + 1],
         Status' = Status, Published' = Published, bus' = bus
  PROVE  Outbox!Next
BY DEF Outbox!Next, Outbox!Stage, Status, Published

\* A request is answered without an error: its events are to be published.
LEMMA OutboxCommit ==
  ASSUME NEW r \in Requests, Status[r] = "open", Status' = [Status EXCEPT ![r] = "committed"],
         collected' \in {collected, [collected EXCEPT ![r] = @ + 1]},
         Published' = Published, bus' = bus
  PROVE  Outbox!Next
BY DEF Outbox!Next, Outbox!Commit, Status, Published

\* A part of what is collected is sent to the bus.
LEMMA OutboxPublish ==
  ASSUME NEW r \in Requests, Status[r] = "committed",
         NEW k \in 1 .. (collected[r] - Published[r]),
         bus' = bus \o [i \in 1 .. k |-> <<r, Published[r] + i>>],
         Published' = [Published EXCEPT ![r] = @ + k],
         Status' = Status, collected' = collected
  PROVE  Outbox!Next
BY DEF Outbox!Next, Outbox!Publish, Status, Published

\* A request fails: what is not sent is dropped.
LEMMA OutboxAbandon ==
  ASSUME NEW r \in Requests, Status[r] # "closed",
         Status[r] = "committed" => Published[r] < collected[r],
         Status' = [Status EXCEPT ![r] = "closed"],
         collected' = collected, Published' = Published, bus' = bus
  PROVE  Outbox!Next
BY DEF Outbox!Next, Outbox!Abandon, Status, Published

\* A request is done once everything is sent.
LEMMA OutboxFinish ==
  ASSUME NEW r \in Requests, Status[r] = "committed", Published[r] = collected[r],
         Status' = [Status EXCEPT ![r] = "closed"],
         collected' = collected, Published' = Published, bus' = bus
  PROVE  Outbox!Next
BY DEF Outbox!Next, Outbox!Finish, Status, Published

\* A function that changes for one request only.
LEMMA OneChange ==
  ASSUME NEW f, NEW g, NEW r \in Requests,
         f = [q \in Requests |-> f[q]], g = [q \in Requests |-> g[q]],
         \A q \in Requests \ {r} : g[q] = f[q]
  PROVE  g = [f EXCEPT ![r] = g[r]]
  OBVIOUS

\* In front of the flush a step commits, abandons or leaves the status alone.
LEMMA QuietStatus ==
  ASSUME TypeOK, NEW r \in Requests, Decision(r), Effect(r), ~Publishes(r)
  PROVE  \/ pc'[r] # "settled" /\ flushQueue'[r] = flushQueue[r]
         \/ pc'[r] # "settled" /\ ~flushQueue[r] /\ flushQueue'[r] = TRUE
         \/ pc'[r] = "settled" /\ ~flushQueue[r] /\ flushQueue'[r] = flushQueue[r] /\ collected'[r] = collected[r]
<1>1. pc[r] \notin Closing => ~flushQueue[r]
  BY DEF Decision
<1>2. SameEvents(r) => collected'[r] = collected[r]
  BY DEF SameEvents
<1>3. CASE Enters(r) \/ Moves(r)
  BY <1>3 DEF Enters, Moves, Turns, Behind
<1>4. CASE Ends(r)
  BY <1>1, <1>2, <1>4 DEF Ends, Answers, Turns, Closing
<1>5. CASE Runs(r)
  BY <1>5 DEF Runs, Answers, Errs, Turns, Behind
<1>6. CASE Handles(r)
  BY <1>1, <1>6 DEF Handles, Answers, Errs, Turns, Closing
<1>7. CASE Cascades(r)
  BY <1>1, <1>2, <1>7 DEF Cascades, Answers, Turns, Closing
<1>8. CASE Hooks(r)
  BY <1>8 DEF Hooks, Turns
<1>9. QED
  BY <1>3, <1>4, <1>5, <1>6, <1>7, <1>8 DEF Effect

\* A step of the pipeline is a step of the outbox, or none.
LEMMA StepOutbox ==
  ASSUME TypeInv, TypeInv', DecisionInv, DecisionInv', EventsInv, EventsInv', [Next]_vars
  PROVE  [Outbox!Next]_(Outbox!vars)
<1>s. ASSUME Status' = Status, collected' = collected, Published' = Published, bus' = bus
      PROVE  UNCHANGED Outbox!vars
  BY <1>s DEF Outbox!vars, Status, Published
<1>1. CASE UNCHANGED vars
  <2>1. Status' = Status /\ Published' = Published /\ collected' = collected /\ bus' = bus
    BY <1>1 DEF vars, Status, Published, Emitted
  <2>2. QED
    BY <2>1, <1>s
<1>2. ASSUME NEW r \in Requests, Arrive(r) \/ Work(r) PROVE [Outbox!Next]_(Outbox!vars)
  <2>1. OnlyOf(r) /\ Effect(r)
    BY <1>2, StepEffect
  <2>2. /\ Decision(r) /\ Decision(r)' /\ Events(r) /\ Events(r)' /\ TypeOK
    BY DEF DecisionInv, EventsInv, TypeInv
  <2>3. /\ Unflushed(r) \/ ~flushQueue[r] => Published[r] = 0
        /\ pc[r] = "emitting" => Published[r] = Left(r) /\ Left(r) \in 0 .. collected[r]
        /\ pc[r] = "send" /\ flushQueue[r] => Published[r] = collected[r]
    BY <2>2, PublishedCount
  <2>4. ASSUME NEW n \in Nat, Emitted(r)' = 1 .. n PROVE Published'[r] = n
    <3>1. Published'[r] = Cardinality(Emitted(r)')
      BY DEF Published
    <3>2. QED
      BY <2>4, <3>1, PrefixSize
  <2>5. /\ Status[r] = IF pc[r] = "settled" THEN "closed" ELSE IF flushQueue[r] THEN "committed" ELSE "open"
        /\ Status'[r] = IF pc'[r] = "settled" THEN "closed" ELSE IF flushQueue'[r] THEN "committed" ELSE "open"
    BY DEF Status
  \* Whatever the step, the others stay as they are.
  <2>6. \A q \in Requests \ {r} : Emitted(q)' = Emitted(q)
    <3>1. ~Publishes(r) => bus' = bus
      BY <2>1, <2>2, QuietSteps DEF Collects
    <3>2. bus' = bus => \A q : Emitted(q)' = Emitted(q)
      BY DEF Emitted
    <3>3. QED
      BY <2>2, <3>1, <3>2, PublishesEvents
  <2>7. /\ Status' = [Status EXCEPT ![r] = Status'[r]]
        /\ Published' = [Published EXCEPT ![r] = Published'[r]]
        /\ collected' = [collected EXCEPT ![r] = collected'[r]]
    <3>1. /\ Status = [q \in Requests |-> Status[q]] /\ Status' = [q \in Requests |-> Status'[q]]
          /\ \A q \in Requests \ {r} : Status'[q] = Status[q]
      BY <2>1 DEF Status, OnlyOf
    <3>2. /\ Published = [q \in Requests |-> Published[q]] /\ Published' = [q \in Requests |-> Published'[q]]
          /\ \A q \in Requests \ {r} : Published'[q] = Published[q]
      BY <2>6 DEF Published
    <3>3. /\ collected = [q \in Requests |-> collected[q]] /\ collected' = [q \in Requests |-> collected'[q]]
          /\ \A q \in Requests \ {r} : collected'[q] = collected[q]
      BY <2>1 DEF OnlyOf, TypeInv, TypeOK
    <3>4. QED
      BY <3>1, <3>2, <3>3, OneChange
  <2>8. /\ Status'[r] = Status[r] => Status' = Status
        /\ Published'[r] = Published[r] => Published' = Published
        /\ collected'[r] = collected[r] => collected' = collected
    <3>1. /\ Status = [Status EXCEPT ![r] = Status[r]]
          /\ Published = [Published EXCEPT ![r] = Published[r]]
          /\ collected = [collected EXCEPT ![r] = collected[r]]
      BY DEF Status, Published, TypeInv, TypeOK
    <3>2. QED
      BY <2>7, <3>1
  <2>9. /\ collected[r] \in Nat /\ Len(outbox[r]) \in Nat
        /\ queue[r] \in Seq(1 .. MaxEvents) /\ outbox[r] \in Seq(1 .. MaxEvents)
        /\ bus \in Seq(Requests \X (1 .. MaxEvents))
    <3>1. collected[r] \in Nat /\ queue[r] \in Seq(1 .. MaxEvents) /\ outbox[r] \in Seq(1 .. MaxEvents)
          /\ bus \in Seq(Requests \X (1 .. MaxEvents))
      BY ConfigAssumption DEF TypeInv, TypeOK
    <3>2. QED
      BY <3>1, LenProperties
  <2>10. ASSUME ~Publishes(r) PROVE [Outbox!Next]_(Outbox!vars)
    <3>1. Unflushed(r) /\ Collects(r)
      BY <2>1, <2>2, <2>10, QuietSteps
    <3>2. bus' = bus /\ Published' = Published /\ Published[r] = 0
      BY <2>3, <3>1 DEF Collects, Published, Emitted
    <3>3. Status[r] # "closed"
      BY <2>5, <3>1 DEF Unflushed
    <3>4. CASE pc'[r] # "settled" /\ flushQueue'[r] = flushQueue[r]
      <4>1. Status' = Status
        BY <2>5, <2>8, <3>1, <3>4 DEF Unflushed
      <4>2. CASE collected'[r] = collected[r]
        BY <2>8, <3>2, <4>1, <4>2, <1>s
      <4>3. CASE collected'[r] = collected[r] + 1
        BY <2>7, <3>2, <3>3, <4>1, <4>3, OutboxStage
      <4>4. QED
        BY <3>1, <4>2, <4>3 DEF Collects
    <3>5. CASE pc'[r] # "settled" /\ ~flushQueue[r] /\ flushQueue'[r] = TRUE
      <4>1. Status[r] = "open" /\ Status' = [Status EXCEPT ![r] = "committed"]
        BY <2>5, <2>7, <3>1, <3>5 DEF Unflushed
      <4>2. collected' \in {collected, [collected EXCEPT ![r] = @ + 1]}
        BY <2>7, <2>8, <3>1 DEF Collects
      <4>3. QED
        BY <3>2, <4>1, <4>2, OutboxCommit
    <3>6. CASE pc'[r] = "settled" /\ ~flushQueue[r] /\ flushQueue'[r] = flushQueue[r] /\ collected'[r] = collected[r]
      <4>1. Status[r] = "open" /\ Status' = [Status EXCEPT ![r] = "closed"] /\ collected' = collected
        BY <2>5, <2>7, <2>8, <3>1, <3>6 DEF Unflushed
      <4>2. QED
        BY <3>2, <4>1, OutboxAbandon
    <3>7. QED
      BY <2>1, <2>2, <2>10, <3>4, <3>5, <3>6, QuietStatus
  <2>11. ASSUME Publishes(r) PROVE [Outbox!Next]_(Outbox!vars)
    <3>1. /\ collected'[r] = collected[r] /\ flushQueue'[r] = flushQueue[r] /\ collected' = collected
      BY <2>8, <2>11 DEF Publishes
    <3>2. bus' = bus => Published' = Published
      BY DEF Published, Emitted
    <3>3. CASE bus' = bus /\ pc[r] \in {"flush", "emitting"} /\ pc'[r] \in {"send", "emitting"}
      BY <1>s, <2>5, <2>8, <3>1, <3>2, <3>3
    <3>4. CASE /\ pc[r] = "flush" /\ flushQueue[r] /\ pc'[r] = "send"
               /\ bus' = bus \o Entries(r, queue[r])
      <4>1. /\ Len(queue[r]) = collected[r] /\ \A i \in 1 .. Len(queue[r]) : queue[r][i] = 0 + i
        BY <2>2, <2>9, <3>4 DEF Events, Unflushed
      <4>2. Status[r] = "committed" /\ Status' = Status /\ Published[r] = 0 /\ Published'[r] = collected[r]
        <5>1. resp'[r] = "handler"
          BY <2>2, <3>1, <3>4 DEF Decision, Rejections
        <5>2. Emitted(r)' = 1 .. collected[r]
          BY <2>2, <3>1, <3>4, <5>1 DEF Events
        <5>3. Published'[r] = collected[r]
          BY <2>4, <2>9, <5>2
        <5>4. QED
          BY <2>3, <2>5, <2>8, <3>1, <3>4, <5>3 DEF Unflushed
      <4>3. CASE collected[r] = 0
        <5>1. Entries(r, queue[r]) = <<>>
          BY <4>1, <4>3 DEF Entries
        <5>2. bus' = bus
          BY <2>9, <3>4, <5>1
        <5>3. QED
          BY <1>s, <3>1, <3>2, <4>2, <5>2
      <4>4. CASE collected[r] # 0
        <5>1. Entries(r, queue[r]) = [i \in 1 .. collected[r] |-> <<r, Published[r] + i>>]
          BY <4>1, <4>2 DEF Entries
        <5>2. Published' = [Published EXCEPT ![r] = @ + collected[r]]
          <6>1. Published'[r] = Published[r] + collected[r]
            BY <2>9, <4>2
          <6>2. QED
            BY <2>7, <6>1
        <5>3. collected[r] \in 1 .. (collected[r] - Published[r])
          BY <2>9, <4>2, <4>4
        <5>4. Outbox!Next
          BY <3>1, <3>4, <4>2, <5>1, <5>2, <5>3, OutboxPublish
        <5>5. QED
          BY <5>4
      <4>5. QED
        BY <4>3, <4>4
    <3>5. CASE /\ pc[r] = "emitting" /\ outbox[r] # <<>> /\ pc'[r] = pc[r]
               /\ bus' = Append(bus, <<r, Head(outbox[r])>>) /\ outbox'[r] = Tail(outbox[r])
      <4>1. /\ Published[r] = Left(r) /\ flushQueue[r] /\ Left(r) \in Nat
        BY <2>2, <2>3, <2>9, <3>5 DEF Decision
      <4>2. Head(outbox[r]) = Left(r) + 1 /\ Len(outbox[r]) > 0 /\ Len(Tail(outbox[r])) = Len(outbox[r]) - 1
            /\ Head(outbox[r]) \in 1 .. MaxEvents
        <5>1. Head(outbox[r]) = outbox[r][1] /\ Len(outbox[r]) > 0
          BY <2>9, <3>5
        <5>2. outbox[r][1] = Left(r) + 1
          BY <2>2, <2>9, <3>5, <5>1 DEF Events
        <5>3. Head(outbox[r]) \in 1 .. MaxEvents /\ Len(Tail(outbox[r])) = Len(outbox[r]) - 1
          BY <2>9, <3>5, HeadTailProperties
        <5>4. QED
          BY <5>1, <5>2, <5>3
      <4>3. collected[r] = Left(r) + Len(outbox[r]) /\ Published'[r] = Left(r) + 1
        <5>1. Left(r)' = Left(r) + 1
          BY <2>9, <3>1, <3>5, <4>2 DEF Left
        <5>2. Emitted(r)' = 1 .. (Left(r) + 1)
          BY <2>2, <3>5, <5>1 DEF Events
        <5>3. Left(r) + 1 \in Nat
          BY <4>1
        <5>4. QED
          BY <2>4, <2>9, <5>2, <5>3 DEF Left
      <4>4. Published' = [Published EXCEPT ![r] = @ + 1]
        BY <2>7, <4>1, <4>3 DEF Published
      <4>5. bus' = bus \o [i \in 1 .. 1 |-> <<r, Published[r] + i>>]
        <5>1. [i \in 1 .. 1 |-> <<r, Published[r] + i>>] = << <<r, Head(outbox[r])>> >>
          BY <4>1, <4>2, <4>3
        <5>2. <<r, Head(outbox[r])>> \in Requests \X (1 .. MaxEvents)
          BY <4>2
        <5>3. Append(bus, <<r, Head(outbox[r])>>) = bus \o << <<r, Head(outbox[r])>> >>
          BY <2>9, <5>2, AppendIsConcat
        <5>4. QED
          BY <3>5, <5>1, <5>3
      <4>6. 1 \in 1 .. (collected[r] - Published[r])
        BY <2>9, <4>1, <4>2, <4>3
      <4>7. Status[r] = "committed" /\ Status' = Status
        BY <2>5, <2>8, <3>1, <3>5, <4>1
      <4>8. Outbox!Next
        BY <3>1, <4>4, <4>5, <4>6, <4>7, OutboxPublish
      <4>9. QED
        BY <4>8
    <3>6. CASE pc[r] = "emitting" /\ outbox[r] # <<>> /\ pc'[r] = "settled" /\ bus' = bus
      <4>1. Published[r] = Left(r) /\ Left(r) < collected[r]
        <5>1. Len(outbox[r]) > 0
          BY <2>9, <3>6
        <5>2. QED
          BY <2>3, <2>9, <3>6, <5>1 DEF Left
      <4>2. Status[r] # "closed" /\ Status' = [Status EXCEPT ![r] = "closed"]
        BY <2>5, <2>7, <3>6
      <4>3. Outbox!Next
        BY <3>1, <3>2, <3>6, <4>1, <4>2, OutboxAbandon
      <4>4. QED
        BY <4>3
    <3>7. CASE pc[r] = "send" /\ pc'[r] = "settled" /\ bus' = bus
      <4>1. Status[r] # "closed" /\ Status' = [Status EXCEPT ![r] = "closed"]
        BY <2>5, <2>7, <3>7
      <4>2. CASE flushQueue[r]
        BY <2>3, <2>5, <3>1, <3>2, <3>7, <4>1, <4>2, OutboxFinish
      <4>3. CASE ~flushQueue[r]
        BY <2>5, <3>1, <3>2, <3>7, <4>1, <4>3, OutboxAbandon
      <4>4. QED
        BY <4>2, <4>3
    <3>8. QED
      BY <2>11, <3>3, <3>4, <3>5, <3>6, <3>7 DEF Publishes
  <2>12. QED
    BY <2>10, <2>11
<1>3. QED
  BY <1>1, <1>2 DEF Next, AllSettled

\* The abstract outbox is what subscribers of the pipeline see.
THEOREM OutboxImplemented == Spec => ImplementsOutbox
<1>1. Init => Outbox!Init
  <2> SUFFICES ASSUME Init PROVE Outbox!Init
    OBVIOUS
  <2>1. ASSUME NEW r \in Requests PROVE Cardinality(Emitted(r)) = 0
    <3>1. Emitted(r) = {}
      BY DEF Init, Emitted
    <3>2. QED
      BY <3>1, FS_EmptySet
  <2>2. QED
    BY <2>1 DEF Init, Outbox!Init
<1>2. TypeInv /\ TypeInv' /\ DecisionInv /\ DecisionInv' /\ EventsInv /\ EventsInv' /\ [Next]_vars
        => [Outbox!Next]_(Outbox!vars)
  BY StepOutbox
<1>3. QED
  BY <1>1, <1>2, InitTypeInv, StepTypeInv, InitDecision, StepDecision, InitEvents, StepEvents,
     PTL DEF Spec, ImplementsOutbox, Outbox!Spec
=============================================================================
