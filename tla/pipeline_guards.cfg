SPECIFICATION FairSpec
CONSTANTS
  r1 = r1
  r2 = r2
  inModule = inModule
  optOut = optOut
  direct = direct
  cyclic = cyclic
  none = none
  Requests = {r1}
  Routes = {inModule, optOut, direct, cyclic}
  NoRoute = none
  RouteCfg <- AppRoutes
  Plugins <- NamedPlugins
  Count <- FullCount
  BuiltGuards = {"routeGuards"}
  AppOnError = TRUE
  EmitPhases = {"moduleGuards", "handler"}
  MaxEvents = 2
  Users = {"null", "lacks", "has"}
  Bus = "memory"
INVARIANTS
  TypeOK
  NothingRunsBehindABlock
  HandlerFullyGuarded
  GateBeforeSideEffects
  ErrorsAreAnswered
PROPERTIES
  DecisionIsFinal
  EveryRequestSettles
