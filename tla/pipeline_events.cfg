SPECIFICATION Spec
CONSTANTS
  r1 = r1
  r2 = r2
  inModule = inModule
  optOut = optOut
  direct = direct
  cyclic = cyclic
  none = none
  Requests = {r1, r2}
  Routes = {inModule}
  NoRoute = none
  RouteCfg <- EventRoutes
  Plugins <- NoPlugins
  Count <- EventCount
  BuiltGuards = {}
  AppOnError = TRUE
  EmitPhases = {"routeGuards", "handler", "moduleOnResponse"}
  MaxEvents = 3
  Users = {"null"}
  Bus = "external"
SYMMETRY Symmetry
INVARIANT EventsKeepTheirPromise
PROPERTY ImplementsOutbox
