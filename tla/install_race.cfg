SPECIFICATION FairSpec
CONSTANTS
  Requests = {r1, r2, r3}
  Listener = listen
  NPlugins = 3
  Installs = {1, 3}
  DbPlugin = 1
  ModulePlugins = {tenant}
  NoPlugin = none
  Decls = {users}
  MaxFailures = 2
CHECK_DEADLOCK FALSE
INVARIANTS
  InstalledOnce
  ServedByInstalledPlugins
PROPERTY EveryCallerResumes
