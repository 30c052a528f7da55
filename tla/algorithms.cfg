SPECIFICATION Spec
CONSTANT Null = Null
INVARIANTS
  PathsMatch
  QueriesAskForTheRows
  RowsAreKept
  MigrationsConverge
  EveryoneGetsTheirs
  HooksCompose
  AccessIsRight
  InterfacesAgree
