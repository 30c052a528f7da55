SPECIFICATION TableSpec
CONSTANTS
  Methods = {"GET", "POST"}
  Patterns <- SmallPatterns
  Paths <- SmallPaths
  PathTexts <- SmallTexts
  MaxRoutes = 2
  CacheMax = 2
  DirectLate = FALSE
INVARIANT CacheIsSound
