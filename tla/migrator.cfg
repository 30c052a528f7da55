SPECIFICATION FairSpec
CONSTANTS
  Deployments = {d1, d2}
  d1 = d1
  d2 = d2
  NumFiles = 3
  OnDisk = {1, 3}
  Statements <- StatementsOf
  Guarded = {3}
  MaxRuns = 3
  MaxFaults = 1
  MaxRollbacks = 1
CHECK_DEADLOCK FALSE
INVARIANTS
  TrackingIsTrue
  RunsAreHonest
PROPERTY CommandsEnd
