SPECIFICATION FairSpec
CONSTANTS
  Instances = {i1, i2}
  i1 = i1
  i2 = i2
  Jobs = {"digest"}
  Slots <- SlotsOf
  NoRun = NoRun
  RunOnStart = {"digest"}
  Ttl = 2
  NumPlugins = 2
  Callers <- CallersOf
  MaxFaults = 2
INVARIANTS
  LocksHold
  TeardownsInReverse
PROPERTY JobsRecover
