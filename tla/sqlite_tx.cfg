SPECIFICATION FairSpec
CONSTANTS
  c1 = c1
  c2 = c2
  none = none
  x = x
  y = y
  Clients = {c1, c2}
  Nobody = none
  Rows = {x}
  Stored = {}
  Kinds = {"insert", "update", "delete"}
  MaxOps <- OpsOfEach
CHECK_DEADLOCK FALSE
INVARIANTS
  TransactionsAreAtomic
  UndisturbedWorkIsKept
PROPERTIES
  ImplementsStore
  TransactionsEnd
