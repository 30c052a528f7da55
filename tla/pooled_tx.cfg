SPECIFICATION FairSpec
CONSTANTS
  Clients = {c1, c2}
  Nobody = Nobody
  Rows = {r1, r2}
  MaxOps <- MCMaxOps
  Pools <- MCPools
CHECK_DEADLOCK FALSE
INVARIANT TransactionsAreAtomic
PROPERTY RequestsEnd
