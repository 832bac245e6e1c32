SPECIFICATION FairSqlPoolSpec
CONSTANTS
  c1 = c1
  c2 = c2
  sql = sql
  vec = vec
  null = null
  Contexts = {c1, c2}
  SqlPools = {sql}
  VectorPools = {vec}
  LegacyPool = old
  MaxRequests = 3
  MaxFaults = 2
CHECK_DEADLOCK FALSE
INVARIANTS
    SqlPoolInvariant
    OwnedPoolStays
PROPERTIES
    RefusedForAConnection
    MigrationKeepsTheData
    JobsSettle
