SPECIFICATION FairSpec
CONSTANTS
  Addr = {a1}
  None = None
  Main = Main
  Worker = {w1, w2}
  Name = {n1, n2}
  Sql = {s1}
  MinConnections = 1
  MaxConnections = 1
  StatementCacheSize = 1
  MaxToken = 2
CHECK_DEADLOCK FALSE
PROPERTY CallsReturn
PROPERTY DestroyedPoolIsFreed
INVARIANT CacheIsSession
INVARIANT ReadyToExecute
INVARIANT StatementIndex
