SPECIFICATION Spec
CONSTANTS
  Addr = {a1, a2}
  None = None
  Main = Main
  Worker = {w1}
  Name = {n1, n2}
  Sql = {s1}
  MinConnections = 1
  MaxConnections = 2
  StatementCacheSize = 1
  MaxToken = 2
CHECK_DEADLOCK FALSE
INVARIANT CacheIsSession
INVARIANT ReadyToExecute
INVARIANT StatementIndex
