SPECIFICATION Spec
CONSTANTS
  Addr = {a1, a2, a3}
  None = None
  Main = Main
  Worker = {w1}
  Name = {n1}
  Sql = {s1}
  MinConnections = 2
  MaxConnections = 1
  StatementCacheSize = 1
  MaxToken = 3
CHECK_DEADLOCK FALSE
INVARIANT TotalWithinMax
