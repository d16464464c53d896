SPECIFICATION Spec
CONSTANTS
  Addr = {a1, a2}
  None = None
  Main = Main
  A = A
  B = B
  C = C
  Sql = {A, B, C}
  MinConnections = 1
  MaxConnections = 2
  MaxToken = 2
  HashValue = {1}
  Hash <- AllCollide
  CacheMaxSize = 3
  StatementCacheSize = 2
CHECK_DEADLOCK FALSE
SYMMETRY Symmetry
INVARIANT RunsOwnText
INVARIANT CacheIsMap
