SPECIFICATION Spec
CONSTANTS
  Addr = {a1, a2}
  None = None
  Main = Main
  A = A
  B = B
  C = C
  Sql = {A, B, C}
  MinConnections = 1
  MaxConnections = 2
  MaxToken = 2
  HashValue = {1, 2}
  Hash <- Colliding
  CacheMaxSize = 2
  StatementCacheSize = 9
CHECK_DEADLOCK FALSE
SYMMETRY Symmetry
INVARIANT RunsOwnText
