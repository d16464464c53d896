SPECIFICATION Spec
CONSTANTS
  Addr = {a1, a2, a3}
  None = None
  Main = Main
  Worker = {w1, w2}
  Name = {n1}
  Sql = {s1}
  MinConnections = 1
  MaxConnections = 2
  StatementCacheSize = 1
  MaxToken = 3
CHECK_DEADLOCK FALSE
SYMMETRY Symmetry
INVARIANT TypeOK
INVARIANT OwnedOnce
INVARIANT ExclusiveHold
INVARIANT ActiveIsHeld
INVARIANT TotalWithinLimit
PROPERTY EvictionKeepsMin
PROPERTY ImplementsLending
