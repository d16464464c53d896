SPECIFICATION Spec
CONSTANTS
  Begin = {t1}
  Savepoint = {s1, s2}
  Plain = {}
  UserName = {1}
  MaxWrites = 2
  Branches = FALSE
  StatementsRollBack = FALSE
  Closes = FALSE
CHECK_DEADLOCK FALSE
SYMMETRY Symmetry
INVARIANT SavepointUndone
