SPECIFICATION Spec
CONSTANTS
  Begin = {t1, t2}
  Savepoint = {s1, s2}
  Plain = {}
  UserName = {}
  MaxWrites = 1
  Branches = FALSE
  StatementsRollBack = FALSE
  Closes = FALSE
CHECK_DEADLOCK FALSE
SYMMETRY Symmetry
INVARIANT Atomic
INVARIANT SavepointUndone
INVARIANT NothingElseUndone
INVARIANT Exclusive
