SPECIFICATION Spec
CONSTANTS
  Begin = {t1, t2}
  Savepoint = {s1, s2}
  Plain = {p1}
  UserName = {1}
  MaxWrites = 0
  Branches = FALSE
  StatementsRollBack = TRUE
  Closes = TRUE
CHECK_DEADLOCK FALSE
SYMMETRY Symmetry
INVARIANT NoneLeftOpen
