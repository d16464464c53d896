SPECIFICATION Spec
CONSTANTS
  Begin = {t1}
  Savepoint = {s1}
  Plain = {}
  UserName = {}
  MaxWrites = 1
  Branches = FALSE
  StatementsRollBack = FALSE
  Closes = FALSE
CHECK_DEADLOCK FALSE
SYMMETRY Symmetry
INVARIANT AtomicAnyway
