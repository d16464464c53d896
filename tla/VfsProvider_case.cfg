SPECIFICATION Spec
CONSTANTS
  a = a
  b = b
  Name = {a, b}
  Content = {c, d}
  LinkTarget = {l}
  None = None
  Alike <- CaseOnly
  MaxDepth = 3
  MaxRows = 4
CHECK_DEADLOCK FALSE
INVARIANT RenameMoves
