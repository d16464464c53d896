SPECIFICATION Spec
CONSTANTS
  c1 = c1
  c2 = c2
  p1 = p1
  p2 = p2
  Process = {p1, p2}
  Caller = {c1, c2}
  Home <- TwoProcesses
  None = None
  Size = 2
  MaxRetries = 1
  MaxFaults = 1
CHECK_DEADLOCK FALSE
INVARIANT ReturnedIsModel
