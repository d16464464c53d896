SPECIFICATION FairSpec
CONSTANTS
  c1 = c1
  c2 = c2
  p1 = p1
  p2 = p2
  Process = {p1}
  Caller = {c1, c2}
  Home <- SameProcess
  None = None
  Size = 2
  MaxRetries = 1
  MaxFaults = 3
CHECK_DEADLOCK FALSE
INVARIANT TypeOK
INVARIANT ReturnedIsModel
PROPERTY CallsSettle
PROPERTY CompletesUnlessWhole
