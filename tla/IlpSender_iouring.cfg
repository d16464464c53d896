SPECIFICATION Spec
CONSTANTS
  MaxRows = 3
  MaxColumns = 1
  MaxBufferSize = 4
  AutoFlush = TRUE
  AutoFlushRows = 2
CHECK_DEADLOCK FALSE
INVARIANT InOrder
