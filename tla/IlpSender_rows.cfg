SPECIFICATION FairSpec
CONSTANTS
  MaxRows = 3
  MaxColumns = 1
  MaxBufferSize = 4
  AutoFlush = TRUE
  AutoFlushRows = 2
CHECK_DEADLOCK FALSE
INVARIANT SentOnceInOrder
INVARIANT NothingLost
INVARIANT CountsLines
INVARIANT LinesAreRows
PROPERTY RowsLeave
