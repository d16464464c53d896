SPECIFICATION BufferSpec
CONSTANTS
  Texts <- TheTexts
  StyledCalls <- TheChunks
  Highlights <- TheHighlights
  Lines = {0, 1}
  TabWidths = {0, 2}
  MaxLength = 4
  MaxSlots = 1
  MemIds = 1
  MaxHighlights = 2
INVARIANTS
  SpansByPriority
  RangeCovered
PROPERTIES
  StyledWhereDrawn
