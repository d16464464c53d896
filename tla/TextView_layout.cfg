SPECIFICATION Spec
CONSTANTS
  None = None
  Texts <- TheTexts
  StyledCalls = {}
  Highlights = {}
  Lines = {}
  TabWidths = {1}
  MaxLength = 4
  MaxSlots = 0
  MemIds = 1
  MaxHighlights = 0
  WrapWidths = {5}
  FirstLineOffsets = {4}
  Viewports <- TheViewports
  Selections <- TheSelections
  Points <- ThePoints
INVARIANTS
  LayoutCutsLines
  DrawnAsExtracted
  DragSelectsBetween
