------------------------------ MODULE TextView ------------------------------
(***************************************************************************)
(* A view over a text buffer (tui-infra's text_view.cc): how the content   *)
(* is cut into virtual lines, the selection made by columns or by dragging *)
(* between two cells of the screen, and the cells that are drawn.          *)
(*                                                                         *)
(* A column offset counts the columns of the whole text, a newline taking  *)
(* one; selections and the cells drawn are kept in column offsets, so that *)
(* they need not change when the text is wrapped another way.              *)
(***************************************************************************)
EXTENDS TextBuffer

CONSTANTS None,
          WrapWidths, FirstLineOffsets, Viewports, \* what the setters may be given
          Selections, \* the ranges [start, stop] setSelection may be given
          Points      \* the cells <<x, y>> of the screen a selection may be dragged between

ViewportSet == [x : Nat, y : Nat, width : Nat, height : Nat]

ASSUME ViewAssumption ==
  /\ WrapWidths \subseteq Nat
  /\ FirstLineOffsets \subseteq Nat
  /\ Viewports \subseteq ViewportSet
  /\ Points \subseteq Int \X Int
  /\ None \notin (Points \X Points) \union [start : Nat, stop : Nat]

VARIABLES wrapMode, wrapWidth, firstLineOffset, viewport, truncate,
          selection, anchor,
          dragged     \* history: the two cells the selection was just dragged between

layoutVars == <<wrapMode, wrapWidth, firstLineOffset, viewport, truncate>>
selectVars == <<selection, anchor, dragged>>
viewVars == <<layoutVars, selectVars>>
vars == <<bufferVars, viewVars>>

WrapModes == {"none", "char", "word"}

(***************************************************************************)
(* Layout.  A virtual line is [col, width, line, src, wrap]: the column    *)
(* offset it starts at, its width, the line it is part of, the column it   *)
(* starts at in that line, and its number in the line.                     *)
(***************************************************************************)
Width(cells) == Sum([k \in DOMAIN cells |-> cells[k].width])

WordClass(s) == IF s = "a" THEN "ascii" ELSE IF s = "cjk" THEN "cjk" ELSE "other"
IsWrapBreak(s) == s \in {"sp", "tab"}

CutAt(cells, from) ==
  [j \in DOMAIN from |->
     SubSeq(cells, from[j], IF j = Len(from) THEN Len(cells) ELSE from[j + 1] - 1)]

(* Break units: one ends after a break and between CJK and ASCII words.    *)
WordSegments(cells) ==
  LET class(k) == WordClass(content[cells[k].at])
      starts(k) == \/ k = 1
                   \/ IsWrapBreak(content[cells[k - 1].at])
                   \/ {class(k - 1), class(k)} = {"ascii", "cjk"}
  IN CutAt(cells, Sorted({k \in DOMAIN cells : starts(k)}))

LineWrapW(cur) ==
  IF cur.pending /\ firstLineOffset < cur.ww THEN cur.ww - firstLineOffset ELSE cur.ww

VLineOf(cur) ==
  [col |-> cur.off, width |-> cur.w, line |-> cur.line, src |-> cur.from, wrap |-> cur.wrap]

Flush(cur) ==
  [cur EXCEPT !.vlines = Append(@, VLineOf(cur)), !.wrap = @ + 1, !.off = cur.global,
              !.w = 0, !.pending = FALSE, !.from = cur.source]

Advance(cur, w) ==
  [cur EXCEPT !.w = @ + w, !.global = @ + w, !.source = @ + w, !.any = TRUE]

PushCols(cur, w) == Advance(IF cur.w = 0 THEN [cur EXCEPT !.from = cur.source] ELSE cur, w)

FlushIfOver_WhenFull(cur, w) ==   \* Mutant: a line is flushed once it is full, not when the next does not fit.
  IF cur.w > 0 /\ cur.w >= LineWrapW(cur) THEN Flush(cur) ELSE cur

FlushIfOver(cur, w) == IF cur.w > 0 /\ cur.w + w > LineWrapW(cur) THEN Flush(cur) ELSE cur

PushChar(cur, cell) == Advance(FlushIfOver(cur, cell.width), cell.width)

PushChars(cur, seg) == FoldLeft(LAMBDA c, cell : PushChar(c, cell), cur, seg)

(* Character wrap: the width is read before the flush it may lead to.      *)
PushSegmentCharMode(cur, seg) ==
  LET w == Width(seg)
      flushed == FlushIfOver(cur, w)
  IN IF w > LineWrapW(cur) THEN PushChars(flushed, seg) ELSE PushCols(flushed, w)

(* Word wrap: units stay whole until one does not fit on a line of its     *)
(* own; from there on the rest of the line is filled character by character.*)
PushWord(acc, seg) ==
  LET w == Width(seg)
      flushed == FlushIfOver(acc.cur, w)
  IN IF acc.fill THEN [acc EXCEPT !.cur = PushChars(acc.cur, seg)]
     ELSE IF w <= LineWrapW(flushed) THEN [acc EXCEPT !.cur = PushCols(flushed, w)]
     ELSE [fill |-> TRUE, cur |-> PushChars(flushed, seg)]

Finish(cur) ==
  IF cur.w > 0 \/ ~cur.any THEN Append(cur.vlines, VLineOf(cur)) ELSE cur.vlines

(* The virtual lines of one line, after those of the lines before it.      *)
Cursor(acc, n) ==
  [vlines |-> acc.vlines, global |-> acc.global, pending |-> acc.pending, line |-> n,
   ww |-> wrapWidth, source |-> 0, w |-> 0, off |-> acc.global, from |-> 0, wrap |-> 0,
   any |-> FALSE]

Push(cur, cells) ==
  IF wrapMode = "char"
  THEN FoldLeft(LAMBDA c, cell : PushSegmentCharMode(c, <<cell>>), cur, cells)
  ELSE FoldLeft(LAMBDA a, seg : PushWord(a, seg), [fill |-> FALSE, cur |-> cur],
                WordSegments(cells)).cur

LineDone(cur) == [vlines |-> Finish(cur), global |-> cur.global + 1, pending |-> FALSE]

WrapLine(acc, n, cells) == LineDone(Push(Cursor(acc, n), cells))

WholeLine(acc, n, cells) ==
  [vlines |-> Append(acc.vlines, [col |-> acc.global, width |-> Width(cells), line |-> n,
                                  src |-> 0, wrap |-> 0]),
   global |-> acc.global + Width(cells) + 1, pending |-> FALSE]

AddLine(acc, n, cells) ==
  IF wrapMode # "none" /\ wrapWidth > 0 /\ cells # <<>> THEN WrapLine(acc, n, cells)
  ELSE WholeLine(acc, n, cells)

CellsOf(n) == LineCells(content, ContentLines(content)[n], tabWidth)

CalculateVirtualLines ==
  FoldLeft(LAMBDA acc, n : AddLine(acc, n, CellsOf(n)),
           [vlines |-> <<>>, global |-> 0, pending |-> firstLineOffset > 0],
           [n \in DOMAIN ContentLines(content) |-> n]).vlines

(* Truncation cuts the middle out of a line wider than the viewport.       *)
Fitted(v, width, truncated, ellipsis, suffix) ==
  [col |-> v.col, width |-> width, line |-> v.line, src |-> v.src, wrap |-> v.wrap,
   truncated |-> truncated, ellipsis |-> ellipsis, suffix |-> suffix]

Whole(v) == Fitted(v, v.width, FALSE, 0, 0)

Truncated(v, width) ==
  LET available == width - 3
      prefix == available \div 2
      kept == available - prefix
  IN IF v.width <= width THEN Whole(v)
     ELSE IF width <= 3 THEN Fitted(v, 0, TRUE, 0, 0)
     ELSE Fitted(v, width, TRUE, prefix, v.width - kept)

AllTruncated(vlines) ==
  [k \in DOMAIN vlines |->
     IF truncate /\ viewport # None /\ viewport.width > 0
     THEN Truncated(vlines[k], viewport.width) ELSE Whole(vlines[k])]

VirtualLines == AllTruncated(CalculateVirtualLines)

(***************************************************************************)
(* Drawing.  A drawn cell has its place <<x, y>> on the screen, the scalar *)
(* it shows, its width and its key, the column offset its selection is     *)
(* decided by.                                                             *)
(***************************************************************************)
ScrollX == IF wrapMode = "none" /\ viewport # None THEN viewport.x ELSE 0
ScrollY == IF viewport = None THEN 0 ELSE viewport.y

(* The cells that start in columns [start, start + width) of a line.       *)
SliceLineCols(cells, start, width) == Pick(cells, StartingIn(cells, start, start + width))

Keyed(cells, key) ==
  LET col == Starts(cells)
  IN [k \in DOMAIN cells |-> [at |-> cells[k].at, width |-> cells[k].width,
                              key |-> key + col[k]]]

Ellipsis(v) == [at |-> 0, width |-> 1, key |-> v.col + v.ellipsis]

CutOut(v, cells) ==
  Pick(cells, {k \in DOMAIN cells : cells[k].key - v.col < v.ellipsis})
    \o <<Ellipsis(v), Ellipsis(v), Ellipsis(v)>>
    \o Pick(cells, {k \in DOMAIN cells : cells[k].key - v.col >= v.suffix})

TruncatedCells(v, line) ==
  CutOut(v, Keyed(SliceLineCols(line, v.src, Width(line) + 1), v.col))

DrawCells_LineKeys(v, line) ==   \* Mutant: the cells of a virtual line are keyed from its line's start.
  IF v.truncated THEN TruncatedCells(v, line)
  ELSE Keyed(SliceLineCols(line, v.src + ScrollX, v.width), v.col - v.src + ScrollX)

DrawCells(v, line) ==
  IF v.truncated THEN TruncatedCells(v, line)
  ELSE Keyed(SliceLineCols(line, v.src + ScrollX, v.width), v.col + ScrollX)

(* DrawModelInto: the rows of the viewport, each clipped to its width.     *)
Rows(vlines) == {n \in DOMAIN vlines : /\ n > ScrollY
                                       /\ viewport # None => n - ScrollY <= viewport.height}

RowCells(y, cells) ==
  LET x == Starts(cells)
  IN {[x |-> x[k], y |-> y, at |-> cells[k].at, width |-> cells[k].width, key |-> cells[k].key] :
        k \in {j \in DOMAIN cells : viewport # None => x[j] < viewport.width}}

Drawn(vlines) ==
  UNION {RowCells(n - ScrollY - 1, DrawCells(vlines[n], CellsOf(vlines[n].line))) :
           n \in Rows(vlines)}

DrawnCells == Drawn(VirtualLines)

Selected(cell) ==
  selection # None /\ selection.start <= cell.key /\ cell.key < selection.stop

(***************************************************************************)
(* Dragging a selection between two cells of the screen.                   *)
(***************************************************************************)
Clamp(n, lo, hi) == Max({lo, Min({n, hi})})

TextEndOffset(vlines) ==
  LET v == vlines[Len(vlines)]
  IN IF vlines = <<>> THEN 0
     ELSE IF v.truncated THEN v.col + v.suffix + Max({0, v.width - (v.ellipsis + 3)})
     ELSE v.col + v.width

CoordsToCharOffset(vlines, p) ==
  LET v == vlines[Clamp(p[2] + ScrollY, 0, Len(vlines) - 1) + 1]
      x == Clamp(p[1] + ScrollX, 0, v.width)
  IN v.col + IF ~v.truncated \/ x < v.ellipsis THEN x
             ELSE IF x < v.ellipsis + 3 THEN v.ellipsis
             ELSE v.suffix + (x - v.ellipsis - 3)

Above(p) == p[2] < 0
Below(vlines, p) == p[2] > Len(vlines) - 1

Offset_EndsAtLast(vlines, p) ==   \* Mutant: below the text is the start of its last line.
  IF Above(p) \/ p[1] < 0 THEN 0
  ELSE IF Below(vlines, p) THEN vlines[Len(vlines)].col
  ELSE CoordsToCharOffset(vlines, p)

Offset(vlines, p) ==
  IF Above(p) \/ p[1] < 0 THEN 0
  ELSE IF Below(vlines, p) THEN TextEndOffset(vlines)
  ELSE CoordsToCharOffset(vlines, p)

Span(m, n) == [start |-> Min({m, n}), stop |-> Max({m, n})]

SetSelection(range) ==
  /\ selection' = range
  /\ dragged' = None
  /\ UNCHANGED <<anchor, layoutVars>>

UpdateSelection(stop) ==
  /\ selection # None
  /\ selection' = [selection EXCEPT !.stop = stop]
  /\ dragged' = None
  /\ UNCHANGED <<anchor, layoutVars>>

ResetSelection ==
  /\ selection' = None
  /\ dragged' = None
  /\ UNCHANGED <<anchor, layoutVars>>

ResetLocalSelection ==
  /\ selection' = None
  /\ anchor' = None
  /\ dragged' = None
  /\ UNCHANGED layoutVars

Outside(vlines, p, q) ==
  (Above(p) /\ Above(q)) \/ (Below(vlines, p) /\ Below(vlines, q))

SetLocalSelection(p, q) ==
  \E vlines \in {VirtualLines} :
    /\ IF Outside(vlines, p, q)
       THEN selection' = None /\ anchor' = None /\ dragged' = None
       ELSE /\ anchor' = Offset(vlines, p)
            /\ selection' = Span(anchor', Offset(vlines, q))
            /\ dragged' = <<p, q>>
    /\ UNCHANGED layoutVars

(* UpdateLocalSelection is SetLocalSelection until there is an anchor; with *)
(* one, only the focus moves, and dragging back before the anchor takes in  *)
(* the cell that starts there.                                              *)
DraggedTo(to, end) ==
  IF to < anchor THEN [start |-> to, stop |-> Min({anchor + 1, end})] ELSE Span(anchor, to)

UpdateLocalSelectionFocusOnly(q) ==
  \E vlines \in {VirtualLines} :
    /\ anchor # None
    /\ selection' = DraggedTo(Offset(vlines, q), TextEndOffset(vlines))
    /\ dragged' = None
    /\ UNCHANGED <<anchor, layoutVars>>

(***************************************************************************)
(* The setters.  Giving a viewport also sets the wrap width.               *)
(***************************************************************************)
SetWrapMode(mode) ==
  /\ wrapMode' = mode
  /\ UNCHANGED <<wrapWidth, firstLineOffset, viewport, truncate>>

SetWrapWidth(width) ==
  /\ wrapWidth' = width
  /\ UNCHANGED <<wrapMode, firstLineOffset, viewport, truncate>>

SetFirstLineOffset(offset) ==
  /\ firstLineOffset' = offset
  /\ UNCHANGED <<wrapMode, wrapWidth, viewport, truncate>>

SetViewport(view) ==
  /\ viewport' = view
  /\ wrapWidth' = view.width
  /\ UNCHANGED <<wrapMode, firstLineOffset, truncate>>

SetViewportSize(width, height) ==
  /\ viewport' = [x |-> IF viewport = None THEN 0 ELSE viewport.x, y |-> ScrollY,
                  width |-> width, height |-> height]
  /\ wrapWidth' = width
  /\ UNCHANGED <<wrapMode, firstLineOffset, truncate>>

SetTruncate(value) ==
  /\ truncate' = value
  /\ UNCHANGED <<wrapMode, wrapWidth, firstLineOffset, viewport>>

Set ==
  \/ \E mode \in WrapModes : SetWrapMode(mode)
  \/ \E width \in WrapWidths : SetWrapWidth(width)
  \/ \E offset \in FirstLineOffsets : SetFirstLineOffset(offset)
  \/ \E view \in Viewports : SetViewport(view) \/ SetViewportSize(view.width, view.height)
  \/ \E value \in BOOLEAN : SetTruncate(value)

Select ==
  \/ \E range \in Selections : SetSelection(range) \/ UpdateSelection(range.stop)
  \/ ResetSelection
  \/ ResetLocalSelection
  \/ \E p, q \in Points : SetLocalSelection(p, q)
  \/ \E q \in Points : UpdateLocalSelectionFocusOnly(q)

Init ==
  /\ BufferInit
  /\ wrapMode = "none"
  /\ wrapWidth = 0
  /\ firstLineOffset = 0
  /\ viewport = None
  /\ truncate = FALSE
  /\ selection = None
  /\ anchor = None
  /\ dragged = None

Next ==
  \/ BufferNext /\ dragged' = None /\ UNCHANGED <<layoutVars, selection, anchor>>
  \/ Set /\ dragged' = None /\ UNCHANGED <<bufferVars, selection, anchor>>
  \/ Select /\ UNCHANGED bufferVars

Spec == Init /\ [][Next]_vars

(***************************************************************************)
(* Properties.                                                             *)
(***************************************************************************)
Room(line, k) ==
  IF line = 1 /\ k = 1 /\ firstLineOffset < wrapWidth THEN wrapWidth - firstLineOffset
  ELSE wrapWidth

CutsLine(n, cells, own) ==
  LET slice(k) == SliceLineCols(cells, own[k].src, own[k].width)
  IN /\ own # <<>>
     /\ FoldLeft(LAMBDA s, t : s \o t, <<>>, [k \in DOMAIN own |-> slice(k)]) = cells
     /\ \A k \in DOMAIN own :
          /\ own[k].src = Sum([j \in 1..(k - 1) |-> own[j].width])
          /\ own[k].wrap = k - 1
          /\ wrapMode # "none" /\ wrapWidth > 0 =>
               own[k].width <= Room(n, k) \/ Len(slice(k)) = 1

(* However a text is wrapped, the virtual lines of each of its lines are   *)
(* its cells cut into consecutive runs, at least one, none lost or doubled,*)
(* each starting where the one before it ended and no wider than the wrap  *)
(* width (the first one less the offset), unless it is a single cell.      *)
(* A tab width of zero is left out: a line of tabs then has no run.        *)
LayoutCutsLines ==
  tabWidth > 0 =>
    \A vlines \in {CalculateVirtualLines}, n \in DOMAIN ContentLines(content) :
      CutsLine(n, CellsOf(n), Pick(vlines, {k \in DOMAIN vlines : vlines[k].line = n}))

(* The view and the buffer count the columns of a text alike where they    *)
(* have the same clusters of the same width: no cluster of a tab is wider  *)
(* or narrower than the tab width (a selector after a tab makes it two     *)
(* columns wide to GetTextRangeByCols, and the tab width to a view), and   *)
(* no newline is in a cluster with other scalars.                          *)
SameClusters ==
  \A cell \in Range(Clusters(content, 1, Len(content))) :
    /\ content[cell.at] = "tab" => cell.width = tabWidth
    /\ "nl" \in {content[i] : i \in cell.at..(cell.at + cell.len - 1)} => cell.len = 1

(* Scrolled sideways, a row starts at the first cell that starts in it,    *)
(* but keyed as if it started at the column scrolled to.                   *)
ScrollCutsNoCell ==
  \A n \in DOMAIN ContentLines(content) : \A cells \in {CellsOf(n)} :
    \A k \in DOMAIN cells : ~(/\ Starts(cells)[k] < ScrollX
                              /\ ScrollX < Starts(cells)[k] + cells[k].width)

(* What is drawn as selected is what is extracted: wrapped, truncated or   *)
(* scrolled, a drawn cell has the key its cluster has in                   *)
(* GetTextRangeByCols, so any selection holds both or neither.             *)
DrawnAsExtracted ==
  SameClusters /\ ScrollCutsNoCell =>
    \A cell \in DrawnCells :
      cell.at > 0 => GetTextRangeByCols(content, cell.key, cell.key + 1) = {cell.at}

Before(p, q) == p[2] < q[2] \/ (p[2] = q[2] /\ p[1] < q[1])

(* Left of the screen is before all of the text.                           *)
Place(p) == IF p[1] < 0 THEN <<0, -1>> ELSE p

(* Not below the last line and still on a screen scrolled down.            *)
OverText(vlines, p) == Above(p) \/ p[2] + ScrollY < Len(vlines) \/ Below(vlines, p)

(* Dragging selects the cells between the two cells of the screen it went  *)
(* between, in reading order, across wrapped lines and newlines alike,     *)
(* wherever the view is scrolled to.                                       *)
DragSelectsBetween ==
  \A vlines \in {VirtualLines}, p, q \in Points :
    LET first == Place(p)
        last == Place(q)
    IN (/\ dragged \in {<<p, q>>, <<q, p>>}
        /\ ~Before(last, first)
        /\ OverText(vlines, first) /\ OverText(vlines, last)
        /\ \A v \in Range(vlines) : ~v.truncated) =>
           \A cell \in {c \in Drawn(vlines) : c.width > 0} :
             Selected(cell) <=> /\ ~Before(<<cell.x, cell.y>>, first)
                                /\ Before(<<cell.x, cell.y>>, last)

(* The same without the exception of SameClusters: what the buffer says of *)
(* its extraction (text_buffer.hpp), that it "agrees byte-for-byte with    *)
(* the measurement/draw paths".  A tab takes the tab width in a view and   *)
(* one column in GetTextRangeByCols.                                       *)
ExtractionAgreesWithDraw ==
  ScrollCutsNoCell =>
    \A cell \in DrawnCells :
      cell.at > 0 => GetTextRangeByCols(content, cell.key, cell.key + 1) = {cell.at}

=============================================================================
