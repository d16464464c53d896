----------------------------- MODULE TextBuffer -----------------------------
(***************************************************************************)
(* The native text buffer of node:smol-tui (tui-infra's text_buffer.cc):   *)
(* its content, the registry of byte blobs content can be made from, and   *)
(* the highlights, with the columns they are kept in.                      *)
(*                                                                         *)
(* A text is a sequence of scalars, and a scalar is one of the classes the *)
(* code tells apart: "a" (a letter), "sp" (a space), "cjk" (two columns    *)
(* wide), "tab", "nl", "cr", "zwj" (joins the next scalar), "vs16" and     *)
(* "mark" (fold into the scalar before; vs16 also widens it), and those    *)
(* the two tables of widths disagree on: "check" (U+2705), "thermo"        *)
(* (U+1F321), "zwsp" (U+200B) and "keycap" (U+20E3, which folds).  UTF-8   *)
(* is left out: every text is well formed.  The colours of a highlight are *)
(* its style, and a highlight of setStyledText has its chunk's number.     *)
(***************************************************************************)
EXTENDS Integers, Sequences, FiniteSets, SequencesExt

CONSTANTS Texts,       \* the texts a call may pass
          StyledCalls, \* the sequences of chunks setStyledText may be given
          Highlights,  \* the highlights a call may add: start, stop, style, priority, ref
          Lines,       \* the line numbers a call may name
          TabWidths,   \* the tab widths a call may set
          MaxLength,   \* bound on the scalars of the content
          MaxSlots,    \* bound on the slots of the registry
          MemIds,      \* how many slot ids the binding's uint8_t tells apart (256)
          MaxHighlights \* bound on the highlights kept

Scalars == {"a", "sp", "cjk", "tab", "nl", "cr", "zwj", "vs16", "mark",
            "check", "thermo", "zwsp", "keycap"}
Chunks == [text : Seq(Scalars), colored : BOOLEAN]
Ranges == [start : Nat, stop : Nat, style : Nat, priority : Nat, ref : Nat]

ASSUME BufferAssumption ==
  /\ Texts \subseteq Seq(Scalars)
  /\ StyledCalls \subseteq Seq(Chunks)
  /\ Highlights \subseteq Ranges
  /\ Lines \subseteq Nat
  /\ TabWidths \subseteq Nat

VARIABLES content, mem, highlights, tabWidth

bufferVars == <<content, mem, highlights, tabWidth>>

Wide == {"cjk", "thermo"}
Extenders == {"vs16", "mark", "keycap"}

Sum(s) == FoldLeft(LAMBDA a, b : a + b, 0, s)

(* Some numbers in order, the elements of s at some of its places, and     *)
(* those that pass a test.                                                 *)
Sorted(idx) ==
  [n \in 1..Cardinality(idx) |-> CHOOSE k \in idx : Cardinality({j \in idx : j <= k}) = n]
Pick(s, idx) == LET is == Sorted(idx) IN [k \in DOMAIN is |-> s[is[k]]]
Where(s, Test(_)) == Pick(s, {k \in DOMAIN s : Test(s[k])})

(***************************************************************************)
(* Widths.  The buffer has two models, each with tables of its own:        *)
(* CodepointWidth of one scalar, from Unicode 17, which places highlights, *)
(* and the width of a cluster, which the views lay text out with.          *)
(***************************************************************************)
CodepointWidth(s) ==
  IF s \in {"cjk", "check"} THEN 2
  ELSE IF s \in {"a", "sp", "thermo", "keycap"} THEN 1 ELSE 0

(* The clusters of the scalars from..to of text c, each with the index of  *)
(* its first scalar, their number and its width.                           *)
NextCluster(c, acc, i) ==
  LET folded == acc.cells # <<>> /\ (acc.joins \/ c[i] \in Extenders \union {"zwj"})
      last == acc.cells[Len(acc.cells)]
      widens == ~acc.joins /\ c[i] = "vs16" /\ last.width = 1
  IN IF folded
     THEN [cells |-> [acc.cells EXCEPT ![Len(acc.cells)] =
                        [last EXCEPT !.len = @ + 1, !.width = IF widens THEN 2 ELSE @]],
           joins |-> ~acc.joins /\ c[i] = "zwj"]
     ELSE [cells |-> Append(acc.cells, [at |-> i, len |-> 1,
                                        width |-> IF c[i] \in Wide THEN 2 ELSE 1]),
           joins |-> FALSE]

Clusters(c, from, to) ==
  FoldLeft(LAMBDA acc, i : NextCluster(c, acc, i), [cells |-> <<>>, joins |-> FALSE],
           [k \in 1..(to - from + 1) |-> from + k - 1]).cells

(* content.split("\n"), each line by the indexes of its scalars.           *)
LinesEndingAt(ends) ==
  [k \in DOMAIN ends |-> [from |-> IF k = 1 THEN 1 ELSE ends[k - 1] + 1, to |-> ends[k] - 1]]

ContentLines(c) ==
  LinesEndingAt(Sorted({i \in 1..Len(c) : c[i] = "nl"} \union {Len(c) + 1}))

(* One cell per cluster of a line; a tab takes the tab width.              *)
WithWidth(c, cells, scalar, width) ==
  [k \in DOMAIN cells |->
     IF c[cells[k].at] = scalar THEN [cells[k] EXCEPT !.width = width] ELSE cells[k]]

LineCells(c, line, tab) == WithWidth(c, Clusters(c, line.from, line.to), "tab", tab)

(* The column each of some cells starts at, from column zero.              *)
Starts(cells) ==
  [k \in DOMAIN cells |-> Sum([j \in 1..(k - 1) |-> cells[j].width])]

(* GetTextRangeByCols: the first scalars of the clusters that start in     *)
(* [start, stop), over the whole content, a newline taking one column.     *)
StartingIn(cells, start, stop) ==
  LET col == Starts(cells)
  IN {k \in DOMAIN cells : start <= col[k] /\ col[k] < stop}

GetTextRangeByCols(c, start, stop) ==
  LET cells == WithWidth(c, Clusters(c, 1, Len(c)), "nl", 1)
  IN {cells[k].at : k \in StartingIn(cells, start, stop)}

(***************************************************************************)
(* Content.                                                                *)
(***************************************************************************)
NormalizeCrlf(t) ==
  Pick(t, {i \in DOMAIN t : ~(t[i] = "cr" /\ i < Len(t) /\ t[i + 1] = "nl")})

UserHighlights == Where(highlights, LAMBDA h : h.kind = "user")

SetContent(t) ==
  /\ content' = NormalizeCrlf(t)
  /\ highlights' = UserHighlights

LoadFile(t) == SetContent(t) /\ UNCHANGED <<mem, tabWidth>>

RegisterMem(t) ==
  /\ Len(mem) < MaxSlots
  /\ mem' = Append(mem, t)
  /\ UNCHANGED <<content, highlights, tabWidth>>

(* The slot the binding reaches for an id: RegisterMem hands out uint16_t  *)
(* ids and the calls that use one read it as a uint8_t.                    *)
Slot(id) == ((id - 1) % MemIds) + 1

ReplaceMem(id, t) ==
  /\ Slot(id) \in DOMAIN mem
  /\ mem' = [mem EXCEPT ![Slot(id)] = t]
  /\ UNCHANGED <<content, highlights, tabWidth>>

ClearMemRegistry ==
  /\ mem' = <<>>
  /\ UNCHANGED <<content, highlights, tabWidth>>

SetFromMem(id) ==
  /\ Slot(id) \in DOMAIN mem
  /\ SetContent(mem[Slot(id)])
  /\ UNCHANGED <<mem, tabWidth>>

AppendText(t) ==
  /\ Len(content) + Len(NormalizeCrlf(t)) <= MaxLength
  /\ content' = content \o NormalizeCrlf(t)
  /\ UNCHANGED <<mem, highlights, tabWidth>>

AppendFromMem(id) == Slot(id) \in DOMAIN mem /\ AppendText(mem[Slot(id)])

Clear ==
  /\ content' = <<>>
  /\ highlights' = UserHighlights
  /\ UNCHANGED <<mem, tabWidth>>

Reset ==
  /\ content' = <<>>
  /\ highlights' = <<>>
  /\ mem' = <<>>
  /\ UNCHANGED tabWidth

SetTabWidth(w) ==
  /\ tabWidth' = w
  /\ UNCHANGED <<content, mem, highlights>>

(***************************************************************************)
(* Highlights: [line, start, stop, style, priority, ref, kind], in the     *)
(* order they were added.                                                  *)
(***************************************************************************)
Highlight(line, hl, start, stop) ==
  [line |-> line, start |-> start, stop |-> stop, style |-> hl.style,
   priority |-> hl.priority, ref |-> hl.ref, kind |-> "user"]

Keep(hls) ==
  /\ Len(hls) <= MaxHighlights
  /\ highlights' = hls
  /\ UNCHANGED <<content, mem, tabWidth>>

AddHighlight(line, hl) ==
  /\ hl.start < hl.stop
  /\ Keep(Append(highlights, Highlight(line, hl, hl.start, hl.stop)))

(* LineWidthsFromScalars: a tab and every other control has no width here. *)
LineWidthsFromScalars ==
  LET lines == ContentLines(content)
  IN [k \in DOMAIN lines |->
        Sum([j \in 1..(lines[k].to - lines[k].from + 1) |->
               CodepointWidth(content[lines[k].from + j - 1])])]

(* The pieces of a range of columns, newlines not counted, line by line.   *)
Pieces_EndIsWidth(hl) ==   \* Mutant: a piece always runs to the end of its line.
  LET widths == LineWidthsFromScalars
      lineStart(k) == Sum(SubSeq(widths, 1, k - 1))
      from(k) == Max({0, hl.start - lineStart(k)})
      overlapped == {k \in DOMAIN widths : /\ hl.start < lineStart(k) + widths[k]
                                           /\ lineStart(k) < hl.stop
                                           /\ from(k) < widths[k]}
      lines == Sorted(overlapped)
  IN [j \in DOMAIN lines |->
        Highlight(lines[j] - 1, hl, from(lines[j]), widths[lines[j]])]

Pieces(hl) ==
  LET widths == LineWidthsFromScalars
      lineStart(k) == Sum(SubSeq(widths, 1, k - 1))
      from(k) == Max({0, hl.start - lineStart(k)})
      to(k) == Min({hl.stop - lineStart(k), widths[k]})
      overlapped == {k \in DOMAIN widths : /\ hl.start < lineStart(k) + widths[k]
                                           /\ lineStart(k) < hl.stop
                                           /\ from(k) < to(k)}
      lines == Sorted(overlapped)
  IN [j \in DOMAIN lines |-> Highlight(lines[j] - 1, hl, from(lines[j]), to(lines[j]))]

AddHighlightByCharRange(hl) ==
  /\ hl.start < hl.stop
  /\ Keep(highlights \o Pieces(hl))

RemoveHighlightsByRef(ref) ==
  Keep(Where(highlights, LAMBDA h : h.ref # ref))

ClearLineHighlights(line) ==
  Keep(Where(highlights, LAMBDA h : h.line # line))

ClearAllHighlights == Keep(<<>>)

(***************************************************************************)
(* setStyledText: the chunks, each [text, colored], one after the other,   *)
(* with a highlight per line a coloured chunk has columns on.              *)
(***************************************************************************)
StyledHighlight(at, k) ==
  [line |-> at.line, start |-> at.seg, stop |-> at.col, style |-> k,
   priority |-> 1, ref |-> 0, kind |-> "styled"]

(* The highlight of chunk k up to the column reached, if it has any.       *)
Segment(at, k, chunk) ==
  IF chunk.colored /\ at.col > at.seg THEN Append(at.hls, StyledHighlight(at, k)) ELSE at.hls

StyledWidth_TabIsScalar(s) == CodepointWidth(s)  \* Mutant: a tab is measured like a scalar.

StyledWidth(s) == IF s = "tab" THEN tabWidth ELSE CodepointWidth(s)

StyledScalar(at, k, chunk, s) ==
  IF s = "nl"
  THEN [line |-> at.line + 1, col |-> 0, seg |-> 0, hls |-> Segment(at, k, chunk)]
  ELSE [at EXCEPT !.col = @ + StyledWidth(s)]

StyledChunk(acc, k, chunk) ==
  LET norm == NormalizeCrlf(chunk.text)
      at == FoldLeft(LAMBDA a, s : StyledScalar(a, k, chunk, s),
                     [line |-> acc.line, col |-> acc.col, seg |-> acc.col, hls |-> acc.hls],
                     norm)
  IN [line |-> at.line, col |-> at.col, hls |-> Segment(at, k, chunk),
      text |-> acc.text \o norm]

SetStyled(chunks) ==
  LET all == FoldLeft(LAMBDA acc, k : StyledChunk(acc, k, chunks[k]),
                      [line |-> 0, col |-> 0, hls |-> UserHighlights, text |-> <<>>],
                      [k \in DOMAIN chunks |-> k])
  IN /\ Len(all.hls) <= MaxHighlights
     /\ highlights' = all.hls
     /\ content' = all.text
     /\ UNCHANGED <<mem, tabWidth>>

(***************************************************************************)
(* BuildLineSpans: the highlights of a line swept from left to right into  *)
(* runs [from, to, style]; the active highlight of the highest priority    *)
(* colours a run, the one that became active first if several have it.     *)
(***************************************************************************)
LineHighlights(line) == Where(highlights, LAMBDA h : h.line = line)

Precedes(e, f) ==
  \/ e.col < f.col
  \/ e.col = f.col /\ e.opens < f.opens
  \/ e.col = f.col /\ e.opens = f.opens /\ e.idx < f.idx

Events(hls) ==
  LET all == [k \in DOMAIN hls |-> [col |-> hls[k].start, opens |-> 1, idx |-> k]]
             \o [k \in DOMAIN hls |-> [col |-> hls[k].stop, opens |-> 0, idx |-> k]]
      upTo(i) == {j \in DOMAIN all : ~Precedes(all[i], all[j])}
  IN [n \in DOMAIN all |-> all[CHOOSE i \in DOMAIN all : Cardinality(upTo(i)) = n]]

Winner_LastWins(hls, active) ==   \* Mutant: of equal priorities the last one wins.
  active[Max({p \in DOMAIN active :
                \A q \in DOMAIN active :
                  hls[active[q]].priority <= hls[active[p]].priority})]

Winner(hls, active) ==
  active[Min({p \in DOMAIN active :
                \A q \in DOMAIN active :
                  hls[active[q]].priority <= hls[active[p]].priority})]

Sweep(hls, acc, e) ==
  LET runs == IF e.col > acc.col /\ acc.active # <<>>
              THEN Append(acc.runs, [from |-> acc.col, to |-> e.col,
                                     style |-> hls[Winner(hls, acc.active)].style])
              ELSE acc.runs
  IN [col |-> Max({e.col, acc.col}), runs |-> runs,
      active |-> IF e.opens = 1 THEN Append(acc.active, e.idx)
                 ELSE Where(acc.active, LAMBDA k : k # e.idx)]

BuildLineSpans(line) ==
  LET hls == LineHighlights(line)
  IN FoldLeft(LAMBDA acc, e : Sweep(hls, acc, e),
              [col |-> 0, runs |-> <<>>, active |-> <<>>], Events(hls)).runs

LineCount == Len(ContentLines(content))

(***************************************************************************)
(* The specification.                                                      *)
(***************************************************************************)
BufferInit ==
  /\ content = <<>>
  /\ mem = <<>>
  /\ highlights = <<>>
  /\ tabWidth = 2

BufferNext ==
  \/ \E t \in Texts : LoadFile(t) \/ RegisterMem(t) \/ AppendText(t)
  \/ \E id \in 1..MaxSlots : \/ SetFromMem(id)
                             \/ AppendFromMem(id)
                             \/ \E t \in Texts : ReplaceMem(id, t)
  \/ ClearMemRegistry
  \/ Clear
  \/ Reset
  \/ \E w \in TabWidths : SetTabWidth(w)
  \/ \E chunks \in StyledCalls : SetStyled(chunks)
  \/ \E hl \in Highlights : \/ AddHighlightByCharRange(hl)
                            \/ RemoveHighlightsByRef(hl.ref)
                            \/ \E line \in Lines : AddHighlight(line, hl)
  \/ \E line \in Lines : ClearLineHighlights(line)
  \/ ClearAllHighlights

BufferSpec == BufferInit /\ [][BufferNext]_bufferVars

(***************************************************************************)
(* Properties.                                                             *)
(***************************************************************************)
(* What a column of a line must be coloured with: the covering highlight   *)
(* of the highest priority and, of those, the one that starts first.       *)
Covering(line, col) ==
  {k \in DOMAIN LineHighlights(line) :
     LineHighlights(line)[k].start <= col /\ col < LineHighlights(line)[k].stop}
Top(line, col) ==
  LET hls == LineHighlights(line)
  IN CHOOSE k \in Covering(line, col) :
       \A j \in Covering(line, col) \ {k} :
         \/ hls[j].priority < hls[k].priority
         \/ /\ hls[j].priority = hls[k].priority
            /\ hls[k].start < hls[j].start \/ (hls[k].start = hls[j].start /\ k < j)

(* The runs of a line are in order, do not overlap, and give every column  *)
(* the style of the highlight that must colour it, and no column else: the *)
(* sweep over the starts and the ends, with its list of active highlights, *)
(* loses none when an inner one ends (BuildLineSpans).                     *)
SpansByPriority ==
  \A line \in 0..(LineCount - 1) :
    LET runs == BuildLineSpans(line)
        columns == {LineHighlights(line)[k].stop : k \in DOMAIN LineHighlights(line)}
    IN /\ \A k \in 1..(Len(runs) - 1) : runs[k].to <= runs[k + 1].from
       /\ \A col \in 0..Max(columns \union {0}) :
            {runs[k].style : k \in {j \in DOMAIN runs : runs[j].from <= col /\ col < runs[j].to}}
              = IF Covering(line, col) = {} THEN {}
                ELSE {LineHighlights(line)[Top(line, col)].style}

(* Highlighting a range marks exactly the columns of the text in it: the   *)
(* pieces, laid end to end over the lines' widths, are the range cut off   *)
(* at the end of the text (AddHighlightByCharRange).                       *)
RangeCovered ==
  LET widths == LineWidthsFromScalars
  IN \A hl \in Highlights :
       hl.start < hl.stop =>
         UNION {{Sum(SubSeq(widths, 1, p.line)) + c : c \in p.start..(p.stop - 1)} :
                  p \in Range(Pieces(hl))}
           = {c \in hl.start..(hl.stop - 1) : c < Sum(widths)}

(* A text without the scalars that the two models of widths measure        *)
(* differently: joiners, variation selectors, controls, those their tables *)
(* disagree on, and a mark at the start of a line.                         *)
Measured(c) ==
  /\ {"zwj", "vs16", "cr", "check", "thermo", "zwsp", "keycap"} \intersect Range(c) = {}
  /\ \A i \in DOMAIN c : c[i] = "mark" => i > 1 /\ c[i - 1] # "nl"

(* What setStyledText leaves behind: the columns highlighted on a line are *)
(* those its cells made of scalars of coloured chunks are drawn in.        *)
HighlightedAsDrawn(chunks) ==
  LET norm == [k \in DOMAIN chunks |-> NormalizeCrlf(chunks[k].text)]
      before(k) == Sum([j \in 1..(k - 1) |-> Len(norm[j])])
      coloured == {i \in DOMAIN content' :
                     \E k \in DOMAIN chunks : /\ chunks[k].colored
                                              /\ before(k) < i
                                              /\ i <= before(k) + Len(norm[k])}
      drawn(line) == LineCells(content', ContentLines(content')[line + 1], tabWidth)
      styled(line) == {h \in Range(highlights') : h.kind = "styled" /\ h.line = line}
  IN \A line \in 0..(Len(ContentLines(content')) - 1) :
       UNION {h.start..(h.stop - 1) : h \in styled(line)}
         = UNION {LET start == Starts(drawn(line))[j]
                  IN start..(start + drawn(line)[j].width - 1) :
                    j \in {i \in DOMAIN drawn(line) : drawn(line)[i].at \in coloured}}

(* The columns a styled chunk is highlighted on are the columns a view     *)
(* draws its text in, line by line, whatever the chunks before it and the  *)
(* tab width: SetStyled measures scalars and LineCells clusters.  On the   *)
(* scalars that the two measure differently the columns drift apart, which *)
(* TextBuffer_tables.cfg shows.                                            *)
StyledWhereDrawn ==
  [][\A chunks \in StyledCalls :
       SetStyled(chunks) /\ Measured(content') => HighlightedAsDrawn(chunks)]_bufferVars

=============================================================================
