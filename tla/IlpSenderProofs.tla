---------------------------- MODULE IlpSenderProofs ----------------------------
(***************************************************************************)
(* What one Sender puts on the wire, for any number of rows and columns,   *)
(* any buffer size and any automatic flush: pieces in order and once, no   *)
(* row lost, every line counted, whole lines.                              *)
(***************************************************************************)
EXTENDS IlpSender, FiniteSetTheorems, SequenceTheorems, TLAPS

\* What the kernel has accepted and what the buffer sends next.
stream == wire \o buffer

Ordered(s) == \A i, j \in 1..Len(s) : i < j => Before(s[i], s[j])

\* Every piece of s is of an earlier row than the one being written, or is an
\* earlier piece of it.
AllBefore(s, row, column, table) ==
    \A i \in 1..Len(s) : /\ s[i][1] <= row
                         /\ s[i][1] = row /\ table # 0 => s[i][2] <= column

WrittenBefore(s) == AllBefore(s, rows, columns, currentTable)

\* A line begins in s exactly where one has ended.
Chained(s) == \A i \in 2..Len(s) : s[i][2] = TableName <=> s[i - 1][2] = LineEnd

AtLineStart(s) == s = <<>> \/ s[Len(s)][2] = LineEnd

Working == socket # "failed"

TypeOK ==
    /\ connected \in BOOLEAN
    /\ lifecycle \in {"open", "closing", "closed"}
    /\ socket \in {"none", "connected", "failed"}
    /\ rows \in 0..MaxRows
    /\ columns \in 0..MaxColumns
    /\ currentTable \in {0, rows}
    /\ buffer \in Seq(Piece) /\ wire \in Seq(Piece)
    /\ overflow \in BOOLEAN /\ torn \in BOOLEAN
    /\ rowsBuffered \in Nat /\ rowsSent \in Nat
    /\ ended \in SUBSET (1..rows)

\* An open sender connects once; nothing has been sent until then.
ConnectsOnce == Open /\ ~connected => socket = "none" /\ wire = <<>>

\* The four properties, while no submit has failed: two of them as they are, two
\* strengthened to be inductive by the order of any two pieces and by what the
\* next piece must follow.
RowsKept ==
    (Open /\ ~overflow /\ Working) => ended \subseteq Lines(wire) \cup Lines(buffer) \cup dropped

RowsCounted ==
    /\ rowsSent <= Cardinality(Lines(wire))
    /\ Working /\ Open => rowsSent = Cardinality(Lines(wire))
    /\ Open /\ ~overflow => rowsBuffered = Cardinality(Lines(buffer))

PiecesInOrder ==
    /\ Ordered(wire) /\ Ordered(buffer)
    /\ Working => Ordered(stream)
    /\ WrittenBefore(wire) /\ WrittenBefore(buffer)

LinesInOrder ==
    ~torn => /\ Chained(wire)
             /\ Open /\ Working /\ ~overflow =>
                   Chained(stream) /\ (currentTable = 0 <=> AtLineStart(stream))

IInv ==
    /\ TypeOK
    /\ ConnectsOnce
    /\ PiecesInOrder
    /\ RowsKept
    /\ RowsCounted
    /\ LinesInOrder

\* After a failed submit nothing is claimed, and there is no way back.
Inv == ~submitFailed => IInv

-------------------------------------------------------------------------------
(* Sequences of pieces.  *)

Begins(r, s) == Len(r) <= Len(s) /\ \A i \in 1..Len(r) : r[i] = s[i]

\* A concatenation and an extension, piece by piece.
LEMMA ConcatPieces ==
    ASSUME NEW w \in Seq(Piece), NEW b \in Seq(Piece)
    PROVE  /\ w \o b \in Seq(Piece)
           /\ Len(w \o b) = Len(w) + Len(b)
           /\ Len(w) \in Nat /\ Len(b) \in Nat
           /\ \A i \in 1..Len(w) : (w \o b)[i] = w[i]
           /\ \A i \in 1..Len(b) : (w \o b)[Len(w) + i] = b[i]
           /\ w \o <<>> = w
           /\ <<>> \o b = b
  OBVIOUS

LEMMA AppendPiece ==
    ASSUME NEW s \in Seq(Piece), NEW p \in Piece
    PROVE  /\ Append(s, p) \in Seq(Piece)
           /\ Len(Append(s, p)) = Len(s) + 1
           /\ Len(s) \in Nat
           /\ \A i \in 1..Len(s) : Append(s, p)[i] = s[i]
           /\ Append(s, p)[Len(s) + 1] = p
  OBVIOUS

LEMMA AppendToStream ==
    ASSUME NEW w \in Seq(Piece), NEW b \in Seq(Piece), NEW p \in Piece
    PROVE  w \o Append(b, p) = Append(w \o b, p)
<1>1. <<p>> \in Seq(Piece)
  OBVIOUS
<1>2. Append(b, p) = b \o <<p>> /\ Append(w \o b, p) = (w \o b) \o <<p>>
  BY AppendIsConcat, ConcatPieces
<1>3. QED
  BY <1>1, <1>2, ConcatAssociative

\* What send() takes of the buffer begins the stream.
LEMMA PrefixSent ==
    ASSUME NEW w \in Seq(Piece), NEW b \in Seq(Piece), NEW n \in 0..Len(b)
    PROVE  /\ w \o SubSeq(b, 1, n) \in Seq(Piece)
           /\ Begins(w \o SubSeq(b, 1, n), w \o b)
<1>1. /\ SubSeq(b, 1, n) \in Seq(Piece)
      /\ Len(SubSeq(b, 1, n)) = n
      /\ \A i \in 1..n : SubSeq(b, 1, n)[i] = b[i]
  OBVIOUS
<1>2. QED
  BY <1>1 DEF Begins

LEMMA OrderedAppend ==
    ASSUME NEW s \in Seq(Piece), Ordered(s), NEW p \in Piece,
           \A i \in 1..Len(s) : Before(s[i], p)
    PROVE  Ordered(Append(s, p))
<1>1. SUFFICES ASSUME NEW i \in 1..(Len(s) + 1), NEW j \in 1..(Len(s) + 1), i < j
               PROVE  Before(Append(s, p)[i], Append(s, p)[j])
  BY AppendPiece DEF Ordered
<1>2. i \in 1..Len(s) /\ (j \in 1..Len(s) \/ j = Len(s) + 1)
  BY <1>1, AppendPiece
<1>3. QED
  BY <1>1, <1>2, AppendPiece DEF Ordered

\* Order passes to the parts of a stream.
LEMMA OrderedParts ==
    ASSUME NEW r \in Seq(Piece), NEW s \in Seq(Piece), Begins(r, s), Ordered(s)
    PROVE  Ordered(r)
BY DEF Begins, Ordered

\* Chains too.
LEMMA ChainedParts ==
    ASSUME NEW r \in Seq(Piece), NEW s \in Seq(Piece), Begins(r, s), Chained(s)
    PROVE  Chained(r)
BY DEF Begins, Chained

LEMMA ChainedAppend ==
    ASSUME NEW s \in Seq(Piece), Chained(s), NEW p \in Piece,
           AtLineStart(s) <=> p[2] = TableName
    PROVE  Chained(Append(s, p))
<1>1. SUFFICES ASSUME NEW i \in 2..(Len(s) + 1)
               PROVE  Append(s, p)[i][2] = TableName <=> Append(s, p)[i - 1][2] = LineEnd
  BY AppendPiece DEF Chained
<1>2. CASE i \in 2..Len(s)
  <2>1. i \in 1..Len(s) /\ i - 1 \in 1..Len(s)
    BY <1>2, AppendPiece
  <2>2. QED
    BY <1>2, <2>1, AppendPiece DEF Chained
<1>3. CASE i = Len(s) + 1
  <2>1. Len(s) \in 1..Len(s) /\ i - 1 = Len(s) /\ s # <<>>
    BY <1>1, <1>3, AppendPiece
  <2>2. Append(s, p)[i] = p /\ Append(s, p)[i - 1] = s[Len(s)]
    BY <1>3, <2>1, AppendPiece
  <2>3. QED
    BY <2>1, <2>2 DEF AtLineStart
<1>4. QED
  BY <1>1, <1>2, <1>3, AppendPiece

LEMMA LineAt ==
    ASSUME NEW s \in Seq(Piece), NEW i \in 1..Len(s), s[i][2] = LineEnd
    PROVE  s[i][1] \in Lines(s)
BY DEF Lines

\* The lines of a stream are those of its parts; a piece adds its row when it
\* is a line end.
LEMMA LinesOfConcat ==
    ASSUME NEW w \in Seq(Piece), NEW b \in Seq(Piece)
    PROVE  Lines(w \o b) = Lines(w) \cup Lines(b)
<1>1. ASSUME NEW r \in Lines(w \o b)
      PROVE  r \in Lines(w) \cup Lines(b)
  <2>1. PICK i \in 1..(Len(w) + Len(b)) : (w \o b)[i][2] = LineEnd /\ (w \o b)[i][1] = r
    BY ConcatPieces DEF Lines
  <2>2. CASE i \in 1..Len(w)
    BY <2>1, <2>2, ConcatPieces DEF Lines
  <2>3. CASE i > Len(w)
    <3>1. i - Len(w) \in 1..Len(b) /\ i = Len(w) + (i - Len(w))
      BY <2>1, <2>3, ConcatPieces
    <3>2. (w \o b)[i] = b[i - Len(w)]
      BY <3>1, ConcatPieces
    <3>3. QED
      BY <2>1, <3>1, <3>2 DEF Lines
  <2>4. QED
    BY <2>1, <2>2, <2>3, ConcatPieces
<1>2. ASSUME NEW r \in Lines(w)
      PROVE  r \in Lines(w \o b)
  <2>1. PICK i \in 1..Len(w) : w[i][2] = LineEnd /\ w[i][1] = r
    BY ConcatPieces DEF Lines
  <2>2. i \in 1..Len(w \o b) /\ (w \o b)[i] = w[i]
    BY <2>1, ConcatPieces
  <2>3. QED
    BY <2>1, <2>2, ConcatPieces DEF Lines
<1>3. ASSUME NEW r \in Lines(b)
      PROVE  r \in Lines(w \o b)
  <2>1. PICK i \in 1..Len(b) : b[i][2] = LineEnd /\ b[i][1] = r
    BY ConcatPieces DEF Lines
  <2>2. Len(w) + i \in 1..Len(w \o b) /\ (w \o b)[Len(w) + i] = b[i]
    BY <2>1, ConcatPieces
  <2>3. QED
    BY <2>1, <2>2, ConcatPieces, LineAt
<1>4. QED
  BY <1>1, <1>2, <1>3

LEMMA LinesOfAppend ==
    ASSUME NEW s \in Seq(Piece), NEW p \in Piece
    PROVE  Lines(Append(s, p)) = Lines(s) \cup (IF p[2] = LineEnd THEN {p[1]} ELSE {})
<1>1. ASSUME NEW r \in Lines(Append(s, p))
      PROVE  r \in Lines(s) \cup (IF p[2] = LineEnd THEN {p[1]} ELSE {})
  <2>1. PICK i \in 1..(Len(s) + 1) : Append(s, p)[i][2] = LineEnd /\ Append(s, p)[i][1] = r
    BY AppendPiece DEF Lines
  <2>2. i \in 1..Len(s) \/ i = Len(s) + 1
    BY AppendPiece
  <2>3. QED
    BY <2>1, <2>2, AppendPiece DEF Lines
<1>2. ASSUME NEW r \in Lines(s)
      PROVE  r \in Lines(Append(s, p))
  <2>1. PICK i \in 1..Len(s) : s[i][2] = LineEnd /\ s[i][1] = r
    BY AppendPiece DEF Lines
  <2>2. i \in 1..Len(Append(s, p)) /\ Append(s, p)[i] = s[i]
    BY <2>1, AppendPiece
  <2>3. QED
    BY <2>1, <2>2, AppendPiece DEF Lines
<1>3. p[2] = LineEnd => p[1] \in Lines(Append(s, p))
  <2>1. Len(s) + 1 \in 1..Len(Append(s, p))
    BY AppendPiece
  <2>2. QED
    BY <2>1, AppendPiece DEF Lines
<1>4. QED
  BY <1>1, <1>2, <1>3

\* A stream has finitely many lines, an ordered one each of them once.
LEMMA LinesFinite ==
    ASSUME SenderAssumption, NEW s \in Seq(Piece)
    PROVE  /\ Lines(s) \in SUBSET (1..MaxRows)
           /\ IsFiniteSet(Lines(s))
           /\ Cardinality(Lines(s)) \in Nat
           /\ Cardinality(Lines(<<>>)) = 0
<1>1. Lines(s) \in SUBSET (1..MaxRows)
  BY DEF Lines, Piece
<1>2. 1 \in Int /\ MaxRows \in Int
  BY DEF SenderAssumption
<1>3. IsFiniteSet(1..MaxRows)
  BY <1>2, FS_Interval, Zenon
<1>4. IsFiniteSet(Lines(s))
  BY <1>1, <1>3, FS_Subset
<1>5. Lines(<<>>) = {}
  BY DEF Lines
<1>6. QED
  BY <1>1, <1>4, <1>5, FS_CardinalityType, FS_EmptySet

LEMMA LinesOnce ==
    ASSUME SenderAssumption, NEW w \in Seq(Piece), NEW b \in Seq(Piece), Ordered(w \o b)
    PROVE  Cardinality(Lines(w \o b)) = Cardinality(Lines(w)) + Cardinality(Lines(b))
<1>1. Lines(w) \cap Lines(b) = {}
  <2>1. SUFFICES ASSUME NEW r, r \in Lines(w), r \in Lines(b)
                 PROVE  FALSE
    OBVIOUS
  <2>2. PICK i \in 1..Len(w) : w[i][2] = LineEnd /\ w[i][1] = r
    BY <2>1, ConcatPieces DEF Lines
  <2>3. PICK j \in 1..Len(b) : b[j][2] = LineEnd /\ b[j][1] = r
    BY <2>1, ConcatPieces DEF Lines
  <2>4. Before(w[i], b[j])
    <3>1. /\ i \in 1..Len(w \o b) /\ Len(w) + j \in 1..Len(w \o b)
          /\ i < Len(w) + j
          /\ (w \o b)[i] = w[i] /\ (w \o b)[Len(w) + j] = b[j]
      BY ConcatPieces
    <3>2. QED
      BY <3>1 DEF Ordered
  <2>5. r \in Nat /\ LineEnd \in Nat
    BY <2>1, LinesFinite DEF LineEnd, SenderAssumption
  <2>6. QED
    BY <2>2, <2>3, <2>4, <2>5 DEF Before
<1>2. Lines(w \o b) = Lines(w) \cup Lines(b)
  BY LinesOfConcat
<1>3. /\ IsFiniteSet(Lines(w)) /\ Cardinality(Lines(w)) \in Nat
      /\ IsFiniteSet(Lines(b)) /\ Cardinality(Lines(b)) \in Nat
      /\ Cardinality({}) = 0
  BY LinesFinite, FS_EmptySet
<1>4. Cardinality(Lines(w) \cup Lines(b))
         = Cardinality(Lines(w)) + Cardinality(Lines(b)) - Cardinality(Lines(w) \cap Lines(b))
  BY <1>3, FS_Union
<1>5. Cardinality(Lines(w) \cap Lines(b)) = 0
  BY <1>1, <1>3
<1>6. Cardinality(Lines(w \o b)) = Cardinality(Lines(w) \cup Lines(b))
  BY <1>2
<1>7. QED
  BY <1>3, <1>4, <1>5, <1>6

-------------------------------------------------------------------------------
(* What a step does with the buffer b it has written: nothing, or a flush.  *)

Moves(b, full) ==
    /\ wire' \in Seq(Piece) /\ buffer' \in Seq(Piece)
    /\ Working => Begins(wire', wire \o b)
    /\ ~Working => wire' = wire /\ ~Working'
    /\ Working' => Working /\ wire' \o buffer' = wire \o b
    /\ buffer' = b \/ buffer' = <<>>
    /\ full => overflow' /\ wire' = wire

\* A step that writes b and sends nothing.
LEMMA NoFlushMoves ==
    ASSUME wire \in Seq(Piece), NEW b \in Seq(Piece), NEW full \in BOOLEAN,
           wire' = wire, buffer' = b, overflow' = full, socket' # "failed" <=> Working
    PROVE  Moves(b, full)
BY ConcatPieces DEF Moves, Begins, Working

\* A flush sends the whole buffer, or none of it, or fails on the way.
LEMMA FlushMoves ==
    ASSUME wire \in Seq(Piece), NEW b \in Seq(Piece), NEW full \in BOOLEAN,
           NEW buffered, NEW since, Flush(b, full, buffered, since), ~submitFailed'
    PROVE  Moves(b, full)
<1>1. CASE wire' = wire /\ buffer' = b /\ overflow' = full /\ UNCHANGED socket
  BY <1>1, NoFlushMoves DEF Working
<1>2. CASE ~full /\ socket = "connected" /\ Sent(b, buffered)
  <2>1. wire' = wire \o b /\ buffer' = <<>> /\ socket' = socket
    BY <1>2 DEF Sent
  <2>2. wire \o b \in Seq(Piece) /\ <<>> \in Seq(Piece) /\ (wire \o b) \o <<>> = wire \o b
    BY ConcatPieces
  <2>3. Begins(wire \o b, wire \o b)
    BY <2>2 DEF Begins
  <2>4. QED
    BY <1>2, <2>1, <2>2, <2>3 DEF Moves, Working
<1>3. CASE ~full /\ socket = "connected" /\ SendFailed(b, buffered)
  <2>1. PICK n \in 0..Len(b) : wire' = wire \o SubSeq(b, 1, n)
    BY <1>3 DEF SendFailed
  <2>2. buffer' = b /\ socket' = "failed"
    BY <1>3 DEF SendFailed
  <2>3. QED
    BY <1>3, <2>1, <2>2, PrefixSent DEF Moves, Working
<1>4. QED
  BY <1>1, <1>2, <1>3 DEF Flush, SubmitFailed, sent

\* The order of the pieces survives.
LEMMA MovesKeepOrder ==
    ASSUME wire \in Seq(Piece), NEW b \in Seq(Piece), NEW full, Moves(b, full),
           Ordered(wire), Ordered(b), Working => Ordered(wire \o b),
           AllBefore(wire, rows', columns', currentTable'),
           AllBefore(b, rows', columns', currentTable')
    PROVE  PiecesInOrder'
<1>1. wire \o b \in Seq(Piece) /\ wire' \in Seq(Piece) /\ buffer' \in Seq(Piece)
  BY ConcatPieces DEF Moves
<1>2. Ordered(wire')
  BY <1>1, OrderedParts DEF Moves
<1>3. Ordered(buffer') /\ AllBefore(buffer', rows', columns', currentTable')
  BY DEF Moves, Ordered, AllBefore
<1>4. Working' => Ordered(wire' \o buffer')
  BY DEF Moves
<1>5. AllBefore(wire', rows', columns', currentTable')
  <2>1. CASE wire' = wire
    BY <2>1
  <2>2. CASE Begins(wire', wire \o b)
    <3>1. SUFFICES ASSUME NEW i \in 1..Len(wire')
                   PROVE  /\ wire'[i][1] <= rows'
                          /\ wire'[i][1] = rows' /\ currentTable' # 0 => wire'[i][2] <= columns'
      BY DEF AllBefore
    <3>2. i \in 1..(Len(wire) + Len(b)) /\ wire'[i] = (wire \o b)[i]
      BY <1>1, <2>2, ConcatPieces DEF Begins
    <3>3. CASE i \in 1..Len(wire)
      BY <3>2, <3>3, ConcatPieces DEF AllBefore
    <3>4. CASE i > Len(wire)
      <4>1. i - Len(wire) \in 1..Len(b) /\ i = Len(wire) + (i - Len(wire))
        BY <3>2, <3>4, ConcatPieces
      <4>2. (wire \o b)[i] = b[i - Len(wire)]
        BY <4>1, ConcatPieces
      <4>3. QED
        BY <3>2, <4>1, <4>2 DEF AllBefore
    <3>5. QED
      BY <3>2, <3>3, <3>4, ConcatPieces
  <2>3. QED
    BY <2>1, <2>2 DEF Moves
<1>6. QED
  BY <1>2, <1>3, <1>4, <1>5 DEF PiecesInOrder, WrittenBefore, stream

\* The lines that were in the stream still are, unless a send failed.
LEMMA MovesKeepLines ==
    ASSUME wire \in Seq(Piece), NEW b \in Seq(Piece), NEW full, Moves(b, full), Working'
    PROVE  Lines(wire') \cup Lines(buffer') = Lines(wire) \cup Lines(b)
<1>1. Lines(wire' \o buffer') = Lines(wire') \cup Lines(buffer')
  BY LinesOfConcat DEF Moves
<1>2. QED
  BY <1>1, LinesOfConcat DEF Moves

\* The lines stay whole.
LEMMA MovesKeepChain ==
    ASSUME wire \in Seq(Piece), NEW b \in Seq(Piece), NEW full \in BOOLEAN, Moves(b, full),
           Open', ~torn' => Chained(wire),
           ~torn' /\ Working /\ ~full =>
              Chained(wire \o b) /\ (currentTable' = 0 <=> AtLineStart(wire \o b))
    PROVE  LinesInOrder'
<1>1. SUFFICES ASSUME ~torn'
               PROVE  /\ Chained(wire')
                      /\ Working' /\ ~overflow' =>
                           /\ Chained(wire' \o buffer')
                           /\ currentTable' = 0 <=> AtLineStart(wire' \o buffer')
  BY DEF LinesInOrder, stream
<1>2. wire \o b \in Seq(Piece) /\ wire' \in Seq(Piece)
  BY ConcatPieces DEF Moves
<1>3. Chained(wire')
  <2>1. CASE wire' = wire
    BY <1>1, <2>1
  <2>2. CASE wire' # wire
    <3>1. ~full /\ Working /\ Begins(wire', wire \o b)
      BY <2>2 DEF Moves
    <3>2. QED
      BY <1>1, <1>2, <3>1, ChainedParts
  <2>3. QED
    BY <2>1, <2>2
<1>4. ASSUME Working', ~overflow'
      PROVE  /\ Chained(wire' \o buffer')
             /\ currentTable' = 0 <=> AtLineStart(wire' \o buffer')
  <2>1. ~full /\ Working /\ wire' \o buffer' = wire \o b
    BY <1>4 DEF Moves
  <2>2. QED
    BY <1>1, <2>1
<1>5. QED
  BY <1>3, <1>4

\* A flush counts the lines it sends.
LEMMA FlushCounts ==
    ASSUME SenderAssumption, wire \in Seq(Piece), NEW b \in Seq(Piece), NEW full \in BOOLEAN,
           NEW buffered \in Nat, NEW since, Flush(b, full, buffered, since), ~submitFailed',
           Open', rowsSent \in Nat,
           Working => Ordered(wire \o b),
           rowsSent <= Cardinality(Lines(wire)),
           Working => rowsSent = Cardinality(Lines(wire)),
           ~full => buffered = Cardinality(Lines(b))
    PROVE  RowsCounted' /\ rowsSent' \in Nat /\ rowsBuffered' \in Nat
<1>1. CASE /\ wire' = wire /\ buffer' = b /\ overflow' = full
           /\ rowsBuffered' = buffered /\ UNCHANGED <<socket, rowsSent>>
  BY <1>1 DEF RowsCounted, Working
<1>2. CASE ~full /\ socket = "connected" /\ Sent(b, buffered)
  <2>1. /\ wire' = wire \o b /\ buffer' = <<>> /\ socket' = socket
        /\ rowsSent' = rowsSent + buffered /\ rowsBuffered' = 0
    BY <1>2 DEF Sent
  <2>2. /\ Cardinality(Lines(wire \o b)) = Cardinality(Lines(wire)) + Cardinality(Lines(b))
        /\ rowsSent = Cardinality(Lines(wire))
        /\ buffered = Cardinality(Lines(b))
    BY <1>2, LinesOnce DEF Working
  <2>3. Cardinality(Lines(<<>>)) = 0 /\ Cardinality(Lines(wire \o b)) \in Nat
    BY LinesFinite, ConcatPieces
  <2>4. rowsSent' = Cardinality(Lines(wire'))
    BY <2>1, <2>2
  <2>5. rowsBuffered' = Cardinality(Lines(buffer'))
    BY <2>1, <2>3
  <2>6. Cardinality(Lines(wire')) \in Nat
    BY <2>1, <2>3
  <2>7. rowsSent' \in Nat /\ rowsBuffered' \in Nat
    BY <2>1, <2>4, <2>6
  <2>8. QED
    BY <2>4, <2>5, <2>6, <2>7 DEF RowsCounted
<1>3. CASE ~full /\ socket = "connected" /\ SendFailed(b, buffered)
  <2>1. PICK n \in 0..Len(b) : wire' = wire \o SubSeq(b, 1, n)
    BY <1>3 DEF SendFailed
  <2>2. /\ buffer' = b /\ socket' = "failed" /\ rowsSent' = rowsSent
        /\ rowsBuffered' = buffered
    BY <1>3 DEF SendFailed
  <2>3. SubSeq(b, 1, n) \in Seq(Piece)
    OBVIOUS
  <2>4. Lines(wire) \subseteq Lines(wire')
    BY <2>1, <2>3, LinesOfConcat
  <2>5. wire' \in Seq(Piece)
    BY <2>1, <2>3, ConcatPieces
  <2>6. Cardinality(Lines(wire)) <= Cardinality(Lines(wire'))
    BY <2>4, <2>5, LinesFinite, FS_Subset
  <2>7. Cardinality(Lines(wire)) \in Nat /\ Cardinality(Lines(wire')) \in Nat
    BY <2>5, LinesFinite
  <2>8. rowsSent' <= Cardinality(Lines(wire'))
    BY <2>2, <2>6, <2>7
  <2>9. ~full => rowsBuffered' = Cardinality(Lines(buffer'))
    BY <2>2
  <2>10. QED
    BY <1>3, <2>2, <2>8, <2>9 DEF RowsCounted, Working
<1>4. QED
  BY <1>1, <1>2, <1>3 DEF Flush, SubmitFailed, sent

-------------------------------------------------------------------------------
(* The steps of a Sender.  *)

\* A piece that follows everything written so far.
LEMMA LaterPiece ==
    ASSUME NEW s \in Seq(Piece), WrittenBefore(s), rows \in Nat, columns \in Nat,
           NEW p \in Piece,
           p[1] = rows + 1 \/ (currentTable # 0 /\ p[1] = rows /\ p[2] > columns)
    PROVE  \A i \in 1..Len(s) : Before(s[i], p)
<1>1. SUFFICES ASSUME NEW i \in 1..Len(s)
               PROVE  Before(s[i], p)
  OBVIOUS
<1>2. s[i] \in Piece
  OBVIOUS
<1>3. s[i][1] \in Int /\ s[i][2] \in Int /\ p[1] \in Int /\ p[2] \in Int
  BY <1>2 DEF Piece
<1>4. s[i][1] <= rows /\ (s[i][1] = rows /\ currentTable # 0 => s[i][2] <= columns)
  BY <1>1 DEF WrittenBefore, AllBefore
<1>5. QED
  BY <1>3, <1>4 DEF Before

\* The buffer after such a piece has been written, or has not fitted.
LEMMA PieceWritten ==
    ASSUME IInv, NEW p \in Piece, NEW fits \in Fits,
           p[1] = rows + 1 \/ (currentTable # 0 /\ p[1] = rows /\ p[2] > columns),
           NEW b, b = IF fits THEN Append(buffer, p) ELSE buffer
    PROVE  /\ b \in Seq(Piece)
           /\ fits \in BOOLEAN
           /\ Ordered(b)
           /\ Working => Ordered(wire \o b)
           /\ fits => /\ ~overflow
                      /\ wire \o b = Append(stream, p)
                      /\ Lines(b) = Lines(buffer) \cup (IF p[2] = LineEnd THEN {p[1]} ELSE {})
<1>1. /\ wire \in Seq(Piece) /\ buffer \in Seq(Piece)
      /\ rows \in Nat /\ columns \in Nat
      /\ Ordered(buffer) /\ (Working => Ordered(stream))
  BY DEF IInv, TypeOK, PiecesInOrder
<1>2. /\ \A i \in 1..Len(wire) : Before(wire[i], p)
      /\ \A i \in 1..Len(buffer) : Before(buffer[i], p)
  BY <1>1, LaterPiece DEF IInv, PiecesInOrder
<1>3. stream \in Seq(Piece) /\ \A i \in 1..Len(stream) : Before(stream[i], p)
  <2>1. stream \in Seq(Piece)
    BY <1>1, ConcatPieces DEF stream
  <2>2. ASSUME NEW i \in 1..Len(stream)
        PROVE  Before(stream[i], p)
    <3>1. i \in 1..(Len(wire) + Len(buffer))
      BY <1>1, ConcatPieces DEF stream
    <3>2. CASE i \in 1..Len(wire)
      BY <1>1, <1>2, <3>2, ConcatPieces DEF stream
    <3>3. CASE i > Len(wire)
      <4>1. i - Len(wire) \in 1..Len(buffer) /\ i = Len(wire) + (i - Len(wire))
        BY <1>1, <3>1, <3>3, ConcatPieces
      <4>2. stream[i] = buffer[i - Len(wire)]
        BY <1>1, <4>1, ConcatPieces DEF stream
      <4>3. QED
        BY <1>2, <4>1, <4>2
    <3>4. QED
      BY <1>1, <3>1, <3>2, <3>3, ConcatPieces
  <2>3. QED
    BY <2>1, <2>2
<1>4. fits \in BOOLEAN /\ (fits => ~overflow)
  BY DEF Fits
<1>5. CASE ~fits
  BY <1>1, <1>4, <1>5 DEF stream
<1>6. CASE fits
  <2>1. b = Append(buffer, p) /\ wire \o b = Append(stream, p)
    BY <1>1, <1>6, AppendToStream DEF stream
  <2>2. Ordered(b) /\ b \in Seq(Piece)
    BY <1>1, <1>2, <2>1, OrderedAppend, AppendPiece
  <2>3. Working => Ordered(wire \o b)
    BY <1>1, <1>3, <2>1, OrderedAppend
  <2>4. QED
    BY <1>1, <1>4, <2>1, <2>2, <2>3, LinesOfAppend
<1>7. QED
  BY <1>4, <1>5, <1>6

\* The pieces written so far, with one more.
LEMMA OneMoreBefore ==
    ASSUME NEW s \in Seq(Piece), NEW p \in Piece, NEW row \in Int, NEW column \in Int,
           NEW table, AllBefore(s, row, column, table),
           p[1] = row, table # 0 => p[2] <= column
    PROVE  AllBefore(Append(s, p), row, column, table)
<1>1. SUFFICES ASSUME NEW i \in 1..(Len(s) + 1)
               PROVE  /\ Append(s, p)[i][1] <= row
                      /\ Append(s, p)[i][1] = row /\ table # 0 => Append(s, p)[i][2] <= column
  BY AppendPiece DEF AllBefore
<1>2. CASE i \in 1..Len(s)
  BY <1>2, AppendPiece DEF AllBefore
<1>3. CASE i = Len(s) + 1
  BY <1>3, AppendPiece
<1>4. QED
  BY <1>1, <1>2, <1>3, AppendPiece

\* A step that leaves the encoder, the wire and the rows alone.
LEMMA QuietStep ==
    ASSUME IInv, UNCHANGED <<buffer, overflow, rowsBuffered, rowsSent, wire>>,
           UNCHANGED <<currentTable, program>>,
           Open' => Open, socket' # "failed" <=> Working
    PROVE  PiecesInOrder' /\ RowsKept' /\ RowsCounted' /\ LinesInOrder'
<1>1. UNCHANGED <<rows, columns, ended, dropped, torn>>
  BY DEF program
<1>2. PiecesInOrder'
  BY <1>1 DEF IInv, PiecesInOrder, WrittenBefore, Working, stream
<1>3. RowsKept'
  BY <1>1 DEF IInv, RowsKept, Working
<1>4. RowsCounted'
  BY <1>1 DEF IInv, RowsCounted, Working
<1>5. LinesInOrder'
  BY <1>1 DEF IInv, LinesInOrder, Working, stream
<1>6. QED
  BY <1>2, <1>3, <1>4, <1>5

LEMMA ConnectKeeps == ASSUME IInv, Connect PROVE IInv'
<1>1. /\ socket = "none" /\ wire = <<>>
      /\ connected' /\ connected' \in BOOLEAN /\ socket' = "connected"
      /\ UNCHANGED <<lifecycle, currentTable, buffer, overflow, rowsBuffered, rowsSent, wire,
                     rows, columns, ended, dropped, torn>>
  BY DEF Connect, IInv, ConnectsOnce, program
<1>2. TypeOK' /\ ConnectsOnce'
  BY <1>1 DEF IInv, TypeOK, ConnectsOnce
<1>3. PiecesInOrder' /\ RowsKept' /\ RowsCounted' /\ LinesInOrder'
  BY <1>1, QuietStep DEF Open, Working, program
<1>4. QED
  BY <1>2, <1>3 DEF IInv

LEMMA CloseOrSettleKeeps == ASSUME IInv, Close \/ FlushSettles \/ UNCHANGED vars PROVE IInv'
<1>1. /\ UNCHANGED <<socket, currentTable, buffer, overflow, rowsBuffered, rowsSent, wire,
                     rows, columns, ended, dropped, torn>>
      /\ Open' => Open /\ connected' = connected
      /\ lifecycle' \in {lifecycle, "closing"} /\ connected' \in {connected, FALSE}
  BY DEF Close, FlushSettles, vars, javascript, native, program, Open
<1>2. TypeOK'
  BY <1>1 DEF IInv, TypeOK
<1>3. ConnectsOnce'
  BY <1>1 DEF IInv, ConnectsOnce
<1>4. PiecesInOrder' /\ RowsKept' /\ RowsCounted' /\ LinesInOrder'
  BY <1>1, QuietStep DEF Working, program
<1>5. QED
  BY <1>2, <1>3, <1>4 DEF IInv

\* What is left when the buffer is dropped.
LEMMA DropKeeps == ASSUME SenderAssumption, IInv, Clear \/ Destroy PROVE IInv'
<1>1. /\ buffer' = <<>> /\ wire' = wire
      /\ UNCHANGED <<connected, rowsSent, rows, columns, ended>>
      /\ currentTable' = 0 \/ currentTable' = currentTable
  BY DEF Clear, Destroy, program, sent
<1>2. /\ wire \in Seq(Piece) /\ <<>> \in Seq(Piece) /\ wire \o <<>> = wire
      /\ Cardinality(Lines(<<>>)) = 0
  BY ConcatPieces, LinesFinite DEF IInv, TypeOK
<1>3. PiecesInOrder'
  <2>1. Ordered(<<>>) /\ WrittenBefore(<<>>)'
    BY DEF Ordered, WrittenBefore, AllBefore
  <2>2. Ordered(wire) /\ WrittenBefore(wire)'
    BY <1>1 DEF IInv, PiecesInOrder, WrittenBefore, AllBefore
  <2>3. QED
    BY <1>1, <1>2, <2>1, <2>2 DEF PiecesInOrder, stream, WrittenBefore
<1>4. CASE Destroy
  <2>1. /\ lifecycle' = "closed" /\ socket' = "none" /\ overflow' = overflow
        /\ UNCHANGED <<currentTable, rowsBuffered, dropped, torn>>
    BY <1>4 DEF Destroy, program
  <2>2. TypeOK'
    BY <1>1, <1>2, <2>1 DEF IInv, TypeOK
  <2>3. ConnectsOnce' /\ RowsKept'
    BY <2>1 DEF ConnectsOnce, RowsKept, Open
  <2>4. RowsCounted'
    BY <1>1, <2>1 DEF RowsCounted, IInv, Open
  <2>5. LinesInOrder'
    BY <1>1, <2>1 DEF LinesInOrder, IInv, Open
  <2>6. QED
    BY <1>3, <2>2, <2>3, <2>4, <2>5 DEF IInv
<1>5. CASE Clear
  <2>1. /\ overflow' = FALSE /\ rowsBuffered' = 0 /\ currentTable' = 0
        /\ dropped' = dropped \cup ((1..rows) \ Lines(wire))
        /\ torn' = (torn \/ HalfSent)
        /\ UNCHANGED <<lifecycle, socket>>
    BY <1>5 DEF Clear, sent
  <2>2. TypeOK'
    BY <1>1, <1>2, <2>1 DEF IInv, TypeOK
  <2>3. ConnectsOnce'
    BY <1>1, <2>1 DEF IInv, ConnectsOnce, Open
  <2>4. RowsKept'
    BY <1>1, <2>1 DEF RowsKept, IInv, TypeOK
  <2>5. RowsCounted'
    BY <1>1, <1>2, <2>1 DEF RowsCounted, IInv, Open, Working
  <2>6. LinesInOrder'
    <3>1. ~torn' => Chained(wire) /\ AtLineStart(wire)
      BY <2>1 DEF IInv, LinesInOrder, HalfSent, AtLineStart
    <3>2. wire' \o buffer' = wire
      BY <1>1, <1>2
    <3>3. QED
      BY <1>1, <2>1, <3>1, <3>2 DEF LinesInOrder, stream
  <2>7. QED
    BY <1>3, <2>2, <2>3, <2>4, <2>5, <2>6 DEF IInv
<1>6. QED
  BY <1>4, <1>5

\* A flush by the program or by the timer.
LEMMA FlushKeeps ==
    ASSUME SenderAssumption, IInv, CallFlush \/ IntervalFires, ~submitFailed'
    PROVE  IInv'
<1>1. /\ Open /\ connected
      /\ Flush(buffer, overflow, rowsBuffered, rowsSinceFlush)
      /\ UNCHANGED <<connected, lifecycle, currentTable, rows, columns, ended, dropped, torn>>
  BY DEF CallFlush, IntervalFires, program
<1>2. /\ wire \in Seq(Piece) /\ buffer \in Seq(Piece) /\ overflow \in BOOLEAN
      /\ rowsBuffered \in Nat /\ rowsSent \in Nat
  BY DEF IInv, TypeOK
<1>3. Moves(buffer, overflow)
  BY <1>1, <1>2, FlushMoves
<1>4. PiecesInOrder'
  BY <1>1, <1>2, <1>3, MovesKeepOrder DEF IInv, PiecesInOrder, WrittenBefore, stream
<1>5. RowsKept'
  <2>1. SUFFICES ASSUME Working', ~overflow'
                 PROVE  ended \subseteq Lines(wire') \cup Lines(buffer') \cup dropped
    BY <1>1 DEF RowsKept, Working
  <2>2. Working /\ ~overflow
    BY <1>3, <2>1 DEF Moves
  <2>3. QED
    BY <1>1, <1>2, <1>3, <2>1, <2>2, MovesKeepLines DEF IInv, RowsKept, Working
<1>6. RowsCounted' /\ rowsSent' \in Nat /\ rowsBuffered' \in Nat
  BY <1>1, <1>2, FlushCounts DEF IInv, RowsCounted, PiecesInOrder, Working, stream, Open
<1>7. LinesInOrder'
  BY <1>1, <1>2, <1>3, MovesKeepChain DEF IInv, LinesInOrder, stream, Open
<1>8. TypeOK'
  <2>1. socket' \in {"none", "connected", "failed"} /\ overflow' \in BOOLEAN
    BY <1>1, <1>2 DEF Flush, Sent, SendFailed, SubmitFailed, sent, IInv, TypeOK
  <2>2. wire' \in Seq(Piece) /\ buffer' \in Seq(Piece)
    BY <1>3 DEF Moves
  <2>3. QED
    BY <1>1, <1>6, <2>1, <2>2 DEF IInv, TypeOK
<1>9. ConnectsOnce'
  BY <1>1 DEF ConnectsOnce
<1>10. QED
  BY <1>4, <1>5, <1>6, <1>7, <1>8, <1>9 DEF IInv

\* table() and a column write a piece and send nothing.
LEMMA WriteKeeps ==
    ASSUME IInv, NEW p \in Piece, Write(p),
           p[1] = rows + 1 \/ (currentTable # 0 /\ p[1] = rows /\ p[2] > columns),
           p[2] # LineEnd, p[1] = rows', columns' = p[2], currentTable' = rows',
           rows' \in 1..MaxRows, columns' \in 0..MaxColumns,
           ~torn' => ~torn /\ (currentTable = 0 <=> p[2] = TableName),
           torn' \in BOOLEAN, rows' = rows \/ rows' = rows + 1,
           UNCHANGED <<connected, lifecycle, rowsBuffered, rowsSent, socket, wire, ended, dropped>>,
           Open
    PROVE  IInv'
<1>1. PICK fits \in Fits : /\ buffer' = IF fits THEN Append(buffer, p) ELSE buffer
                           /\ overflow' = ~fits
  BY DEF Write
<1> DEFINE b == IF fits THEN Append(buffer, p) ELSE buffer
<1>2. /\ b \in Seq(Piece)
      /\ fits \in BOOLEAN
      /\ Ordered(b)
      /\ Working => Ordered(wire \o b)
      /\ fits => /\ ~overflow
                 /\ wire \o b = Append(stream, p)
                 /\ Lines(b) = Lines(buffer)
  BY PieceWritten
<1>3. /\ wire \in Seq(Piece) /\ buffer \in Seq(Piece) /\ rows \in Nat /\ columns \in Nat
      /\ currentTable \in {0, rows}
  BY DEF IInv, TypeOK
<1>4. Moves(b, ~fits)
  BY <1>1, <1>2, <1>3, NoFlushMoves DEF Working
<1>5. PiecesInOrder'
  <2>1. \A s \in {wire, buffer} : AllBefore(s, rows', columns', currentTable')
    <3>1. SUFFICES ASSUME NEW s \in {wire, buffer}, NEW i \in 1..Len(s)
                   PROVE  /\ s[i][1] <= rows'
                          /\ s[i][1] = rows' => s[i][2] <= columns'
      BY DEF AllBefore
    <3>2. s[i] \in Piece /\ s[i][1] \in Int /\ s[i][2] \in Int
      BY <1>3 DEF Piece
    <3>3. s[i][1] <= rows /\ (s[i][1] = rows /\ currentTable # 0 => s[i][2] <= columns)
      BY <3>1 DEF IInv, PiecesInOrder, WrittenBefore, AllBefore
    <3>4. QED
      BY <1>3, <3>2, <3>3
  <2>2. AllBefore(b, rows', columns', currentTable')
    BY <1>3, <2>1, OneMoreBefore
  <2>3. QED
    BY <1>2, <1>3, <1>4, <2>1, <2>2, MovesKeepOrder DEF IInv, PiecesInOrder
<1>6. RowsKept' /\ RowsCounted'
  <2>1. ~overflow' => /\ ~overflow
                      /\ Lines(buffer') = Lines(buffer)
    BY <1>1, <1>2
  <2>2. RowsKept'
    BY <2>1 DEF IInv, RowsKept, Open, Working
  <2>3. RowsCounted'
    BY <2>1 DEF IInv, RowsCounted, Open, Working
  <2>4. QED
    BY <2>2, <2>3
<1>7. LinesInOrder'
  <2>1. ~torn' => Chained(wire)
    BY DEF IInv, LinesInOrder
  <2>2. ASSUME ~torn', Working, fits
        PROVE  Chained(wire \o b) /\ ~AtLineStart(wire \o b)
    <3>1. stream \in Seq(Piece)
      BY <1>3, ConcatPieces DEF stream
    <3>2. Chained(stream) /\ (currentTable = 0 <=> AtLineStart(stream))
      BY <1>2, <2>2 DEF IInv, LinesInOrder
    <3>3. Chained(Append(stream, p))
      BY <2>2, <3>1, <3>2, ChainedAppend
    <3>4. ~AtLineStart(Append(stream, p))
      BY <3>1, AppendPiece DEF AtLineStart
    <3>5. QED
      BY <1>2, <2>2, <3>3, <3>4
  <2>3. currentTable' # 0 /\ Open'
    BY DEF Open
  <2>4. QED
    BY <1>2, <1>3, <1>4, <2>1, <2>2, <2>3, MovesKeepChain
<1>8. TypeOK'
  <2>1. ended \in SUBSET (1..rows')
    BY <1>3 DEF IInv, TypeOK
  <2>2. buffer' \in Seq(Piece) /\ overflow' \in BOOLEAN
    BY <1>1, <1>2
  <2>3. rows' \in 0..MaxRows
    OBVIOUS
  <2>4. QED
    BY <2>1, <2>2, <2>3 DEF IInv, TypeOK
<1>9. ConnectsOnce'
  BY DEF IInv, ConnectsOnce, Open
<1>10. QED
  BY <1>5, <1>6, <1>7, <1>8, <1>9 DEF IInv

LEMMA TableKeeps == ASSUME SenderAssumption, IInv, Table PROVE IInv'
<1> DEFINE p == <<rows + 1, TableName>>
<1>1. rows \in Nat /\ rows + 1 \in 1..MaxRows /\ MaxColumns \in Nat /\ torn \in BOOLEAN
  BY DEF Table, IInv, TypeOK, SenderAssumption
<1>2. p \in Piece /\ p[1] = rows + 1 /\ p[2] = TableName /\ p[2] # LineEnd /\ TableName = 0
  BY <1>1 DEF Piece, TableName, LineEnd
<1>3. /\ Write(p)
      /\ rows' = rows + 1 /\ columns' = 0 /\ currentTable' = rows + 1
      /\ torn' = (torn \/ currentTable # 0)
      /\ UNCHANGED <<connected, lifecycle, rowsBuffered, rowsSent, socket, wire, ended, dropped>>
      /\ Open
  BY DEF Table, sent
<1> HIDE DEF p
<1>4. /\ ~torn' => ~torn /\ (currentTable = 0 <=> p[2] = TableName)
      /\ torn' \in BOOLEAN
      /\ columns' = p[2] /\ columns' \in 0..MaxColumns
      /\ currentTable' = rows' /\ p[1] = rows' /\ rows' \in 1..MaxRows
  <2>1. ~torn' => ~torn /\ currentTable = 0
    BY <1>3, Zenon
  <2>2. torn' \in BOOLEAN
    BY <1>1, <1>3, Zenon
  <2>3. columns' = 0 /\ 0 \in 0..MaxColumns
    BY <1>1, <1>3
  <2>4. QED
    BY <1>1, <1>2, <1>3, <2>1, <2>2, <2>3, Zenon
<1>5. QED
  BY <1>2, <1>3, <1>4, WriteKeeps

LEMMA ColumnKeeps == ASSUME SenderAssumption, IInv, Column PROVE IInv'
<1> DEFINE p == <<currentTable, columns + 1>>
<1>1. /\ rows \in 0..MaxRows /\ columns \in 0..MaxColumns /\ columns < MaxColumns
      /\ currentTable = rows /\ currentTable # 0 /\ MaxColumns \in Nat /\ torn \in BOOLEAN
  BY DEF Column, IInv, TypeOK, SenderAssumption
<1>2. /\ p \in Piece /\ p[1] = rows /\ p[2] = columns + 1
      /\ p[2] # LineEnd /\ p[2] # TableName /\ p[2] > columns
  BY <1>1 DEF Piece, TableName, LineEnd
<1>3. /\ Write(p)
      /\ columns' = columns + 1
      /\ UNCHANGED <<connected, lifecycle, currentTable, rowsBuffered, rowsSent, socket, wire,
                     rows, ended, dropped, torn>>
      /\ Open
  BY DEF Column, javascript, sent
<1> HIDE DEF p
<1>4. /\ ~torn' => ~torn /\ (currentTable = 0 <=> p[2] = TableName)
      /\ torn' \in BOOLEAN
      /\ columns' = p[2] /\ columns' \in 0..MaxColumns
      /\ currentTable' = rows' /\ p[1] = rows' /\ rows' \in 1..MaxRows
  BY <1>1, <1>2, <1>3
<1>5. QED
  BY <1>1, <1>2, <1>3, <1>4, WriteKeeps

\* at() writes the line end, and flushes when enough rows have been ended.
LEMMA EndRowKeeps == ASSUME SenderAssumption, IInv, EndRow, ~submitFailed' PROVE IInv'
<1> DEFINE p == <<currentTable, LineEnd>>
<1>1. /\ rows \in 0..MaxRows /\ columns \in 0..MaxColumns /\ MaxColumns \in Nat
      /\ wire \in Seq(Piece) /\ buffer \in Seq(Piece)
      /\ rowsBuffered \in Nat /\ rowsSent \in Nat
      /\ currentTable = rows /\ currentTable # 0 /\ Open
  BY DEF EndRow, IInv, TypeOK, SenderAssumption
<1>2. /\ p \in Piece /\ p[1] = rows /\ p[2] = LineEnd
      /\ p[2] # TableName /\ p[2] > columns
  BY <1>1 DEF Piece, TableName, LineEnd
<1>3. PICK fits \in Fits :
         LET b == IF fits THEN Append(buffer, p) ELSE buffer
         IN  /\ currentTable' = 0
             /\ ended' = ended \cup {currentTable}
             /\ \/ Flush(b, ~fits, rowsBuffered + 1, rowsSinceFlush + 1)
                \/ /\ buffer' = b /\ overflow' = ~fits
                   /\ rowsBuffered' = rowsBuffered + 1
                   /\ UNCHANGED <<rowsSent, socket, wire>>
             /\ UNCHANGED <<connected, lifecycle, rows, columns, dropped, torn>>
  BY DEF EndRow, sent
<1> DEFINE b == IF fits THEN Append(buffer, p) ELSE buffer
<1>4. /\ b \in Seq(Piece)
      /\ fits \in BOOLEAN
      /\ Ordered(b)
      /\ Working => Ordered(wire \o b)
      /\ fits => /\ ~overflow
                 /\ wire \o b = Append(stream, p)
                 /\ Lines(b) = Lines(buffer) \cup {rows}
  BY <1>1, <1>2, PieceWritten
<1>5. /\ AllBefore(wire, rows', columns', currentTable')
      /\ AllBefore(b, rows', columns', currentTable')
  <2>1. AllBefore(wire, rows, columns, 0) /\ AllBefore(buffer, rows, columns, 0)
    BY DEF IInv, PiecesInOrder, WrittenBefore, AllBefore
  <2>2. AllBefore(b, rows, columns, 0)
    BY <1>1, <1>2, <2>1, OneMoreBefore
  <2>3. QED
    BY <1>3, <2>1, <2>2
<1>6. ~fits => b = buffer
  OBVIOUS
<1>7. rows \notin Lines(buffer)
  <2>1. SUFFICES ASSUME NEW i \in 1..Len(buffer), buffer[i][2] = LineEnd, buffer[i][1] = rows
                 PROVE  FALSE
    BY <1>1 DEF Lines
  <2>2. buffer[i][2] <= columns
    BY <1>1, <2>1 DEF IInv, PiecesInOrder, WrittenBefore, AllBefore
  <2>3. QED
    BY <1>1, <2>1, <2>2 DEF LineEnd
<1>8. fits => Cardinality(Lines(b)) = rowsBuffered + 1
  <2>1. SUFFICES ASSUME fits
                 PROVE  Cardinality(Lines(b)) = rowsBuffered + 1
    OBVIOUS
  <2>2. rowsBuffered = Cardinality(Lines(buffer))
    BY <1>1, <1>4, <2>1 DEF IInv, RowsCounted
  <2>3. Cardinality(Lines(buffer) \cup {rows}) = Cardinality(Lines(buffer)) + 1
    BY <1>1, <1>7, LinesFinite, FS_AddElement
  <2>4. QED
    BY <1>4, <2>1, <2>2, <2>3
<1>9. ~torn /\ Working /\ fits => Chained(wire \o b) /\ AtLineStart(wire \o b)
  <2>1. SUFFICES ASSUME ~torn, Working, fits
                 PROVE  Chained(wire \o b) /\ AtLineStart(wire \o b)
    OBVIOUS
  <2>2. stream \in Seq(Piece)
    BY <1>1, ConcatPieces DEF stream
  <2>3. Chained(stream) /\ ~AtLineStart(stream)
    BY <1>1, <1>4, <2>1 DEF IInv, LinesInOrder
  <2>4. Chained(Append(stream, p))
    BY <1>2, <2>2, <2>3, ChainedAppend
  <2>5. AtLineStart(Append(stream, p))
    BY <1>2, <2>2, AppendPiece DEF AtLineStart
  <2>6. QED
    BY <1>4, <2>1, <2>4, <2>5
<1> HIDE DEF p, b
<1>10. /\ \/ Flush(b, ~fits, rowsBuffered + 1, rowsSinceFlush + 1)
          \/ /\ buffer' = b /\ overflow' = ~fits
             /\ rowsBuffered' = rowsBuffered + 1
             /\ UNCHANGED <<rowsSent, socket, wire>>
       /\ currentTable' = 0
       /\ ended' = ended \cup {rows}
       /\ UNCHANGED <<connected, lifecycle, rows, columns, dropped, torn>>
  BY <1>1, <1>3 DEF b, p
<1>11. Moves(b, ~fits)
  <2>1. (~fits) \in BOOLEAN
    BY <1>4
  <2>2. QED
    BY <1>1, <1>4, <1>10, <2>1, FlushMoves, NoFlushMoves DEF Working
<1>12. PiecesInOrder'
  BY <1>1, <1>4, <1>5, <1>11, MovesKeepOrder DEF IInv, PiecesInOrder
<1>13. RowsKept'
  <2>1. SUFFICES ASSUME Working', ~overflow'
                 PROVE  ended' \subseteq Lines(wire') \cup Lines(buffer') \cup dropped
    BY <1>10 DEF RowsKept, Working
  <2>2. Working /\ fits
    BY <1>4, <1>11, <2>1 DEF Moves
  <2>3. ended \subseteq Lines(wire) \cup Lines(buffer) \cup dropped
    BY <1>1, <1>4, <2>2 DEF IInv, RowsKept, Working
  <2>4. Lines(wire') \cup Lines(buffer') = Lines(wire) \cup Lines(b)
    BY <1>1, <1>4, <1>11, <2>1, MovesKeepLines
  <2>5. QED
    BY <1>4, <1>10, <2>2, <2>3, <2>4
<1>14. RowsCounted' /\ rowsSent' \in Nat /\ rowsBuffered' \in Nat
  <2>1. /\ rowsBuffered + 1 \in Nat /\ (~fits) \in BOOLEAN /\ Open'
        /\ rowsSent <= Cardinality(Lines(wire))
        /\ Working => rowsSent = Cardinality(Lines(wire))
    BY <1>1, <1>4, <1>10 DEF IInv, RowsCounted, Working, Open
  <2>2. CASE Flush(b, ~fits, rowsBuffered + 1, rowsSinceFlush + 1)
    BY <1>1, <1>4, <1>8, <2>1, <2>2, FlushCounts
  <2>3. CASE /\ buffer' = b /\ overflow' = ~fits
             /\ rowsBuffered' = rowsBuffered + 1
             /\ UNCHANGED <<rowsSent, socket, wire>>
    BY <1>1, <1>8, <2>1, <2>3 DEF RowsCounted, Working
  <2>4. QED
    BY <1>10, <2>2, <2>3
<1>15. LinesInOrder'
  <2>1. (~fits) \in BOOLEAN /\ Open' /\ (~torn' => Chained(wire)) /\ torn' = torn
    BY <1>1, <1>4, <1>10 DEF IInv, LinesInOrder, Open
  <2>2. ~torn' /\ Working /\ ~(~fits) =>
           Chained(wire \o b) /\ (currentTable' = 0 <=> AtLineStart(wire \o b))
    <3>1. currentTable' = 0 /\ torn' = torn
      BY <1>10
    <3>2. QED
      BY <1>9, <3>1
  <2>3. wire \in Seq(Piece) /\ b \in Seq(Piece)
    BY <1>1, <1>4
  <2>4. QED
    BY <1>11, <2>1, <2>2, <2>3, MovesKeepChain
<1>16. TypeOK'
  <2>1. socket' \in {"none", "connected", "failed"} /\ overflow' \in BOOLEAN
    BY <1>4, <1>10 DEF Flush, Sent, SendFailed, SubmitFailed, sent, IInv, TypeOK
  <2>2. wire' \in Seq(Piece) /\ buffer' \in Seq(Piece)
    BY <1>11 DEF Moves
  <2>3. ended' \in SUBSET (1..rows)
    BY <1>1, <1>10 DEF IInv, TypeOK
  <2>4. QED
    BY <1>10, <1>14, <2>1, <2>2, <2>3 DEF IInv, TypeOK
<1>17. ConnectsOnce'
  <2>1. CASE connected
    BY <1>10, <2>1 DEF ConnectsOnce
  <2>2. CASE ~connected
    BY <2>2 DEF EndRow, sent, IInv, ConnectsOnce, Open
  <2>3. QED
    BY <2>1, <2>2
<1>18. QED
  BY <1>12, <1>13, <1>14, <1>15, <1>16, <1>17 DEF IInv

-------------------------------------------------------------------------------
(* The theorems.  *)

\* A failed submit is not forgotten.
LEMMA StaysFailed == ASSUME [Next]_vars, ~submitFailed' PROVE ~submitFailed
BY DEF Next, vars, Connect, Table, Column, EndRow, CallFlush, Clear, Close, IntervalFires,
       FlushSettles, Destroy, Flush, Sent, SendFailed, SubmitFailed, sent

\* The invariant holds in every reachable state.
THEOREM Invariance == Spec => []Inv
<1>1. Init => Inv
  <2> SUFFICES ASSUME Init
               PROVE  IInv
    BY DEF Inv
  <2>1. /\ <<>> \in Seq(Piece) /\ <<>> \o <<>> = <<>> /\ Len(<<>>) = 0
        /\ Lines(<<>>) = {} /\ Cardinality(Lines(<<>>)) = 0
    BY FS_EmptySet DEF Lines
  <2>2. TypeOK
    <3>1. MaxRows \in Nat /\ MaxColumns \in Nat
      BY SenderAssumption DEF SenderAssumption
    <3>2. FALSE \in BOOLEAN /\ 0 \in 0..MaxRows /\ 0 \in 0..MaxColumns /\ 0 \in Nat
          /\ {} \in SUBSET (1..0)
      BY <3>1
    <3>3. QED
      BY <2>1, <3>2 DEF Init, TypeOK
  <2>3. PiecesInOrder /\ LinesInOrder
    BY <2>1 DEF Init, PiecesInOrder, LinesInOrder, Ordered, WrittenBefore, AllBefore, Chained,
                AtLineStart, stream
  <2>4. ConnectsOnce /\ RowsKept /\ RowsCounted
    BY <2>1 DEF Init, ConnectsOnce, RowsKept, RowsCounted
  <2>5. QED
    BY <2>2, <2>3, <2>4 DEF IInv
<1>2. Inv /\ [Next]_vars => Inv'
  <2>1. SUFFICES ASSUME Inv, [Next]_vars, ~submitFailed'
                 PROVE  IInv'
    BY DEF Inv
  <2>2. IInv
    BY <2>1, StaysFailed DEF Inv
  <2>3. QED
    BY <2>1, <2>2, SenderAssumption, ConnectKeeps, TableKeeps, ColumnKeeps, EndRowKeeps,
       FlushKeeps, DropKeeps, CloseOrSettleKeeps DEF Next
<1>3. QED
  BY <1>1, <1>2, PTL DEF Spec

\* However flushes by the program, by the row count and by the timer fall among
\* the calls, and wherever one fails, the wire takes the pieces in the order the
\* program wrote them, each once; until, in a build with io_uring, a submit fails.
THEOREM PiecesSentInOrder == Spec => []SentOnceInOrder
<1>1. Inv => SentOnceInOrder
  <2>1. SUFFICES ASSUME IInv, NEW s \in {wire, stream}, Ordered(s), NEW i \in 1..Len(s) - 1
                 PROVE  Before(s[i], s[i + 1])
    BY DEF Inv, IInv, PiecesInOrder, SentOnceInOrder, InOrder, Working, stream
  <2>2. Len(s) \in Nat
    BY <2>1, ConcatPieces DEF IInv, TypeOK, stream
  <2>3. i \in 1..Len(s) /\ i + 1 \in 1..Len(s) /\ i < i + 1
    BY <2>1, <2>2
  <2>4. QED
    BY <2>1, <2>3 DEF Ordered
<1>2. QED
  BY <1>1, Invariance, PTL

\* A row that was ended is somewhere, as long as nothing is broken.
THEOREM NoRowLost == Spec => []NothingLost
<1>1. Inv => NothingLost
  BY DEF Inv, IInv, RowsKept, Working, NothingLost
<1>2. QED
  BY <1>1, Invariance, PTL

\* The counters count what was sent and what is waiting, for any interleaving of
\* flushes, failures and clear().
THEOREM LinesCounted == Spec => []CountsLines
<1>1. Inv => CountsLines
  BY DEF Inv, IInv, RowsCounted, Working, CountsLines
<1>2. QED
  BY <1>1, Invariance, PTL

\* Whole lines, though a flush may fall inside one.
THEOREM LinesWhole == Spec => []LinesAreRows
<1>1. Inv => LinesAreRows
  BY DEF Inv, IInv, LinesInOrder, LinesAreRows, Chained
<1>2. QED
  BY <1>1, Invariance, PTL
===============================================================================
