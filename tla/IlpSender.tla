------------------------------- MODULE IlpSender -------------------------------
(***************************************************************************)
(* One Sender of node:smol-ilp: the JavaScript object (ilp.js), its native *)
(* state (ilp_binding.cc), the line buffer (ilp_encoder.cc) and the socket *)
(* (ilp_transport.cc).  The native calls are synchronous; what interleaves *)
(* with them are the interval timer, the microtasks that settle an         *)
(* automatic flush, and a close() that waits for one.                      *)
(*                                                                         *)
(* A line is its pieces: the table name, columns, the line end.  Row r is  *)
(* the r-th that table() began.  The wire is what the kernel has accepted. *)
(***************************************************************************)
EXTENDS Integers, Sequences, FiniteSets

CONSTANTS
    MaxRows,        \* bound: rows begun
    MaxColumns,     \* bound: columns of a row
    MaxBufferSize,  \* maxBufferSize, in pieces
    AutoFlush,      \* autoFlush with an interval
    AutoFlushRows   \* autoFlushRows

ASSUME SenderAssumption ==
    /\ MaxRows \in Nat /\ MaxColumns \in Nat /\ MaxBufferSize \in Nat
    /\ AutoFlush \in BOOLEAN /\ AutoFlushRows \in Nat \ {0}

VARIABLES
    connected,        \* kConnected
    lifecycle,        \* kClosed, and whether the native sender is destroyed
    currentTable,     \* kCurrentTable: the row begun and not ended, or 0
    rowsSinceFlush,   \* kRowsSinceFlush
    flushInProgress,  \* kFlushInProgress, and whether there is a kFlushPromise
    buffer,           \* the encoder's buffer
    overflow,         \* its overflow_
    rowsBuffered,     \* rows_buffered of the SenderState
    rowsSent,         \* its rows_sent
    socket,           \* the transport: never connected, connected, or failed
    wire,             \* external: the pieces the kernel has accepted
    rows,             \* rows begun so far
    columns,          \* columns of the row begun last
    ended,            \* history: the rows at() or atNow() ended
    dropped,          \* history: the rows clear() found unsent
    torn,             \* history: a row was begun and not ended, or cleared half sent
    submitFailed      \* history: an io_uring submit failed, and nobody noticed

javascript == <<connected, lifecycle, currentTable, rowsSinceFlush, flushInProgress>>
native == <<buffer, overflow, rowsBuffered, rowsSent, socket, wire>>
program == <<rows, columns, ended, dropped, torn>>
\* what changes only with a send, connect() and close()
sent == <<rowsSent, socket, wire, submitFailed>>
vars == <<javascript, native, program, submitFailed>>

TableName == 0
LineEnd == MaxColumns + 1

Piece == (1..MaxRows) \X (TableName..LineEnd)

\* The rows whose line end is in s.
Lines(s) == {s[i][1] : i \in {j \in DOMAIN s : s[j][2] = LineEnd}}

Open == lifecycle = "open"

-------------------------------------------------------------------------------
(* The encoder. *)

\* Mutant: a piece that does not fit is dropped, and nothing remembers it.
Write_Forgetful(piece) ==
    /\ buffer' = IF Len(buffer) < MaxBufferSize THEN Append(buffer, piece) ELSE buffer
    /\ UNCHANGED overflow

\* EnsureCapacity and ConvertToNanos: a piece of any size may be too long for
\* what is left, and a timestamp may overflow, which counts as not fitting.
Fits == {b \in BOOLEAN : b => ~overflow /\ Len(buffer) < MaxBufferSize}

\* What does not fit sets overflow_, after which nothing is written until the
\* buffer is cleared.
Write(piece) ==
    \E fits \in Fits :
        /\ buffer' = IF fits THEN Append(buffer, piece) ELSE buffer
        /\ overflow' = ~fits

-------------------------------------------------------------------------------
(* The transport and IlpBinding::Flush. *)

\* Mutant: a short count of send() is taken for the whole buffer.
Sent_Short(b, buffered) ==
    /\ \E n \in 1..Len(b) : wire' = wire \o SubSeq(b, 1, n)
    /\ buffer' = <<>> /\ overflow' = FALSE
    /\ rowsSent' = rowsSent + buffered /\ rowsBuffered' = 0
    /\ UNCHANGED <<socket, submitFailed>>

\* Send() of the buffer b succeeds, or fails after the kernel has taken a prefix.
Sent(b, buffered) ==
    /\ wire' = wire \o b
    /\ buffer' = <<>> /\ overflow' = FALSE
    /\ rowsSent' = rowsSent + buffered /\ rowsBuffered' = 0
    /\ UNCHANGED <<socket, submitFailed>>

\* Mutant: the socket counts as connected after a failed send.
SendFailed_StillConnected(b, buffered) ==
    \E n \in 0..Len(b) :
        /\ wire' = wire \o SubSeq(b, 1, n)
        /\ buffer' = b /\ rowsBuffered' = buffered
        /\ UNCHANGED <<socket, overflow, rowsSent, submitFailed>>

SendFailed(b, buffered) ==
    \E n \in 0..Len(b) :
        /\ wire' = wire \o SubSeq(b, 1, n)
        /\ socket' = "failed"
        /\ buffer' = b /\ rowsBuffered' = buffered
        /\ UNCHANGED <<overflow, rowsSent, submitFailed>>

\* In a build with --with-iouring a buffer of 4096 bytes or more goes through
\* SendWithIoUring, in chunks.  A submit that fails leaves the connection up,
\* whatever was sent before it.  (That the ring keeps the entry, and sends it with
\* the next one, comes on top and is not modelled.)
SubmitFailed(b, buffered) ==
    /\ ~submitFailed           \* bound: it happens once
    /\ submitFailed' = TRUE
    /\ \E n \in 0..Len(b) - 1 : wire' = wire \o SubSeq(b, 1, n)
    /\ buffer' = b /\ rowsBuffered' = buffered
    /\ UNCHANGED <<socket, overflow, rowsSent>>

\* flush() with b and buffered in the encoder and the SenderState and `since`
\* rows counted.  An empty buffer fails the flush, but resets the counter; the
\* other failures are exceptions of the native call and reset nothing.
Flush(b, full, buffered, since) ==
    \/ /\ b = <<>>
       /\ rowsSinceFlush' = 0
       /\ buffer' = b /\ overflow' = full /\ rowsBuffered' = buffered
       /\ UNCHANGED sent
    \/ /\ b # <<>> /\ (full \/ socket # "connected")
       /\ rowsSinceFlush' = since
       /\ buffer' = b /\ overflow' = full /\ rowsBuffered' = buffered
       /\ UNCHANGED sent
    \/ /\ b # <<>> /\ ~full /\ socket = "connected"
       /\ \/ rowsSinceFlush' = 0 /\ Sent(b, buffered)
          \/ rowsSinceFlush' = since /\ (SendFailed(b, buffered) \/ SubmitFailed(b, buffered))

-------------------------------------------------------------------------------
(* The Sender. *)

\* connect(): once connected, it returns at once, whatever became of the socket.
Connect ==
    /\ Open /\ ~connected
    /\ socket' = "connected"
    /\ connected' = TRUE
    /\ UNCHANGED <<lifecycle, currentTable, rowsSinceFlush, flushInProgress,
                   buffer, overflow, rowsBuffered, rowsSent, wire, program, submitFailed>>

\* table(): nothing looks whether the last row was ended.
Table ==
    /\ Open /\ rows < MaxRows
    /\ rows' = rows + 1
    /\ columns' = 0
    /\ currentTable' = rows + 1
    /\ torn' = (torn \/ currentTable # 0)
    /\ Write(<<rows + 1, TableName>>)
    /\ UNCHANGED <<connected, lifecycle, rowsSinceFlush, flushInProgress,
                   rowsBuffered, sent, ended, dropped>>

\* symbol(), stringColumn() and the other columns.
Column ==
    /\ Open /\ currentTable # 0 /\ columns < MaxColumns
    /\ columns' = columns + 1
    /\ Write(<<currentTable, columns + 1>>)
    /\ UNCHANGED <<javascript, rowsBuffered, sent, rows, ended, dropped, torn>>

\* at() and atNow(): the line end, then #maybeAutoFlush, whose flush() runs to
\* its end before at() returns.
EndRow ==
    \E fits \in Fits :
        LET b == IF fits THEN Append(buffer, <<currentTable, LineEnd>>) ELSE buffer
            due == /\ AutoFlush /\ connected /\ ~flushInProgress
                   /\ rowsSinceFlush + 1 >= AutoFlushRows
        IN
        /\ Open /\ currentTable # 0
        /\ currentTable' = 0
        /\ ended' = ended \cup {currentTable}
        /\ \/ /\ due
              /\ Flush(b, ~fits, rowsBuffered + 1, rowsSinceFlush + 1)
              /\ flushInProgress' = TRUE
           \/ /\ ~due
              /\ buffer' = b /\ overflow' = ~fits
              /\ rowsBuffered' = rowsBuffered + 1
              /\ rowsSinceFlush' = rowsSinceFlush + 1
              /\ UNCHANGED <<flushInProgress, sent>>
        /\ UNCHANGED <<connected, lifecycle, rows, columns, dropped, torn>>

\* flush(), awaited or not, by the program.
CallFlush ==
    /\ Open /\ connected
    /\ Flush(buffer, overflow, rowsBuffered, rowsSinceFlush)
    /\ UNCHANGED <<connected, lifecycle, currentTable, flushInProgress, program>>

\* The interval timer.
IntervalFires ==
    /\ Open /\ connected /\ AutoFlush /\ ~flushInProgress
    /\ flushInProgress' = TRUE
    /\ Flush(buffer, overflow, rowsBuffered, rowsSinceFlush)
    /\ UNCHANGED <<connected, lifecycle, currentTable, program>>

\* Mutant: the flag is not reset when the flush has failed.
FlushSettles_IfEmptied ==
    /\ flushInProgress /\ buffer = <<>>
    /\ flushInProgress' = FALSE
    /\ UNCHANGED <<connected, lifecycle, currentTable, rowsSinceFlush, native, program, submitFailed>>

\* The .catch() and .finally() of an automatic flush, some microtasks later.
FlushSettles ==
    /\ flushInProgress
    /\ flushInProgress' = FALSE
    /\ UNCHANGED <<connected, lifecycle, currentTable, rowsSinceFlush, native, program, submitFailed>>

\* A flush has sent the beginning of a row and not its end.
HalfSent == wire # <<>> /\ wire[Len(wire)][2] # LineEnd

\* Mutant: the rows that are dropped stay counted.
Clear_KeepCount ==
    /\ Open
    /\ buffer' = <<>> /\ overflow' = FALSE
    /\ currentTable' = 0 /\ rowsSinceFlush' = 0
    /\ dropped' = dropped \cup ((1..rows) \ Lines(wire))
    /\ torn' = (torn \/ HalfSent)
    /\ UNCHANGED <<connected, lifecycle, flushInProgress, sent, rowsBuffered, rows, columns,
                   ended>>

\* clear() drops what is buffered, a row that has been begun included.
Clear ==
    /\ Open
    /\ buffer' = <<>> /\ overflow' = FALSE /\ rowsBuffered' = 0
    /\ currentTable' = 0 /\ rowsSinceFlush' = 0
    /\ dropped' = dropped \cup ((1..rows) \ Lines(wire))
    /\ torn' = (torn \/ HalfSent)
    /\ UNCHANGED <<connected, lifecycle, flushInProgress, sent, rows, columns, ended>>

\* close(): the timer stops; an automatic flush is waited for.
Close ==
    /\ Open
    /\ lifecycle' = "closing"
    /\ connected' = FALSE
    /\ UNCHANGED <<currentTable, rowsSinceFlush, flushInProgress, native, program,
                   submitFailed>>

\* close() goes on: the native sender, with what it has buffered, is destroyed.
Destroy ==
    /\ lifecycle = "closing" /\ ~flushInProgress
    /\ lifecycle' = "closed"
    /\ socket' = "none" /\ buffer' = <<>>
    /\ UNCHANGED <<connected, currentTable, rowsSinceFlush, flushInProgress,
                   overflow, rowsBuffered, rowsSent, wire, program, submitFailed>>

Init ==
    /\ connected = FALSE /\ lifecycle = "open" /\ currentTable = 0
    /\ rowsSinceFlush = 0 /\ flushInProgress = FALSE
    /\ buffer = <<>> /\ overflow = FALSE /\ rowsBuffered = 0 /\ rowsSent = 0
    /\ socket = "none" /\ wire = <<>>
    /\ rows = 0 /\ columns = 0 /\ ended = {} /\ dropped = {} /\ torn = FALSE
    /\ submitFailed = FALSE

Next ==
    \/ Connect \/ Table \/ Column \/ EndRow \/ CallFlush \/ Clear \/ Close
    \/ IntervalFires \/ FlushSettles \/ Destroy

Spec == Init /\ [][Next]_vars

\* Microtasks run and timers fire; the program need not call anything.
FairSpec == Spec /\ WF_vars(IntervalFires) /\ WF_vars(FlushSettles) /\ WF_vars(Destroy)

-------------------------------------------------------------------------------
\* Piece p goes before piece q.
Before(p, q) ==
    p[1] < q[1] \/ (p[1] = q[1] /\ p[2] < q[2])

\* What has been sent, and what the buffer will send next, are the pieces in the
\* order the program wrote them, each once: a flush that failed halfway is not
\* repeated on the same connection, unless it was a submit that failed
\* (IlpSender_iouring.cfg).
InOrder ==
    LET stream == IF socket = "connected" THEN wire \o buffer ELSE wire
    IN  \A i \in 1..Len(stream) - 1 : Before(stream[i], stream[i + 1])

SentOnceInOrder == ~submitFailed => InOrder

\* A row that was ended is on the wire or in the buffer, unless clear() dropped
\* it, the buffer ran over, a send failed or the sender is closed.
NothingLost ==
    (Open /\ ~overflow /\ socket # "failed" /\ ~submitFailed) =>
        ended \subseteq Lines(wire) \cup Lines(buffer) \cup dropped

\* rowsSent, which 'flush' events report, counts the lines on the wire, those of
\* a send that failed excepted; rowsBuffered the lines in the buffer.
CountsLines ==
    ~submitFailed =>
        /\ rowsSent <= Cardinality(Lines(wire))
        /\ socket # "failed" /\ Open => rowsSent = Cardinality(Lines(wire))
        /\ Open /\ ~overflow => rowsBuffered = Cardinality(Lines(buffer))

\* As long as every row begun is ended, clear() finds none half sent and no
\* submit fails, what is on the wire is lines: a table name comes first or after
\* a line end, and nothing else does, though a flush may fall in the middle of a
\* row.
LinesAreRows ==
    ~torn /\ ~overflow /\ ~submitFailed =>
        \A i \in 2..Len(wire) : wire[i][2] = TableName <=> wire[i - 1][2] = LineEnd

\* With an interval, a row that was ended leaves the buffer without any further
\* call, unless something is broken.
RowsLeave ==
    \A r \in 1..MaxRows :
        r \in Lines(buffer) /\ connected ~>
            r \notin Lines(buffer) \/ overflow \/ socket = "failed" \/ submitFailed \/ ~Open

\* "Flushes remaining data and closes the connection" (doc/api/smol-ilp.md:255):
\* with a working connection, a row that was ended is on the wire by then.
CloseFlushes ==
    [][lifecycle' = "closed" /\ lifecycle # "closed" /\ socket = "connected" /\ ~overflow
        => ended \subseteq Lines(wire) \cup dropped]_vars

===============================================================================
