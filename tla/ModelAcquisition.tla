--------------------------- MODULE ModelAcquisition ---------------------------
(***************************************************************************)
(* acquireModel (npm/@node-smol/ai/lib/model-acquisition.js): the download *)
(* of one GGUF model into a cache directory that several processes share.  *)
(* In a process all callers join one acquisition; each await on the file   *)
(* system or the network is a step, between which other processes run and  *)
(* a process may die.                                                      *)
(*                                                                         *)
(* A file is the sequence of its blocks.  Block k of the model is k; 0 is  *)
(* any other data.  A path leads to an inode: a file that is renamed or    *)
(* removed stays what an open stream writes to.                            *)
(***************************************************************************)
EXTENDS Integers, Sequences, FiniteSets, SequencesExt

CONSTANTS
    Process,     \* processes that share the cache
    Caller,      \* calls of acquireModel, made again when they are rejected
    Home,        \* the process each caller is in
    None,        \* no file, no caller
    Size,        \* manifest.byteSize, in blocks
    MaxRetries,  \* maxRetries
    MaxFaults    \* bound: crashes, aborts, network and server faults

ASSUME AcquisitionAssumption ==
    /\ Home \in [Caller -> Process]
    /\ Size \in Nat \ {0} /\ MaxRetries \in Nat /\ MaxFaults \in Nat

\* Two paths and one open stream for each process are in use at a time.
Inode == 1 .. Cardinality(Process) + 3

ASSUME NoneIsNoFile == None \notin Inode \cup Caller

VARIABLES
    final,    \* the inode at modelCachePath
    partial,  \* the inode at modelPartialPath
    content,  \* the blocks of each inode
    pc,       \* where the acquisition of each process is
    leader,   \* the caller whose signal and options it uses
    attempt,  \* attempts that have failed
    offset,   \* the size that was found in the partial file
    next,     \* the block the source sends next
    fd,       \* the inode its write stream has open
    call,     \* how each caller's call stands
    aborted,  \* whether its signal has fired
    faults    \* faults so far

paths == <<final, partial, content>>
acquisition == <<leader, attempt, offset, next, fd>>
calls == <<call, aborted>>
vars == <<paths, pc, acquisition, calls, faults>>

Good == [k \in 1..Size |-> k]

Steps == {"none", "lookFinal", "checkFinal", "dropFinal", "lookPartial",
          "sizePartial", "dropPartial", "request", "wrongTotal", "restart",
          "openFile", "stream", "verify", "discard", "rename", "wait"}

Goto(p, s) == pc' = [pc EXCEPT ![p] = s]

Fault == faults < MaxFaults /\ faults' = faults + 1

\* The acquisition of p is over: it leaves activeAcquisitions and everyone who
\* awaits it gets the same outcome.
Settle(p, outcome) ==
    /\ Goto(p, "none")
    /\ call' = [c \in Caller |-> IF Home[c] = p /\ call[c] = "waiting" THEN outcome
                                 ELSE call[c]]
    /\ leader' = [leader EXCEPT ![p] = None]
    /\ attempt' = [attempt EXCEPT ![p] = 0]
    /\ offset' = [offset EXCEPT ![p] = 0]
    /\ next' = [next EXCEPT ![p] = 1]
    /\ fd' = [fd EXCEPT ![p] = None]
    /\ UNCHANGED aborted

\* Mutant: nothing ends the attempts.
FailRetryable_NoLimit(p) ==
    /\ Goto(p, "wait")
    /\ offset' = [offset EXCEPT ![p] = 0]
    /\ next' = [next EXCEPT ![p] = 1]
    /\ fd' = [fd EXCEPT ![p] = None]
    /\ UNCHANGED <<leader, attempt, calls>>

\* A retryable error: another attempt, unless it was the last.
FailRetryable(p) ==
    IF attempt[p] < MaxRetries
    THEN /\ Goto(p, "wait")
         /\ offset' = [offset EXCEPT ![p] = 0]
         /\ next' = [next EXCEPT ![p] = 1]
         /\ fd' = [fd EXCEPT ![p] = None]
         /\ UNCHANGED <<leader, attempt, calls>>
    ELSE Settle(p, "rejected")

Aborted(p) == aborted[leader[p]]

-------------------------------------------------------------------------------
\* acquireModel: join the acquisition under way, or begin one.
Acquire(c) ==
    LET p == Home[c] IN
    /\ call[c] \in {"idle", "rejected"}
    /\ call' = [call EXCEPT ![c] = "waiting"]
    /\ aborted' = [aborted EXCEPT ![c] = FALSE]
    /\ IF pc[p] # "none" THEN UNCHANGED <<pc, leader>>
       ELSE Goto(p, "lookFinal") /\ leader' = [leader EXCEPT ![p] = c]
    /\ UNCHANGED <<paths, attempt, offset, next, fd, faults>>

\* The caller's signal fires.
Abort(c) ==
    /\ call[c] = "waiting" /\ ~aborted[c]
    /\ Fault
    /\ aborted' = [aborted EXCEPT ![c] = TRUE]
    /\ UNCHANGED <<paths, pc, acquisition, call>>

-------------------------------------------------------------------------------
(* prepareModelDownload. *)

LookFinal(p) ==
    /\ pc[p] = "lookFinal"
    /\ Goto(p, IF final = None THEN "lookPartial" ELSE "checkFinal")
    /\ UNCHANGED <<paths, acquisition, calls, faults>>

\* Mutant: a damaged file in the cache is reported, and stays.
CheckFinal_Report(p) ==
    /\ pc[p] = "checkFinal"
    /\ IF final # None /\ content[final] = Good THEN Settle(p, "returned")
       ELSE Settle(p, "rejected")
    /\ UNCHANGED <<paths, faults>>

\* stat() and the hash of the cached file; it may be gone by then (ENOENT).
CheckFinal(p) ==
    /\ pc[p] = "checkFinal"
    /\ IF final = None THEN Settle(p, "rejected")
       ELSE IF content[final] = Good THEN Settle(p, "returned")
       ELSE Goto(p, "dropFinal") /\ UNCHANGED <<acquisition, calls>>
    /\ UNCHANGED <<paths, faults>>

DropFinal(p) ==
    /\ pc[p] = "dropFinal"
    /\ final' = None
    /\ Goto(p, "lookPartial")
    /\ UNCHANGED <<partial, content, acquisition, calls, faults>>

LookPartial(p) ==
    /\ pc[p] = "lookPartial"
    /\ Goto(p, IF partial = None THEN "request" ELSE "sizePartial")
    /\ UNCHANGED <<paths, acquisition, calls, faults>>

\* A partial file no longer than the model is resumed, a whole one included.
SizePartial(p) ==
    /\ pc[p] = "sizePartial"
    /\ IF partial = None THEN Settle(p, "rejected")
       ELSE IF Len(content[partial]) <= Size
       THEN /\ Goto(p, "request")
            /\ offset' = [offset EXCEPT ![p] = Len(content[partial])]
            /\ UNCHANGED <<leader, attempt, next, fd, calls>>
       ELSE Goto(p, "dropPartial") /\ UNCHANGED <<acquisition, calls>>
    /\ UNCHANGED <<paths, faults>>

DropPartial(p) ==
    /\ pc[p] = "dropPartial"
    /\ partial' = None
    /\ Goto(p, "request")
    /\ UNCHANGED <<final, content, acquisition, calls, faults>>

-------------------------------------------------------------------------------
(* openHttpsSource and what acquireModelOnce makes of its answer. *)

\* The server answers: 206 from the offset, or 200 from the start; for a range
\* that begins at the end of the file there is only 416, which is not retried.
Answered(p) ==
    /\ pc[p] = "request" /\ ~Aborted(p)
    /\ \/ /\ offset[p] < Size
          /\ Goto(p, "openFile")
          /\ next' = [next EXCEPT ![p] = offset[p] + 1]
          /\ UNCHANGED <<leader, attempt, offset, fd, calls>>
       \/ /\ offset[p] > 0
          /\ Goto(p, "restart")
          /\ UNCHANGED <<acquisition, calls>>
       \/ offset[p] = Size /\ Settle(p, "rejected")
    /\ UNCHANGED <<paths, faults>>

\* The signal has fired, before the request or while it waits for the answer.
RequestAborted(p) ==
    /\ pc[p] = "request" /\ Aborted(p)
    /\ Settle(p, "rejected")
    /\ UNCHANGED <<paths, faults>>

\* No connection, or a status that is retried; or one that is not; or the size
\* the server states is another.
RequestFails(p) ==
    /\ pc[p] = "request" /\ ~Aborted(p)
    /\ Fault
    /\ \/ FailRetryable(p)
       \/ Settle(p, "rejected")
       \/ Goto(p, "wrongTotal") /\ UNCHANGED <<acquisition, calls>>
    /\ UNCHANGED paths

WrongTotal(p) ==
    /\ pc[p] = "wrongTotal"
    /\ partial' = None
    /\ Settle(p, "rejected")
    /\ UNCHANGED <<final, content, faults>>

Restart(p) ==
    /\ pc[p] = "restart"
    /\ partial' = None
    /\ offset' = [offset EXCEPT ![p] = 0]
    /\ next' = [next EXCEPT ![p] = 1]
    /\ Goto(p, "openFile")
    /\ UNCHANGED <<final, content, leader, attempt, fd, calls, faults>>

-------------------------------------------------------------------------------
(* The stream into the partial file, and its promotion. *)

Fresh == CHOOSE i \in Inode : i \notin {final, partial} \cup {fd[q] : q \in Process}

\* createWriteStream with flag 'a' when resuming, 'w', which truncates, if not.
OpenFile(p) ==
    LET i == IF partial = None THEN Fresh ELSE partial IN
    /\ pc[p] = "openFile"
    /\ partial' = i
    /\ fd' = [fd EXCEPT ![p] = i]
    /\ content' = IF partial = None \/ offset[p] = 0 THEN [content EXCEPT ![i] = <<>>]
                  ELSE content
    /\ Goto(p, "stream")
    /\ UNCHANGED <<final, leader, attempt, offset, next, calls, faults>>

\* The file with block b at place k, what is missing before it filled with zeros.
WithBlock(file, k, b) ==
    [i \in 1 .. (IF k > Len(file) THEN k ELSE Len(file)) |->
        IF i = k THEN b ELSE IF i <= Len(file) THEN file[i] ELSE 0]

\* A stream opened with 'a' writes at the end of the file, with 'w' at its place.
WriteBlock(p, b) ==
    LET file == content[fd[p]] IN
    /\ pc[p] = "stream" /\ next[p] <= Size /\ ~Aborted(p)
    /\ content' = [content EXCEPT ![fd[p]] =
                     IF offset[p] > 0 THEN Append(file, b) ELSE WithBlock(file, next[p], b)]
    /\ next' = [next EXCEPT ![p] = @ + 1]
    /\ UNCHANGED <<final, partial, pc, leader, attempt, offset, fd, calls>>

ReceiveBlock(p) == WriteBlock(p, next[p]) /\ UNCHANGED faults

\* The data is not the model's: a mirror, a damaged response.
ReceiveWrongBlock(p) == WriteBlock(p, 0) /\ Fault

\* The stream ends and its file is closed.
StreamEnds(p) ==
    /\ pc[p] = "stream" /\ next[p] > Size /\ ~Aborted(p)
    /\ Goto(p, "verify")
    /\ fd' = [fd EXCEPT ![p] = None]
    /\ UNCHANGED <<paths, leader, attempt, offset, next, calls, faults>>

\* The connection breaks before the end.
StreamFails(p) ==
    /\ pc[p] = "stream" /\ next[p] <= Size /\ ~Aborted(p)
    /\ Fault
    /\ FailRetryable(p)
    /\ UNCHANGED paths

\* Aborted between two blocks, or after the last.
StreamAborted(p) ==
    /\ pc[p] = "stream" /\ Aborted(p)
    /\ Settle(p, "rejected")
    /\ UNCHANGED <<paths, faults>>

\* Mutant: the length is checked, the hash is not.
Verify_SizeOnly(p) ==
    /\ pc[p] = "verify"
    /\ IF partial = None THEN Settle(p, "rejected")
       ELSE /\ Goto(p, IF Len(content[partial]) = Size THEN "rename" ELSE "discard")
            /\ UNCHANGED <<acquisition, calls>>
    /\ UNCHANGED <<paths, faults>>

\* The size and the hash of what is at the partial path now.
Verify(p) ==
    /\ pc[p] = "verify"
    /\ IF partial = None THEN Settle(p, "rejected")
       ELSE /\ Goto(p, IF content[partial] = Good THEN "rename" ELSE "discard")
            /\ UNCHANGED <<acquisition, calls>>
    /\ UNCHANGED <<paths, faults>>

Discard(p) ==
    /\ pc[p] = "discard"
    /\ partial' = None
    /\ Settle(p, "rejected")
    /\ UNCHANGED <<final, content, faults>>

\* rename() moves whatever is at the partial path by now.
Rename(p) ==
    /\ pc[p] = "rename"
    /\ IF partial = None THEN Settle(p, "rejected") /\ UNCHANGED final
       ELSE final' = partial /\ Settle(p, "returned")
    /\ partial' = None
    /\ UNCHANGED <<content, faults>>

\* Mutant: the wait does not count the attempt.
WaitForRetry_Forever(p) ==
    /\ pc[p] = "wait"
    /\ IF Aborted(p) THEN Settle(p, "rejected")
       ELSE Goto(p, "wait") /\ UNCHANGED <<acquisition, calls>>
    /\ UNCHANGED <<paths, faults>>

\* waitForRetry: the timer, or the signal, and the next attempt.
WaitForRetry(p) ==
    /\ pc[p] = "wait"
    /\ IF Aborted(p) THEN Settle(p, "rejected")
       ELSE /\ attempt' = [attempt EXCEPT ![p] = @ + 1]
            /\ Goto(p, "lookFinal")
            /\ UNCHANGED <<leader, offset, next, fd, calls>>
    /\ UNCHANGED <<paths, faults>>

-------------------------------------------------------------------------------
\* The process dies; its callers may ask again after a restart.
Crash(p) ==
    /\ pc[p] # "none"
    /\ Fault
    /\ Settle(p, "rejected")
    /\ UNCHANGED paths

\* The cache is empty, or has a file that is as long as the model and damaged,
\* or a partial file to which two earlier processes have appended.
Blank(size) == [k \in 1..size |-> 0]

Init ==
    /\ \/ /\ final = None /\ partial = None
          /\ content = [i \in Inode |-> <<>>]
       \/ /\ final = 1 /\ partial = None
          /\ content = [i \in Inode |-> IF i = 1 THEN Blank(Size) ELSE <<>>]
       \/ /\ final = None /\ partial = 1
          /\ content = [i \in Inode |-> IF i = 1 THEN Blank(Size + 1) ELSE <<>>]
    /\ pc = [p \in Process |-> "none"]
    /\ leader = [p \in Process |-> None]
    /\ attempt = [p \in Process |-> 0]
    /\ offset = [p \in Process |-> 0]
    /\ next = [p \in Process |-> 1]
    /\ fd = [p \in Process |-> None]
    /\ call = [c \in Caller |-> "idle"]
    /\ aborted = [c \in Caller |-> FALSE]
    /\ faults = 0

\* What an acquisition does by itself once it has begun.
Step(p) ==
    \/ LookFinal(p) \/ CheckFinal(p) \/ DropFinal(p)
    \/ LookPartial(p) \/ SizePartial(p) \/ DropPartial(p)
    \/ Answered(p) \/ RequestAborted(p) \/ WrongTotal(p) \/ Restart(p)
    \/ OpenFile(p) \/ ReceiveBlock(p) \/ StreamEnds(p) \/ StreamAborted(p)
    \/ Verify(p) \/ Discard(p) \/ Rename(p) \/ WaitForRetry(p)

Next ==
    \/ \E p \in Process :
          Step(p) \/ RequestFails(p) \/ ReceiveWrongBlock(p) \/ StreamFails(p) \/ Crash(p)
    \/ \E c \in Caller : Acquire(c) \/ Abort(c)

Spec == Init /\ [][Next]_vars

\* The file system and the server answer, timers fire; a caller that is
\* rejected asks again.
FairSpec ==
    /\ Spec
    /\ \A p \in Process : WF_vars(Step(p))
    /\ \A c \in Caller : WF_vars(Acquire(c))

-------------------------------------------------------------------------------
TypeOK ==
    /\ final \in Inode \cup {None} /\ partial \in Inode \cup {None}
    /\ content \in [Inode -> Seq(0..Size)]
    /\ pc \in [Process -> Steps]
    /\ leader \in [Process -> Caller \cup {None}]
    /\ attempt \in [Process -> 0..MaxRetries]
    /\ offset \in [Process -> 0..Size]
    /\ next \in [Process -> 1..Size + 1]
    /\ fd \in [Process -> Inode \cup {None}]
    /\ call \in [Caller -> {"idle", "waiting", "returned", "rejected"}]
    /\ aborted \in [Caller -> BOOLEAN]
    /\ faults \in 0..MaxFaults

\* "Promoted atomically only after their byte length and SHA-256 match the
\* manifest" (README.md:27): a caller that was given the path finds the model
\* there, and goes on finding it.
ReturnedIsModel ==
    \A c \in Caller : call[c] = "returned" => final # None /\ content[final] = Good

\* Every call is answered, whatever fails: a caller that joined, too.
CallsSettle ==
    \A c \in Caller : call[c] = "waiting" ~> call[c] # "waiting"

\* The partial file is as long as the model.
PartialIsWhole == partial # None /\ Len(content[partial]) = Size

\* "Resumed after transient failures" (README.md:26): once the faults are over a
\* caller that keeps asking gets the model.
Completes == \A c \in Caller : <>(call[c] = "returned")

\* What keeps an acquisition from completing is a whole partial file, left by
\* an abort or a crash after the last block: nothing removes it and the server
\* refuses the range behind its end, every time.
CompletesUnlessWhole ==
    \A c \in Caller : <>(call[c] = "returned") \/ <>[]PartialIsWhole

===============================================================================
