------------------------ MODULE ModelAcquisitionProofs ------------------------
(* Proofs about acquireModel when one process uses the cache directory: the  *)
(* model's promise to those who were given a path, for any number of callers,*)
(* any size, any number of retries and any faults.                           *)
EXTENDS ModelAcquisition, FiniteSetTheorems, SequenceTheorems, TLAPS

(***************************************************************************)
(* The inductive invariant                                                 *)
(***************************************************************************)

(* Where the acquisition is tells what it has found or made.  Without these  *)
(* parts a stream might write into the promoted file, a verified file might  *)
(* not be the one that is renamed, and a good file might be dropped.         *)
PathsDiffer == final # None => final # partial
StreamIsPartial(p) == pc[p] = "stream" => fd[p] # None /\ fd[p] = partial
DropsDamaged(p) == pc[p] = "dropFinal" => final # None /\ content[final] # Good
RenamesVerified(p) == pc[p] = "rename" => partial # None /\ content[partial] = Good
WaitsForAttempt(p) == pc[p] = "wait" => attempt[p] < MaxRetries

IInv(p) ==
    /\ TypeOK
    /\ PathsDiffer
    /\ StreamIsPartial(p)
    /\ DropsDamaged(p)
    /\ RenamesVerified(p)
    /\ WaitsForAttempt(p)
    /\ ReturnedIsModel

(***************************************************************************)
(* Lemmas                                                                  *)
(***************************************************************************)

(* The model is a file of Size blocks.                                       *)
LEMMA GoodType == Good \in Seq(0..Size) /\ Len(Good) = Size
  BY AcquisitionAssumption DEF Good

(* WithBlock gives a file of blocks again.                                   *)
LEMMA WithBlockType ==
  ASSUME NEW file \in Seq(0..Size), NEW k \in 1..Size, NEW b \in 0..Size
  PROVE  WithBlock(file, k, b) \in Seq(0..Size)
<1> DEFINE n == IF k > Len(file) THEN k ELSE Len(file)
<1>1. n \in Nat
  BY AcquisitionAssumption
<1>2. WithBlock(file, k, b) \in [1..n -> 0..Size]
  BY <1>1, AcquisitionAssumption DEF WithBlock
<1>3. \E m \in Nat : WithBlock(file, k, b) \in [1..m -> 0..Size]
  BY <1>1, <1>2
<1> QED
  BY <1>3, SeqDef, Zenon

(* With one process there is an inode nothing leads to or has open.          *)
LEMMA FreshInode ==
  ASSUME NEW p, Process = {p}, TypeOK
  PROVE  Fresh \in Inode /\ Fresh \notin {final, partial}
<1>1. Cardinality(Process) = 1
  BY FS_Singleton
<1>2. Inode = 1..4
  BY <1>1 DEF Inode
<1>3. {fd[q] : q \in Process} = {fd[p]}
  OBVIOUS
<1>4. \E i \in 1..4 : i # final /\ i # partial /\ i # fd[p]
  OBVIOUS
<1>5. \E i \in Inode : i \notin {final, partial} \cup {fd[q] : q \in Process}
  BY <1>2, <1>3, <1>4
<1> QED
  BY <1>5 DEF Fresh

(* What ending an acquisition does to the types.                             *)
LEMMA SettleType ==
  ASSUME TypeOK, NEW p \in Process, NEW outcome \in {"returned", "rejected"},
         Settle(p, outcome)
  PROVE  /\ pc' \in [Process -> Steps]
         /\ leader' \in [Process -> Caller \cup {None}]
         /\ attempt' \in [Process -> 0..MaxRetries]
         /\ offset' \in [Process -> 0..Size]
         /\ next' \in [Process -> 1..Size + 1]
         /\ fd' \in [Process -> Inode \cup {None}]
         /\ call' \in [Caller -> {"idle", "waiting", "returned", "rejected"}]
         /\ aborted' \in [Caller -> BOOLEAN]
         /\ pc'[p] = "none"
         /\ outcome = "rejected" =>
                \A c \in Caller : call'[c] = "returned" => call[c] = "returned"
  BY AcquisitionAssumption DEF TypeOK, Settle, Goto, Steps

(* What a retryable failure does: it waits with an attempt left, or rejects. *)
LEMMA FailRetryableType ==
  ASSUME TypeOK, NEW p \in Process, FailRetryable(p)
  PROVE  /\ pc' \in [Process -> Steps]
         /\ leader' \in [Process -> Caller \cup {None}]
         /\ attempt' \in [Process -> 0..MaxRetries]
         /\ offset' \in [Process -> 0..Size]
         /\ next' \in [Process -> 1..Size + 1]
         /\ fd' \in [Process -> Inode \cup {None}]
         /\ call' \in [Caller -> {"idle", "waiting", "returned", "rejected"}]
         /\ aborted' \in [Caller -> BOOLEAN]
         /\ pc'[p] \in {"none", "wait"}
         /\ pc'[p] = "wait" => attempt'[p] < MaxRetries
         /\ \A c \in Caller : call'[c] = "returned" => call[c] = "returned"
<1>1. CASE attempt[p] < MaxRetries
  <2>1. /\ pc' = [pc EXCEPT ![p] = "wait"] /\ offset' = [offset EXCEPT ![p] = 0]
        /\ next' = [next EXCEPT ![p] = 1] /\ fd' = [fd EXCEPT ![p] = None]
        /\ UNCHANGED <<leader, attempt, call, aborted>>
    BY <1>1 DEF FailRetryable, Goto, calls
  <2>2. pc' \in [Process -> Steps] /\ pc'[p] = "wait"
    BY <2>1 DEF TypeOK, Steps
  <2>3. next' \in [Process -> 1..Size + 1] /\ offset' \in [Process -> 0..Size]
    BY <2>1, AcquisitionAssumption DEF TypeOK
  <2>4. fd' \in [Process -> Inode \cup {None}]
    BY <2>1 DEF TypeOK
  <2> QED
    BY <1>1, <2>1, <2>2, <2>3, <2>4 DEF TypeOK
<1>2. CASE ~(attempt[p] < MaxRetries)
  BY <1>2, SettleType DEF FailRetryable
<1> QED
  BY <1>1, <1>2

(***************************************************************************)
(* The invariant holds initially, and every step keeps it                  *)
(***************************************************************************)

LEMMA InitIInv ==
  ASSUME NEW p, Process = {p}, Init
  PROVE  IInv(p)
<1>1. Cardinality(Process) = 1
  BY FS_Singleton
<1>2. Inode = 1..4
  BY <1>1 DEF Inode
<1>3. Blank(Size) \in Seq(0..Size) /\ Blank(Size + 1) \in Seq(0..Size) /\ <<>> \in Seq(0..Size)
  BY AcquisitionAssumption DEF Blank
<1>4. content \in [Inode -> Seq(0..Size)]
  BY <1>3 DEF Init
<1>5. /\ final \in Inode \cup {None} /\ partial \in Inode \cup {None}
      /\ final = None \/ partial = None
  BY <1>2 DEF Init
<1>6. TypeOK
  BY <1>4, <1>5, AcquisitionAssumption DEF Init, TypeOK, Steps
<1>7. PathsDiffer
  BY <1>5, NoneIsNoFile DEF PathsDiffer
<1> QED
  BY <1>6, <1>7 DEF IInv, Init, StreamIsPartial, DropsDamaged, RenamesVerified,
     WaitsForAttempt, ReturnedIsModel

(* The parts that depend on where the acquisition is hold of one that has    *)
(* ended.                                                                    *)
LEMMA EndedIsConsistent ==
  ASSUME NEW p, pc[p] = "none"
  PROVE  StreamIsPartial(p) /\ DropsDamaged(p) /\ RenamesVerified(p) /\ WaitsForAttempt(p)
  BY DEF StreamIsPartial, DropsDamaged, RenamesVerified, WaitsForAttempt

(* An acquisition that is rejected, whatever it did to the partial path.     *)
LEMMA RejectKeeps ==
  ASSUME NEW p \in Process, IInv(p), Settle(p, "rejected"),
         UNCHANGED <<final, content>>, partial' \in {partial, None},
         faults' \in 0..MaxFaults
  PROVE  IInv(p)'
<1>1. TypeOK'
  BY SettleType DEF IInv, TypeOK
<1>2. PathsDiffer'
  BY DEF IInv, PathsDiffer
<1>3. pc'[p] = "none"
  BY SettleType DEF IInv
<1>4. ReturnedIsModel'
  BY SettleType DEF IInv, ReturnedIsModel
<1> QED
  BY <1>1, <1>2, <1>3, <1>4
     DEF IInv, StreamIsPartial, DropsDamaged, RenamesVerified, WaitsForAttempt

(* A retryable failure.                                                      *)
LEMMA FailRetryableKeeps ==
  ASSUME NEW p \in Process, IInv(p), FailRetryable(p), UNCHANGED paths,
         faults' \in 0..MaxFaults
  PROVE  IInv(p)'
<1>1. TypeOK'
  BY FailRetryableType DEF IInv, TypeOK, paths
<1>2. PathsDiffer'
  BY DEF IInv, PathsDiffer, paths
<1>3. pc'[p] \in {"none", "wait"} /\ (pc'[p] = "wait" => attempt'[p] < MaxRetries)
  BY FailRetryableType DEF IInv
<1>4. ReturnedIsModel'
  BY FailRetryableType DEF IInv, ReturnedIsModel, paths
<1> QED
  BY <1>1, <1>2, <1>3, <1>4
     DEF IInv, StreamIsPartial, DropsDamaged, RenamesVerified, WaitsForAttempt

(* A block reaches the file of the stream, which is never the promoted one.  *)
LEMMA WriteBlockKeeps ==
  ASSUME NEW p \in Process, NEW b \in 0..Size, IInv(p), WriteBlock(p, b),
         faults' \in 0..MaxFaults
  PROVE  IInv(p)'
<1> DEFINE file == content[fd[p]]
<1>1. fd[p] \in Inode /\ fd[p] = partial /\ file \in Seq(0..Size)
  BY DEF IInv, TypeOK, StreamIsPartial, WriteBlock
<1>2. next[p] \in 1..Size
  BY AcquisitionAssumption DEF IInv, TypeOK, WriteBlock
<1>3. content' = [content EXCEPT ![fd[p]] =
                   IF offset[p] > 0 THEN Append(file, b) ELSE WithBlock(file, next[p], b)]
  BY DEF WriteBlock
<1>4. Append(file, b) \in Seq(0..Size) /\ WithBlock(file, next[p], b) \in Seq(0..Size)
  BY <1>1, <1>2, WithBlockType
<1>5. content' \in [Inode -> Seq(0..Size)]
  BY <1>1, <1>3, <1>4 DEF IInv, TypeOK
<1>6. next' \in [Process -> 1..Size + 1]
  BY <1>2, AcquisitionAssumption DEF IInv, TypeOK, WriteBlock
<1>7. TypeOK'
  BY <1>5, <1>6 DEF IInv, TypeOK, WriteBlock, calls
<1>8. final # None => content'[final] = content[final]
  BY <1>1, <1>3 DEF IInv, TypeOK, PathsDiffer
<1>9. ReturnedIsModel'
  BY <1>8 DEF IInv, ReturnedIsModel, WriteBlock, calls
<1> QED
  BY <1>1, <1>7, <1>9
     DEF IInv, PathsDiffer, StreamIsPartial, DropsDamaged, RenamesVerified, WaitsForAttempt,
         WriteBlock

(* Every step of the process, its faults included.                           *)
LEMMA ProcessKeeps ==
  ASSUME NEW p, Process = {p}, IInv(p),
         \/ Step(p) \/ RequestFails(p) \/ ReceiveWrongBlock(p) \/ StreamFails(p) \/ Crash(p)
  PROVE  IInv(p)'
<1> p \in Process
  OBVIOUS
<1> USE AcquisitionAssumption
<1> faults \in 0..MaxFaults /\ (Fault => faults' \in 0..MaxFaults)
  BY DEF IInv, TypeOK, Fault
<1>1. CASE LookFinal(p)
  BY <1>1 DEF LookFinal, Goto, paths, acquisition, calls, Steps, IInv, TypeOK, PathsDiffer, StreamIsPartial, DropsDamaged,
       RenamesVerified, WaitsForAttempt, ReturnedIsModel
<1>2. CASE CheckFinal(p)
  <2>1. CASE final = None
    BY <1>2, <2>1, RejectKeeps DEF CheckFinal, paths
  <2>2. CASE final # None /\ content[final] = Good
    <3>1. Settle(p, "returned") /\ UNCHANGED <<paths, faults>>
      BY <1>2, <2>2 DEF CheckFinal
    <3>2. TypeOK' /\ pc'[p] = "none"
      BY <3>1, SettleType DEF IInv, TypeOK, paths
    <3> QED
      BY <2>2, <3>1, <3>2 DEF paths, IInv, TypeOK, PathsDiffer, StreamIsPartial, DropsDamaged,
       RenamesVerified, WaitsForAttempt, ReturnedIsModel
  <2>3. CASE final # None /\ content[final] # Good
    BY <1>2, <2>3 DEF CheckFinal, Goto, paths, acquisition, calls, Steps, IInv, TypeOK, PathsDiffer, StreamIsPartial, DropsDamaged,
       RenamesVerified, WaitsForAttempt, ReturnedIsModel
  <2> QED
    BY <2>1, <2>2, <2>3
<1>3. CASE DropFinal(p)
  BY <1>3 DEF DropFinal, Goto, acquisition, calls, Steps, IInv, TypeOK, PathsDiffer, StreamIsPartial, DropsDamaged,
       RenamesVerified, WaitsForAttempt, ReturnedIsModel
<1>4. CASE LookPartial(p)
  BY <1>4 DEF LookPartial, Goto, paths, acquisition, calls, Steps, IInv, TypeOK, PathsDiffer, StreamIsPartial, DropsDamaged,
       RenamesVerified, WaitsForAttempt, ReturnedIsModel
<1>5. CASE SizePartial(p)
  <2>1. CASE partial = None
    BY <1>5, <2>1, RejectKeeps DEF SizePartial, paths
  <2>2. CASE partial # None /\ Len(content[partial]) <= Size
    <3>1. Len(content[partial]) \in 0..Size
      BY <2>2 DEF IInv, TypeOK
    <3> QED
      BY <1>5, <2>2, <3>1 DEF SizePartial, Goto, paths, calls, Steps, IInv, TypeOK, PathsDiffer, StreamIsPartial, DropsDamaged,
       RenamesVerified, WaitsForAttempt, ReturnedIsModel
  <2>3. CASE partial # None /\ ~(Len(content[partial]) <= Size)
    BY <1>5, <2>3 DEF SizePartial, Goto, paths, acquisition, calls, Steps, IInv, TypeOK, PathsDiffer, StreamIsPartial, DropsDamaged,
       RenamesVerified, WaitsForAttempt, ReturnedIsModel
  <2> QED
    BY <2>1, <2>2, <2>3
<1>6. CASE DropPartial(p)
  BY <1>6 DEF DropPartial, Goto, acquisition, calls, Steps, IInv, TypeOK, PathsDiffer, StreamIsPartial, DropsDamaged,
       RenamesVerified, WaitsForAttempt, ReturnedIsModel
<1>7. CASE Answered(p)
  <2>1. CASE Settle(p, "rejected")
    BY <1>7, <2>1, RejectKeeps DEF Answered, paths
  <2>2. CASE offset[p] < Size /\ Goto(p, "openFile") /\ next' = [next EXCEPT ![p] = offset[p] + 1]
             /\ UNCHANGED <<leader, attempt, offset, fd, calls>>
    <3>1. next' \in [Process -> 1..Size + 1]
      BY <2>2 DEF IInv, TypeOK
    <3> QED
      BY <1>7, <2>2, <3>1 DEF Answered, Goto, paths, calls, Steps, IInv, TypeOK, PathsDiffer, StreamIsPartial, DropsDamaged,
       RenamesVerified, WaitsForAttempt, ReturnedIsModel
  <2>3. CASE Goto(p, "restart") /\ UNCHANGED <<acquisition, calls>>
    BY <1>7, <2>3 DEF Answered, Goto, paths, acquisition, calls, Steps, IInv, TypeOK, PathsDiffer, StreamIsPartial, DropsDamaged,
       RenamesVerified, WaitsForAttempt, ReturnedIsModel
  <2> QED
    BY <1>7, <2>1, <2>2, <2>3 DEF Answered
<1>8. CASE RequestAborted(p)
  BY <1>8, RejectKeeps DEF RequestAborted, paths
<1>9. CASE WrongTotal(p)
  BY <1>9, RejectKeeps DEF WrongTotal
<1>10. CASE Restart(p)
  BY <1>10 DEF Restart, Goto, calls, Steps, IInv, TypeOK, PathsDiffer, StreamIsPartial, DropsDamaged,
       RenamesVerified, WaitsForAttempt, ReturnedIsModel
<1>11. CASE OpenFile(p)
  <2> DEFINE i == IF partial = None THEN Fresh ELSE partial
  <2>1. i \in Inode /\ i # None /\ i # final
    BY FreshInode, NoneIsNoFile DEF IInv, TypeOK, PathsDiffer
  <2>2. content' \in [Inode -> Seq(0..Size)] /\ (final # None => content'[final] = content[final])
    BY <1>11, <2>1 DEF OpenFile, IInv, TypeOK
  <2>3. partial' = i /\ fd' = [fd EXCEPT ![p] = i]
    BY <1>11 DEF OpenFile
  <2>4. TypeOK' /\ pc'[p] = "stream"
    BY <1>11, <2>1, <2>2, <2>3 DEF OpenFile, Goto, calls, Steps, IInv, TypeOK
  <2>5. fd'[p] = partial'
    BY <2>3 DEF IInv, TypeOK
  <2> HIDE DEF i
  <2> QED
    BY <1>11, <2>1, <2>2, <2>3, <2>4, <2>5
       DEF OpenFile, calls, IInv, PathsDiffer, StreamIsPartial, DropsDamaged, RenamesVerified,
           WaitsForAttempt, ReturnedIsModel
<1>12. CASE ReceiveBlock(p)
  <2>1. next[p] \in 0..Size
    BY <1>12 DEF ReceiveBlock, WriteBlock, IInv, TypeOK
  <2>2. WriteBlock(p, next[p]) /\ faults' = faults
    BY <1>12 DEF ReceiveBlock
  <2> QED
    BY <2>1, <2>2, WriteBlockKeeps
<1>13. CASE StreamEnds(p)
  BY <1>13 DEF StreamEnds, Goto, paths, calls, Steps, IInv, TypeOK, PathsDiffer, StreamIsPartial, DropsDamaged,
       RenamesVerified, WaitsForAttempt, ReturnedIsModel
<1>14. CASE StreamAborted(p)
  BY <1>14, RejectKeeps DEF StreamAborted, paths
<1>15. CASE Verify(p)
  <2>1. CASE partial = None
    BY <1>15, <2>1, RejectKeeps DEF Verify, paths
  <2>2. CASE partial # None
    BY <1>15, <2>2 DEF Verify, Goto, paths, acquisition, calls, Steps, IInv, TypeOK, PathsDiffer, StreamIsPartial, DropsDamaged,
       RenamesVerified, WaitsForAttempt, ReturnedIsModel
  <2> QED
    BY <2>1, <2>2
<1>16. CASE Discard(p)
  BY <1>16, RejectKeeps DEF Discard
<1>17. CASE Rename(p)
  <2>1. partial # None /\ content[partial] = Good
    BY <1>17 DEF Rename, IInv, RenamesVerified
  <2>2. final' = partial /\ partial' = None /\ Settle(p, "returned") /\ UNCHANGED <<content, faults>>
    BY <1>17, <2>1 DEF Rename
  <2>3. TypeOK' /\ pc'[p] = "none"
    BY <2>2, SettleType DEF IInv, TypeOK
  <2> QED
    BY <2>1, <2>2, <2>3 DEF IInv, TypeOK, PathsDiffer, StreamIsPartial, DropsDamaged,
       RenamesVerified, WaitsForAttempt, ReturnedIsModel
<1>18. CASE WaitForRetry(p)
  <2>1. CASE Aborted(p)
    BY <1>18, <2>1, RejectKeeps DEF WaitForRetry, paths
  <2>2. CASE ~Aborted(p)
    <3>1. attempt' = [attempt EXCEPT ![p] = @ + 1] /\ pc' = [pc EXCEPT ![p] = "lookFinal"]
          /\ attempt[p] < MaxRetries
      BY <1>18, <2>2 DEF WaitForRetry, Goto, IInv, WaitsForAttempt
    <3>2. attempt' \in [Process -> 0..MaxRetries]
      BY <3>1 DEF IInv, TypeOK
    <3> QED
      BY <1>18, <2>2, <3>1, <3>2 DEF WaitForRetry, paths, calls, Steps, IInv, TypeOK, PathsDiffer, StreamIsPartial, DropsDamaged,
       RenamesVerified, WaitsForAttempt, ReturnedIsModel
  <2> QED
    BY <2>1, <2>2
<1>19. CASE RequestFails(p)
  <2>1. CASE FailRetryable(p)
    BY <1>19, <2>1, FailRetryableKeeps DEF RequestFails
  <2>2. CASE Settle(p, "rejected")
    BY <1>19, <2>2, RejectKeeps DEF RequestFails, paths
  <2>3. CASE Goto(p, "wrongTotal") /\ UNCHANGED <<acquisition, calls>>
    BY <1>19, <2>3 DEF RequestFails, Goto, paths, acquisition, calls, Steps, IInv, TypeOK, PathsDiffer, StreamIsPartial, DropsDamaged,
       RenamesVerified, WaitsForAttempt, ReturnedIsModel
  <2> QED
    BY <1>19, <2>1, <2>2, <2>3 DEF RequestFails
<1>20. CASE ReceiveWrongBlock(p)
  BY <1>20, WriteBlockKeeps DEF ReceiveWrongBlock
<1>21. CASE StreamFails(p)
  BY <1>21, FailRetryableKeeps DEF StreamFails
<1>22. CASE Crash(p)
  BY <1>22, RejectKeeps DEF Crash, paths
<1> QED
  BY <1>1, <1>2, <1>3, <1>4, <1>5, <1>6, <1>7, <1>8, <1>9, <1>10, <1>11, <1>12, <1>13, <1>14,
     <1>15, <1>16, <1>17, <1>18, <1>19, <1>20, <1>21, <1>22 DEF Step

(* The steps of the callers.                                                 *)
LEMMA CallersKeep ==
  ASSUME NEW p, Process = {p}, IInv(p), NEW c \in Caller, Acquire(c) \/ Abort(c)
  PROVE  IInv(p)'
<1> USE AcquisitionAssumption
<1>1. CASE Acquire(c)
  <2>1. Home[c] = p
    OBVIOUS
  <2>2. CASE pc[p] # "none"
    BY <1>1, <2>1, <2>2 DEF Acquire, Goto, paths, IInv, TypeOK, PathsDiffer, StreamIsPartial, DropsDamaged,
       RenamesVerified, WaitsForAttempt, ReturnedIsModel
  <2>3. CASE pc[p] = "none"
    BY <1>1, <2>1, <2>3 DEF Acquire, Goto, paths, Steps, IInv, TypeOK, PathsDiffer, StreamIsPartial, DropsDamaged,
       RenamesVerified, WaitsForAttempt, ReturnedIsModel
  <2> QED
    BY <2>2, <2>3
<1>2. CASE Abort(c)
  BY <1>2 DEF Abort, Fault, paths, acquisition, IInv, TypeOK, PathsDiffer, StreamIsPartial, DropsDamaged,
       RenamesVerified, WaitsForAttempt, ReturnedIsModel
<1> QED
  BY <1>1, <1>2

(***************************************************************************)
(* The theorems                                                            *)
(***************************************************************************)

(* The invariant holds in every reachable state of one process.              *)
THEOREM Invariance ==
  ASSUME NEW p, Process = {p}
  PROVE  Spec => []IInv(p)
<1>1. Init => IInv(p)
  BY InitIInv
<1>2. IInv(p) /\ [Next]_vars => IInv(p)'
  <2> SUFFICES ASSUME IInv(p), [Next]_vars
               PROVE  IInv(p)'
    OBVIOUS
  <2>1. CASE UNCHANGED vars
    BY <2>1 DEF vars, paths, acquisition, calls, IInv, TypeOK, PathsDiffer, StreamIsPartial, DropsDamaged,
       RenamesVerified, WaitsForAttempt, ReturnedIsModel
  <2>2. CASE \E q \in Process : Step(q) \/ RequestFails(q) \/ ReceiveWrongBlock(q)
                                \/ StreamFails(q) \/ Crash(q)
    BY <2>2, ProcessKeeps
  <2>3. CASE \E c \in Caller : Acquire(c) \/ Abort(c)
    BY <2>3, CallersKeep
  <2> QED
    BY <2>1, <2>2, <2>3 DEF Next
<1> QED
  BY <1>1, <1>2, PTL DEF Spec

(* Whoever is given the path finds the verified model there and goes on      *)
(* finding it, as long as one process uses the cache: through retries,       *)
(* resumed and restarted downloads, wrong data, aborts and crashes.          *)
THEOREM VerifiedOnly ==
  ASSUME NEW p, Process = {p}
  PROVE  Spec => []ReturnedIsModel
<1>1. Spec => []IInv(p)
  BY Invariance
<1>2. IInv(p) => ReturnedIsModel
  BY DEF IInv
<1> QED
  BY <1>1, <1>2, PTL

(* Every variable keeps its type; the attempts never pass maxRetries.        *)
THEOREM TypeCorrect ==
  ASSUME NEW p, Process = {p}
  PROVE  Spec => []TypeOK
<1>1. Spec => []IInv(p)
  BY Invariance
<1>2. IInv(p) => TypeOK
  BY DEF IInv
<1> QED
  BY <1>1, <1>2, PTL
===============================================================================
