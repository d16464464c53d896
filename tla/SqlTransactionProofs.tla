------------------------- MODULE SqlTransactionProofs -------------------------
(***************************************************************************)
(* begin() and savepoint() on the shared connection, for any number of     *)
(* calls, any nesting and any names: what a callback that awaits what it   *)
(* starts can rely on.                                                     *)
(***************************************************************************)
EXTENDS SqlTransaction, WellFoundedInduction, TLAPS

State == {"PENDING", "ACTIVE", "COMMITTED", "ROLLED_BACK"}
BeginPc == {"idle", "begun", "callback", "catching", "committed", "rolledback",
            "callCommitted", "callRolledBack"} \cup Settled
SavepointPc == {"idle", "created", "callback", "released", "callReleased", "undoing"} \cup Settled

Statement == (Flow \cup Plain) \X Nat
FrameSet == [name : Nat, by : Flow, writes : SUBSET Statement]

TypeOK ==
    /\ stack \in Seq(FrameSet) /\ durable \in SUBSET Statement
    /\ state \in [Begin -> State] /\ counter \in [Begin -> Nat]
    /\ pc \in [Flow -> BeginPc \cup SavepointPc]
    /\ \A t \in Begin : pc[t] \in BeginPc
    /\ \A s \in Savepoint : pc[s] \in SavepointPc
    /\ within \in [Savepoint -> SUBSET Flow] /\ name \in [Savepoint -> Nat]
    /\ usable \in [Savepoint -> BOOLEAN] /\ wrote \in [Flow -> Nat]
    /\ plain \in SUBSET Plain /\ closed \in BOOLEAN /\ undone \in SUBSET Statement
    /\ orphans \in SUBSET Savepoint /\ strayed \in BOOLEAN

-------------------------------------------------------------------------------
(* Whose transaction is open.  *)

\* The callback has begun and the call has not settled.
UnderWay(f) == pc[f] \notin {"idle"} \cup Settled

\* The connection's transaction is that of begin() t.
Opened(t) == pc[t] = "begun" \/ (state[t] = "ACTIVE" /\ pc[t] \in {"callback", "catching"})

States ==
    \A t \in Begin :
        /\ pc[t] \in {"idle", "begun"} => state[t] = "PENDING"
        /\ pc[t] = "callback" => state[t] # "PENDING"
        /\ pc[t] \in {"committed", "rolledback", "callCommitted", "callRolledBack"} =>
               state[t] = "ACTIVE"

\* A savepoint() runs in the callbacks of one begin() and of the savepoints around it.
Nested ==
    \A s \in Savepoint :
        /\ pc[s] = "idle" <=> within[s] = {}
        /\ pc[s] # "idle" => \E t \in Begin : within[s] \cap Begin = {t} /\ state[t] # "PENDING"
        /\ \A f \in within[s] : f # s /\ pc[f] # "idle"
        /\ \A r \in within[s] \cap Savepoint : within[r] \subseteq within[s]

\* A callback that has not returned, and the calls it or one inside it may make
\* on its handle.
Waiting == {"callback", "callCommitted", "callRolledBack", "callReleased"}

\* They wait for it.
Awaiting == \A s \in Savepoint : UnderWay(s) => \A f \in within[s] : pc[f] \in Waiting

Owner ==
    \A i \in DOMAIN stack : pc[stack[i].by] # "idle" /\ Opened(Root(stack[i].by))

OwnerInv == TypeOK /\ States /\ Nested /\ Awaiting /\ Owner

-------------------------------------------------------------------------------
(* What is on the stack.  *)

\* Every callback awaits what it starts, and nothing else ends a transaction.
Alone == ~Branches /\ ~StatementsRollBack /\ ~Closes

\* An open transaction is on the connection, with savepoints of its own above it.
OnStack ==
    \A t \in Begin : Opened(t) =>
        /\ stack # <<>> /\ stack[1].by = t /\ stack[1].name = 0
        /\ \A i \in DOMAIN stack :
              /\ Root(stack[i].by) = t
              /\ i > 1 => stack[i].by \in Savepoint /\ stack[i].name = name[stack[i].by]

Named == \A s \in Savepoint : pc[s] # "idle" => name[s] > 0

\* A savepoint under way is in a transaction that is open, or a call inside it has
\* ended it.
Live ==
    \A s \in Savepoint : UnderWay(s) /\ s \notin orphans =>
        pc[Root(s)] = "callback" /\ state[Root(s)] = "ACTIVE"

\* SAVEPOINT has been sent for s and no RELEASE.
Open(s) == pc[s] = "created" \/ (usable[s] /\ pc[s] \in {"callback", "undoing"})

OwnFrame ==
    \A s \in Savepoint : Open(s) /\ s \notin orphans => \E i \in DOMAIN stack : stack[i].by = s

\* Of two savepoints under way in one begin() one is inside the other.
Chain ==
    \A s, r \in Savepoint : UnderWay(s) /\ UnderWay(r) /\ Root(s) = Root(r) =>
        s \in Around(r) \/ r \in Around(s)

\* What lies above the frame of a savepoint under way happened inside it.
Above ==
    \A i \in DOMAIN stack : stack[i].by \in Savepoint /\ UnderWay(stack[i].by) =>
        /\ \A j \in DOMAIN stack : i < j => stack[i].by \in Around(stack[j].by)
        /\ \A j \in DOMAIN stack : i <= j => \A w \in stack[j].writes :
              w[1] \in Flow => stack[i].by \in Around(w[1])

\* The statements that are on the connection have been executed, inside the
\* transaction that is open there.
Executed ==
    /\ \A w \in durable : w[1] \in Flow => w \in Writes(w[1])
    /\ \A i \in DOMAIN stack : \A w \in stack[i].writes : w[1] \in Flow =>
           w \in Writes(w[1]) /\ Root(w[1]) = Root(stack[i].by)
    /\ \A f \in Flow : wrote[f] > 0 => pc[f] # "idle" /\ (f \in Begin => state[f] # "PENDING")

\* What no savepoint has undone is on the stack.
NotLost ==
    \A t \in Begin : pc[t] = "callback" /\ state[t] = "ACTIVE" =>
        \A f \in Flow : t \in Around(f) /\ (\A s \in Around(f) : pc[s] # "rejected") =>
            Writes(f) \ undone \subseteq AllWrites(stack)

\* COMMIT of begin() t has been executed.
Done(t) == pc[t] \in {"committed", "callCommitted"} \/ state[t] = "COMMITTED"

\* What is committed is committed with its begin().
CommittedTogether ==
    /\ \A w \in durable : w[1] \in Flow => Done(Root(w[1]))
    /\ \A t \in Begin : pc[t] \in {"committed", "resolved"} => Kept(t) \subseteq durable

StackInv ==
    /\ OwnerInv /\ OnStack /\ Named /\ Live /\ OwnFrame /\ Chain /\ Above /\ Executed
    /\ NotLost /\ CommittedTogether

-------------------------------------------------------------------------------
(* What a savepoint that failed leaves.  *)

\* Automatic names are all different.
NamesDiffer ==
    /\ \A s \in Savepoint : pc[s] # "idle" => name[s] <= counter[Root(s)]
    /\ \A s, r \in Savepoint :
           s # r /\ pc[s] # "idle" /\ pc[r] # "idle" /\ Root(s) = Root(r) => name[s] # name[r]

\* What an open savepoint has written is above it.
WrittenAbove ==
    \A s \in Savepoint : Open(s) /\ s \notin orphans =>
        \A j \in DOMAIN stack : \A w \in stack[j].writes :
            w[1] \in Flow /\ s \in Around(w[1]) => \E i \in DOMAIN stack : i <= j /\ stack[i].by = s

\* A flow opens one frame.
OneFrame == \A i, j \in DOMAIN stack : stack[i].by = stack[j].by => i = j

\* A savepoint() that rejected has left nothing, unless it was an orphan.
FailedGone ==
    \A s \in Savepoint \ orphans : pc[s] = "rejected" /\ usable[s] =>
        Inside(s) \cap (durable \cup AllWrites(stack)) = {}

UndoneInv == StackInv /\ NamesDiffer /\ WrittenAbove /\ OneFrame /\ FailedGone

-------------------------------------------------------------------------------
(* The statements.  *)

\* A set of natural numbers has a least element, one of bounded numbers a greatest.
LEMMA Least ==
    ASSUME NEW S \in SUBSET Nat, S # {}
    PROVE  \E x \in S : \A y \in S : x <= y
<1> DEFINE R == {ss \in Nat \X Nat : ss[1] < ss[2]}
<1>1. OpToRel(<, Nat) = R
  BY DEF OpToRel
<1>2. IsWellFoundedOn(R, Nat)
  BY <1>1, NatLessThanWellFounded
<1>3. PICK x \in S : \A y \in S : ~ (<<y, x>> \in R)
  BY <1>2, WFMin
<1>4. \A y \in S : y \in Nat /\ x \in Nat /\ ~(y < x)
  BY <1>3
<1>5. QED
  BY <1>4

LEMMA Greatest ==
    ASSUME NEW n \in Nat, NEW S \in SUBSET (1..n), S # {}
    PROVE  \E x \in S : \A y \in S : y <= x
<1> DEFINE T == {n - y : y \in S}
<1>1. \A y \in S : y \in Int /\ n - y \in Nat
  OBVIOUS
<1>2. T \in SUBSET Nat /\ T # {}
  BY <1>1
<1>3. PICK z \in T : \A y \in T : z <= y
  BY <1>2, Least
<1>4. PICK x \in S : z = n - x
  BY <1>3
<1>5. \A y \in S : z <= n - y
  BY <1>3
<1>6. \A y \in S : y <= x
  BY <1>1, <1>4, <1>5
<1>7. QED
  BY <1>6

\* Newest finds the topmost savepoint of a name, or none.
LEMMA NewestFacts ==
    ASSUME stack \in Seq(FrameSet), NEW n
    PROVE  \/ Newest(n) = 0 /\ \A j \in DOMAIN stack : stack[j].name # n
           \/ /\ Newest(n) \in DOMAIN stack /\ Newest(n) \in 1..Len(stack)
              /\ stack[Newest(n)].name = n
              /\ \A j \in DOMAIN stack : stack[j].name = n => j <= Newest(n)
<1> DEFINE found == {i \in DOMAIN stack : stack[i].name = n}
<1>1. DOMAIN stack = 1..Len(stack) /\ Len(stack) \in Nat
  OBVIOUS
<1>2. CASE found = {}
  BY <1>2 DEF Newest
<1>3. CASE found # {}
  <2>1. \E x \in found : \A y \in found : y <= x
    BY <1>1, <1>3, Greatest
  <2>2. Newest(n) = CHOOSE i \in found : \A j \in found : j <= i
    BY <1>3 DEF Newest
  <2>3. Newest(n) \in found /\ \A j \in found : j <= Newest(n)
    BY <2>1, <2>2
  <2>4. QED
    BY <1>1, <2>3
<1>4. QED
  BY <1>2, <1>3

\* The frames that stay are those at the bottom, opened as they were.
Shrinks ==
    /\ stack' \in Seq(FrameSet) /\ Len(stack') <= Len(stack)
    /\ \A j \in DOMAIN stack' : /\ j \in DOMAIN stack
                                /\ stack'[j].by = stack[j].by /\ stack'[j].name = stack[j].name

\* Replacing one element of a sequence, and the writes of one frame.
LEMMA PutEffect ==
    ASSUME NEW S, NEW q \in Seq(S), NEW i \in 1..Len(q), NEW e \in S
    PROVE  /\ [q EXCEPT ![i] = e] \in Seq(S) /\ Len([q EXCEPT ![i] = e]) = Len(q)
           /\ \A k \in 1..Len(q) : [q EXCEPT ![i] = e][k] = IF k = i THEN e ELSE q[k]
OBVIOUS

LEMMA FrameEffect ==
    ASSUME NEW f \in FrameSet, NEW ws \in SUBSET Statement
    PROVE  /\ [f EXCEPT !.writes = ws] \in FrameSet
           /\ [f EXCEPT !.writes = ws].by = f.by /\ [f EXCEPT !.writes = ws].name = f.name
           /\ [f EXCEPT !.writes = ws].writes = ws
BY DEF FrameSet

\* RELEASE moves the writes of the frames it frees to the one below them.
LEMMA ReleaseEffect ==
    ASSUME TypeOK, NEW n, Newest(n) # 0, ReleaseTo(n)
    PROVE  /\ Shrinks /\ durable' \in SUBSET Statement
           /\ Newest(n) = 1 => stack' = <<>>
           /\ Newest(n) # 1 =>
                /\ durable' = durable /\ Len(stack') = Newest(n) - 1
                /\ \A j \in DOMAIN stack' : j < Len(stack') => stack'[j].writes = stack[j].writes
                /\ stack'[Len(stack')].writes =
                      stack[Len(stack')].writes \cup
                      UNION {stack[j].writes : j \in Newest(n)..Len(stack)}
<1> DEFINE i == Newest(n)
           top == SubSeq(stack, i, Len(stack))
           low == SubSeq(stack, 1, i - 1)
<1>1. /\ stack \in Seq(FrameSet) /\ Len(stack) \in Nat /\ i \in 1..Len(stack) /\ i \in Nat
      /\ durable \in SUBSET Statement
  BY NewestFacts DEF TypeOK
<1> HIDE DEF i
<1>2. /\ top \in Seq(FrameSet) /\ Len(top) = Len(stack) - i + 1
      /\ \A k \in 1..Len(top) : top[k] = stack[i + k - 1]
  BY <1>1
<1>3. AllWrites(top) = UNION {stack[j].writes : j \in i..Len(stack)}
  <2>1. \A j \in i..Len(stack) : j - i + 1 \in DOMAIN top /\ top[j - i + 1] = stack[j]
    BY <1>1, <1>2
  <2>2. \A k \in DOMAIN top : i + k - 1 \in i..Len(stack) /\ top[k] = stack[i + k - 1]
    BY <1>1, <1>2
  <2>3. QED
    BY <2>1, <2>2 DEF AllWrites
<1>4. AllWrites(top) \in SUBSET Statement
  <2> HIDE DEF top
  <2>1. \A k \in DOMAIN top : top[k] \in FrameSet
    BY <1>2
  <2>2. \A k \in DOMAIN top : top[k].writes \in SUBSET Statement
    BY <2>1 DEF FrameSet
  <2>3. QED
    BY <2>2 DEF AllWrites
<1>5. CASE i = 1
  <2>1. stack' = <<>> /\ durable' = durable \cup AllWrites(top)
    BY <1>5 DEF ReleaseTo, i
  <2>2. Shrinks
    BY <1>1, <2>1 DEF Shrinks
  <2>3. QED
    BY <1>1, <1>4, <1>5, <2>1, <2>2 DEF i
<1>6. CASE i # 1
  <2>1. stack' = [low EXCEPT ![i - 1].writes = @ \cup AllWrites(top)] /\ durable' = durable
    BY <1>6 DEF ReleaseTo, i
  <2>2. /\ low \in Seq(FrameSet) /\ Len(low) = i - 1 /\ i - 1 \in 1..Len(low)
        /\ \A k \in 1..(i - 1) : low[k] = stack[k]
    BY <1>1, <1>6
  <2> DEFINE e == [low[i - 1] EXCEPT !.writes = low[i - 1].writes \cup AllWrites(top)]
  <2>3. low[i - 1] \in FrameSet /\ low[i - 1].writes \cup AllWrites(top) \in SUBSET Statement
    BY <1>4, <2>2 DEF FrameSet
  <2>4. /\ e \in FrameSet /\ e.by = low[i - 1].by /\ e.name = low[i - 1].name
        /\ e.writes = low[i - 1].writes \cup AllWrites(top)
    BY <2>3, FrameEffect
  <2>5. stack' = [low EXCEPT ![i - 1] = e]
    BY <2>1
  <2> HIDE DEF e, low
  <2>6. /\ stack' \in Seq(FrameSet) /\ Len(stack') = i - 1
        /\ \A k \in 1..(i - 1) : stack'[k] = IF k = i - 1 THEN e ELSE low[k]
    BY <2>2, <2>4, <2>5, PutEffect
  <2>7. DOMAIN stack' = 1..(i - 1) /\ DOMAIN stack = 1..Len(stack)
    BY <1>1, <2>6
  <2>8. Shrinks
    BY <1>1, <2>2, <2>4, <2>6, <2>7 DEF Shrinks
  <2>9. QED
    BY <1>1, <1>3, <1>6, <2>1, <2>2, <2>4, <2>6, <2>7, <2>8 DEF i
<1>7. QED
  BY <1>5, <1>6

\* ROLLBACK TO empties the frame of the savepoint and drops those above it.
LEMMA RollbackEffect ==
    ASSUME TypeOK, NEW n, Newest(n) # 0, RollbackTo(n)
    PROVE  /\ Shrinks /\ durable' = durable /\ Len(stack') = Newest(n)
           /\ \A j \in DOMAIN stack' :
                 stack'[j].writes = IF j = Newest(n) THEN {} ELSE stack[j].writes
<1> DEFINE i == Newest(n)
           low == SubSeq(stack, 1, i)
<1>1. /\ stack \in Seq(FrameSet) /\ Len(stack) \in Nat /\ i \in 1..Len(stack) /\ i \in Nat
  BY NewestFacts DEF TypeOK
<1>2. stack' = [low EXCEPT ![i].writes = {}] /\ durable' = durable
  BY DEF RollbackTo
<1> HIDE DEF i
<1>3. /\ low \in Seq(FrameSet) /\ Len(low) = i /\ i \in 1..Len(low)
      /\ \A k \in 1..i : low[k] = stack[k]
  BY <1>1
<1> DEFINE e == [low[i] EXCEPT !.writes = {}]
<1>4. e \in FrameSet /\ e.by = low[i].by /\ e.name = low[i].name /\ e.writes = {}
  <2>1. low[i] \in FrameSet /\ {} \in SUBSET Statement
    BY <1>3
  <2>2. QED
    BY <2>1, FrameEffect
<1>5. stack' = [low EXCEPT ![i] = e]
  BY <1>2
<1> HIDE DEF e, low
<1>6. /\ stack' \in Seq(FrameSet) /\ Len(stack') = i
      /\ \A k \in 1..i : stack'[k] = IF k = i THEN e ELSE low[k]
  BY <1>3, <1>4, <1>5, PutEffect
<1>7. DOMAIN stack' = 1..i /\ DOMAIN stack = 1..Len(stack)
  BY <1>1, <1>6
<1>8. Shrinks
  BY <1>1, <1>3, <1>4, <1>6, <1>7 DEF Shrinks
<1>9. QED
  BY <1>1, <1>2, <1>3, <1>4, <1>6, <1>7, <1>8 DEF i

\* An insert adds one statement to the topmost frame, or to what is committed.
LEMMA InsertEffect ==
    ASSUME TypeOK, NEW w \in Statement, Insert(w)
    PROVE  /\ Shrinks /\ durable' \in SUBSET Statement /\ Len(stack') = Len(stack)
           /\ stack = <<>> => durable' = durable \cup {w}
           /\ stack # <<>> =>
                /\ durable' = durable
                /\ \A j \in DOMAIN stack' : stack'[j].writes =
                      IF j = Len(stack) THEN stack[j].writes \cup {w} ELSE stack[j].writes
<1>1. stack \in Seq(FrameSet) /\ Len(stack) \in Nat /\ durable \in SUBSET Statement
  BY DEF TypeOK
<1>2. CASE stack = <<>>
  <2>1. stack' = <<>> /\ durable' = durable \cup {w}
    BY <1>2 DEF Insert
  <2>2. Shrinks
    BY <1>1, <1>2, <2>1 DEF Shrinks
  <2>3. QED
    BY <1>1, <1>2, <2>1, <2>2
<1>3. CASE stack # <<>>
  <2> DEFINE n == Len(stack)
  <2>1. n \in 1..Len(stack) /\ stack[n] \in FrameSet
    BY <1>1, <1>3
  <2> DEFINE e == [stack[n] EXCEPT !.writes = stack[n].writes \cup {w}]
  <2>2. stack' = [stack EXCEPT ![n] = e] /\ durable' = durable
    BY <1>3 DEF Insert
  <2>3. e \in FrameSet /\ e.by = stack[n].by /\ e.name = stack[n].name /\ e.writes = stack[n].writes \cup {w}
    <3>1. stack[n].writes \cup {w} \in SUBSET Statement
      BY <2>1 DEF FrameSet
    <3>2. QED
      BY <2>1, <3>1, FrameEffect
  <2> HIDE DEF n, e
  <2>4. /\ stack' \in Seq(FrameSet) /\ Len(stack') = Len(stack)
        /\ \A k \in 1..Len(stack) : stack'[k] = IF k = n THEN e ELSE stack[k]
    BY <1>1, <2>1, <2>2, <2>3, PutEffect
  <2>5. DOMAIN stack' = 1..Len(stack) /\ DOMAIN stack = 1..Len(stack)
    BY <1>1, <2>4
  <2>6. Shrinks
    BY <1>1, <2>3, <2>4, <2>5 DEF Shrinks
  <2>7. QED
    BY <1>1, <1>3, <2>1, <2>2, <2>3, <2>4, <2>5, <2>6 DEF n
<1>4. QED
  BY <1>2, <1>3
-------------------------------------------------------------------------------
(* Whose transaction is open.  *)

\* The flows around a flow.
LEMMA AroundIsFlows == ASSUME TypeOK, NEW f \in Flow PROVE Around(f) \in SUBSET Flow
<1>1. f \in Begin \/ f \in Savepoint
  BY DEF Flow
<1>2. CASE f \in Begin
  BY <1>2 DEF Around
<1>3. CASE f \in Savepoint /\ f \notin Begin
  <2>1. Around(f) = {f} \cup within[f]
    BY <1>3 DEF Around
  <2>2. within[f] \in SUBSET Flow
    BY <1>3 DEF TypeOK
  <2>3. QED
    BY <2>1, <2>2
<1>4. QED
  BY <1>1, <1>2, <1>3

\* A savepoint that began belongs to one begin(), and so does all around it.
LEMMA RootFacts ==
    ASSUME TypeOK, Nested
    PROVE  /\ \A t \in Begin : Root(t) = t /\ Around(t) = {t}
           /\ \A s \in Savepoint : Around(s) = {s} \cup within[s]
           /\ \A s \in Savepoint : pc[s] # "idle" =>
                 /\ Root(s) \in Begin /\ within[s] \cap Begin = {Root(s)} /\ Root(s) \in within[s]
                 /\ \A f \in within[s] : Root(f) = Root(s)
           /\ \A f \in Flow, t \in Begin : pc[f] # "idle" /\ t \in Around(f) => t = Root(f)
<1>1. Begin \cap Savepoint = {} /\ Flow = Begin \cup Savepoint
  BY TransactionAssumption DEF Flow
<1>2. ASSUME NEW t \in Begin PROVE Root(t) = t /\ Around(t) = {t}
  BY DEF Around, Root
<1>3. ASSUME NEW s \in Savepoint PROVE Around(s) = {s} \cup within[s]
  BY <1>1 DEF Around
<1>4. ASSUME NEW s \in Savepoint, pc[s] # "idle"
      PROVE  Root(s) \in Begin /\ within[s] \cap Begin = {Root(s)} /\ Root(s) \in within[s]
  <2>1. PICK t \in Begin : within[s] \cap Begin = {t}
    BY <1>4 DEF Nested
  <2>2. \A u \in Around(s) : u \in Begin <=> u = t
    BY <1>1, <1>3, <2>1
  <2>3. t \in Around(s)
    BY <1>3, <2>1
  <2>4. Root(s) = t
    BY <2>2, <2>3 DEF Root
  <2>5. QED
    BY <2>1, <2>4
<1>5. ASSUME NEW s \in Savepoint, pc[s] # "idle", NEW f \in within[s]
      PROVE  Root(f) = Root(s)
  <2>1. f \in Flow /\ pc[f] # "idle"
    BY DEF TypeOK, Nested
  <2>2. CASE f \in Begin
    BY <1>2, <1>4, <1>5, <2>2
  <2>3. CASE f \in Savepoint
    <3>1. within[f] \subseteq within[s]
      BY <1>5, <2>3 DEF Nested
    <3>2. QED
      BY <1>4, <1>5, <2>1, <2>3, <3>1
  <2>4. QED
    BY <1>1, <2>1, <2>2, <2>3
<1>6. ASSUME NEW f \in Flow, NEW t \in Begin, pc[f] # "idle", t \in Around(f)
      PROVE  t = Root(f)
  BY <1>1, <1>2, <1>3, <1>4, <1>6
<1>7. QED
  BY <1>2, <1>3, <1>4, <1>5, <1>6

\* No savepoint is under way in a callback that is running, nor in one that has ended.
LEMMA NothingInside ==
    ASSUME TypeOK, ~Branches, Awaiting, NEW f \in Flow, Running(f) \/ pc[f] \notin Waiting
    PROVE  \A s \in Savepoint : UnderWay(s) => f \notin within[s]
BY DEF Awaiting, Running, UnderWay, TypeOK

\* Within the same callbacks a flow has the same root.
LEMMA RootSame ==
    ASSUME NEW f \in Flow, f \in Savepoint => within'[f] = within[f]
    PROVE  Root(f)' = Root(f) /\ Around(f)' = Around(f)
<1>1. f \in Begin \/ f \in Savepoint
  BY DEF Flow
<1>2. Around(f)' = Around(f)
  BY <1>1 DEF Around
<1>3. QED
  BY <1>2 DEF Root

\* Frames that stay belong to those who opened them.
LEMMA OwnerFrames ==
    ASSUME TypeOK, Owner, Shrinks,
           \A f \in Flow : pc[f] # "idle" /\ Opened(Root(f)) =>
               pc'[f] # "idle" /\ Opened(Root(f))'
    PROVE  Owner'
<1>1. SUFFICES ASSUME NEW i \in DOMAIN stack'
               PROVE  (pc[stack[i].by] # "idle" /\ Opened(Root(stack[i].by)))'
  BY DEF Owner
<1>2. PICK f \in Flow : i \in DOMAIN stack /\ stack'[i].by = f /\ stack[i].by = f
  <2>1. i \in DOMAIN stack /\ stack'[i].by = stack[i].by
    BY DEF Shrinks
  <2>2. stack[i] \in FrameSet
    BY <2>1 DEF TypeOK
  <2>3. stack[i].by \in Flow
    BY <2>2 DEF FrameSet
  <2>4. QED
    BY <2>1, <2>3
<1>3. pc[f] # "idle" /\ Opened(Root(f))
  BY <1>2 DEF Owner
<1>4. QED
  BY <1>2, <1>3

\* A savepoint() goes on or settles, and at most undoes or releases frames.
LEMMA SavepointMoves ==
    ASSUME ~Branches, OwnerInv, TypeOK', UNCHANGED <<within, state>>,
           NEW s \in Savepoint, UnderWay(s), pc'[s] # "idle",
           \A f \in Flow : f # s => pc'[f] = pc[f],
           Running(s) \/ pc[s] \notin Waiting \/ pc'[s] \in Waiting, Shrinks
    PROVE  OwnerInv'
<1>1. Begin \cap Savepoint = {} /\ Flow = Begin \cup Savepoint
  BY TransactionAssumption DEF Flow
<1>2. \A t \in Begin : pc'[t] = pc[t]
  BY <1>1
<1>3. \A f \in Flow : (pc'[f] = "idle" <=> pc[f] = "idle") /\ (UnderWay(f)' => UnderWay(f))
  BY DEF UnderWay
<1>4. States'
  BY <1>2 DEF OwnerInv, States
<1>5. Nested'
  BY <1>1, <1>3, ZenonT(30) DEF OwnerInv, Nested, TypeOK
<1>6. Awaiting'
  <2>1. SUFFICES ASSUME NEW r \in Savepoint, UnderWay(r)', NEW f \in within[r]
                 PROVE  pc'[f] \in Waiting
    BY DEF Awaiting
  <2>2. UnderWay(r) /\ f \in Flow
    BY <1>1, <1>3, <2>1 DEF OwnerInv, TypeOK
  <2>3. pc[f] \in Waiting
    BY <2>2 DEF OwnerInv, Awaiting
  <2>4. f = s => pc'[s] \in Waiting
    BY <1>1, <2>2, <2>3, NothingInside DEF OwnerInv
  <2>5. QED
    BY <2>2, <2>3, <2>4
<1>7. Owner'
  <2>1. ASSUME NEW f \in Flow, pc[f] # "idle", Opened(Root(f))
        PROVE  pc'[f] # "idle" /\ Opened(Root(f))'
    <3>1. Root(f) \in Begin /\ Root(f)' = Root(f)
      BY <1>1, <2>1, RootFacts, RootSame DEF OwnerInv
    <3>2. QED
      BY <1>2, <1>3, <2>1, <3>1 DEF Opened
  <2>2. QED
    BY <2>1, OwnerFrames DEF OwnerInv
<1>8. QED
  BY <1>4, <1>5, <1>6, <1>7 DEF OwnerInv

\* A begin() goes on or settles, and leaves no frame of its own when it is through.
LEMMA BeginMoves ==
    ASSUME ~Branches, OwnerInv, TypeOK', States', UNCHANGED within,
           NEW t \in Begin, pc'[t] # "idle",
           Running(t) \/ pc[t] \notin Waiting \/ pc'[t] \in Waiting,
           \A f \in Flow : f # t => pc'[f] = pc[f],
           \A u \in Begin : u # t => state'[u] = state[u],
           state[t] # "PENDING" => state'[t] # "PENDING",
           \/ stack' = <<>>
           \/ stack' = <<Frame(0, t)>> /\ Opened(t)'
           \/ Shrinks /\ (Opened(t) => Opened(t)')
    PROVE  OwnerInv'
<1>1. Begin \cap Savepoint = {} /\ Flow = Begin \cup Savepoint /\ t \in Flow
  BY TransactionAssumption DEF Flow
<1>2. \A s \in Savepoint : pc'[s] = pc[s] /\ (UnderWay(s)' <=> UnderWay(s))
  BY <1>1 DEF UnderWay
<1>3. Nested'
  <2>1. /\ \A f \in Flow : pc[f] # "idle" => pc'[f] # "idle"
        /\ \A u \in Begin : state[u] # "PENDING" => state'[u] # "PENDING"
    OBVIOUS
  <2>2. SUFFICES ASSUME NEW s \in Savepoint
                 PROVE  /\ pc[s] = "idle" <=> within[s] = {}
                        /\ pc[s] # "idle" => \E u \in Begin :
                              within[s] \cap Begin = {u} /\ state'[u] # "PENDING"
                        /\ \A f \in within[s] : f # s /\ pc'[f] # "idle"
                        /\ \A r \in within[s] \cap Savepoint : within[r] \subseteq within[s]
    BY <1>2 DEF Nested
  <2>3. QED
    BY <2>1 DEF OwnerInv, Nested, TypeOK
<1>4. Awaiting'
  <2>1. SUFFICES ASSUME NEW s \in Savepoint, UnderWay(s), NEW f \in within[s]
                 PROVE  pc'[f] \in Waiting
    BY <1>2 DEF Awaiting
  <2>2. pc[f] \in Waiting /\ f \in Flow
    BY <2>1 DEF OwnerInv, Awaiting, TypeOK
  <2>3. f = t => pc'[t] \in Waiting
    BY <1>1, <2>1, <2>2, NothingInside DEF OwnerInv
  <2>4. QED
    BY <2>2, <2>3
<1>5. Owner'
  <2>1. CASE stack' = <<>>
    BY <2>1 DEF Owner
  <2>2. CASE stack' = <<Frame(0, t)>> /\ Opened(t)'
    <3>1. SUFFICES (pc[t] # "idle" /\ Opened(Root(t)))'
      BY <2>2 DEF Owner, Frame
    <3>2. Root(t)' = t
      BY <1>1, RootFacts, RootSame DEF OwnerInv
    <3>3. QED
      BY <2>2, <3>2
  <2>3. CASE Shrinks /\ (Opened(t) => Opened(t)')
    <3>1. ASSUME NEW f \in Flow, pc[f] # "idle", Opened(Root(f))
          PROVE  pc'[f] # "idle" /\ Opened(Root(f))'
      <4>1. Root(f) \in Begin /\ Root(f)' = Root(f) /\ Root(f) \in Flow
        BY <1>1, <3>1, RootFacts, RootSame DEF OwnerInv
      <4>2. Root(f) # t => Opened(Root(f))'
        BY <3>1, <4>1 DEF Opened
      <4>3. QED
        BY <2>3, <3>1, <4>1, <4>2
    <3>2. QED
      BY <2>3, <3>1, OwnerFrames DEF OwnerInv
  <2>4. QED
    BY <2>1, <2>2, <2>3
<1>6. QED
  BY <1>3, <1>4, <1>5 DEF OwnerInv

\* Frames that stay, and nothing else.
LEMMA FramesMove ==
    ASSUME OwnerInv, TypeOK', UNCHANGED <<within, state, pc>>, Shrinks
    PROVE  OwnerInv'
<1>1. States' /\ Nested' /\ Awaiting'
  BY DEF OwnerInv, States, Nested, Awaiting, UnderWay
<1>2. Owner'
  <2>1. ASSUME NEW f \in Flow, pc[f] # "idle", Opened(Root(f))
        PROVE  pc'[f] # "idle" /\ Opened(Root(f))'
    BY <2>1, RootSame DEF Opened
  <2>2. QED
    BY <2>1, OwnerFrames DEF OwnerInv
<1>3. QED
  BY <1>1, <1>2 DEF OwnerInv

\* What savepoint() does.
LEMMA SendSavepointEffect ==
    ASSUME TypeOK, Nested, NEW s \in Savepoint, NEW f \in Flow, SendSavepoint(s, f)
    PROVE  /\ f # s /\ pc[s] = "idle" /\ pc[f] = "callback" /\ Running(f)
           /\ Root(f) \in Begin /\ state[Root(f)] = "ACTIVE"
           /\ within'[s] = Around(f) /\ pc'[s] = "created" /\ name'[s] \in Nat \ {0}
           /\ \A r \in Savepoint : r # s => within'[r] = within[r] /\ name'[r] = name[r]
           /\ \A g \in Flow : g # s => pc'[g] = pc[g]
           /\ Len(stack') = Len(stack) + 1 /\ stack'[Len(stack')] = Frame(name'[s], s)
           /\ \A i \in DOMAIN stack : i \in DOMAIN stack' /\ stack'[i] = stack[i]
           /\ stack' \in Seq(FrameSet) /\ counter' \in [Begin -> Nat]
           /\ name' \in [Savepoint -> Nat] /\ within' \in [Savepoint -> SUBSET Flow]
<1>1. /\ pc[s] = "idle" /\ pc[f] = "callback" /\ f # s /\ s \in Flow /\ Running(f)
      /\ state[Root(f)] = "ACTIVE"
  BY DEF SendSavepoint, Running, Flow
<1>2. Root(f) \in Begin /\ Around(f) \in SUBSET Flow
  <2>1. f \in Begin \/ f \in Savepoint
    BY DEF Flow
  <2>2. Around(f) \in SUBSET Flow
    BY <2>1, RootFacts DEF TypeOK
  <2>3. QED
    BY <1>1, <2>1, <2>2, RootFacts
<1>3. /\ name'[s] \in Nat \ {0} /\ name' \in [Savepoint -> Nat]
      /\ \A r \in Savepoint : r # s => name'[r] = name[r]
      /\ counter' \in [Begin -> Nat]
  <2>1. PICK n \in Nat \ {0} : name' = [name EXCEPT ![s] = n]
    BY <1>2, TransactionAssumption DEF SendSavepoint, TypeOK, NextName
  <2>2. counter' \in [Begin -> Nat]
    <3>1. counter' = counter \/ counter' = [counter EXCEPT ![Root(f)] = @ + 1]
      BY DEF SendSavepoint
    <3>2. counter \in [Begin -> Nat]
      BY DEF TypeOK
    <3>3. QED
      BY <1>2, <3>1, <3>2
  <2>3. QED
    BY <2>1, <2>2 DEF TypeOK
<1>4. /\ within'[s] = Around(f) /\ within' \in [Savepoint -> SUBSET Flow]
      /\ \A r \in Savepoint : r # s => within'[r] = within[r]
  BY <1>2 DEF SendSavepoint, TypeOK
<1>5. pc'[s] = "created" /\ \A g \in Flow : g # s => pc'[g] = pc[g]
  BY <1>1 DEF SendSavepoint, Goto, TypeOK
<1>6. PICK e \in FrameSet : e = Frame(name'[s], s)
  BY <1>1, <1>3 DEF Frame, FrameSet
<1>7. stack' = Append(stack, e) /\ stack \in Seq(FrameSet)
  BY <1>6 DEF SendSavepoint, TypeOK
<1>8. /\ Len(stack') = Len(stack) + 1 /\ stack'[Len(stack')] = e /\ stack' \in Seq(FrameSet)
      /\ \A i \in DOMAIN stack : i \in DOMAIN stack' /\ stack'[i] = stack[i]
  BY <1>7
<1>9. QED
  BY <1>1, <1>2, <1>3, <1>4, <1>5, <1>6, <1>8

LEMMA SendSavepointOwner ==
    ASSUME ~Branches, OwnerInv, TypeOK', NEW s \in Savepoint, NEW f \in Flow, SendSavepoint(s, f)
    PROVE  OwnerInv'
<1>1. Begin \cap Savepoint = {} /\ Flow = Begin \cup Savepoint /\ s \in Flow
  BY TransactionAssumption DEF Flow
<1>2. TypeOK /\ Nested /\ States /\ Awaiting /\ Owner
  BY DEF OwnerInv
<1>3. UNCHANGED state
  BY DEF SendSavepoint
<1>4. /\ f # s /\ pc[s] = "idle" /\ pc[f] = "callback" /\ Running(f) /\ Root(f) \in Begin
      /\ state[Root(f)] = "ACTIVE" /\ within'[s] = Around(f) /\ pc'[s] = "created"
      /\ \A r \in Savepoint : r # s => within'[r] = within[r]
      /\ \A g \in Flow : g # s => pc'[g] = pc[g]
  BY <1>2, SendSavepointEffect
<1>5. States'
  BY <1>1, <1>2, <1>3, <1>4 DEF States
<1>6. /\ Around(f) \in SUBSET Flow /\ f \in Around(f)
      /\ Around(f) \cap Begin = {Root(f)}
      /\ \A g \in Around(f) : g # s /\ pc[g] # "idle"
      /\ \A g \in Around(f) \cap Savepoint : within[g] \subseteq Around(f)
  <2>1. CASE f \in Begin
    BY <1>1, <1>2, <1>4, <2>1, RootFacts
  <2>2. CASE f \in Savepoint
    <3>1. Around(f) = {f} \cup within[f] /\ within[f] \cap Begin = {Root(f)}
      BY <1>2, <1>4, <2>2, RootFacts
    <3>2. \A g \in within[f] : pc[g] # "idle"
      BY <1>2, <2>2 DEF Nested
    <3>3. \A g \in within[f] \cap Savepoint : within[g] \subseteq within[f]
      BY <1>2, <2>2 DEF Nested
    <3>4. within[f] \in SUBSET Flow
      BY <1>2, <2>2 DEF TypeOK
    <3>5. QED
      BY <1>1, <1>4, <2>2, <3>1, <3>2, <3>3, <3>4
  <2>3. QED
    BY <1>1, <2>1, <2>2
<1>7. Nested'
  <2>1. SUFFICES ASSUME NEW r \in Savepoint
                 PROVE  /\ pc'[r] = "idle" <=> within'[r] = {}
                        /\ pc'[r] # "idle" => \E t \in Begin :
                              within'[r] \cap Begin = {t} /\ state[t] # "PENDING"
                        /\ \A g \in within'[r] : g # r /\ pc'[g] # "idle"
                        /\ \A g \in within'[r] \cap Savepoint : within'[g] \subseteq within'[r]
    BY <1>3 DEF Nested
  <2>2. CASE r = s
    BY <1>1, <1>4, <1>6, <2>2
  <2>3. CASE r # s
    <3>1. /\ pc[r] = "idle" <=> within[r] = {}
          /\ pc[r] # "idle" => \E t \in Begin : within[r] \cap Begin = {t} /\ state[t] # "PENDING"
          /\ \A g \in within[r] : g # r /\ pc[g] # "idle" /\ g \in Flow
          /\ \A g \in within[r] \cap Savepoint : within[g] \subseteq within[r]
      BY <1>2 DEF Nested, TypeOK
    <3>2. \A g \in within[r] : g # s
      BY <1>4, <3>1
    <3>3. QED
      BY <1>1, <1>4, <2>3, <3>1, <3>2
  <2>4. QED
    BY <2>2, <2>3
<1>run. \A g \in Around(f) : pc[g] = "callback"
  BY <1>4 DEF Running
<1>8. Awaiting'
  <2>1. SUFFICES ASSUME NEW r \in Savepoint, UnderWay(r)', NEW g \in within'[r]
                 PROVE  pc'[g] \in Waiting
    BY DEF Awaiting
  <2>2. CASE r = s
    BY <1>4, <1>6, <1>run, <2>1, <2>2 DEF Waiting
  <2>3. CASE r # s
    <3>1. UnderWay(r) /\ g \in within[r] /\ g \in Flow
      BY <1>1, <1>2, <1>4, <2>1, <2>3 DEF UnderWay, TypeOK
    <3>2. g # s
      BY <1>2, <1>4, <3>1 DEF Nested
    <3>3. QED
      BY <1>2, <1>4, <3>1, <3>2 DEF Awaiting
  <2>4. QED
    BY <2>2, <2>3
<1>9. Owner'
  <2>1. SUFFICES ASSUME NEW i \in DOMAIN stack'
                 PROVE  (pc[stack[i].by] # "idle" /\ Opened(Root(stack[i].by)))'
    BY DEF Owner
  <2>2. Root(s)' = Root(f) /\ Root(f) \in Flow
    <3>1. Around(s)' = {s} \cup Around(f)
      BY <1>1, <1>4 DEF Around
    <3>2. \A u \in Around(s)' : u \in Begin <=> u = Root(f)
      BY <1>1, <1>6, <3>1
    <3>3. QED
      BY <1>1, <1>4, <1>6, <3>1, <3>2 DEF Root
  <2>3. CASE i = Len(stack')
    <3>1. stack'[i].by = s
      BY <1>2, <2>3, SendSavepointEffect DEF Frame
    <3>2. Root(f) # s /\ pc[Root(f)] = "callback"
      BY <1>1, <1>4, <1>6, <1>run
    <3>3. Opened(Root(f))'
      <4>1. PICK u \in Begin : u = Root(f)
        BY <1>4
      <4>2. Root(f)' = u
        BY <1>1, <1>4, <4>1, RootSame
      <4>3. Opened(u)'
        BY <1>1, <1>3, <1>4, <3>2, <4>1 DEF Opened
      <4>4. QED
        BY <4>2, <4>3
    <3>4. Root(f)' = Root(f)
      BY <1>4, RootSame
    <3>5. QED
      BY <1>4, <2>2, <3>1, <3>3, <3>4
  <2>4. CASE i # Len(stack')
    <3>1. PICK g \in Flow : i \in DOMAIN stack /\ stack[i].by = g /\ stack'[i].by = g
      <4>1. i \in DOMAIN stack /\ stack'[i] = stack[i]
        <5>1. /\ stack \in Seq(FrameSet) /\ stack' \in Seq(FrameSet)
              /\ Len(stack') = Len(stack) + 1
              /\ \A k \in DOMAIN stack : stack'[k] = stack[k]
          BY <1>2, SendSavepointEffect DEF TypeOK
        <5>2. i \in DOMAIN stack
          BY <2>1, <2>4, <5>1
        <5>3. QED
          BY <5>1, <5>2
      <4>2. stack[i] \in FrameSet
        BY <1>2, <4>1 DEF TypeOK
      <4>3. QED
        BY <4>1, <4>2 DEF FrameSet
    <3>2. pc[g] # "idle" /\ Opened(Root(g)) /\ g # s
      BY <1>2, <1>4, <3>1 DEF Owner
    <3>3. PICK u \in Begin : u = Root(g) /\ Root(g)' = u /\ u # s
      BY <1>1, <1>2, <1>4, <3>2, RootFacts, RootSame
    <3>4. Opened(u)'
      BY <1>1, <1>3, <1>4, <3>2, <3>3 DEF Opened
    <3>5. QED
      BY <1>4, <3>1, <3>2, <3>3, <3>4
  <2>5. QED
    BY <2>3, <2>4
<1>10. QED
  BY <1>5, <1>7, <1>8, <1>9 DEF OwnerInv

\* A call moves along its own path.
LEMMA GotoEffect ==
    ASSUME TypeOK, NEW f \in Flow, NEW p, Goto(f, p),
           f \in Begin => p \in BeginPc, f \in Savepoint => p \in SavepointPc
    PROVE  /\ pc' \in [Flow -> BeginPc \cup SavepointPc]
           /\ \A t \in Begin : pc'[t] \in BeginPc
           /\ \A s \in Savepoint : pc'[s] \in SavepointPc
           /\ pc'[f] = p /\ \A g \in Flow : g # f => pc'[g] = pc[g]
<1>1. pc' = [pc EXCEPT ![f] = p] /\ (f \in Begin \/ f \in Savepoint)
  BY DEF Goto, Flow
<1>2. pc \in [Flow -> BeginPc \cup SavepointPc] /\ p \in BeginPc \cup SavepointPc
  BY <1>1 DEF TypeOK
<1>3. pc'[f] = p /\ \A g \in Flow : g # f => pc'[g] = pc[g]
  BY <1>1, <1>2
<1>4. pc' \in [Flow -> BeginPc \cup SavepointPc]
  BY <1>1, <1>2
<1>5. \A g \in Flow : (pc'[g] = p /\ g = f) \/ pc'[g] = pc[g]
  BY <1>3
<1>6. QED
  BY <1>3, <1>4, <1>5 DEF TypeOK, Flow

LEMMA FramesType ==
    ASSUME stack \in Seq(FrameSet)
    PROVE  /\ AllWrites(stack) \in SUBSET Statement
           /\ \A t \in Flow : <<Frame(0, t)>> \in Seq(FrameSet)
<1>1. \A i \in DOMAIN stack : stack[i] \in FrameSet
  OBVIOUS
<1>2. \A i \in DOMAIN stack : stack[i].writes \in SUBSET Statement
  BY <1>1 DEF FrameSet
<1>3. ASSUME NEW t \in Flow PROVE <<Frame(0, t)>> \in Seq(FrameSet)
  <2>1. Frame(0, t) \in FrameSet
    BY DEF Frame, FrameSet
  <2>2. QED
    BY <2>1
<1>4. QED
  BY <1>2, <1>3 DEF AllWrites

\* The statements a flow has executed, and what happened inside it, are statements.
LEMMA InsideType ==
    ASSUME TypeOK, NEW f \in Flow
    PROVE  Writes(f) \in SUBSET Statement /\ Inside(f) \in SUBSET Statement
<1>1. \A g \in Flow : Writes(g) \in SUBSET Statement
  BY DEF Writes, TypeOK, Statement
<1>2. QED
  BY <1>1 DEF Inside

\* The steps of begin() t.
BeginStep(t) ==
    \/ SendBegin(t) \/ Began(t) \/ Return(t) \/ Committed(t)
    \/ Throw(t) \/ Catch(t) \/ RolledBack(t) \/ Called(t)
    \/ \E f \in Flow : CallCommit(t, f) \/ CallRollback(t, f)

\* The steps of savepoint() s once it has begun.
SavepointStep(s) ==
    \/ Created(s) \/ SendRelease(s) \/ Released(s) \/ ThrowOut(s) \/ Undo(s)
    \/ CallReleased(s) \/ \E f \in Flow : CallRelease(s, f) \/ CallRollbackTo(s, f)

\* A step on the handle of flow g is that of a callback that is running in it, and
\* the savepoints in between are orphans from then on.
ByCaller(g) == \E f \in Flow : Running(f) /\ g \in Around(f) /\ Between(g, f) \subseteq orphans'

\* Only savepoints are orphaned, and none by the callback of the flow itself.
LEMMA BetweenFacts ==
    ASSUME TypeOK, Nested
    PROVE  /\ \A f, g \in Flow : Between(g, f) \subseteq Savepoint
           /\ \A g \in Flow : pc[g] # "idle" /\ Running(g) => ByCaller(g)
<1>1. Begin \cap Savepoint = {} /\ Flow = Begin \cup Savepoint
  BY TransactionAssumption DEF Flow
<1>2. ASSUME NEW f \in Flow, NEW g \in Flow, NEW x \in Between(g, f) PROVE x \in Savepoint
  <2>1. x # g /\ x \in Flow /\ g \in Around(x)
    BY AroundIsFlows DEF Between
  <2>2. x \notin Begin
    BY <2>1 DEF Around
  <2>3. QED
    BY <1>1, <2>1, <2>2
<1>3. ASSUME NEW g \in Flow, pc[g] # "idle", Running(g) PROVE ByCaller(g)
  <2>1. ASSUME NEW x \in Between(g, g) PROVE FALSE
    <3>1. x \in Savepoint /\ x \in Around(g) /\ x # g /\ g \in Around(x)
      BY <1>2 DEF Between
    <3>2. g \in Savepoint /\ x \in within[g] /\ g \in within[x]
      BY <1>1, <3>1 DEF Around
    <3>3. within[x] \subseteq within[g] /\ g \notin within[g]
      BY <3>1, <3>2 DEF Nested
    <3>4. QED
      BY <3>2, <3>3
  <2>2. g \in Around(g)
    BY DEF Around
  <2>3. QED
    BY <1>3, <2>1, <2>2 DEF ByCaller
<1>4. QED
  BY <1>2, <1>3

\* What a step of begin() t changes.
LEMMA BeginEffect ==
    ASSUME OwnerInv, NEW t \in Begin, BeginStep(t)
    PROVE  /\ TypeOK' /\ UNCHANGED <<counter, within, name, usable, wrote, plain, closed, undone, strayed>>
           /\ orphans \subseteq orphans'
           /\ Running(t) \/ pc[t] \notin Waiting \/ pc'[t] \in Waiting
           /\ \/ ByCaller(t) \/ pc[t] \notin Waiting
              \/ UNCHANGED server /\ pc'[t] = "callback" /\ (pc[t] = "callback" => state'[t] = state[t])
           /\ pc'[t] # "idle" /\ (pc'[t] = "resolved" => pc[t] = "committed")
           /\ pc[t] \notin Settled
           /\ \A f \in Flow : f # t => pc'[f] = pc[f]
           /\ \A u \in Begin : u # t => state'[u] = state[u]
           /\ state[t] # "PENDING" => state'[t] # "PENDING"
           /\ Done(t) => Done(t)'
           /\ pc'[t] = "callback" /\ state'[t] = "ACTIVE" =>
                 pc[t] = "begun" \/ (pc[t] = "callback" /\ state[t] = "ACTIVE" /\ UNCHANGED server)
           /\ \/ /\ UNCHANGED server /\ (stack = <<>> \/ (Opened(t) => Opened(t)'))
                 /\ Opened(t)' => Opened(t)
                 /\ pc'[t] # "committed"
              \/ /\ pc[t] = "idle" /\ stack = <<>> /\ stack' = <<Frame(0, t)>> /\ durable' = durable
                 /\ pc'[t] = "begun"
              \/ Opened(t) /\ stack' = <<>> /\ durable' = durable
                 /\ pc'[t] \in {"rolledback", "callRolledBack"}
              \/ /\ Opened(t) /\ state[t] = "ACTIVE" /\ stack' = <<>>
                 /\ durable' = durable \cup AllWrites(stack)
                 /\ pc[t] = "callback" /\ pc'[t] \in {"committed", "callCommitted"}
           /\ States'
<1>1. t \in Flow /\ TypeOK /\ States /\ Nested /\ t \notin Savepoint
  BY TransactionAssumption DEF Flow, OwnerInv
<1>2. stack \in Seq(FrameSet) /\ state \in [Begin -> State] /\ <<>> \in Seq(FrameSet)
      /\ durable \in SUBSET Statement
  BY <1>1 DEF TypeOK
<1>3. AllWrites(stack) \in SUBSET Statement /\ <<Frame(0, t)>> \in Seq(FrameSet)
  BY <1>1, <1>2, FramesType
<1>4. UNCHANGED <<counter, within, name, usable, wrote, plain, closed, undone, strayed>>
  BY DEF BeginStep, SendBegin, Began, Return, Commit, Committed, Throw, Catch, RolledBack,
     CallCommit, CallRollback, Called, others, history
<1>orp. orphans \subseteq orphans' /\ orphans' \in SUBSET Savepoint
  <2>1. \/ orphans' = orphans
        \/ \E f \in Flow : orphans' = orphans \cup Between(t, f)
    BY DEF BeginStep, SendBegin, Began, Return, Commit, Committed, Throw, Catch, RolledBack,
       CallCommit, CallRollback, Called, others, history
  <2>2. QED
    BY <1>1, <2>1, BetweenFacts DEF TypeOK
<1>5. PICK p \in BeginPc : Goto(t, p)
  BY DEF BeginStep, SendBegin, Began, Return, Commit, Committed, Throw, Catch, RolledBack,
     CallCommit, CallRollback, Called, BeginPc, Settled
<1>6. /\ pc' \in [Flow -> BeginPc \cup SavepointPc]
      /\ \A u \in Begin : pc'[u] \in BeginPc
      /\ \A s \in Savepoint : pc'[s] \in SavepointPc
      /\ pc'[t] = p /\ \A f \in Flow : f # t => pc'[f] = pc[f]
  BY <1>1, <1>5, GotoEffect
<1>7. PICK x \in State : state' = [state EXCEPT ![t] = x]
  <2>1. state = [state EXCEPT ![t] = state[t]] /\ state[t] \in State
    BY <1>2
  <2>2. QED
    BY <2>1 DEF BeginStep, SendBegin, Began, Return, Commit, Committed, Throw, Catch, RolledBack,
       CallCommit, CallRollback, Called, State
<1>8. state'[t] = x /\ (\A u \in Begin : u # t => state'[u] = state[u]) /\ state' \in [Begin -> State]
  BY <1>2, <1>7
<1>9. stack' \in Seq(FrameSet) /\ durable' \in SUBSET Statement
  BY <1>2, <1>3 DEF BeginStep, SendBegin, Began, Return, Commit, Committed, Throw, Catch,
     RolledBack, CallCommit, CallRollback, Called, server
<1>10. TypeOK'
  BY <1>1, <1>4, <1>orp, <1>6, <1>8, <1>9 DEF TypeOK
<1> DEFINE Moves ==
       /\ Running(t) \/ pc[t] \notin Waiting \/ p \in Waiting
       /\ \/ ByCaller(t) \/ pc[t] \notin Waiting
          \/ UNCHANGED server /\ p = "callback" /\ (pc[t] = "callback" => x = state[t])
       /\ p # "idle" /\ (p = "resolved" => pc[t] = "committed") /\ pc[t] \notin Settled
       /\ state[t] # "PENDING" => x # "PENDING"
       /\ Done(t) => p \in {"committed", "callCommitted"} \/ x = "COMMITTED"
       /\ p = "callback" /\ x = "ACTIVE" =>
             pc[t] = "begun" \/ (pc[t] = "callback" /\ state[t] = "ACTIVE" /\ UNCHANGED server)
       /\ p \in {"idle", "begun"} => x = "PENDING"
       /\ p = "callback" => x # "PENDING"
       /\ p \in {"committed", "rolledback", "callCommitted", "callRolledBack"} => x = "ACTIVE"
       /\ \/ /\ UNCHANGED server /\ (stack = <<>> \/ (Opened(t) => Opened(t)'))
             /\ Opened(t)' => Opened(t)
             /\ p # "committed"
          \/ /\ pc[t] = "idle" /\ stack = <<>> /\ stack' = <<Frame(0, t)>> /\ durable' = durable
             /\ p = "begun"
          \/ Opened(t) /\ stack' = <<>> /\ durable' = durable
             /\ p \in {"rolledback", "callRolledBack"}
          \/ /\ Opened(t) /\ state[t] = "ACTIVE" /\ stack' = <<>>
             /\ durable' = durable \cup AllWrites(stack)
             /\ pc[t] = "callback" /\ p \in {"committed", "callCommitted"}
<1>11. Moves
  <2>1. p = pc'[t] /\ x = state'[t] /\ p \in BeginPc
    BY <1>6, <1>8
  <2>own. Running(t) /\ pc[t] = "callback" => ByCaller(t)
    BY <1>1, BetweenFacts
  <2>2. CASE SendBegin(t) \/ Began(t)
    BY <1>1, <1>2, <1>8, <2>1, <2>2 DEF SendBegin, Began, Goto, TypeOK, States, Opened, Done, Settled,
       server, Waiting
  <2>3. CASE Return(t)
    BY <1>1, <1>2, <1>8, <2>1, <2>own, <2>3 DEF Return, Commit, Running, Goto, TypeOK, States,
       Opened, Done, Settled, server, Waiting
  <2>4. CASE Committed(t) \/ Throw(t) \/ RolledBack(t) \/ Called(t)
    BY <1>1, <1>2, <1>8, <2>1, <2>own, <2>4 DEF Committed, Throw, RolledBack, Called, Running, Goto,
       TypeOK, States, Opened, Done, Settled, server, Waiting
  <2>5. CASE Catch(t)
    BY <1>1, <1>2, <1>8, <2>1, <2>5 DEF Catch, Goto, TypeOK, States, Opened, Done, Settled, server, Waiting
  <2>6. ASSUME NEW f \in Flow, CallCommit(t, f) \/ CallRollback(t, f) PROVE Moves
    <3>1. Running(f) /\ t \in Around(f) /\ pc[t] = "callback" /\ UNCHANGED state /\ x = state[t]
      BY <2>1, <2>6 DEF CallCommit, CallRollback
    <3>2. CASE UNCHANGED server /\ p = "callback"
      BY <1>1, <2>1, <3>1, <3>2 DEF States, Opened, Done, Settled, server, Waiting
    <3>3. CASE ~(UNCHANGED server /\ p = "callback")
      <4>1. /\ state[t] = "ACTIVE" /\ stack' = <<>> /\ Between(t, f) \subseteq orphans'
            /\ \/ p = "callCommitted" /\ durable' = durable \cup AllWrites(stack)
               \/ p = "callRolledBack" /\ durable' = durable
        BY <1>1, <2>1, <2>6, <3>1, <3>3 DEF CallCommit, CallRollback, Commit, Goto, TypeOK, server
      <4>2. ByCaller(t)
        BY <3>1, <4>1 DEF ByCaller
      <4>3. QED
        BY <1>1, <2>1, <3>1, <4>1, <4>2 DEF States, Opened, Done, Settled, server, Waiting
    <3>4. QED
      BY <3>2, <3>3
  <2>7. QED
    BY <2>2, <2>3, <2>4, <2>5, <2>6 DEF BeginStep
<1>12. States'
  BY <1>1, <1>6, <1>8, <1>11 DEF States, Flow
<1>13. QED
  BY <1>4, <1>orp, <1>6, <1>8, <1>10, <1>11, <1>12 DEF Done

\* What a step of savepoint() s changes.
LEMMA SavepointEffect ==
    ASSUME OwnerInv, NEW s \in Savepoint, SavepointStep(s)
    PROVE  /\ TypeOK' /\ UNCHANGED <<state, counter, within, name, wrote, plain, closed>>
           /\ UnderWay(s) /\ pc'[s] # "idle"
           /\ Running(s) \/ pc[s] \notin Waiting \/ pc'[s] \in Waiting
           /\ \A f \in Flow : f # s => pc'[f] = pc[f]
           /\ \A r \in Savepoint : r # s => usable'[r] = usable[r]
           /\ undone \subseteq undone' /\ orphans \subseteq orphans' /\ (strayed => strayed')
           /\ \/ UNCHANGED server /\ undone' = undone
                 /\ (pc'[s] = "rejected" => ~Open(s) \/ Newest(name[s]) = 0)
              \/ ReleaseTo(name[s]) /\ Newest(name[s]) # 0 /\ undone' = undone
                 /\ Open(s) /\ pc'[s] \in {"released", "callReleased"}
                 /\ ByCaller(s) /\ (s \in orphans => strayed')
              \/ RollbackTo(name[s]) /\ Newest(name[s]) # 0
                 /\ Open(s) /\ usable'[s] = usable[s] /\ (s \in orphans => strayed')
                 /\ \/ pc'[s] = "rejected" /\ undone' = undone /\ pc[s] = "undoing"
                    \/ pc'[s] = "callback" /\ undone' = undone \cup Inside(s) /\ ByCaller(s)
           /\ Open(s)' => Open(s)
           /\ pc'[s] = "resolved" => pc[s] = "released"
           /\ pc'[s] = "rejected" => pc[s] = "undoing" /\ usable'[s] = usable[s]
<1>1. s \in Flow /\ TypeOK /\ Nested /\ s \notin Begin
  BY TransactionAssumption DEF Flow, OwnerInv
<1>2. /\ stack \in Seq(FrameSet) /\ usable \in [Savepoint -> BOOLEAN]
      /\ durable \in SUBSET Statement /\ undone \in SUBSET Statement
      /\ orphans \in SUBSET Savepoint /\ strayed \in BOOLEAN
  BY <1>1 DEF TypeOK
<1>3. UNCHANGED <<state, counter, within, name, wrote, plain, closed>>
  BY DEF SavepointStep, Created, SendRelease, Released, ThrowOut, Undo, CallRelease, CallReleased,
     CallRollbackTo, others
<1>4. PICK p \in SavepointPc : Goto(s, p) /\ p # "idle"
  <2>1. pc = [pc EXCEPT ![s] = pc[s]] /\ pc[s] \in SavepointPc
    BY <1>1 DEF TypeOK
  <2>2. ASSUME NEW f \in Flow, CallRollbackTo(s, f)
        PROVE  Goto(s, "callback") /\ "callback" \in SavepointPc
    BY <2>1, <2>2 DEF CallRollbackTo, Goto, SavepointPc
  <2>3. CASE ~\E f \in Flow : CallRollbackTo(s, f)
    BY <2>3 DEF SavepointStep, Created, SendRelease, Released, ThrowOut, Undo, CallRelease,
       CallReleased, SavepointPc, Settled
  <2>4. QED
    BY <2>2, <2>3
<1>5. /\ pc' \in [Flow -> BeginPc \cup SavepointPc]
      /\ \A u \in Begin : pc'[u] \in BeginPc
      /\ \A r \in Savepoint : pc'[r] \in SavepointPc
      /\ pc'[s] = p /\ \A f \in Flow : f # s => pc'[f] = pc[f]
  BY <1>1, <1>4, GotoEffect
<1>6. PICK x \in BOOLEAN : usable' = [usable EXCEPT ![s] = x]
  <2>1. usable = [usable EXCEPT ![s] = usable[s]] /\ usable[s] \in BOOLEAN
    BY <1>2
  <2>2. QED
    BY <2>1 DEF SavepointStep, Created, SendRelease, Released, ThrowOut, Undo, CallRelease,
       CallReleased, CallRollbackTo
<1>7. /\ usable'[s] = x /\ (\A r \in Savepoint : r # s => usable'[r] = usable[r])
      /\ usable' \in [Savepoint -> BOOLEAN]
  BY <1>2, <1>6
<1> DEFINE Moves ==
       /\ UnderWay(s)
       /\ Running(s) \/ pc[s] \notin Waiting \/ p \in Waiting
       /\ orphans' \in SUBSET Savepoint /\ orphans \subseteq orphans'
       /\ strayed' \in BOOLEAN /\ (strayed => strayed')
       /\ \/ UNCHANGED server /\ undone' = undone
             /\ (p = "rejected" => ~Open(s) \/ Newest(name[s]) = 0)
          \/ ReleaseTo(name[s]) /\ Newest(name[s]) # 0 /\ undone' = undone
             /\ Open(s) /\ p \in {"released", "callReleased"}
             /\ ByCaller(s) /\ (s \in orphans => strayed')
          \/ RollbackTo(name[s]) /\ Newest(name[s]) # 0
             /\ Open(s) /\ x = usable[s] /\ (s \in orphans => strayed')
             /\ \/ p = "rejected" /\ undone' = undone /\ pc[s] = "undoing"
                \/ p = "callback" /\ undone' = undone \cup Inside(s) /\ ByCaller(s)
       /\ p \in {"created", "callback", "undoing"} =>
             (pc[s] = "created" \/ (x = usable[s] /\ pc[s] = "callback") \/ x = FALSE)
       /\ p = "resolved" => pc[s] = "released"
       /\ p = "rejected" => pc[s] = "undoing" /\ x = usable[s]
       /\ p # "created"
<1>8. Moves
  <2>1. p = pc'[s] /\ x = usable'[s] /\ pc[s] \in SavepointPc
    BY <1>1, <1>5, <1>7 DEF TypeOK
  <2>2. CASE Created(s) \/ Released(s) \/ ThrowOut(s) \/ CallReleased(s)
    BY <1>1, <1>2, <2>1, <2>2 DEF Created, Released, ThrowOut, CallReleased, Running, Goto, TypeOK,
       UnderWay, Open, Settled, server, others, history, Waiting
  <2>3. CASE SendRelease(s)
    <3>1. ByCaller(s) /\ Running(s) /\ pc[s] = "callback"
      BY <1>1, <2>3, BetweenFacts DEF SendRelease, Running
    <3>2. QED
      BY <1>1, <1>2, <2>1, <2>3, <3>1 DEF SendRelease, FoundFor, Goto, TypeOK, UnderWay, Open,
         Settled, server
  <2>4. ASSUME NEW f \in Flow, CallRelease(s, f) PROVE Moves
    <3>1. ByCaller(s) /\ pc[s] = "callback" /\ orphans' \in SUBSET Savepoint
      BY <1>1, <1>2, <2>4, BetweenFacts DEF CallRelease, ByCaller
    <3>2. QED
      BY <1>1, <1>2, <2>1, <2>4, <3>1 DEF CallRelease, FoundFor, Goto, TypeOK, UnderWay, Open,
         Settled, Waiting
  <2>5. CASE Undo(s)
    BY <1>1, <1>2, <2>1, <2>5 DEF Undo, FoundFor, Goto, TypeOK, UnderWay, Open, Settled, server, Waiting
  <2>6. ASSUME NEW f \in Flow, CallRollbackTo(s, f) PROVE Moves
    <3>1. ByCaller(s) /\ pc[s] = "callback" /\ orphans' \in SUBSET Savepoint
      BY <1>1, <1>2, <2>6, BetweenFacts DEF CallRollbackTo, ByCaller
    <3>2. QED
      BY <1>1, <1>2, <2>1, <2>6, <3>1 DEF CallRollbackTo, FoundFor, UnderWay, Open, Settled, Waiting
  <2>7. QED
    BY <2>2, <2>3, <2>4, <2>5, <2>6 DEF SavepointStep
<1>9. stack' \in Seq(FrameSet) /\ durable' \in SUBSET Statement /\ undone' \in SUBSET Statement
  BY <1>1, <1>2, <1>8, ReleaseEffect, RollbackEffect, InsideType DEF Shrinks, server
<1>10. TypeOK'
  BY <1>1, <1>3, <1>5, <1>7, <1>8, <1>9 DEF TypeOK
<1>11. Open(s)' => Open(s)
  BY <1>5, <1>7, <1>8 DEF Open
<1>undo. undone \subseteq undone'
  BY <1>8
<1>12. QED
  BY <1>3, <1>4, <1>5, <1>7, <1>8, <1>10, <1>11, <1>undo

\* A statement of flow f, or a plain query, and where its write goes.
LEMMA WriteEffect ==
    ASSUME ~Branches, TypeOK, NEW f \in Flow, NEW g \in Flow, Write(f, g)
    PROVE  /\ TypeOK' /\ Running(f) /\ g \in Around(f) /\ MayUse(g)
           /\ <<f, wrote[f] + 1>> \in Statement /\ Insert(<<f, wrote[f] + 1>>)
           /\ UNCHANGED <<state, counter, pc, within, name, usable, plain, closed, undone, orphans>>
           /\ strayed' = (strayed \/ (g \in orphans /\ state[Root(f)] # "ACTIVE"))
           /\ wrote'[f] = wrote[f] + 1 /\ \A h \in Flow : h # f => wrote'[h] = wrote[h]
<1>1. wrote[f] \in Nat /\ wrote \in [Flow -> Nat]
  BY DEF TypeOK
<1>2. /\ Running(f) /\ g \in Around(f) /\ MayUse(g) /\ <<f, wrote[f] + 1>> \in Statement
      /\ Insert(<<f, wrote[f] + 1>>)
      /\ UNCHANGED <<state, counter, pc, within, name, usable, plain, closed, undone, orphans>>
      /\ wrote' = [wrote EXCEPT ![f] = @ + 1]
      /\ strayed' = (strayed \/ (g \in orphans /\ state[Root(f)] # "ACTIVE"))
  BY <1>1 DEF Write, Statement
<1>3. stack' \in Seq(FrameSet) /\ durable' \in SUBSET Statement
  BY <1>2, InsertEffect DEF Shrinks
<1>4. TypeOK'
  BY <1>1, <1>2, <1>3 DEF TypeOK
<1>5. QED
  BY <1>1, <1>2, <1>4

LEMMA PlainEffect ==
    ASSUME TypeOK, NEW p \in Plain, PlainQuery(p)
    PROVE  /\ TypeOK' /\ <<p, 1>> \in Statement /\ Insert(<<p, 1>>)
           /\ UNCHANGED <<state, counter, pc, within, name, usable, wrote, closed, history>>
<1>1. /\ <<p, 1>> \in Statement /\ Insert(<<p, 1>>) /\ plain' = plain \cup {p}
      /\ UNCHANGED <<state, counter, pc, within, name, usable, wrote, closed, history>>
  BY DEF PlainQuery, Statement
<1>2. stack' \in Seq(FrameSet) /\ durable' \in SUBSET Statement
  BY <1>1, InsertEffect DEF Shrinks
<1>3. TypeOK'
  BY <1>1, <1>2 DEF TypeOK, history
<1>4. QED
  BY <1>1, <1>3

\* A statement that ends the transaction, and close(), leave an empty stack.
LEMMA EndEffect ==
    ASSUME TypeOK,
           \/ Close
           \/ \E f \in Flow : FailAndRollBack(f)
    PROVE  TypeOK' /\ stack' = <<>> /\ Shrinks
<1>1. stack' = <<>> /\ <<>> \in Seq(FrameSet)
  BY DEF Close, FailAndRollBack
<1>2. Shrinks
  BY <1>1 DEF Shrinks, TypeOK
<1>3. CASE Close
  BY <1>1, <1>2, <1>3 DEF Close, TypeOK, history
<1>4. ASSUME NEW f \in Flow, FailAndRollBack(f) PROVE TypeOK'
  <2>1. PICK p : Goto(f, p) /\ (f \in Begin => p = "catching") /\ (f \in Savepoint => p = "undoing")
    BY <1>4, TransactionAssumption DEF FailAndRollBack
  <2>2. /\ pc' \in [Flow -> BeginPc \cup SavepointPc]
        /\ \A t \in Begin : pc'[t] \in BeginPc
        /\ \A s \in Savepoint : pc'[s] \in SavepointPc
    BY <2>1, GotoEffect DEF BeginPc, SavepointPc
  <2>3. QED
    BY <1>1, <1>4, <2>2 DEF FailAndRollBack, TypeOK, others, history
<1>5. QED
  BY <1>1, <1>2, <1>3, <1>4

LEMMA FailOwner ==
    ASSUME ~Branches, OwnerInv, NEW f \in Flow, FailAndRollBack(f)
    PROVE  OwnerInv'
<1>1. /\ Running(f) /\ stack' = <<>> /\ UNCHANGED <<within, state>>
      /\ TypeOK /\ TypeOK' /\ Shrinks
  BY EndEffect DEF FailAndRollBack, OwnerInv, others
<1>2. PICK p : /\ pc' = [pc EXCEPT ![f] = p] /\ (f \in Begin => p = "catching")
               /\ (f \notin Begin => p = "undoing")
  BY DEF FailAndRollBack, Goto
<1>3. pc[f] = "callback" /\ pc'[f] = p /\ \A g \in Flow : g # f => pc'[g] = pc[g]
  BY <1>1, <1>2 DEF TypeOK, Running
<1>4. CASE f \in Begin
  <2>1. States'
    BY <1>1, <1>2, <1>3, <1>4 DEF OwnerInv, States, Flow
  <2>2. QED
    BY <1>1, <1>2, <1>3, <1>4, <2>1, BeginMoves
<1>5. CASE f \notin Begin
  <2>1. f \in Savepoint /\ UnderWay(f)
    BY <1>3, <1>5 DEF Flow, UnderWay, Settled
  <2>2. QED
    BY <1>1, <1>2, <1>3, <1>5, <2>1, SavepointMoves
<1>6. QED
  BY <1>4, <1>5

LEMMA OwnerStep ==
    ASSUME ~Branches, OwnerInv, [Next]_vars
    PROVE  OwnerInv'
<1>1. ASSUME NEW t \in Begin, BeginStep(t) PROVE OwnerInv'
  <2>1. UNCHANGED server => Shrinks
    <3>1. \A i \in DOMAIN stack : i \in DOMAIN stack
      OBVIOUS
    <3>2. stack \in Seq(FrameSet) /\ Len(stack) <= Len(stack)
      BY DEF OwnerInv, TypeOK
    <3>3. QED
      BY <3>2 DEF Shrinks, server
  <2>2. /\ TypeOK' /\ States' /\ UNCHANGED within /\ (Running(t) \/ pc[t] \notin Waiting \/ pc'[t] \in Waiting)
        /\ pc'[t] # "idle" /\ \A f \in Flow : f # t => pc'[f] = pc[f]
        /\ \A u \in Begin : u # t => state'[u] = state[u]
        /\ state[t] # "PENDING" => state'[t] # "PENDING"
    BY <1>1, BeginEffect
  <2>3. \/ stack' = <<>>
        \/ stack' = <<Frame(0, t)>> /\ Opened(t)'
        \/ Shrinks /\ (Opened(t) => Opened(t)')
    BY <1>1, <2>1, BeginEffect DEF Opened, server
  <2>4. QED
    BY <2>2, <2>3, BeginMoves
<1>2. ASSUME NEW s \in Savepoint, NEW f \in Flow, SendSavepoint(s, f) PROVE OwnerInv'
  <2>1. TypeOK'
    <3>1. TypeOK /\ Nested /\ s \in Flow /\ s \notin Begin
      BY TransactionAssumption DEF OwnerInv, Flow
    <3>2. /\ pc' \in [Flow -> BeginPc \cup SavepointPc]
          /\ \A t \in Begin : pc'[t] \in BeginPc
          /\ \A r \in Savepoint : pc'[r] \in SavepointPc
      <4>1. Goto(s, "created") /\ "created" \in SavepointPc
        BY <1>2 DEF SendSavepoint, SavepointPc
      <4>2. QED
        BY <3>1, <4>1, GotoEffect
    <3>3. /\ stack' \in Seq(FrameSet) /\ counter' \in [Begin -> Nat]
          /\ name' \in [Savepoint -> Nat] /\ within' \in [Savepoint -> SUBSET Flow]
      BY <1>2, <3>1, SendSavepointEffect
    <3>4. UNCHANGED <<durable, state, usable, wrote, plain, closed, undone, orphans, strayed>>
      BY <1>2 DEF SendSavepoint, others, history
    <3>5. QED
      BY <3>1, <3>2, <3>3, <3>4 DEF TypeOK
  <2>2. QED
    BY <1>2, <2>1, SendSavepointOwner
<1>3. ASSUME NEW s \in Savepoint, SavepointStep(s) PROVE OwnerInv'
  <2>1. /\ TypeOK /\ TypeOK' /\ UNCHANGED <<within, state>> /\ UnderWay(s)
        /\ (Running(s) \/ pc[s] \notin Waiting \/ pc'[s] \in Waiting) /\ pc'[s] # "idle"
        /\ \A f \in Flow : f # s => pc'[f] = pc[f]
    BY <1>3, SavepointEffect DEF OwnerInv
  <2>2. UNCHANGED server => Shrinks
    BY <2>1 DEF Shrinks, server, TypeOK
  <2>3. Shrinks
    BY <1>3, <2>1, <2>2, SavepointEffect, ReleaseEffect, RollbackEffect
  <2>4. QED
    BY <2>1, <2>3, SavepointMoves
<1>4. ASSUME NEW f \in Flow, NEW g \in Flow, Write(f, g) PROVE OwnerInv'
  BY <1>4, WriteEffect, InsertEffect, FramesMove DEF OwnerInv
<1>5. ASSUME NEW f \in Flow, FailAndRollBack(f) PROVE OwnerInv'
  BY <1>5, FailOwner
<1>6. ASSUME NEW p \in Plain, PlainQuery(p) PROVE OwnerInv'
  BY <1>6, PlainEffect, InsertEffect, FramesMove DEF OwnerInv
<1>7. CASE Close
  <2>1. TypeOK' /\ Shrinks /\ UNCHANGED <<within, state, pc>>
    BY <1>7, EndEffect DEF Close, OwnerInv
  <2>2. QED
    BY <2>1, FramesMove
<1>8. CASE UNCHANGED vars
  <2>1. UNCHANGED <<stack, within, state, pc>> /\ TypeOK'
    BY <1>8 DEF vars, server, others, history, OwnerInv, TypeOK
  <2>2. Shrinks
    BY <2>1 DEF Shrinks, OwnerInv, TypeOK
  <2>3. QED
    BY <2>1, <2>2, FramesMove
<1>9. QED
  BY <1>1, <1>2, <1>3, <1>4, <1>5, <1>6, <1>7, <1>8 DEF Next, BeginStep, SavepointStep

LEMMA OwnerInit == Init => OwnerInv
<1> SUFFICES ASSUME Init PROVE OwnerInv
  OBVIOUS
<1>1. <<>> \in Seq(FrameSet)
  OBVIOUS
<1>2. TypeOK
  BY <1>1 DEF Init, TypeOK, State, BeginPc, SavepointPc, Flow, Settled
<1>3. States /\ Nested /\ Awaiting /\ Owner
  BY DEF Init, States, Nested, Awaiting, Owner, UnderWay, Flow
<1>4. QED
  BY <1>2, <1>3 DEF OwnerInv

\* As long as callbacks await what they start, a begin() that settles leaves no
\* transaction open on the shared connection, whatever statements fail, end the
\* transaction or are sent by other code, and however often close() is called.
THEOREM SettledLeaveNoneOpen == ~Branches => (Spec => []NoneLeftOpen)
<1> SUFFICES ASSUME ~Branches PROVE Spec => []NoneLeftOpen
  OBVIOUS
<1>1. OwnerInv => NoneLeftOpen
  BY DEF OwnerInv, Owner, NoneLeftOpen, Opened, Settled
<1>2. QED
  BY <1>1, OwnerInit, OwnerStep, PTL DEF Spec

-------------------------------------------------------------------------------
(* What is on the stack.  *)

LEMMA FrameFacts ==
    ASSUME NEW q \in Seq(FrameSet)
    PROVE  /\ DOMAIN q = 1..Len(q) /\ Len(q) \in Nat
           /\ \A i \in DOMAIN q : q[i].by \in Flow /\ q[i].name \in Nat
           /\ \A i \in DOMAIN q : q[i].writes \in SUBSET Statement
<1>1. DOMAIN q = 1..Len(q) /\ Len(q) \in Nat /\ \A i \in DOMAIN q : q[i] \in FrameSet
  OBVIOUS
<1>2. QED
  BY <1>1 DEF FrameSet, Statement

\* Only one begin() is open on the connection.
LEMMA OneOpened ==
    ASSUME OnStack, NEW t \in Begin, NEW u \in Begin, Opened(t), Opened(u)
    PROVE  t = u
BY DEF OnStack

\* No flow is in the callbacks of two begin()s.
LEMMA OneRoot ==
    ASSUME TypeOK, Nested, NEW h \in Flow, NEW t \in Begin, NEW u \in Begin,
           t \in Around(h), u \in Around(h)
    PROVE  t = u
<1>1. h \in Begin \/ (h \in Savepoint /\ h \notin Begin)
  BY DEF Flow
<1>2. CASE pc[h] = "idle"
  <2>1. h \in Savepoint => within[h] = {}
    BY <1>2 DEF Nested
  <2>2. QED
    BY <1>1, <2>1, TransactionAssumption DEF Around
<1>3. CASE pc[h] # "idle"
  BY <1>3, RootFacts
<1>4. QED
  BY <1>2, <1>3

\* A savepoint under way runs in the callback of a begin(), inside the transaction
\* that is open unless it is an orphan.
LEMMA UnderWayOpened ==
    ASSUME OwnerInv, Live, NEW s \in Savepoint, UnderWay(s)
    PROVE  /\ Root(s) \in Begin /\ Root(s) \in within[s] /\ pc[Root(s)] \in Waiting
           /\ s \notin orphans =>
                 Opened(Root(s)) /\ pc[Root(s)] = "callback" /\ state[Root(s)] = "ACTIVE"
<1>1. Root(s) \in Begin /\ Root(s) \in within[s]
  BY RootFacts DEF OwnerInv, UnderWay
<1>2. pc[Root(s)] \in Waiting
  BY <1>1 DEF OwnerInv, Awaiting
<1>3. s \notin orphans => pc[Root(s)] = "callback" /\ state[Root(s)] = "ACTIVE"
  BY DEF Live
<1>4. QED
  BY <1>1, <1>2, <1>3 DEF Opened

\* A callback that is running is the innermost: all that is under way in its
\* begin() is around it.
LEMMA Inner ==
    ASSUME ~Branches, StackInv, NEW f \in Flow, Running(f)
    PROVE  /\ Root(f) \in Begin /\ Root(f) \in Around(f) /\ pc[Root(f)] = "callback"
           /\ state[Root(f)] = "ACTIVE" => Opened(Root(f))
           /\ \A x \in Savepoint : UnderWay(x) /\ Root(x) = Root(f) => x \in Around(f)
<1>1. /\ OwnerInv /\ TypeOK /\ Nested /\ Awaiting /\ Live /\ Chain /\ pc[f] = "callback"
      /\ Begin \cap Savepoint = {} /\ Flow = Begin \cup Savepoint
      /\ \A g \in Around(f) : pc[g] = "callback"
  BY TransactionAssumption DEF StackInv, OwnerInv, Running, Flow
<1>2. \A x \in Savepoint : UnderWay(x) => f \notin within[x]
  BY <1>1, NothingInside
<1>3. Root(f) \in Begin /\ Root(f) \in Around(f)
  <2>1. CASE f \in Begin
    BY <1>1, <2>1, RootFacts
  <2>2. CASE f \in Savepoint
    BY <1>1, <2>2, RootFacts
  <2>3. QED
    BY <1>1, <2>1, <2>2
<1>4. pc[Root(f)] = "callback" /\ (state[Root(f)] = "ACTIVE" => Opened(Root(f)))
  BY <1>1, <1>3 DEF Opened
<1>5. ASSUME NEW x \in Savepoint, UnderWay(x), Root(x) = Root(f) PROVE x \in Around(f)
  <2>1. Around(x) = {x} \cup within[x] /\ Root(x) \in within[x]
    BY <1>1, <1>5, RootFacts, UnderWayOpened
  <2>2. CASE f \in Begin
    BY <1>1, <1>2, <1>5, <2>1, <2>2, RootFacts
  <2>3. CASE f \in Savepoint
    <3>1. UnderWay(f)
      BY <1>1 DEF UnderWay, Settled
    <3>2. x \in Around(f) \/ f \in Around(x)
      BY <1>1, <1>5, <2>3, <3>1 DEF Chain
    <3>3. f = x => x \in Around(f)
      BY DEF Around
    <3>4. QED
      BY <1>2, <1>5, <2>1, <3>2, <3>3
  <2>4. QED
    BY <1>1, <2>2, <2>3
<1>6. QED
  BY <1>3, <1>4, <1>5

\* What is under way inside a flow is orphaned by a step on the flow's handle.
LEMMA InsideOrphaned ==
    ASSUME ~Branches, StackInv, NEW g \in Flow, ByCaller(g),
           NEW x \in Savepoint, UnderWay(x), g \in within[x]
    PROVE  x \in orphans'
<1>1. /\ OwnerInv /\ TypeOK /\ Nested /\ Begin \cap Savepoint = {} /\ Flow = Begin \cup Savepoint
  BY TransactionAssumption DEF StackInv, OwnerInv, Flow
<1>2. PICK f \in Flow : Running(f) /\ g \in Around(f) /\ Between(g, f) \subseteq orphans'
  BY DEF ByCaller
<1>3. Root(x) = Root(g) /\ x # g /\ g \in Around(x)
  BY <1>1, RootFacts DEF UnderWay, Nested, Around
<1>4. Root(g) = Root(f)
  <2>1. pc[f] # "idle"
    BY <1>2 DEF Running
  <2>2. QED
    BY <1>1, <1>2, <2>1, RootFacts
<1>5. x \in Around(f)
  BY <1>2, <1>3, <1>4, Inner
<1>6. QED
  BY <1>2, <1>3, <1>5 DEF Between

\* A statement goes through a handle whose transaction is open, or it strays.
LEMMA WriteOpened ==
    ASSUME ~Branches, StackInv, ~strayed', NEW f \in Flow, NEW g \in Flow, Write(f, g)
    PROVE  state[Root(f)] = "ACTIVE"
<1>1. /\ OwnerInv /\ TypeOK /\ Nested /\ Live
      /\ Begin \cap Savepoint = {} /\ Flow = Begin \cup Savepoint
  BY TransactionAssumption DEF StackInv, OwnerInv, Flow
<1>2. /\ Running(f) /\ g \in Around(f) /\ MayUse(g) /\ pc[f] = "callback" /\ pc[g] = "callback"
      /\ g \in orphans => state[Root(f)] = "ACTIVE"
  BY <1>1, WriteEffect DEF Running
<1>3. CASE g \in Begin
  BY <1>1, <1>2, <1>3, RootFacts DEF MayUse
<1>4. CASE g \in Savepoint /\ g \notin orphans
  <2>1. Root(g) = Root(f)
    BY <1>1, <1>2, RootFacts
  <2>2. UnderWay(g)
    BY <1>2 DEF UnderWay, Settled
  <2>3. QED
    BY <1>1, <1>4, <2>1, <2>2 DEF Live
<1>5. QED
  BY <1>1, <1>2, <1>3, <1>4

\* What a begin() has kept can only become less once it has committed.
LEMMA KeptLess ==
    ASSUME NEW u \in Begin, undone \subseteq undone',
           \A h \in Flow : u \in Around(h)' =>
               /\ Around(h)' = Around(h) /\ wrote'[h] = wrote[h]
               /\ \A s \in Around(h) \ {u} : pc'[s] = "resolved" => pc[s] = "resolved"
    PROVE  Kept(u)' \subseteq Kept(u)
<1> DEFINE K == {h \in Flow : u \in Around(h) /\ \A s \in Around(h) \ {u} : pc[s] = "resolved"}
<1>1. Kept(u) = (UNION {Writes(h) : h \in K}) \ undone
  BY DEF Kept
<1>2. Kept(u)' = (UNION {Writes(h)' : h \in K'}) \ undone'
  BY DEF Kept
<1>3. ASSUME NEW h \in K' PROVE h \in K /\ Writes(h)' = Writes(h)
  <2>1. h \in Flow /\ u \in Around(h)' /\ \A s \in Around(h)' \ {u} : pc'[s] = "resolved"
    OBVIOUS
  <2>2. QED
    BY <2>1 DEF Writes
<1> HIDE DEF K
<1>4. QED
  BY <1>1, <1>2, <1>3

\* A step of begin(): nothing in its transaction is under way any more when its
\* frames go.
LEMMA BeginStack ==
    ASSUME ~Branches, StackInv, OwnerInv', NEW t \in Begin, BeginStep(t)
    PROVE  StackInv'
<1>1. /\ Begin \cap Savepoint = {} /\ Flow = Begin \cup Savepoint /\ t \in Flow
      /\ OwnerInv /\ TypeOK /\ Nested /\ Awaiting /\ States /\ TypeOK' /\ Live
  BY TransactionAssumption DEF StackInv, OwnerInv, Flow
<1>2. /\ UNCHANGED <<within, name, usable, wrote, undone>>
      /\ pc'[t] # "idle" /\ (pc'[t] = "resolved" => pc[t] = "committed") /\ pc[t] \notin Settled
      /\ \A f \in Flow : f # t => pc'[f] = pc[f]
      /\ \A u \in Begin : u # t => state'[u] = state[u]
      /\ state[t] # "PENDING" => state'[t] # "PENDING"
      /\ Done(t) => Done(t)'
      /\ orphans \subseteq orphans'
      /\ \/ ByCaller(t) \/ pc[t] \notin Waiting
         \/ UNCHANGED server /\ pc'[t] = "callback" /\ (pc[t] = "callback" => state'[t] = state[t])
  BY <1>1, BeginEffect
<1>3. /\ \A f \in Flow : Around(f)' = Around(f) /\ Root(f)' = Root(f) /\ Writes(f)' = Writes(f)
      /\ \A s \in Savepoint : pc'[s] = pc[s] /\ UnderWay(s)' = UnderWay(s) /\ Open(s)' = Open(s)
      /\ \A u \in Begin : u # t => Opened(u)' = Opened(u) /\ Done(u)' = Done(u) /\ pc'[u] = pc[u]
  BY <1>1, <1>2, RootSame DEF Writes, UnderWay, Open, Opened, Done
<1>in. ASSUME ByCaller(t) \/ pc[t] \notin Waiting, NEW s \in Savepoint, UnderWay(s), Root(s) = t
       PROVE  s \in orphans'
  <2>1. t \in within[s]
    BY <1>1, <1>in, UnderWayOpened
  <2>2. ByCaller(t)
    BY <1>1, <1>in, <2>1, NothingInside
  <2>3. QED
    BY <1>1, <1>in, <2>1, <2>2, InsideOrphaned
<1>4. ASSUME ByCaller(t) \/ pc[t] \notin Waiting, Opened(t), NEW s \in Savepoint, UnderWay(s)
      PROVE  s \in orphans'
  <2>1. CASE s \in orphans
    BY <1>2, <2>1
  <2>2. CASE s \notin orphans
    <3>1. Root(s) \in Begin /\ Opened(Root(s))
      BY <1>1, <1>4, <2>2, UnderWayOpened
    <3>2. Root(s) = t
      BY <1>4, <3>1, OneOpened DEF StackInv
    <3>3. QED
      BY <1>in, <1>4, <3>2
  <2>3. QED
    BY <2>1, <2>2
<1>live. Live'
  <2>1. SUFFICES ASSUME NEW s \in Savepoint, UnderWay(s)', s \notin orphans'
                 PROVE  (pc[Root(s)] = "callback" /\ state[Root(s)] = "ACTIVE")'
    BY DEF Live
  <2>2. /\ UnderWay(s) /\ s \notin orphans /\ Root(s)' = Root(s) /\ Root(s) \in Begin
        /\ pc[Root(s)] = "callback" /\ state[Root(s)] = "ACTIVE"
    BY <1>1, <1>2, <1>3, <2>1, UnderWayOpened
  <2>3. PICK u \in Begin : u = Root(s)
    BY <2>2
  <2>4. pc'[u] = "callback" /\ state'[u] = "ACTIVE"
    <3>1. CASE u # t
      BY <1>2, <1>3, <2>2, <2>3, <3>1
    <3>2. CASE u = t
      <4>1. ~ByCaller(t) /\ pc[t] \in Waiting
        BY <1>in, <2>1, <2>2, <2>3, <3>2
      <4>2. QED
        BY <1>2, <2>2, <2>3, <3>2, <4>1
    <3>3. QED
      BY <3>1, <3>2
  <2>5. QED
    BY <2>2, <2>3, <2>4
<1>5. /\ stack \in Seq(FrameSet) /\ stack' \in Seq(FrameSet) /\ AllWrites(stack) \in SUBSET Statement
  BY <1>1, FramesType DEF TypeOK
<1>6. Named' /\ Chain'
  BY <1>1, <1>2, <1>3 DEF StackInv, Named, Chain
<1>7. \A f \in Flow : wrote'[f] > 0 => pc'[f] # "idle" /\ (f \in Begin => state'[f] # "PENDING")
  BY <1>1, <1>2 DEF StackInv, Executed
<1>8. \A u \in Begin : Kept(u)' \subseteq Kept(u)
  <2>1. ASSUME NEW u \in Begin, NEW h \in Flow, u \in Around(h)', NEW s \in Around(h) \ {u}
        PROVE  pc'[s] = pc[s]
    <3>1. u \in Around(h) /\ s \in Flow
      <4>1. Around(h) \in SUBSET Flow
        BY <1>1, AroundIsFlows DEF StackInv, OwnerInv
      <4>2. QED
        BY <1>3, <2>1, <4>1
    <3>2. s # t
      BY <1>1, <2>1, <3>1, OneRoot
    <3>3. QED
      BY <1>2, <3>1, <3>2
  <2>2. QED
    BY <1>2, <1>3, <2>1, KeptLess
<1>9. \A w \in Statement : w[1] \in Flow /\ w \in durable =>
         Root(w[1]) \in Begin /\ Done(Root(w[1]))'
  <2>1. ASSUME NEW w \in durable, w[1] \in Flow PROVE Root(w[1]) \in Begin /\ Done(Root(w[1]))'
    <3>1. PICK f \in Flow : f = w[1]
      BY <2>1
    <3>2. w \in Writes(f) /\ Done(Root(f))
      BY <2>1, <3>1 DEF StackInv, Executed, CommittedTogether
    <3>3. wrote[f] > 0
      BY <1>1, <3>2 DEF Writes, TypeOK
    <3>4. pc[f] # "idle"
      BY <3>3 DEF StackInv, Executed
    <3>5. PICK u \in Begin : u = Root(f)
      BY <1>1, <3>4, RootFacts
    <3>6. Done(u)' /\ Root(f)' = u
      BY <1>2, <1>3, <3>2, <3>5
    <3>7. QED
      BY <3>1, <3>5, <3>6
  <2>2. QED
    BY <2>1
<1>10. ASSUME durable' = durable, pc'[t] # "committed" PROVE CommittedTogether'
  <2>1. ASSUME NEW w \in durable', w[1] \in Flow PROVE Done(Root(w[1]))'
    <3>1. w \in durable /\ w \in Statement
      BY <1>1, <1>10, <2>1 DEF TypeOK
    <3>2. QED
      BY <1>9, <2>1, <3>1
  <2>2. ASSUME NEW u \in Begin, pc'[u] \in {"committed", "resolved"} PROVE Kept(u)' \subseteq durable'
    <3>1. pc[u] \in {"committed", "resolved"}
      BY <1>2, <1>3, <1>10, <2>2
    <3>2. Kept(u) \subseteq durable
      BY <3>1 DEF StackInv, CommittedTogether
    <3>3. QED
      BY <1>8, <1>10, <3>2
  <2>3. QED
    BY <2>1, <2>2 DEF CommittedTogether
<1>11. CASE UNCHANGED server /\ (Opened(t)' => Opened(t)) /\ pc'[t] # "committed"
  <2>1. stack' = stack /\ durable' = durable
    BY <1>11 DEF server
  <2>2. \A i \in DOMAIN stack : stack[i].by \in Flow /\ stack[i].writes \in SUBSET Statement
    BY <1>5, FrameFacts
  <2>3. OnStack'
    <3>1. \A u \in Begin : Opened(u)' => Opened(u)
      BY <1>3, <1>11
    <3>2. ASSUME NEW u \in Begin, Opened(u)', NEW i \in DOMAIN stack'
          PROVE  (/\ Root(stack[i].by) = u
                  /\ i > 1 => stack[i].by \in Savepoint /\ stack[i].name = name[stack[i].by])'
      <4>1. PICK f \in Flow : f = stack[i].by /\ f = stack'[i].by /\ i \in DOMAIN stack
        BY <2>1, <2>2
      <4>2. Root(f) = u /\ (i > 1 => f \in Savepoint /\ stack[i].name = name[f])
        BY <3>1, <3>2, <4>1 DEF StackInv, OnStack
      <4>3. QED
        BY <1>2, <1>3, <2>1, <4>1, <4>2
    <3>3. ASSUME NEW u \in Begin, Opened(u)'
          PROVE  stack' # <<>> /\ stack'[1].by = u /\ stack'[1].name = 0
      BY <2>1, <3>1, <3>3 DEF StackInv, OnStack
    <3>4. QED
      BY <3>2, <3>3 DEF OnStack
  <2>4. OwnFrame'
    BY <1>2, <1>3, <2>1 DEF StackInv, OwnFrame
  <2>5. Above'
    <3>1. SUFFICES ASSUME NEW i \in DOMAIN stack', NEW x \in Savepoint, x = stack'[i].by, UnderWay(x)'
                   PROVE  /\ \A j \in DOMAIN stack' : i < j => x \in (Around(stack[j].by))'
                          /\ \A j \in DOMAIN stack' : i <= j => \A w \in stack'[j].writes :
                                w[1] \in Flow => x \in Around(w[1])'
      BY DEF Above
    <3>2. UnderWay(x) /\ i \in DOMAIN stack /\ x = stack[i].by
      BY <1>3, <2>1, <3>1
    <3>3. ASSUME NEW j \in DOMAIN stack', i < j PROVE x \in (Around(stack[j].by))'
      <4>1. PICK f \in Flow : f = stack[j].by /\ f = stack'[j].by
        BY <2>1, <2>2
      <4>2. x \in Around(f)
        BY <2>1, <3>2, <3>3, <4>1 DEF StackInv, Above
      <4>3. QED
        BY <1>3, <4>1, <4>2
    <3>4. ASSUME NEW j \in DOMAIN stack', i <= j, NEW w \in stack'[j].writes, w[1] \in Flow
          PROVE  x \in Around(w[1])'
      <4>1. x \in Around(w[1])
        BY <2>1, <3>2, <3>4 DEF StackInv, Above
      <4>2. QED
        BY <1>3, <3>4, <4>1
    <3>5. QED
      BY <3>3, <3>4
  <2>6. Executed'
    <3>1. ASSUME NEW w \in durable', w[1] \in Flow PROVE w \in Writes(w[1])'
      BY <1>3, <2>1, <3>1 DEF StackInv, Executed
    <3>2. ASSUME NEW i \in DOMAIN stack', NEW w \in stack'[i].writes, w[1] \in Flow
          PROVE  w \in Writes(w[1])' /\ (Root(w[1]) = Root(stack[i].by))'
      <4>1. PICK f \in Flow : f = stack[i].by /\ f = stack'[i].by
        BY <2>1, <2>2
      <4>2. PICK g \in Flow : g = w[1]
        BY <3>2
      <4>3. w \in Writes(g) /\ Root(g) = Root(f)
        BY <2>1, <3>2, <4>1, <4>2 DEF StackInv, Executed
      <4>4. QED
        BY <1>3, <4>1, <4>2, <4>3
    <3>3. QED
      BY <1>7, <3>1, <3>2 DEF Executed
  <2>7. NotLost'
    <3>1. SUFFICES ASSUME NEW u \in Begin, pc'[u] = "callback", state'[u] = "ACTIVE", NEW f \in Flow,
                          u \in Around(f)', \A s \in Around(f)' : pc'[s] # "rejected"
                   PROVE  (Writes(f) \ undone \subseteq AllWrites(stack))'
      BY DEF NotLost
    <3>2. /\ u \in Around(f) /\ \A s \in Around(f) : pc[s] # "rejected"
          /\ Writes(f)' = Writes(f) /\ undone' = undone /\ AllWrites(stack)' = AllWrites(stack)
      <4>1. Around(f) \in SUBSET Flow
        BY <1>1, AroundIsFlows DEF StackInv, OwnerInv
      <4>2. Around(f)' = Around(f) /\ Writes(f)' = Writes(f) /\ u \in Around(f)
        BY <1>3, <3>1
      <4>3. \A s \in Around(f) : pc[s] # "rejected"
        BY <1>2, <3>1, <4>1, <4>2 DEF Settled
      <4>4. AllWrites(stack)' = AllWrites(stack)
        BY <2>1 DEF AllWrites
      <4>5. QED
        BY <1>2, <4>2, <4>3, <4>4
    <3>3. CASE pc[u] = "callback" /\ state[u] = "ACTIVE"
      BY <3>2, <3>3 DEF StackInv, NotLost
    <3>4. CASE u = t /\ pc[t] = "begun"
      <4>1. state[t] = "PENDING"
        BY <1>1, <3>4 DEF States
      <4>2. wrote[f] = 0
        <5>1. CASE f \in Begin
          BY <1>1, <3>2, <3>4, <4>1, <5>1, RootFacts DEF StackInv, Executed, TypeOK
        <5>2. CASE f \in Savepoint
          <6>1. t \in within[f]
            BY <1>1, <3>2, <3>4, <5>2, RootFacts
          <6>2. pc[f] = "idle"
            BY <1>1, <4>1, <5>2, <6>1 DEF Nested
          <6>3. QED
            BY <1>1, <6>2 DEF StackInv, Executed, TypeOK
        <5>3. QED
          BY <1>1, <5>1, <5>2
      <4>3. Writes(f) = {}
        BY <4>2 DEF Writes
      <4>4. QED
        BY <3>2, <4>3
    <3>5. QED
      BY <1>1, <1>2, <3>1, <3>3, <3>4, BeginEffect
  <2>8. QED
    BY <1>6, <1>live, <1>10, <1>11, <2>1, <2>3, <2>4, <2>5, <2>6, <2>7 DEF StackInv
<1>12. ASSUME stack = <<>> \/ Opened(t),
              \/ stack' = <<Frame(0, t)>> /\ pc'[t] = "begun"
              \/ stack' = <<>> /\ pc'[t] \in {"rolledback", "callRolledBack", "committed", "callCommitted"}
       PROVE  /\ OnStack' /\ OwnFrame' /\ Above' /\ NotLost'
              /\ \A i \in DOMAIN stack' : stack'[i].writes = {}
  <2>1. \A u \in Begin : u # t => ~ Opened(u)
    BY <1>12, OneOpened DEF StackInv, OnStack
  <2>2. ASSUME NEW s \in Savepoint, s \notin orphans' PROVE ~ Open(s)'
    <3>1. CASE stack = <<>>
      BY <1>2, <1>3, <2>2, <3>1 DEF StackInv, OwnFrame
    <3>2. CASE Opened(t)
      <4>1. ByCaller(t) \/ pc[t] \notin Waiting
        BY <1>2, <1>12
      <4>2. ~UnderWay(s)
        BY <1>4, <2>2, <3>2, <4>1
      <4>3. QED
        BY <1>3, <4>2 DEF Open, UnderWay, Settled
    <3>3. QED
      BY <1>12, <3>1, <3>2
  <2>3. OwnFrame'
    BY <2>2 DEF OwnFrame
  <2>4. \A u \in Begin : u # t => ~ Opened(u)'
    BY <1>3, <2>1
  <2>5. NotLost'
    BY <1>12, <2>4 DEF NotLost, Opened
  <2>6. CASE stack' = <<>>
    <3>1. ~ Opened(t)'
      BY <1>12, <2>6 DEF Opened
    <3>2. OnStack'
      BY <2>4, <3>1 DEF OnStack
    <3>3. Above'
      BY <2>6 DEF Above
    <3>4. QED
      BY <2>3, <2>5, <2>6, <3>2, <3>3
  <2>7. CASE stack' = <<Frame(0, t)>>
    <3>1. /\ DOMAIN stack' = {1} /\ stack'[1].by = t /\ stack'[1].name = 0 /\ stack'[1].writes = {}
          /\ stack' # <<>>
      BY <2>7 DEF Frame
    <3>2. OnStack'
      <4>1. SUFFICES ASSUME NEW i \in DOMAIN stack' PROVE (Root(stack[i].by))' = t
        BY <2>4, <3>1 DEF OnStack
      <4>2. Root(t)' = t
        BY <1>1, <1>3, RootFacts
      <4>3. i = 1 /\ t = stack'[i].by
        BY <3>1
      <4>4. QED
        BY <4>2, <4>3
    <3>3. Above'
      BY <1>1, <3>1 DEF Above
    <3>4. QED
      BY <2>3, <2>5, <3>1, <3>2, <3>3
  <2>8. QED
    BY <1>12, <2>6, <2>7
<1>13. ASSUME durable' = durable, \A i \in DOMAIN stack' : stack'[i].writes = {}
       PROVE  Executed'
  <2>1. ASSUME NEW w \in durable', w[1] \in Flow PROVE w \in Writes(w[1])'
    BY <1>3, <1>13, <2>1 DEF StackInv, Executed
  <2>2. QED
    BY <1>7, <1>13, <2>1 DEF Executed
<1>14. CASE /\ pc[t] = "idle" /\ stack = <<>> /\ stack' = <<Frame(0, t)>> /\ durable' = durable
            /\ pc'[t] = "begun"
  BY <1>6, <1>live, <1>10, <1>12, <1>13, <1>14 DEF StackInv
<1>15. CASE /\ Opened(t) /\ stack' = <<>> /\ durable' = durable
            /\ pc'[t] \in {"rolledback", "callRolledBack"}
  BY <1>6, <1>live, <1>10, <1>12, <1>13, <1>15 DEF StackInv
<1>16. CASE /\ Opened(t) /\ state[t] = "ACTIVE" /\ stack' = <<>>
            /\ durable' = durable \cup AllWrites(stack)
            /\ pc[t] = "callback" /\ pc'[t] \in {"committed", "callCommitted"}
  <2>1. ASSUME NEW w \in AllWrites(stack), w[1] \in Flow
        PROVE  w \in Writes(w[1]) /\ Root(w[1]) = t
    <3>1. PICK i \in DOMAIN stack : w \in stack[i].writes
      BY DEF AllWrites
    <3>2. w \in Writes(w[1]) /\ Root(w[1]) = Root(stack[i].by)
      BY <2>1, <3>1 DEF StackInv, Executed
    <3>3. Root(stack[i].by) = t
      BY <1>16 DEF StackInv, OnStack
    <3>4. QED
      BY <3>2, <3>3
  <2>2. Executed'
    <3>1. ASSUME NEW w \in durable', w[1] \in Flow PROVE w \in Writes(w[1])'
      BY <1>3, <1>16, <2>1, <3>1 DEF StackInv, Executed
    <3>2. DOMAIN stack' = {}
      BY <1>16
    <3>3. QED
      BY <1>7, <3>1, <3>2 DEF Executed
  <2>3. CommittedTogether'
    <3>1. ASSUME NEW w \in durable', w[1] \in Flow PROVE Done(Root(w[1]))'
      <4>1. CASE w \in durable
        BY <1>1, <1>9, <3>1, <4>1 DEF TypeOK
      <4>2. CASE w \in AllWrites(stack)
        <5>1. PICK g \in Flow : g = w[1]
          BY <3>1
        <5>2. Root(g)' = t
          BY <1>3, <2>1, <4>2, <5>1
        <5>3. Done(t)'
          BY <1>16 DEF Done
        <5>4. QED
          BY <5>1, <5>2, <5>3
      <4>3. QED
        BY <1>16, <3>1, <4>1, <4>2
    <3>2. ASSUME NEW u \in Begin, pc'[u] \in {"committed", "resolved"}
          PROVE  Kept(u)' \subseteq durable'
      <4>1. CASE u # t
        <5>1. Kept(u) \subseteq durable
          BY <1>3, <3>2, <4>1 DEF StackInv, CommittedTogether
        <5>2. QED
          BY <1>8, <1>16, <5>1
      <4>2. CASE u = t
        <5>1. SUFFICES Kept(t) \subseteq AllWrites(stack)
          BY <1>8, <1>16, <4>2
        <5>2. SUFFICES ASSUME NEW w \in Kept(t) PROVE w \in AllWrites(stack)
          OBVIOUS
        <5>3. PICK h \in Flow : /\ t \in Around(h) /\ w \in Writes(h) /\ w \notin undone
                                /\ \A s \in Around(h) \ {t} : pc[s] = "resolved"
          BY DEF Kept
        <5>4. \A s \in Around(h) : pc[s] # "rejected"
          BY <1>16, <5>3
        <5>5. Writes(h) \ undone \subseteq AllWrites(stack)
          BY <1>16, <5>3, <5>4 DEF StackInv, NotLost
        <5>6. QED
          BY <5>3, <5>5
      <4>3. QED
        BY <4>1, <4>2
    <3>3. QED
      BY <3>1, <3>2 DEF CommittedTogether
  <2>4. QED
    BY <1>6, <1>live, <1>12, <1>16, <2>2, <2>3 DEF StackInv
<1>17. QED
  BY <1>1, <1>11, <1>14, <1>15, <1>16, BeginEffect

\* savepoint() puts a frame on top, and what is under way in its begin() is around it.
LEMMA SendSavepointStack ==
    ASSUME ~Branches, StackInv, OwnerInv', NEW s \in Savepoint, NEW f \in Flow, SendSavepoint(s, f)
    PROVE  StackInv'
<1>1. /\ Begin \cap Savepoint = {} /\ Flow = Begin \cup Savepoint /\ s \in Flow
      /\ OwnerInv /\ TypeOK /\ Nested /\ Awaiting /\ Owner /\ Live /\ TypeOK'
      /\ stack \in Seq(FrameSet) /\ stack' \in Seq(FrameSet)
  BY TransactionAssumption DEF StackInv, OwnerInv, TypeOK, Flow
<1>2. /\ f # s /\ pc[s] = "idle" /\ pc[f] = "callback"
      /\ within'[s] = Around(f) /\ pc'[s] = "created" /\ name'[s] \in Nat \ {0}
      /\ \A r \in Savepoint : r # s => within'[r] = within[r] /\ name'[r] = name[r]
      /\ \A g \in Flow : g # s => pc'[g] = pc[g]
      /\ Len(stack') = Len(stack) + 1 /\ stack'[Len(stack')] = Frame(name'[s], s)
      /\ \A i \in DOMAIN stack : i \in DOMAIN stack' /\ stack'[i] = stack[i]
  BY <1>1, SendSavepointEffect
<1>3. UNCHANGED <<durable, state, usable, wrote, undone, orphans>>
  BY DEF SendSavepoint, others, history
<1>4. PICK R \in Begin : /\ R = Root(f) /\ R \in Around(f) /\ pc[R] = "callback"
                         /\ state[R] = "ACTIVE" /\ Opened(R)
                         /\ \A x \in Savepoint : UnderWay(x) /\ Root(x) = R => x \in Around(f)
  <2>1. state[Root(f)] = "ACTIVE" /\ Running(f)
    BY DEF SendSavepoint
  <2>2. QED
    BY <2>1, Inner
<1>5. wrote[s] = 0 /\ \A g \in Flow : Writes(g)' = Writes(g)
  BY <1>1, <1>2, <1>3 DEF StackInv, Executed, TypeOK, Writes
<1>6. \A g \in Flow : g # s => /\ Around(g)' = Around(g) /\ Root(g)' = Root(g) /\ s \notin Around(g)
  <2>1. ASSUME NEW g \in Flow, g # s PROVE s \notin Around(g)
    BY <1>1, <1>2, <2>1 DEF Nested, Around
  <2>2. QED
    BY <1>1, <1>2, <2>1, RootSame
<1>7. Around(s)' = {s} \cup Around(f) /\ Root(s)' = R
  <2>1. Around(s)' = {s} \cup Around(f)
    BY <1>1, <1>2 DEF Around
  <2>2. \A u \in Around(s)' : u \in Begin <=> u = R
    BY <1>1, <1>4, <2>1, OneRoot
  <2>3. QED
    BY <1>4, <2>1, <2>2 DEF Root
<1>8. /\ DOMAIN stack = 1..Len(stack) /\ DOMAIN stack' = 1..(Len(stack) + 1) /\ Len(stack) \in Nat
      /\ \A i \in DOMAIN stack : stack[i].by \in Flow /\ stack[i].by # s
      /\ stack'[Len(stack) + 1].by = s /\ stack'[Len(stack) + 1].name = name'[s]
      /\ stack'[Len(stack) + 1].writes = {}
  <2>1. /\ DOMAIN stack = 1..Len(stack) /\ DOMAIN stack' = 1..(Len(stack) + 1)
        /\ Len(stack) \in Nat /\ \A i \in DOMAIN stack : stack[i].by \in Flow
    BY <1>1, <1>2, FrameFacts
  <2>2. \A i \in DOMAIN stack : stack[i].by # s
    BY <1>1, <1>2 DEF Owner
  <2>3. QED
    BY <1>2, <2>1, <2>2 DEF Frame
<1>9. \A i \in DOMAIN stack' : i \in DOMAIN stack \/ i = Len(stack) + 1
  BY <1>8
<1>10. \A w : w[1] = s => w \notin Writes(w[1])
  BY <1>5 DEF Writes
<1>11. \A x \in Savepoint : UnderWay(x)' => x = s \/ (x # s /\ UnderWay(x))
  BY <1>1, <1>2 DEF UnderWay
<1>12. \A u \in Begin : /\ pc'[u] = pc[u] /\ Opened(u)' = Opened(u) /\ Done(u)' = Done(u)
  BY <1>1, <1>2, <1>3 DEF Opened, Done
<1>13. OnStack'
  <2>1. stack # <<>> /\ 1 \in DOMAIN stack /\ stack' # <<>>
    <3>1. stack # <<>>
      BY <1>4 DEF StackInv, OnStack
    <3>2. QED
      BY <1>1, <1>8, <3>1
  <2>2. ASSUME NEW u \in Begin, Opened(u)'
        PROVE  stack' # <<>> /\ stack'[1].by = u /\ stack'[1].name = 0
    BY <1>2, <1>12, <2>1, <2>2 DEF StackInv, OnStack
  <2>3. ASSUME NEW u \in Begin, Opened(u)', NEW i \in DOMAIN stack'
        PROVE  (/\ Root(stack[i].by) = u
                /\ i > 1 => stack[i].by \in Savepoint /\ stack[i].name = name[stack[i].by])'
    <3>1. u = R
      BY <1>4, <1>12, <2>3, OneOpened DEF StackInv
    <3>2. CASE i \in DOMAIN stack
      <4>1. PICK g \in Flow : g = stack[i].by /\ g = stack'[i].by /\ g # s
        BY <1>2, <1>8, <3>2
      <4>2. Root(g) = u /\ (i > 1 => g \in Savepoint /\ stack[i].name = name[g])
        BY <1>12, <2>3, <3>2, <4>1, ZenonT(30) DEF StackInv, OnStack
      <4>3. QED
        BY <1>2, <1>6, <3>2, <4>1, <4>2
    <3>3. CASE i = Len(stack) + 1
      <4>1. stack'[i].by = s /\ stack'[i].name = name'[s]
        BY <1>8, <3>3
      <4>2. QED
        BY <1>7, <3>1, <4>1
    <3>4. QED
      BY <1>9, <3>2, <3>3
  <2>4. QED
    BY <2>2, <2>3 DEF OnStack
<1>14. Named'
  BY <1>1, <1>2 DEF StackInv, Named
<1>15. OwnFrame'
  <2>1. SUFFICES ASSUME NEW r \in Savepoint, Open(r)', r \notin orphans
                 PROVE  \E i \in DOMAIN stack' : stack'[i].by = r
    BY <1>3 DEF OwnFrame
  <2>2. CASE r = s
    BY <1>8, <2>2
  <2>3. CASE r # s
    <3>1. Open(r)
      BY <1>1, <1>2, <1>3, <2>1, <2>3 DEF Open
    <3>2. PICK i \in DOMAIN stack : stack[i].by = r
      BY <2>1, <3>1 DEF StackInv, OwnFrame
    <3>3. QED
      BY <1>2, <3>2
  <2>4. QED
    BY <2>2, <2>3
<1>16. Chain'
  <2>1. SUFFICES ASSUME NEW x \in Savepoint, NEW y \in Savepoint, UnderWay(x)', UnderWay(y)',
                        Root(x)' = Root(y)'
                 PROVE  x \in Around(y)' \/ y \in Around(x)'
    BY DEF Chain
  <2>2. CASE x # s /\ y # s
    BY <1>1, <1>6, <1>11, <2>1, <2>2 DEF StackInv, Chain
  <2>3. CASE x = s \/ y = s
    <3>1. \A z \in Savepoint : z # s /\ UnderWay(z)' /\ Root(z)' = R => z \in Around(s)'
      BY <1>1, <1>4, <1>6, <1>7, <1>11
    <3>2. s \in Around(s)'
      BY <1>7
    <3>3. QED
      BY <1>7, <2>1, <2>3, <3>1, <3>2
  <2>4. QED
    BY <2>2, <2>3
<1>live. Live'
  <2>1. SUFFICES ASSUME NEW r \in Savepoint, UnderWay(r)', r \notin orphans
                 PROVE  (pc[Root(r)] = "callback" /\ state[Root(r)] = "ACTIVE")'
    BY <1>3 DEF Live
  <2>2. CASE r = s
    BY <1>3, <1>4, <1>7, <1>12, <2>2
  <2>3. CASE r # s
    <3>1. UnderWay(r) /\ Root(r)' = Root(r)
      BY <1>1, <1>6, <1>11, <2>1, <2>3
    <3>2. PICK u \in Begin : u = Root(r) /\ pc[u] = "callback" /\ state[u] = "ACTIVE"
      BY <1>1, <2>1, <3>1, UnderWayOpened
    <3>3. QED
      BY <1>3, <1>12, <3>1, <3>2
  <2>4. QED
    BY <2>2, <2>3
<1>17. Above'
  <2>1. SUFFICES ASSUME NEW i \in DOMAIN stack', NEW x \in Savepoint, x = stack'[i].by, UnderWay(x)'
                 PROVE  /\ \A j \in DOMAIN stack' : i < j => x \in (Around(stack[j].by))'
                        /\ \A j \in DOMAIN stack' : i <= j => \A w \in stack'[j].writes :
                              w[1] \in Flow => x \in Around(w[1])'
    BY DEF Above
  <2>2. CASE i = Len(stack) + 1
    <3>1. \A j \in DOMAIN stack' : ~(i < j) /\ (i <= j => stack'[j].writes = {})
      BY <1>8, <2>2
    <3>2. QED
      BY <3>1
  <2>3. CASE i \in DOMAIN stack
    <3>0. x # s /\ UnderWay(x) /\ x = stack[i].by
      BY <1>2, <1>8, <1>11, <2>1, <2>3
    <3>1. x # s /\ UnderWay(x) /\ x = stack[i].by /\ x \in Around(f)
      <4>1. Root(x) = R
        BY <1>4, <2>3, <3>0 DEF StackInv, OnStack
      <4>2. QED
        BY <1>4, <3>0, <4>1
    <3>2. ASSUME NEW j \in DOMAIN stack', i < j PROVE x \in (Around(stack[j].by))'
      <4>1. CASE j \in DOMAIN stack
        <5>1. PICK g \in Flow : g = stack[j].by /\ g = stack'[j].by /\ g # s
          BY <1>2, <1>8, <4>1
        <5>2. x \in Around(g)
          BY <2>3, <3>1, <3>2, <4>1, <5>1 DEF StackInv, Above
        <5>3. QED
          BY <1>6, <5>1, <5>2
      <4>2. CASE j = Len(stack) + 1
        <5>1. s = stack'[j].by
          BY <1>8, <4>2
        <5>2. x \in Around(s)'
          BY <1>7, <3>1
        <5>3. QED
          BY <5>1, <5>2
      <4>3. QED
        BY <1>9, <4>1, <4>2
    <3>3. ASSUME NEW j \in DOMAIN stack', i <= j, NEW w \in stack'[j].writes, w[1] \in Flow
          PROVE  x \in Around(w[1])'
      <4>1. j \in DOMAIN stack /\ w \in stack[j].writes
        BY <1>2, <1>8, <1>9, <3>3
      <4>2. w \in Writes(w[1]) /\ x \in Around(w[1])
        BY <2>3, <3>1, <3>3, <4>1 DEF StackInv, Above, Executed
      <4>3. w[1] # s
        BY <1>10, <4>2
      <4>4. QED
        BY <1>6, <3>3, <4>2, <4>3
    <3>4. QED
      BY <3>2, <3>3
  <2>4. QED
    BY <1>9, <2>2, <2>3
<1>18. Executed'
  <2>1. ASSUME NEW w \in durable', w[1] \in Flow PROVE w \in Writes(w[1])'
    BY <1>3, <1>5, <2>1 DEF StackInv, Executed
  <2>2. ASSUME NEW i \in DOMAIN stack', NEW w \in stack'[i].writes, w[1] \in Flow
        PROVE  w \in Writes(w[1])' /\ (Root(w[1]) = Root(stack[i].by))'
    <3>1. i \in DOMAIN stack /\ w \in stack[i].writes
      BY <1>2, <1>8, <1>9, <2>2
    <3>2. PICK g \in Flow : g = stack[i].by /\ g = stack'[i].by /\ g # s
      BY <1>2, <1>8, <3>1
    <3>3. PICK h \in Flow : h = w[1]
      BY <2>2
    <3>4. w \in Writes(h) /\ Root(h) = Root(g) /\ h # s
      BY <1>10, <2>2, <3>1, <3>2, <3>3 DEF StackInv, Executed
    <3>5. QED
      BY <1>5, <1>6, <3>2, <3>3, <3>4
  <2>3. \A g \in Flow : wrote'[g] > 0 => pc'[g] # "idle" /\ (g \in Begin => state'[g] # "PENDING")
    BY <1>1, <1>2, <1>3 DEF StackInv, Executed
  <2>4. QED
    BY <2>1, <2>2, <2>3 DEF Executed
<1>19. NotLost'
  <2>1. SUFFICES ASSUME NEW u \in Begin, pc'[u] = "callback", state'[u] = "ACTIVE", NEW g \in Flow,
                        u \in Around(g)', \A x \in Around(g)' : pc'[x] # "rejected"
                 PROVE  (Writes(g) \ undone \subseteq AllWrites(stack))'
    BY DEF NotLost
  <2>2. CASE g = s
    <3>1. Writes(g)' = {}
      BY <1>5, <2>2 DEF Writes
    <3>2. QED
      BY <3>1
  <2>3. CASE g # s
    <3>1. u \in Around(g) /\ (\A x \in Around(g) : pc[x] # "rejected") /\ pc[u] = "callback"
      <4>1. Around(g) \in SUBSET Flow
        BY <1>1, AroundIsFlows DEF StackInv, OwnerInv
      <4>2. QED
        BY <1>2, <1>6, <1>12, <2>1, <2>3, <4>1
    <3>2. Writes(g) \ undone \subseteq AllWrites(stack)
      BY <1>3, <2>1, <3>1 DEF StackInv, NotLost
    <3>3. AllWrites(stack) \subseteq AllWrites(stack)'
      BY <1>2 DEF AllWrites
    <3>4. QED
      BY <1>3, <1>5, <3>2, <3>3
  <2>4. QED
    BY <2>2, <2>3
<1>20. CommittedTogether'
  <2>1. ASSUME NEW w \in durable', w[1] \in Flow PROVE Done(Root(w[1]))'
    <3>1. PICK h \in Flow : h = w[1]
      BY <2>1
    <3>2. w \in Writes(h) /\ Done(Root(h)) /\ h # s
      BY <1>3, <1>10, <2>1, <3>1 DEF StackInv, Executed, CommittedTogether
    <3>3. pc[h] # "idle"
      BY <1>1, <3>2 DEF StackInv, Executed, Writes, TypeOK
    <3>4. PICK u \in Begin : u = Root(h)
      BY <1>1, <3>3, RootFacts
    <3>5. Done(u)' /\ Root(h)' = u
      BY <1>6, <1>12, <3>2, <3>4
    <3>6. QED
      BY <3>1, <3>4, <3>5
  <2>2. ASSUME NEW u \in Begin, pc'[u] \in {"committed", "resolved"} PROVE Kept(u)' \subseteq durable'
    <3>1. Kept(u) \subseteq durable /\ u # R
      BY <1>4, <1>12, <2>2 DEF StackInv, CommittedTogether
    <3>2. ASSUME NEW h \in Flow, u \in Around(h)'
          PROVE  /\ Around(h)' = Around(h) /\ wrote'[h] = wrote[h]
                 /\ \A x \in Around(h) \ {u} : pc'[x] = "resolved" => pc[x] = "resolved"
      <4>1. h # s
        <5>1. h = s => u \in Around(f)
          BY <1>1, <1>7, <3>2
        <5>2. QED
          BY <1>1, <1>4, <3>1, <5>1, OneRoot
      <4>2. Around(h) \in SUBSET Flow
        BY <1>1, AroundIsFlows DEF StackInv, OwnerInv
      <4>3. QED
        BY <1>2, <1>3, <1>6, <4>1, <4>2
    <3>3. Kept(u)' \subseteq Kept(u)
      BY <1>3, <3>2, KeptLess
    <3>4. QED
      BY <1>3, <3>1, <3>3
  <2>3. QED
    BY <2>1, <2>2 DEF CommittedTogether
<1>21. QED
  BY <1>13, <1>14, <1>15, <1>16, <1>live, <1>17, <1>18, <1>19, <1>20 DEF StackInv

\* The savepoint that RELEASE and ROLLBACK TO find is that of the callback or one
\* inside it: what they free or undo happened inside it.
LEMMA FromOwnFrame ==
    ASSUME ~Branches, StackInv, NEW s \in Savepoint, Open(s), s \notin orphans,
           ByCaller(s) \/ pc[s] \notin Waiting
    PROVE  /\ Newest(name[s]) \in DOMAIN stack /\ Newest(name[s]) > 1
           /\ \E k \in DOMAIN stack : k <= Newest(name[s]) /\ stack[k].by = s
           /\ \A i \in DOMAIN stack : Newest(name[s]) <= i /\ stack[i].by \in Savepoint
                 /\ UnderWay(stack[i].by) /\ stack[i].by \notin orphans' =>
                       stack[i].by = s /\ i = Newest(name[s])
           /\ \A j \in DOMAIN stack : Newest(name[s]) <= j => \A w \in stack[j].writes :
                 w[1] \in Flow => s \in Around(w[1])
<1>1. /\ Begin \cap Savepoint = {} /\ Flow = Begin \cup Savepoint /\ s \in Flow
      /\ OwnerInv /\ TypeOK /\ Nested /\ Awaiting /\ Live /\ stack \in Seq(FrameSet)
      /\ DOMAIN stack = 1..Len(stack) /\ Len(stack) \in Nat
  BY TransactionAssumption, FrameFacts DEF StackInv, OwnerInv, TypeOK, Flow
<1>2. UnderWay(s) /\ pc[s] # "idle" /\ name[s] > 0 /\ name[s] \in Nat
  BY <1>1 DEF Open, UnderWay, Settled, StackInv, Named, TypeOK
<1>3. PICK k \in DOMAIN stack : stack[k].by = s
  BY DEF StackInv, OwnFrame
<1>4. /\ Opened(Root(s)) /\ Root(s) \in Begin
  BY <1>1, <1>2, UnderWayOpened
<1>5. /\ k > 1 /\ stack[k].name = name[s] /\ stack[1].name = 0
  BY <1>1, <1>3, <1>4 DEF StackInv, OnStack
<1>6. /\ Newest(name[s]) \in DOMAIN stack /\ k <= Newest(name[s])
  BY <1>1, <1>3, <1>5, NewestFacts
<1>7. ASSUME NEW i \in DOMAIN stack, Newest(name[s]) <= i, NEW r \in Savepoint, r = stack[i].by,
             UnderWay(r), r \notin orphans'
      PROVE  r = s /\ i = Newest(name[s])
  <2>1. CASE r # s
    <3>1. k < i
      BY <1>1, <1>3, <1>6, <1>7, <2>1
    <3>2. s \in Around(r)
      BY <1>2, <1>3, <1>7, <3>1 DEF StackInv, Above
    <3>3. s \in within[r]
      BY <1>1, <1>7, <2>1, <3>2, RootFacts
    <3>4. QED
      BY <1>1, <1>7, <3>3, NothingInside, InsideOrphaned
  <2>2. CASE r = s
    <3>1. stack[1].by = Root(s) /\ (i > 1 => stack[i].name = name[s])
      BY <1>4, <1>7, <2>2 DEF StackInv, OnStack
    <3>2. i > 1
      <4>1. i # 1
        BY <1>1, <1>4, <1>7, <2>2, <3>1
      <4>2. i \in 1..Len(stack)
        BY <1>1, <1>7
      <4>3. QED
        BY <1>1, <4>1, <4>2
    <3>3. i <= Newest(name[s])
      BY <1>1, <1>6, <3>1, <3>2, NewestFacts
    <3>4. QED
      BY <1>1, <1>6, <1>7, <2>2, <3>3
  <2>3. QED
    BY <2>1, <2>2
<1>8. ASSUME NEW j \in DOMAIN stack, Newest(name[s]) <= j, NEW w \in stack[j].writes, w[1] \in Flow
      PROVE  s \in Around(w[1])
  <2>1. k <= j
    BY <1>1, <1>6, <1>8
  <2>2. QED
    BY <1>2, <1>3, <1>8, <2>1 DEF StackInv, Above
<1>9. QED
  BY <1>1, <1>3, <1>5, <1>6, <1>7, <1>8

\* A step of a savepoint() leaves the frames of the others, and no statement that
\* is not its own is lost.
LEMMA SavepointFrames ==
    ASSUME ~Branches, StackInv, ~strayed', NEW s \in Savepoint, SavepointStep(s)
    PROVE  /\ Shrinks /\ durable' = durable /\ (stack # <<>> => stack' # <<>>)
           /\ \A j \in DOMAIN stack' : \A w \in stack'[j].writes :
                 \E k \in DOMAIN stack : j <= k /\ w \in stack[k].writes /\ (j = k \/ j = Len(stack'))
           /\ \A i \in DOMAIN stack : \A r \in Savepoint :
                 r = stack[i].by /\ UnderWay(r) /\ r \notin orphans' /\ (r = s => Open(s)') =>
                    i \in DOMAIN stack'
           /\ \A w \in AllWrites(stack) :
                 \/ w \in AllWrites(stack')
                 \/ w[1] \notin Flow
                 \/ s \in Around(w[1]) /\ (pc'[s] = "rejected" \/ undone' = undone \cup Inside(s))
<1> DEFINE N == Newest(name[s])
<1>1. /\ OwnerInv /\ TypeOK /\ stack \in Seq(FrameSet)
      /\ DOMAIN stack = 1..Len(stack) /\ Len(stack) \in Nat
  BY FrameFacts DEF StackInv, OwnerInv, TypeOK
<1>3. CASE UNCHANGED server
  <2>1. stack' = stack /\ durable' = durable
    BY <1>3 DEF server
  <2>2. Shrinks
    BY <1>1, <2>1 DEF Shrinks
  <2>3. ASSUME NEW j \in DOMAIN stack', NEW w \in stack'[j].writes
        PROVE  \E k \in DOMAIN stack : j <= k /\ w \in stack[k].writes /\ (j = k \/ j = Len(stack'))
    <3>1. j \in DOMAIN stack /\ j <= j /\ w \in stack[j].writes
      BY <1>1, <2>1
    <3>2. QED
      BY <3>1
  <2>4. ASSUME NEW i \in DOMAIN stack, NEW r \in Savepoint, r = stack[i].by
        PROVE  i \in DOMAIN stack'
    BY <2>1, <2>4
  <2>5. \A w \in AllWrites(stack) : w \in AllWrites(stack')
    BY <2>1
  <2>6. QED
    BY <2>1, <2>2, <2>3, <2>4, <2>5
<1>4. CASE ReleaseTo(name[s]) /\ Newest(name[s]) # 0 /\ undone' = undone
           /\ Open(s) /\ pc'[s] \in {"released", "callReleased"} /\ ByCaller(s)
           /\ s \notin orphans
  <2>1. /\ N \in DOMAIN stack /\ N > 1
        /\ \A i \in DOMAIN stack : N <= i /\ stack[i].by \in Savepoint
              /\ UnderWay(stack[i].by) /\ stack[i].by \notin orphans' => stack[i].by = s /\ i = N
    BY <1>4, FromOwnFrame
  <2>2. /\ Shrinks /\ durable' = durable /\ Len(stack') = N - 1
        /\ \A j \in DOMAIN stack' : j < Len(stack') => stack'[j].writes = stack[j].writes
        /\ stack'[Len(stack')].writes =
              stack[Len(stack')].writes \cup UNION {stack[j].writes : j \in N..Len(stack)}
    BY <1>1, <1>4, <2>1, ReleaseEffect
  <2> HIDE DEF N
  <2>3. DOMAIN stack' = 1..(N - 1) /\ N \in Nat /\ N <= Len(stack) /\ stack' # <<>>
    BY <1>1, <2>1, <2>2 DEF Shrinks
  <2>4. ASSUME NEW j \in DOMAIN stack', NEW w \in stack'[j].writes
        PROVE  \E k \in DOMAIN stack : j <= k /\ w \in stack[k].writes /\ (j = k \/ j = Len(stack'))
    <3>1. CASE j < Len(stack')
      BY <1>1, <2>2, <2>3, <2>4, <3>1
    <3>2. CASE j = N - 1
      BY <1>1, <2>2, <2>3, <2>4, <3>2
    <3>3. QED
      BY <2>2, <2>3, <3>1, <3>2
  <2>5. ASSUME NEW i \in DOMAIN stack, NEW r \in Savepoint, r = stack[i].by, UnderWay(r),
               r \notin orphans', r = s => Open(s)'
        PROVE  i \in DOMAIN stack'
    <3>1. r # s
      BY <1>4, <2>5 DEF Open
    <3>2. i < N
      BY <1>1, <2>1, <2>3, <2>5, <3>1
    <3>3. QED
      BY <1>1, <2>3, <3>2
  <2>6. ASSUME NEW i \in DOMAIN stack, NEW w \in stack[i].writes
        PROVE  \E j \in DOMAIN stack' : w \in stack'[j].writes
    <3>1. CASE i < N - 1
      BY <1>1, <2>2, <2>3, <2>6, <3>1
    <3>2. CASE i >= N - 1
      <4>1. N - 1 \in DOMAIN stack' /\ Len(stack') = N - 1
        BY <2>1, <2>2, <2>3
      <4>2. i = N - 1 \/ i \in N..Len(stack)
        BY <1>1, <2>3, <3>2
      <4>3. QED
        BY <2>2, <2>6, <4>1, <4>2
    <3>3. QED
      BY <1>1, <2>3, <3>1, <3>2
  <2>7. \A w \in AllWrites(stack) : w \in AllWrites(stack')
    BY <2>6 DEF AllWrites
  <2>8. \A j \in DOMAIN stack' : \A w \in stack'[j].writes :
           \E k \in DOMAIN stack : j <= k /\ w \in stack[k].writes /\ (j = k \/ j = Len(stack'))
    BY <2>4
  <2>9. \A i \in DOMAIN stack : \A r \in Savepoint :
           r = stack[i].by /\ UnderWay(r) /\ r \notin orphans' /\ (r = s => Open(s)') =>
              i \in DOMAIN stack'
    BY <2>5
  <2>10. QED
    BY <2>2, <2>3, <2>7, <2>8, <2>9
<1>5. CASE RollbackTo(name[s]) /\ Newest(name[s]) # 0 /\ Open(s) /\ s \notin orphans
           /\ (pc'[s] = "rejected" \/ undone' = undone \cup Inside(s))
           /\ (ByCaller(s) \/ pc[s] \notin Waiting)
  <2>1. /\ N \in DOMAIN stack /\ N > 1
        /\ \E k \in DOMAIN stack : k <= N /\ stack[k].by = s
        /\ \A i \in DOMAIN stack : N <= i /\ stack[i].by \in Savepoint
              /\ UnderWay(stack[i].by) /\ stack[i].by \notin orphans' => stack[i].by = s /\ i = N
        /\ \A j \in DOMAIN stack : N <= j => \A w \in stack[j].writes :
              w[1] \in Flow => s \in Around(w[1])
    BY <1>5, FromOwnFrame
  <2>2. /\ Shrinks /\ durable' = durable /\ Len(stack') = N
        /\ \A j \in DOMAIN stack' : stack'[j].writes = IF j = N THEN {} ELSE stack[j].writes
    BY <1>1, <1>5, RollbackEffect
  <2> HIDE DEF N
  <2>3. DOMAIN stack' = 1..N /\ N \in Nat /\ N <= Len(stack) /\ stack' # <<>>
    BY <1>1, <2>1, <2>2 DEF Shrinks
  <2>4. ASSUME NEW j \in DOMAIN stack', NEW w \in stack'[j].writes
        PROVE  \E k \in DOMAIN stack : j <= k /\ w \in stack[k].writes /\ (j = k \/ j = Len(stack'))
    <3>1. j \in DOMAIN stack /\ w \in stack[j].writes /\ j <= j
      BY <1>1, <2>2, <2>3, <2>4
    <3>2. QED
      BY <3>1
  <2>5. ASSUME NEW i \in DOMAIN stack, NEW r \in Savepoint, r = stack[i].by, UnderWay(r),
               r \notin orphans'
        PROVE  i \in DOMAIN stack'
    <3>1. N <= i => i = N
      BY <2>1, <2>5
    <3>2. QED
      BY <1>1, <2>3, <3>1
  <2>6. ASSUME NEW i \in DOMAIN stack, NEW w \in stack[i].writes
        PROVE  \/ \E j \in DOMAIN stack' : w \in stack'[j].writes
               \/ w[1] \notin Flow \/ s \in Around(w[1])
    <3>1. CASE i < N
      BY <1>1, <2>2, <2>3, <2>6, <3>1
    <3>2. CASE N <= i
      BY <2>1, <2>6, <3>2
    <3>3. QED
      BY <1>1, <2>3, <3>1, <3>2
  <2>7. \A w \in AllWrites(stack) : w \in AllWrites(stack') \/ w[1] \notin Flow \/ s \in Around(w[1])
    BY <2>6 DEF AllWrites
  <2>8. QED
    BY <1>5, <2>2, <2>3, <2>4, <2>5, <2>7
<1>6. "undoing" \notin Waiting
  BY DEF Waiting
<1>7. QED
  BY <1>1, <1>3, <1>4, <1>5, <1>6, SavepointEffect

\* A step of savepoint() moves what it wrote outwards, or undoes it.
LEMMA SavepointStack ==
    ASSUME ~Branches, StackInv, OwnerInv', ~strayed', NEW s \in Savepoint, SavepointStep(s)
    PROVE  StackInv'
<1>1. /\ Begin \cap Savepoint = {} /\ Flow = Begin \cup Savepoint /\ s \in Flow
      /\ OwnerInv /\ TypeOK /\ Nested /\ Awaiting /\ Owner /\ Live /\ TypeOK'
      /\ stack \in Seq(FrameSet) /\ stack' \in Seq(FrameSet)
  BY TransactionAssumption DEF StackInv, OwnerInv, TypeOK, Flow
<1>2. /\ UNCHANGED <<state, counter, within, name, wrote>>
      /\ undone \subseteq undone' /\ orphans \subseteq orphans'
      /\ UnderWay(s) /\ pc'[s] # "idle"
      /\ \A g \in Flow : g # s => pc'[g] = pc[g]
      /\ \A r \in Savepoint : r # s => usable'[r] = usable[r]
      /\ Open(s)' => Open(s)
  BY <1>1, SavepointEffect
<1>3. /\ Shrinks /\ durable' = durable /\ (stack # <<>> => stack' # <<>>)
      /\ \A j \in DOMAIN stack' : \A w \in stack'[j].writes :
            \E k \in DOMAIN stack : j <= k /\ w \in stack[k].writes
      /\ \A i \in DOMAIN stack : \A r \in Savepoint :
            r = stack[i].by /\ UnderWay(r) /\ r \notin orphans' /\ (r = s => Open(s)') =>
               i \in DOMAIN stack'
      /\ \A w \in AllWrites(stack) :
            \/ w \in AllWrites(stack')
            \/ w[1] \notin Flow
            \/ s \in Around(w[1]) /\ (pc'[s] = "rejected" \/ undone' = undone \cup Inside(s))
  BY SavepointFrames
<1>4. PICK R \in Begin : R = Root(s) /\ R \in within[s] /\ pc[R] \in Waiting
  BY <1>1, <1>2, UnderWayOpened
<1>5. /\ \A g \in Flow : Around(g)' = Around(g) /\ Root(g)' = Root(g) /\ Writes(g)' = Writes(g)
      /\ \A u \in Begin : pc'[u] = pc[u] /\ Opened(u)' = Opened(u) /\ Done(u)' = Done(u)
      /\ \A r \in Savepoint : (UnderWay(r)' => UnderWay(r)) /\ (Open(r)' => Open(r))
  <2>1. \A g \in Flow : Around(g)' = Around(g) /\ Root(g)' = Root(g)
    BY <1>2, RootSame
  <2>2. \A g \in Flow : Writes(g)' = Writes(g)
    BY <1>2 DEF Writes
  <2>3. \A u \in Begin : u # s /\ u \in Flow
    BY <1>1
  <2>4. \A r \in Savepoint : (UnderWay(r)' => UnderWay(r)) /\ (Open(r)' => Open(r))
    BY <1>1, <1>2 DEF UnderWay, Open
  <2>5. QED
    BY <1>2, <2>1, <2>2, <2>3, <2>4 DEF Opened, Done
<1>6. \A i \in DOMAIN stack' : /\ i \in DOMAIN stack /\ stack'[i].by = stack[i].by
                               /\ stack'[i].name = stack[i].name /\ stack[i].by \in Flow
  BY <1>1, <1>3, FrameFacts DEF Shrinks
<1>7. OnStack'
  <2>1. ASSUME NEW u \in Begin, Opened(u)'
        PROVE  stack' # <<>> /\ stack'[1].by = u /\ stack'[1].name = 0
    <3>1. stack # <<>> /\ stack[1].by = u /\ stack[1].name = 0
      BY <1>5, <2>1 DEF StackInv, OnStack
    <3>2. stack' # <<>> /\ 1 \in DOMAIN stack'
      BY <1>1, <1>3, <3>1
    <3>3. QED
      BY <1>6, <3>1, <3>2
  <2>2. ASSUME NEW u \in Begin, Opened(u)', NEW i \in DOMAIN stack'
        PROVE  (/\ Root(stack[i].by) = u
                /\ i > 1 => stack[i].by \in Savepoint /\ stack[i].name = name[stack[i].by])'
    <3>1. PICK g \in Flow : g = stack[i].by /\ g = stack'[i].by
      BY <1>6, <2>2
    <3>2. Root(g) = u /\ (i > 1 => g \in Savepoint /\ stack[i].name = name[g])
      BY <1>5, <1>6, <2>2, <3>1 DEF StackInv, OnStack
    <3>3. QED
      BY <1>2, <1>5, <1>6, <2>2, <3>1, <3>2
  <2>3. QED
    BY <2>1, <2>2 DEF OnStack
<1>8. Named'
  <2>1. \A r \in Savepoint : pc'[r] # "idle" => pc[r] # "idle"
    BY <1>1, <1>2 DEF UnderWay
  <2>2. QED
    BY <1>2, <2>1 DEF StackInv, Named
<1>9. OwnFrame'
  <2>1. SUFFICES ASSUME NEW r \in Savepoint, Open(r)', r \notin orphans'
                 PROVE  \E i \in DOMAIN stack' : stack'[i].by = r
    BY DEF OwnFrame
  <2>2. Open(r) /\ UnderWay(r) /\ r \notin orphans /\ (r = s => Open(s)')
    BY <1>2, <1>5, <2>1 DEF Open, UnderWay, Settled
  <2>3. PICK i \in DOMAIN stack : stack[i].by = r
    BY <2>2 DEF StackInv, OwnFrame
  <2>4. i \in DOMAIN stack'
    BY <1>3, <2>1, <2>2, <2>3
  <2>5. QED
    BY <1>6, <2>3, <2>4
<1>10. Chain'
  BY <1>1, <1>5 DEF StackInv, Chain
<1>live. Live'
  <2>1. SUFFICES ASSUME NEW r \in Savepoint, UnderWay(r)', r \notin orphans'
                 PROVE  (pc[Root(r)] = "callback" /\ state[Root(r)] = "ACTIVE")'
    BY DEF Live
  <2>2. UnderWay(r) /\ r \notin orphans /\ Root(r)' = Root(r)
    BY <1>1, <1>2, <1>5, <2>1
  <2>3. PICK u \in Begin : u = Root(r) /\ pc[u] = "callback" /\ state[u] = "ACTIVE"
    BY <1>1, <2>2, UnderWayOpened
  <2>4. QED
    BY <1>2, <1>5, <2>2, <2>3
<1>11. Above'
  <2>1. SUFFICES ASSUME NEW i \in DOMAIN stack', NEW x \in Savepoint, x = stack'[i].by, UnderWay(x)'
                 PROVE  /\ \A j \in DOMAIN stack' : i < j => x \in (Around(stack[j].by))'
                        /\ \A j \in DOMAIN stack' : i <= j => \A w \in stack'[j].writes :
                              w[1] \in Flow => x \in Around(w[1])'
    BY DEF Above
  <2>2. UnderWay(x) /\ i \in DOMAIN stack /\ x = stack[i].by
    BY <1>5, <1>6, <2>1
  <2>3. ASSUME NEW j \in DOMAIN stack', i < j PROVE x \in (Around(stack[j].by))'
    <3>1. PICK g \in Flow : g = stack[j].by /\ g = stack'[j].by /\ j \in DOMAIN stack
      BY <1>6
    <3>2. x \in Around(g)
      BY <2>2, <2>3, <3>1 DEF StackInv, Above
    <3>3. QED
      BY <1>5, <3>1, <3>2
  <2>4. ASSUME NEW j \in DOMAIN stack', i <= j, NEW w \in stack'[j].writes, w[1] \in Flow
        PROVE  x \in Around(w[1])'
    <3>1. PICK k \in DOMAIN stack : j <= k /\ w \in stack[k].writes
      BY <1>3
    <3>2. i <= k
      BY <1>1, <1>6, <2>4, <3>1
    <3>3. x \in Around(w[1])
      BY <2>2, <2>4, <3>1, <3>2 DEF StackInv, Above
    <3>4. QED
      BY <1>5, <2>4, <3>3
  <2>5. QED
    BY <2>3, <2>4
<1>12. Executed'
  <2>1. ASSUME NEW w \in durable', w[1] \in Flow PROVE w \in Writes(w[1])'
    BY <1>3, <1>5, <2>1 DEF StackInv, Executed
  <2>2. ASSUME NEW i \in DOMAIN stack', NEW w \in stack'[i].writes, w[1] \in Flow
        PROVE  w \in Writes(w[1])' /\ (Root(w[1]) = Root(stack[i].by))'
    <3>1. PICK k \in DOMAIN stack : w \in stack[k].writes
      BY <1>3
    <3>2. PICK g \in Flow : g = stack[i].by /\ g = stack'[i].by
      BY <1>6
    <3>3. PICK h \in Flow : h = w[1]
      BY <2>2
    <3>4. w \in Writes(h) /\ Root(h) = Root(stack[k].by)
      BY <2>2, <3>1, <3>3 DEF StackInv, Executed
    <3>5. PICK y \in Flow : y = stack[k].by /\ pc[y] # "idle" /\ Opened(Root(y))
      BY <1>1, FrameFacts DEF Owner
    <3>7. pc[g] # "idle" /\ Opened(Root(g))
      BY <1>1, <1>6, <3>2 DEF Owner
    <3>8. Root(y) \in Begin /\ Root(g) \in Begin
      BY <1>1, <3>5, <3>7, RootFacts
    <3>9. Root(stack[k].by) = Root(g)
      BY <3>5, <3>7, <3>8, OneOpened DEF StackInv
    <3>6. QED
      BY <1>5, <3>2, <3>3, <3>4, <3>9
  <2>3. \A g \in Flow : wrote'[g] > 0 => pc'[g] # "idle" /\ (g \in Begin => state'[g] # "PENDING")
    BY <1>1, <1>2 DEF StackInv, Executed
  <2>4. QED
    BY <2>1, <2>2, <2>3 DEF Executed
<1>13. NotLost'
  <2>1. SUFFICES ASSUME NEW u \in Begin, pc'[u] = "callback", state'[u] = "ACTIVE", NEW g \in Flow,
                        u \in Around(g)', \A x \in Around(g)' : pc'[x] # "rejected",
                        NEW w \in Writes(g)', w \notin undone'
                 PROVE  w \in AllWrites(stack)'
    BY DEF NotLost
  <2>2. /\ u \in Around(g) /\ pc[u] = "callback" /\ w \in Writes(g) /\ w \notin undone
        /\ \A x \in Around(g) : pc'[x] # "rejected"
    BY <1>2, <1>5, <2>1
  <2>3. \A x \in Around(g) : pc[x] # "rejected"
    <3>1. Around(g) \in SUBSET Flow
      BY <1>1 DEF Around, TypeOK
    <3>2. QED
      BY <1>2, <2>2, <3>1 DEF UnderWay, Settled
  <2>4. w \in AllWrites(stack)
    BY <1>2, <2>1, <2>2, <2>3 DEF StackInv, NotLost
  <2>5. w[1] = g
    BY <2>2 DEF Writes
  <2>6. s \in Around(g) => w \in Inside(s)
    BY <2>2 DEF Inside
  <2>7. QED
    BY <1>3, <2>1, <2>2, <2>4, <2>5, <2>6
<1>14. CommittedTogether'
  <2>1. ASSUME NEW w \in durable', w[1] \in Flow PROVE Done(Root(w[1]))'
    <3>1. PICK h \in Flow : h = w[1]
      BY <2>1
    <3>2. w \in Writes(h) /\ Done(Root(h))
      BY <1>3, <2>1, <3>1 DEF StackInv, Executed, CommittedTogether
    <3>3. pc[h] # "idle"
      BY <1>1, <3>2 DEF StackInv, Executed, Writes, TypeOK
    <3>4. PICK u \in Begin : u = Root(h)
      BY <1>1, <3>3, RootFacts
    <3>5. Done(u)' /\ Root(h)' = u
      BY <1>5, <3>2, <3>4
    <3>6. QED
      BY <3>1, <3>4, <3>5
  <2>2. ASSUME NEW u \in Begin, pc'[u] \in {"committed", "resolved"} PROVE Kept(u)' \subseteq durable'
    <3>1. Kept(u) \subseteq durable /\ u # R
      BY <1>4, <1>5, <2>2 DEF StackInv, CommittedTogether, Waiting
    <3>2. ASSUME NEW h \in Flow, u \in Around(h)'
          PROVE  /\ Around(h)' = Around(h) /\ wrote'[h] = wrote[h]
                 /\ \A x \in Around(h) \ {u} : pc'[x] = "resolved" => pc[x] = "resolved"
      <4>1. u \in Around(h) /\ Around(h) \in SUBSET Flow
        BY <1>1, <1>5, <3>2 DEF Around, TypeOK
      <4>2. s \in Around(h) => R \in Around(h)
        BY <1>1, <1>4 DEF Nested, Around
      <4>3. s \notin Around(h)
        BY <1>1, <3>1, <4>1, <4>2, OneRoot
      <4>4. QED
        BY <1>2, <1>5, <4>1, <4>3
    <3>3. Kept(u)' \subseteq Kept(u)
      BY <1>2, <3>2, KeptLess
    <3>4. QED
      BY <1>3, <3>1, <3>3
  <2>3. QED
    BY <2>1, <2>2 DEF CommittedTogether
<1>15. QED
  BY <1>7, <1>8, <1>9, <1>10, <1>live, <1>11, <1>12, <1>13, <1>14 DEF StackInv

\* A statement, of flow f or of other code, lands in the innermost savepoint.
LEMMA InsertStack ==
    ASSUME ~Branches, StackInv, OwnerInv', NEW w \in Statement, Insert(w),
           UNCHANGED <<state, pc, within, name, usable, undone, orphans>>,
           \/ wrote' = wrote /\ w[1] \notin Flow
           \/ /\ w[1] \in Flow /\ w = <<w[1], wrote[w[1]] + 1>> /\ Running(w[1])
              /\ state[Root(w[1])] = "ACTIVE"
              /\ wrote'[w[1]] = wrote[w[1]] + 1
              /\ \A g \in Flow : g # w[1] => wrote'[g] = wrote[g]
    PROVE  StackInv'
<1> DEFINE own == w[1] \in Flow
<1>1. /\ Begin \cap Savepoint = {} /\ Flow = Begin \cup Savepoint
      /\ OwnerInv /\ TypeOK /\ Nested /\ Awaiting /\ Live /\ TypeOK'
      /\ stack \in Seq(FrameSet) /\ stack' \in Seq(FrameSet)
      /\ DOMAIN stack = 1..Len(stack) /\ Len(stack) \in Nat
  BY TransactionAssumption, FrameFacts DEF StackInv, OwnerInv, TypeOK, Flow
<1>2. /\ Shrinks /\ Len(stack') = Len(stack)
      /\ stack = <<>> => durable' = durable \cup {w}
      /\ stack # <<>> =>
            /\ durable' = durable
            /\ \A j \in DOMAIN stack' : stack'[j].writes =
                  IF j = Len(stack) THEN stack[j].writes \cup {w} ELSE stack[j].writes
  BY <1>1, InsertEffect
<1>3. own => /\ Root(w[1]) \in Begin /\ Root(w[1]) \in Around(w[1])
             /\ pc[Root(w[1])] = "callback" /\ Opened(Root(w[1])) /\ stack # <<>>
             /\ \A x \in Savepoint : UnderWay(x) /\ Root(x) = Root(w[1]) => x \in Around(w[1])
  BY Inner DEF StackInv, OnStack
<1>4. /\ \A g \in Flow : Around(g)' = Around(g) /\ Root(g)' = Root(g)
      /\ \A u \in Begin : Opened(u)' = Opened(u) /\ Done(u)' = Done(u)
      /\ \A r \in Savepoint : UnderWay(r)' = UnderWay(r) /\ Open(r)' = Open(r)
  <2>1. \A g \in Flow : Around(g)' = Around(g) /\ Root(g)' = Root(g)
    BY RootSame
  <2>2. QED
    BY <2>1 DEF Opened, Done, UnderWay, Open
<1>5. \A g \in Flow : Writes(g) \subseteq Writes(g)' /\ (g # w[1] => wrote'[g] = wrote[g])
  <2>1. \A g \in Flow : wrote[g] \in Nat /\ (wrote'[g] = wrote[g] \/ wrote'[g] = wrote[g] + 1)
    BY <1>1 DEF TypeOK
  <2>2. \A g \in Flow : \A i \in 1..wrote[g] : i \in 1..wrote'[g]
    BY <2>1
  <2>3. QED
    BY <2>2 DEF Writes
<1>own. own => w \in Writes(w[1])'
  <2>1. own => wrote[w[1]] + 1 \in 1..wrote'[w[1]]
    BY <1>1 DEF TypeOK
  <2>2. QED
    BY <2>1 DEF Writes
<1>6. /\ DOMAIN stack' = DOMAIN stack /\ (stack # <<>> => stack' # <<>> /\ Len(stack) \in DOMAIN stack)
      /\ \A i \in DOMAIN stack' : /\ stack'[i].by = stack[i].by
                                  /\ stack'[i].name = stack[i].name /\ stack[i].by \in Flow
  <2>1. DOMAIN stack' = 1..Len(stack')
    BY <1>1
  <2>2. QED
    BY <1>1, <1>2, <2>1, FrameFacts DEF Shrinks
<1>7. \A j \in DOMAIN stack' : \A v \in stack'[j].writes :
         v \in stack[j].writes \/ (v = w /\ j = Len(stack))
  <2>1. CASE stack = <<>>
    BY <1>1, <1>6, <2>1
  <2>2. CASE stack # <<>>
    BY <1>2, <1>6, <2>2
  <2>3. QED
    BY <2>1, <2>2
<1>8. OnStack'
  <2>1. ASSUME NEW u \in Begin, Opened(u)'
        PROVE  stack' # <<>> /\ stack'[1].by = u /\ stack'[1].name = 0
    <3>1. stack # <<>> /\ stack[1].by = u /\ stack[1].name = 0
      BY <1>4, <2>1 DEF StackInv, OnStack
    <3>2. stack' # <<>> /\ 1 \in DOMAIN stack'
      BY <1>1, <1>6, <3>1
    <3>3. QED
      BY <1>6, <3>1, <3>2
  <2>2. ASSUME NEW u \in Begin, Opened(u)', NEW i \in DOMAIN stack'
        PROVE  (/\ Root(stack[i].by) = u
                /\ i > 1 => stack[i].by \in Savepoint /\ stack[i].name = name[stack[i].by])'
    <3>1. PICK g \in Flow : g = stack[i].by /\ g = stack'[i].by
      BY <1>6, <2>2
    <3>2. Root(g) = u /\ (i > 1 => g \in Savepoint /\ stack[i].name = name[g])
      BY <1>4, <1>6, <2>2, <3>1 DEF StackInv, OnStack
    <3>3. QED
      BY <1>4, <1>6, <2>2, <3>1, <3>2
  <2>3. QED
    BY <2>1, <2>2 DEF OnStack
<1>9. Named' /\ Chain'
  BY <1>1, <1>4 DEF StackInv, Named, Chain
<1>live. Live'
  <2>1. SUFFICES ASSUME NEW r \in Savepoint, UnderWay(r), r \notin orphans
                 PROVE  (pc[Root(r)] = "callback" /\ state[Root(r)] = "ACTIVE")'
    BY <1>4 DEF Live
  <2>2. Root(r)' = Root(r) /\ pc[Root(r)] = "callback" /\ state[Root(r)] = "ACTIVE"
    BY <1>1, <1>4, <2>1, UnderWayOpened
  <2>3. QED
    BY <2>2
<1>10. OwnFrame'
  BY <1>4, <1>6 DEF StackInv, OwnFrame
<1>11. Above'
  <2>1. SUFFICES ASSUME NEW i \in DOMAIN stack', NEW x \in Savepoint, x = stack'[i].by, UnderWay(x)'
                 PROVE  /\ \A j \in DOMAIN stack' : i < j => x \in (Around(stack[j].by))'
                        /\ \A j \in DOMAIN stack' : i <= j => \A v \in stack'[j].writes :
                              v[1] \in Flow => x \in Around(v[1])'
    BY DEF Above
  <2>2. UnderWay(x) /\ i \in DOMAIN stack /\ x = stack[i].by
    BY <1>4, <1>6, <2>1
  <2>3. ASSUME NEW j \in DOMAIN stack', i < j PROVE x \in (Around(stack[j].by))'
    <3>1. PICK g \in Flow : g = stack[j].by /\ g = stack'[j].by /\ j \in DOMAIN stack
      BY <1>6
    <3>2. x \in Around(g)
      BY <2>2, <2>3, <3>1 DEF StackInv, Above
    <3>3. QED
      BY <1>4, <3>1, <3>2
  <2>4. ASSUME NEW j \in DOMAIN stack', i <= j, NEW v \in stack'[j].writes, v[1] \in Flow
        PROVE  x \in Around(v[1])'
    <3>1. x \in Around(v[1])
      <4>1. CASE v \in stack[j].writes
        BY <1>6, <2>2, <2>4, <4>1 DEF StackInv, Above
      <4>2. CASE v = w
        <5>1. own /\ Root(x) = Root(w[1])
          BY <1>3, <2>2, <2>4, <4>2 DEF StackInv, OnStack
        <5>2. QED
          BY <1>3, <2>2, <4>2, <5>1
      <4>3. QED
        BY <1>7, <4>1, <4>2
    <3>2. QED
      BY <1>4, <2>4, <3>1
  <2>5. QED
    BY <2>3, <2>4
<1>12. Executed'
  <2>1. ASSUME NEW v \in durable', v[1] \in Flow PROVE v \in Writes(v[1])'
    <3>1. v \in durable
      BY <1>2, <1>3, <2>1
    <3>2. QED
      BY <1>5, <2>1, <3>1 DEF StackInv, Executed
  <2>2. ASSUME NEW i \in DOMAIN stack', NEW v \in stack'[i].writes, v[1] \in Flow
        PROVE  v \in Writes(v[1])' /\ (Root(v[1]) = Root(stack[i].by))'
    <3>1. PICK g \in Flow : g = stack[i].by /\ g = stack'[i].by
      BY <1>6
    <3>2. PICK h \in Flow : h = v[1]
      BY <2>2
    <3>3. v \in Writes(h)' /\ Root(h) = Root(g)
      <4>1. CASE v \in stack[i].writes
        BY <1>5, <1>6, <2>2, <3>1, <3>2, <4>1 DEF StackInv, Executed
      <4>2. CASE v = w
        <5>1. Root(g) = Root(h)
          BY <1>3, <1>6, <2>2, <3>1, <3>2, <4>2 DEF StackInv, OnStack
        <5>2. QED
          BY <1>own, <3>2, <4>2, <5>1
      <4>3. QED
        BY <1>7, <4>1, <4>2
    <3>4. QED
      BY <1>4, <3>1, <3>2, <3>3
  <2>3. \A g \in Flow : wrote'[g] > 0 => pc'[g] # "idle" /\ (g \in Begin => state'[g] # "PENDING")
    <3>1. SUFFICES ASSUME NEW g \in Flow, wrote'[g] > 0
                   PROVE  pc[g] # "idle" /\ (g \in Begin => state[g] # "PENDING")
      OBVIOUS
    <3>2. CASE g = w[1]
      <4>1. Running(g) /\ state[Root(g)] = "ACTIVE"
        BY <3>1, <3>2
      <4>2. g \in Begin => Root(g) = g
        BY <1>1, RootFacts
      <4>3. QED
        BY <4>1, <4>2 DEF Running
    <3>3. CASE g # w[1]
      BY <1>5, <3>1, <3>3 DEF StackInv, Executed
    <3>4. QED
      BY <3>2, <3>3
  <2>4. QED
    BY <2>1, <2>2, <2>3 DEF Executed
<1>13. NotLost'
  <2>1. SUFFICES ASSUME NEW u \in Begin, pc'[u] = "callback", state'[u] = "ACTIVE", NEW g \in Flow,
                        u \in Around(g)', \A x \in Around(g)' : pc'[x] # "rejected",
                        NEW v \in Writes(g)', v \notin undone'
                 PROVE  v \in AllWrites(stack)'
    BY DEF NotLost
  <2>2. /\ u \in Around(g) /\ \A x \in Around(g) : pc[x] # "rejected"
    BY <1>4, <2>1
  <2>3. stack # <<>> /\ \A i \in DOMAIN stack : stack[i].writes \subseteq stack'[i].writes
    <3>1. Opened(u)
      BY <2>1 DEF Opened
    <3>2. QED
      BY <1>2, <1>6, <3>1 DEF StackInv, OnStack
  <2>4. CASE v \in Writes(g)
    <3>1. v \in AllWrites(stack)
      BY <2>1, <2>2, <2>4 DEF StackInv, NotLost
    <3>2. PICK i \in DOMAIN stack : v \in stack[i].writes
      BY <3>1 DEF AllWrites
    <3>3. QED
      BY <1>6, <2>3, <3>2 DEF AllWrites
  <2>5. CASE v \notin Writes(g)
    <3>1. g = w[1] /\ own
      BY <1>5, <2>1, <2>5 DEF Writes
    <3>2. v = w
      <4>1. PICK i \in 1..wrote'[g] : v = <<g, i>>
        BY <2>1 DEF Writes
      <4>2. i \notin 1..wrote[g] /\ wrote[g] \in Nat /\ wrote'[g] = wrote[g] + 1
        BY <1>1, <2>5, <3>1, <4>1 DEF Writes, TypeOK
      <4>3. i = wrote[g] + 1
        BY <4>1, <4>2
      <4>4. w = <<g, wrote[g] + 1>>
        BY <1>1, <3>1 DEF TypeOK
      <4>5. QED
        BY <4>1, <4>3, <4>4
    <3>3. Len(stack) \in DOMAIN stack' /\ w \in stack'[Len(stack)].writes
      BY <1>2, <1>6, <2>3
    <3>4. QED
      BY <3>2, <3>3 DEF AllWrites
  <2>6. QED
    BY <2>4, <2>5
<1>14. CommittedTogether'
  <2>1. ASSUME NEW v \in durable', v[1] \in Flow PROVE Done(Root(v[1]))'
    <3>1. PICK h \in Flow : h = v[1]
      BY <2>1
    <3>2. v \in durable
      BY <1>2, <1>3, <2>1
    <3>3. v \in Writes(h) /\ Done(Root(h))
      BY <2>1, <3>1, <3>2 DEF StackInv, Executed, CommittedTogether
    <3>4. pc[h] # "idle"
      BY <1>1, <3>3 DEF StackInv, Executed, Writes, TypeOK
    <3>5. PICK u \in Begin : u = Root(h)
      BY <1>1, <3>4, RootFacts
    <3>6. Done(u)' /\ Root(h)' = u
      BY <1>4, <3>3, <3>5
    <3>7. QED
      BY <3>1, <3>5, <3>6
  <2>2. ASSUME NEW u \in Begin, pc'[u] \in {"committed", "resolved"} PROVE Kept(u)' \subseteq durable'
    <3>1. Kept(u) \subseteq durable
      BY <2>2 DEF StackInv, CommittedTogether
    <3>2. ASSUME NEW h \in Flow, u \in Around(h)'
          PROVE  /\ Around(h)' = Around(h) /\ wrote'[h] = wrote[h]
                 /\ \A x \in Around(h) \ {u} : pc'[x] = "resolved" => pc[x] = "resolved"
      <4>1. h # w[1]
        BY <1>1, <1>3, <1>4, <2>2, <3>2, OneRoot
      <4>2. QED
        BY <1>4, <1>5, <3>2, <4>1
    <3>3. Kept(u)' \subseteq Kept(u)
      BY <3>2, KeptLess
    <3>4. QED
      BY <1>2, <3>1, <3>3
  <2>3. QED
    BY <2>1, <2>2 DEF CommittedTogether
<1>15. QED
  BY <1>8, <1>9, <1>10, <1>live, <1>11, <1>12, <1>13, <1>14 DEF StackInv

LEMMA StackStep ==
    ASSUME Alone, StackInv, ~strayed', [Next]_vars
    PROVE  StackInv'
<1>1. ~Branches /\ OwnerInv /\ OwnerInv' /\ TypeOK /\ Begin \cap Savepoint = {}
  BY OwnerStep, TransactionAssumption DEF Alone, StackInv, OwnerInv
<1>2. ASSUME NEW t \in Begin, BeginStep(t) PROVE StackInv'
  BY <1>1, <1>2, BeginStack
<1>3. ASSUME NEW s \in Savepoint, NEW f \in Flow, SendSavepoint(s, f) PROVE StackInv'
  BY <1>1, <1>3, SendSavepointStack
<1>4. ASSUME NEW s \in Savepoint, SavepointStep(s) PROVE StackInv'
  BY <1>1, <1>4, SavepointStack
<1>5. ASSUME NEW f \in Flow, NEW g \in Flow, Write(f, g) PROVE StackInv'
  <2> DEFINE w == <<f, wrote[f] + 1>>
  <2>1. /\ Running(f) /\ w \in Statement /\ Insert(w)
        /\ UNCHANGED <<state, counter, pc, within, name, usable, plain, closed, undone, orphans>>
        /\ wrote'[f] = wrote[f] + 1 /\ \A h \in Flow : h # f => wrote'[h] = wrote[h]
    BY <1>1, <1>5, WriteEffect
  <2>2. w[1] = f /\ state[Root(f)] = "ACTIVE"
    BY <1>1, <1>5, WriteOpened
  <2>3. w = <<w[1], wrote[w[1]] + 1>>
    BY <2>2
  <2> HIDE DEF w
  <2>4. QED
    BY <1>1, <2>1, <2>2, <2>3, InsertStack
<1>6. ASSUME NEW p \in Plain, PlainQuery(p) PROVE StackInv'
  <2> DEFINE w == <<p, 1>>
  <2>1. /\ w \in Statement /\ Insert(w)
        /\ UNCHANGED <<state, counter, pc, within, name, usable, wrote, closed, undone, orphans>>
    BY <1>1, <1>6, PlainEffect DEF history
  <2>2. w[1] \notin Flow
    BY TransactionAssumption
  <2> HIDE DEF w
  <2>3. QED
    BY <1>1, <2>1, <2>2, InsertStack
<1>7. CASE UNCHANGED vars
  <2>1. UNCHANGED <<stack, durable, state, counter, pc, within, name, usable, wrote, plain, closed,
                    undone, orphans>>
    BY <1>7 DEF vars, server, others, history
  <2>2. OnStack' /\ Named' /\ Live' /\ OwnFrame' /\ Chain' /\ Above'
    BY <2>1 DEF StackInv, OnStack, Named, Live, OwnFrame, Chain, Above, Opened, Open, UnderWay, Root, Around
  <2>3. Executed' /\ NotLost' /\ CommittedTogether'
    BY <2>1 DEF StackInv, Executed, NotLost, CommittedTogether, Done, Kept, AllWrites, Writes, Root, Around
  <2>4. QED
    BY <1>1, <2>2, <2>3 DEF StackInv
<1>8. ~ Close /\ \A f \in Flow : ~ FailAndRollBack(f)
  BY DEF Alone, Close, FailAndRollBack
<1>9. QED
  BY <1>2, <1>3, <1>4, <1>5, <1>6, <1>7, <1>8 DEF Next, BeginStep, SavepointStep

LEMMA StackInit == Init => StackInv
<1> SUFFICES ASSUME Init PROVE StackInv
  OBVIOUS
<1>1. OwnerInv
  BY OwnerInit
<1>2. \A f \in Flow : Writes(f) = {} /\ pc[f] = "idle"
  BY DEF Init, Writes
<1>3. Begin \subseteq Flow /\ Savepoint \subseteq Flow /\ DOMAIN stack = {} /\ durable = {}
  BY DEF Init, Flow
<1>4. OnStack /\ Named /\ Live /\ OwnFrame /\ Chain /\ Above
  BY <1>2, <1>3 DEF Init, OnStack, Named, Live, OwnFrame, Chain, Above, Opened, Open, UnderWay
<1>5. Executed /\ NotLost /\ CommittedTogether
  BY <1>2, <1>3 DEF Init, Executed, NotLost, CommittedTogether
<1>6. QED
  BY <1>1, <1>4, <1>5 DEF StackInv

\* What has strayed stays so: a step that ends without one began without one.
LEMMA StrayedStays == ASSUME [Next]_vars, strayed PROVE strayed'
<1>1. ASSUME NEW t \in Begin, BeginStep(t) PROVE strayed'
  BY <1>1 DEF BeginStep, SendBegin, Began, Return, Committed, Throw, Catch, RolledBack, Called,
     CallCommit, CallRollback, others, history
<1>2. ASSUME NEW s \in Savepoint, SavepointStep(s) \/ \E f \in Flow : SendSavepoint(s, f)
      PROVE  strayed'
  BY <1>2 DEF SavepointStep, SendSavepoint, Created, SendRelease, Released, ThrowOut, Undo,
     CallRelease, CallReleased, CallRollbackTo, FoundFor, others, history
<1>3. CASE \/ \E f \in Flow : FailAndRollBack(f) \/ \E g \in Flow : Write(f, g)
           \/ \E p \in Plain : PlainQuery(p)
           \/ Close \/ UNCHANGED vars
  BY <1>3 DEF FailAndRollBack, Write, PlainQuery, Close, vars, others, history
<1>4. QED
  BY <1>1, <1>2, <1>3 DEF Next, BeginStep, SavepointStep

\* Until a statement strays the invariant holds.
Straight == OwnerInv /\ (~strayed => StackInv)

LEMMA StraightStep == ASSUME Alone, Straight, [Next]_vars PROVE Straight'
<1>1. OwnerInv'
  BY OwnerStep DEF Straight, Alone
<1>2. ASSUME ~strayed' PROVE StackInv'
  <2>1. ~strayed
    BY <1>2, StrayedStays
  <2>2. QED
    BY <1>2, <2>1, StackStep DEF Straight
<1>3. QED
  BY <1>1, <1>2 DEF Straight

LEMMA StraightInit == Init => Straight
BY OwnerInit, StackInit DEF Straight

\* A begin() is all or nothing: when it resolves, everything its callback kept is
\* committed, and when it rejects nothing is, unless the callback had called
\* tx.commit() itself; whatever the savepoints are called, however deep they go,
\* wherever they fail, and whichever handle a callback uses, until a statement
\* strays.
THEOREM AllOrNothing == Alone => (Spec => []Atomic)
<1> SUFFICES ASSUME Alone PROVE Spec => []Atomic
  OBVIOUS
<1>1. Straight => Atomic
  <2> SUFFICES ASSUME StackInv, NEW t \in Begin
               PROVE  /\ pc[t] = "resolved" => Kept(t) \subseteq durable
                      /\ pc[t] = "rejected" /\ state[t] # "COMMITTED" => Inside(t) \cap durable = {}
    BY DEF Straight, Atomic, AllOrNone
  <2>1. pc[t] = "resolved" => Kept(t) \subseteq durable
    BY DEF StackInv, CommittedTogether
  <2>2. ASSUME pc[t] = "rejected", NEW w \in Inside(t), w \in durable PROVE state[t] = "COMMITTED"
    <3>1. PICK g \in Flow : t \in Around(g) /\ w \in Writes(g)
      BY DEF Inside
    <3>2. w[1] = g /\ wrote[g] > 0 /\ TypeOK /\ Nested
      BY <3>1 DEF Writes, StackInv, OwnerInv, TypeOK
    <3>3. pc[g] # "idle"
      BY <3>2 DEF StackInv, Executed
    <3>4. Root(g) = t
      BY <3>1, <3>2, <3>3, RootFacts
    <3>5. Done(t)
      BY <2>2, <3>2, <3>4 DEF StackInv, CommittedTogether
    <3>6. QED
      BY <2>2, <3>5 DEF Done
  <2>3. QED
    BY <2>1, <2>2
<1>2. QED
  BY <1>1, StraightInit, StraightStep, PTL DEF Spec

\* A savepoint that fails takes nothing else with it: while the callback of a
\* begin() runs, all its transaction kept so far is on the connection, until a
\* statement strays.
THEOREM SavepointsUndoOnlyThemselves == Alone => (Spec => []NothingElseUndone)
<1> SUFFICES ASSUME Alone PROVE Spec => []NothingElseUndone
  OBVIOUS
<1>1. Straight => NothingElseUndone
  <2> SUFFICES ASSUME StackInv, NEW t \in Begin, pc[t] = "callback", state[t] = "ACTIVE", NEW w \in Kept(t)
               PROVE  w \in AllWrites(stack)
    BY DEF Straight, NothingElseUndone
  <2>1. PICK h \in Flow : /\ t \in Around(h) /\ w \in Writes(h) /\ w \notin undone
                          /\ \A s \in Around(h) \ {t} : pc[s] = "resolved"
    BY DEF Kept
  <2>2. \A s \in Around(h) : pc[s] # "rejected"
    BY <2>1
  <2>3. QED
    BY <2>1, <2>2 DEF StackInv, NotLost
<1>2. QED
  BY <1>1, StraightInit, StraightStep, PTL DEF Spec

\* While a begin() has its transaction open every statement on the connection is
\* its own, until one strays, provided that all other code goes through begin() too.
THEOREM OneAtATime == Alone /\ Plain = {} => (Spec => []Exclusive)
<1> SUFFICES ASSUME Alone, Plain = {} PROVE Spec => []Exclusive
  OBVIOUS
<1>1. Straight => Exclusive
  <2> SUFFICES ASSUME StackInv, NEW i \in DOMAIN stack, NEW w \in stack[i].writes
               PROVE  w[1] \in Flow /\ Root(w[1]) = Root(stack[i].by)
    BY DEF Straight, Exclusive
  <2>1. stack \in Seq(FrameSet)
    BY DEF StackInv, OwnerInv, TypeOK
  <2>2. w \in Statement
    BY <2>1, FrameFacts
  <2>3. w[1] \in Flow
    BY <2>2 DEF Statement
  <2>4. QED
    BY <2>3 DEF StackInv, Executed
<1>2. QED
  BY <1>1, StraightInit, StraightStep, PTL DEF Spec

-------------------------------------------------------------------------------
(* What a savepoint that failed leaves.  *)

LEMMA InsideFacts ==
    ASSUME NEW s \in Savepoint
    PROVE  \A w \in Inside(s) : w[1] \in Flow /\ s \in Around(w[1]) /\ w \in Writes(w[1])
<1>1. ASSUME NEW w \in Inside(s) PROVE w[1] \in Flow /\ s \in Around(w[1]) /\ w \in Writes(w[1])
  <2>1. PICK g \in Flow : s \in Around(g) /\ w \in Writes(g)
    BY DEF Inside
  <2>2. w[1] = g
    BY <2>1 DEF Writes
  <2>3. QED
    BY <2>1, <2>2
<1>2. QED
  BY <1>1

LEMMA BeginUndone ==
    ASSUME UndoneInv, StackInv', NEW t \in Begin, BeginStep(t)
    PROVE  UndoneInv'
<1>1. /\ Begin \cap Savepoint = {} /\ Flow = Begin \cup Savepoint /\ t \in Flow /\ OwnerInv
  BY TransactionAssumption DEF UndoneInv, StackInv, Flow
<1>2. /\ UNCHANGED <<counter, within, name, usable, wrote>> /\ orphans \subseteq orphans'
      /\ \A s \in Savepoint : pc'[s] = pc[s]
  BY <1>1, BeginEffect
<1>3. /\ \A f \in Flow : Around(f)' = Around(f) /\ Root(f)' = Root(f) /\ Writes(f)' = Writes(f)
      /\ \A s \in Savepoint : s \in Flow /\ Open(s)' = Open(s)
  BY <1>1, <1>2, RootSame DEF Writes, Open
<1>4. NamesDiffer'
  BY <1>2, <1>3 DEF UndoneInv, NamesDiffer
<1>5. \/ stack' = stack /\ durable' = durable
      \/ /\ \A i \in DOMAIN stack' : i = 1 /\ stack'[i].writes = {}
         /\ durable' = durable \/ durable' = durable \cup AllWrites(stack)
  BY <1>1, BeginEffect DEF server, Frame
<1>6. WrittenAbove' /\ OneFrame'
  BY <1>2, <1>3, <1>5 DEF UndoneInv, WrittenAbove, OneFrame
<1>7. \A s \in Savepoint : Inside(s)' = Inside(s)
  BY <1>3 DEF Inside
<1>8. durable' \cup AllWrites(stack)' \subseteq durable \cup AllWrites(stack)
  BY <1>5 DEF AllWrites
<1>9. FailedGone'
  BY <1>2, <1>7, <1>8 DEF UndoneInv, FailedGone
<1>10. QED
  BY <1>4, <1>6, <1>9 DEF UndoneInv

\* An automatic name is new in its transaction.
LEMMA SendSavepointUndone ==
    ASSUME ~Branches, UserName = {}, UndoneInv, StackInv',
           NEW s \in Savepoint, NEW f \in Flow, SendSavepoint(s, f)
    PROVE  UndoneInv'
<1>1. /\ Begin \cap Savepoint = {} /\ Flow = Begin \cup Savepoint /\ s \in Flow
      /\ StackInv /\ OwnerInv /\ TypeOK /\ Nested /\ Owner /\ Live
      /\ stack \in Seq(FrameSet) /\ stack' \in Seq(FrameSet)
  BY TransactionAssumption DEF UndoneInv, StackInv, OwnerInv, TypeOK, Flow
<1>2. /\ f # s /\ pc[s] = "idle" /\ pc[f] = "callback" /\ Root(f) \in Begin
      /\ within'[s] = Around(f) /\ pc'[s] = "created" /\ name'[s] \in Nat
      /\ \A r \in Savepoint : r # s => within'[r] = within[r] /\ name'[r] = name[r]
      /\ \A g \in Flow : g # s => pc'[g] = pc[g]
      /\ Len(stack') = Len(stack) + 1 /\ stack'[Len(stack')] = Frame(name'[s], s)
      /\ \A i \in DOMAIN stack : i \in DOMAIN stack' /\ stack'[i] = stack[i]
  BY <1>1, SendSavepointEffect
<1>3. UNCHANGED <<durable, state, usable, wrote, undone, orphans>>
  BY DEF SendSavepoint, others, history
<1>4. PICK R \in Begin : R = Root(f) /\ R \in Around(f)
  <2>1. f \in Begin \/ f \in Savepoint
    BY <1>1
  <2>2. Root(f) \in Around(f)
    BY <1>1, <1>2, <2>1, RootFacts
  <2>3. QED
    BY <1>2, <2>2
<1>5. wrote[s] = 0 /\ \A g \in Flow : Writes(g)' = Writes(g)
  BY <1>1, <1>2, <1>3 DEF StackInv, Executed, TypeOK, Writes
<1>6. \A g \in Flow : g # s => /\ Around(g)' = Around(g) /\ Root(g)' = Root(g) /\ s \notin Around(g)
  <2>1. ASSUME NEW g \in Flow, g # s PROVE s \notin Around(g)
    BY <1>1, <1>2, <2>1 DEF Nested, Around
  <2>2. QED
    BY <1>1, <1>2, <2>1, RootSame
<1>7. Root(s)' = R
  <2>1. Around(s)' = {s} \cup Around(f)
    BY <1>1, <1>2 DEF Around
  <2>2. \A u \in Around(s)' : u \in Begin <=> u = R
    BY <1>1, <1>4, <2>1, OneRoot
  <2>3. QED
    BY <1>4, <2>1, <2>2 DEF Root
<1>8. /\ DOMAIN stack = 1..Len(stack) /\ DOMAIN stack' = 1..(Len(stack) + 1) /\ Len(stack) \in Nat
      /\ \A i \in DOMAIN stack : stack[i].by # s
      /\ stack'[Len(stack) + 1].by = s /\ stack'[Len(stack) + 1].writes = {}
  <2>1. /\ DOMAIN stack = 1..Len(stack) /\ DOMAIN stack' = 1..(Len(stack) + 1) /\ Len(stack) \in Nat
    BY <1>1, <1>2, FrameFacts
  <2>2. \A i \in DOMAIN stack : stack[i].by # s
    BY <1>1, <1>2 DEF Owner
  <2>3. QED
    BY <1>2, <2>1, <2>2 DEF Frame
<1>9. \A i \in DOMAIN stack' : i \in DOMAIN stack \/ i = Len(stack) + 1
  BY <1>8
<1>10. Writes(s) = {}
  BY <1>5 DEF Writes
<1>11. NamesDiffer'
  <2>1. /\ name'[s] = counter[R] + 1 /\ counter' = [counter EXCEPT ![R] = @ + 1]
        /\ counter \in [Begin -> Nat] /\ name \in [Savepoint -> Nat]
    BY <1>1, <1>4 DEF SendSavepoint, NextName, TypeOK
  <2>2. /\ counter'[R] = name'[s] /\ counter[R] < name'[s] /\ counter[R] \in Nat
        /\ \A u \in Begin : counter[u] \in Nat /\ counter'[u] \in Nat /\ counter[u] <= counter'[u]
    BY <2>1
  <2>3. ASSUME NEW r \in Savepoint, r # s, pc'[r] # "idle"
        PROVE  /\ pc[r] # "idle" /\ Root(r) \in Begin /\ Root(r)' = Root(r)
               /\ name[r] <= counter[Root(r)] /\ name'[r] = name[r] /\ name[r] \in Nat
    BY <1>1, <1>2, <1>6, <2>1, <2>3, RootFacts DEF UndoneInv, NamesDiffer
  <2>4. ASSUME NEW r \in Savepoint, pc'[r] # "idle" PROVE name'[r] <= (counter[Root(r)])'
    <3>1. CASE r = s
      BY <1>7, <2>2, <3>1
    <3>2. CASE r # s
      <4>1. PICK u \in Begin : u = Root(r) /\ u = Root(r)' /\ name'[r] <= counter[u]
        BY <2>3, <2>4, <3>2
      <4>2. name'[r] <= counter'[u]
        BY <2>2, <2>3, <2>4, <3>2, <4>1
      <4>3. QED
        BY <4>1, <4>2
    <3>3. QED
      BY <3>1, <3>2
  <2>5. ASSUME NEW x \in Savepoint, NEW r \in Savepoint, x # r, pc'[x] # "idle", pc'[r] # "idle",
               Root(x)' = Root(r)'
        PROVE  name'[x] # name'[r]
    <3>1. CASE x # s /\ r # s
      BY <2>3, <2>5, <3>1 DEF UndoneInv, NamesDiffer
    <3>2. CASE x = s
      BY <1>7, <2>2, <2>3, <2>5, <3>2
    <3>3. CASE r = s
      BY <1>7, <2>2, <2>3, <2>5, <3>3
    <3>4. QED
      BY <3>1, <3>2, <3>3
  <2>6. QED
    BY <2>4, <2>5 DEF NamesDiffer
<1>12. ASSUME NEW j \in DOMAIN stack', NEW w \in stack'[j].writes, w[1] \in Flow
       PROVE  /\ j \in DOMAIN stack /\ w \in stack[j].writes /\ w[1] # s
              /\ Around(w[1])' = Around(w[1])
  <2>1. j \in DOMAIN stack /\ w \in stack[j].writes
    BY <1>2, <1>8, <1>9
  <2>2. w \in Writes(w[1])
    BY <1>1, <1>12, <2>1 DEF StackInv, Executed
  <2>3. w[1] # s
    BY <1>10, <2>2
  <2>4. QED
    BY <1>6, <1>12, <2>1, <2>3
<1>13. WrittenAbove'
  <2>1. SUFFICES ASSUME NEW x \in Savepoint, Open(x)', x \notin orphans, NEW j \in DOMAIN stack',
                        NEW w \in stack'[j].writes, w[1] \in Flow, x \in Around(w[1])'
                 PROVE  \E i \in DOMAIN stack' : i <= j /\ stack'[i].by = x
    BY <1>3 DEF WrittenAbove
  <2>2. x # s /\ x \in Around(w[1]) /\ j \in DOMAIN stack /\ w \in stack[j].writes
    BY <1>6, <1>12, <2>1
  <2>3. Open(x)
    BY <1>1, <1>2, <1>3, <2>1, <2>2 DEF Open
  <2>4. PICK i \in DOMAIN stack : i <= j /\ stack[i].by = x
    BY <2>1, <2>2, <2>3 DEF UndoneInv, WrittenAbove
  <2>5. QED
    BY <1>2, <2>4
<1>14. OneFrame'
  BY <1>2, <1>8, <1>9 DEF UndoneInv, OneFrame
<1>15. FailedGone'
  <2>1. SUFFICES ASSUME NEW x \in Savepoint, x \notin orphans, pc'[x] = "rejected", usable'[x],
                        NEW w \in Inside(x)', w \in durable' \cup AllWrites(stack)'
                 PROVE  FALSE
    BY <1>3 DEF FailedGone
  <2>2. x # s /\ pc[x] = "rejected" /\ usable[x]
    BY <1>1, <1>2, <1>3, <2>1
  <2>3. PICK g \in Flow : x \in Around(g)' /\ w \in Writes(g)'
    BY <2>1 DEF Inside
  <2>4. g # s /\ w \in Writes(g) /\ x \in Around(g)
    BY <1>5, <1>6, <1>10, <2>3
  <2>5. w \in Inside(x)
    BY <2>4 DEF Inside
  <2>6. w \in durable \cup AllWrites(stack)
    <3>1. AllWrites(stack)' \subseteq AllWrites(stack)
      BY <1>2, <1>8, <1>9 DEF AllWrites
    <3>2. QED
      BY <1>3, <2>1, <3>1
  <2>7. QED
    BY <2>1, <2>2, <2>5, <2>6 DEF UndoneInv, FailedGone
<1>16. QED
  BY <1>11, <1>13, <1>14, <1>15 DEF UndoneInv

\* ROLLBACK TO finds the frame of the savepoint itself, and so undoes all it wrote.
LEMMA SavepointUndoes ==
    ASSUME ~Branches, UndoneInv, StackInv', ~strayed', NEW s \in Savepoint, SavepointStep(s)
    PROVE  UndoneInv'
<1>1. /\ Begin \cap Savepoint = {} /\ Flow = Begin \cup Savepoint /\ s \in Flow
      /\ StackInv /\ OwnerInv /\ TypeOK /\ Nested /\ Owner /\ Live
      /\ stack \in Seq(FrameSet) /\ stack' \in Seq(FrameSet)
  BY TransactionAssumption DEF UndoneInv, StackInv, OwnerInv, TypeOK, Flow
<1>2. /\ UNCHANGED <<state, counter, within, name, wrote>> /\ orphans \subseteq orphans'
      /\ UnderWay(s)
      /\ \A g \in Flow : g # s => pc'[g] = pc[g]
      /\ \A r \in Savepoint : r # s => usable'[r] = usable[r]
      /\ Open(s)' => Open(s)
      /\ pc'[s] = "rejected" => pc[s] = "undoing" /\ usable'[s] = usable[s]
  BY <1>1, SavepointEffect
<1>3. /\ Shrinks /\ durable' = durable
      /\ \A j \in DOMAIN stack' : \A w \in stack'[j].writes :
            \E k \in DOMAIN stack : j <= k /\ w \in stack[k].writes /\ (j = k \/ j = Len(stack'))
      /\ \A i \in DOMAIN stack : \A r \in Savepoint :
            r = stack[i].by /\ UnderWay(r) /\ r \notin orphans' /\ (r = s => Open(s)') =>
               i \in DOMAIN stack'
  BY <1>1, SavepointFrames
<1>4. /\ \A g \in Flow : Around(g)' = Around(g) /\ Root(g)' = Root(g) /\ Writes(g)' = Writes(g)
      /\ \A r \in Savepoint : r \in Flow /\ (Open(r)' => Open(r)) /\ (Open(r) => UnderWay(r))
  <2>1. \A g \in Flow : Around(g)' = Around(g) /\ Root(g)' = Root(g)
    BY <1>2, RootSame
  <2>2. \A g \in Flow : Writes(g)' = Writes(g)
    BY <1>2 DEF Writes
  <2>3. \A r \in Savepoint : r \in Flow /\ (Open(r)' => Open(r)) /\ (Open(r) => UnderWay(r))
    BY <1>1, <1>2 DEF UnderWay, Open, Settled
  <2>4. QED
    BY <2>1, <2>2, <2>3
<1>5. /\ DOMAIN stack' = 1..Len(stack') /\ DOMAIN stack = 1..Len(stack)
      /\ Len(stack) \in Nat /\ Len(stack') \in Nat
      /\ \A i \in DOMAIN stack' : i \in DOMAIN stack /\ stack'[i].by = stack[i].by
  BY <1>1, <1>3, FrameFacts DEF Shrinks
<1>6. NamesDiffer'
  <2>1. \A r \in Savepoint : pc'[r] # "idle" => pc[r] # "idle"
    BY <1>1, <1>2 DEF UnderWay
  <2>2. QED
    BY <1>2, <1>4, <2>1 DEF UndoneInv, NamesDiffer
<1>7. WrittenAbove'
  <2>1. SUFFICES ASSUME NEW x \in Savepoint, Open(x)', x \notin orphans', NEW j \in DOMAIN stack',
                        NEW w \in stack'[j].writes, w[1] \in Flow, x \in Around(w[1])'
                 PROVE  \E i \in DOMAIN stack' : i <= j /\ stack'[i].by = x
    BY DEF WrittenAbove
  <2>2. Open(x) /\ UnderWay(x) /\ x \notin orphans /\ x \in Around(w[1]) /\ (x = s => Open(s)')
    BY <1>2, <1>4, <2>1
  <2>3. PICK k \in DOMAIN stack : w \in stack[k].writes /\ (j = k \/ j = Len(stack'))
    BY <1>3
  <2>4. PICK i \in DOMAIN stack : i <= k /\ stack[i].by = x
    BY <2>1, <2>2, <2>3 DEF UndoneInv, WrittenAbove
  <2>5. i \in DOMAIN stack'
    BY <1>3, <2>1, <2>2, <2>4
  <2>6. i <= j
    BY <1>5, <2>3, <2>4, <2>5
  <2>7. QED
    BY <1>5, <2>4, <2>5, <2>6
<1>8. OneFrame'
  BY <1>5 DEF UndoneInv, OneFrame
<1>9. FailedGone'
  <2>1. SUFFICES ASSUME NEW x \in Savepoint, x \notin orphans', pc'[x] = "rejected", usable'[x],
                        NEW w \in Inside(x)', w \in durable' \cup AllWrites(stack)'
                 PROVE  FALSE
    BY DEF FailedGone
  <2>orp. x \notin orphans
    BY <1>2, <2>1
  <2>2. w \in Inside(x) /\ w[1] \in Flow /\ x \in Around(w[1]) /\ w \in Writes(w[1])
    <3>1. Inside(x)' = Inside(x)
      BY <1>4 DEF Inside
    <3>2. QED
      BY <2>1, <3>1, InsideFacts
  <2>3. CASE x # s
    <3>1. pc[x] = "rejected" /\ usable[x]
      BY <1>2, <1>4, <2>1, <2>3
    <3>2. AllWrites(stack)' \subseteq AllWrites(stack)
      BY <1>3 DEF AllWrites
    <3>3. QED
      BY <1>3, <2>1, <2>orp, <2>2, <3>1, <3>2 DEF UndoneInv, FailedGone
  <2>4. CASE x = s
    <3> DEFINE N == Newest(name[s])
    <3>1. Open(s) /\ usable[s] /\ pc[s] \notin Waiting
      BY <1>2, <2>1, <2>4 DEF Open, Waiting
    <3>2. N \in DOMAIN stack /\ N > 1 /\ N # 0
      BY <1>1, <2>4, <2>orp, <3>1, FromOwnFrame
    <3>3. RollbackTo(name[s])
      BY <1>1, <2>1, <2>4, <3>1, <3>2, SavepointEffect
    <3>4. /\ Len(stack') = N
          /\ \A j \in DOMAIN stack' : stack'[j].writes = IF j = N THEN {} ELSE stack[j].writes
      BY <1>1, <3>2, <3>3, RollbackEffect
    <3>5. stack[N].name = name[s]
      BY <1>1, <3>2, NewestFacts
    <3> HIDE DEF N
    <3>6. PICK R \in Begin : /\ R = Root(s) /\ R \in within[s] /\ Opened(R)
                             /\ pc[R] = "callback" /\ state[R] = "ACTIVE"
      BY <1>1, <1>2, <2>4, <2>orp, UnderWayOpened
    <3>7. w \notin durable
      <4>1. PICK g \in Flow : g = w[1]
        BY <2>2
      <4>2. pc[g] # "idle"
        BY <1>1, <2>2, <4>1 DEF StackInv, Executed, Writes, TypeOK
      <4>3. R \in Around(g)
        BY <1>1, <2>2, <2>4, <3>6, <4>1 DEF Nested, Around
      <4>4. Root(g) = R
        BY <1>1, <4>2, <4>3, RootFacts
      <4>5. ~ Done(R)
        BY <3>6 DEF Done
      <4>6. QED
        BY <1>1, <4>1, <4>4, <4>5 DEF StackInv, CommittedTogether
    <3>8. PICK j \in DOMAIN stack' : w \in stack'[j].writes
      BY <1>3, <2>1, <3>7 DEF AllWrites
    <3>9. j < N /\ w \in stack[j].writes /\ j \in DOMAIN stack
      BY <1>5, <3>4, <3>8
    <3>10. PICK i \in DOMAIN stack : i <= j /\ stack[i].by = s
      BY <2>2, <2>4, <2>orp, <3>1, <3>9 DEF UndoneInv, WrittenAbove
    <3>11. PICK y \in Savepoint : y = stack[N].by /\ name[y] = name[s] /\ Root(y) = R /\ pc[y] # "idle"
      BY <1>1, <3>2, <3>5, <3>6 DEF StackInv, OnStack, Owner
    <3>12. y = s
      BY <1>2, <3>6, <3>11 DEF UndoneInv, NamesDiffer, UnderWay
    <3>13. i = N
      BY <3>2, <3>10, <3>11, <3>12 DEF UndoneInv, OneFrame
    <3>14. QED
      BY <1>5, <3>9, <3>10, <3>13
  <2>5. QED
    BY <2>3, <2>4
<1>10. QED
  BY <1>6, <1>7, <1>8, <1>9 DEF UndoneInv

\* A statement is not of a savepoint that has settled.
LEMMA InsertUndone ==
    ASSUME ~Branches, UndoneInv, StackInv', NEW w \in Statement, Insert(w),
           UNCHANGED <<state, counter, pc, within, name, usable, orphans>>,
           \/ wrote' = wrote /\ w[1] \notin Flow
           \/ /\ w[1] \in Flow /\ Running(w[1])
              /\ \A g \in Flow : g # w[1] => wrote'[g] = wrote[g]
    PROVE  UndoneInv'
<1>1. /\ Begin \cap Savepoint = {} /\ Flow = Begin \cup Savepoint
      /\ StackInv /\ OwnerInv /\ TypeOK /\ Nested /\ Awaiting
      /\ stack \in Seq(FrameSet) /\ stack' \in Seq(FrameSet)
  BY TransactionAssumption DEF UndoneInv, StackInv, OwnerInv, TypeOK, Flow
<1>2. /\ Shrinks /\ Len(stack') = Len(stack)
      /\ stack = <<>> => durable' = durable \cup {w}
      /\ stack # <<>> =>
            /\ durable' = durable
            /\ \A j \in DOMAIN stack' : stack'[j].writes =
                  IF j = Len(stack) THEN stack[j].writes \cup {w} ELSE stack[j].writes
  BY <1>1, InsertEffect
<1>3. /\ \A g \in Flow : Around(g)' = Around(g) /\ Root(g)' = Root(g)
      /\ \A g \in Flow : g # w[1] => Writes(g)' = Writes(g)
      /\ \A r \in Savepoint : r \in Flow /\ Open(r)' = Open(r)
  <2>1. \A g \in Flow : Around(g)' = Around(g) /\ Root(g)' = Root(g)
    BY RootSame
  <2>2. \A g \in Flow : g # w[1] => wrote'[g] = wrote[g]
    OBVIOUS
  <2>3. QED
    BY <1>1, <2>1, <2>2 DEF Open, Writes
<1>4. /\ DOMAIN stack' = 1..Len(stack') /\ DOMAIN stack = 1..Len(stack)
      /\ Len(stack) \in Nat /\ DOMAIN stack' = DOMAIN stack
      /\ \A i \in DOMAIN stack' : stack'[i].by = stack[i].by
  BY <1>1, <1>2, FrameFacts DEF Shrinks
<1>5. \A j \in DOMAIN stack' : \A v \in stack'[j].writes :
         v \in stack[j].writes \/ (v = w /\ j = Len(stack))
  <2>1. CASE stack = <<>>
    BY <1>4, <2>1
  <2>2. CASE stack # <<>>
    BY <1>2, <1>4, <2>2
  <2>3. QED
    BY <2>1, <2>2
<1>6. NamesDiffer' /\ OneFrame'
  BY <1>1, <1>3, <1>4 DEF UndoneInv, NamesDiffer, OneFrame
<1>7. WrittenAbove'
  <2>1. SUFFICES ASSUME NEW x \in Savepoint, Open(x), x \notin orphans, NEW j \in DOMAIN stack',
                        NEW v \in stack'[j].writes, v[1] \in Flow, x \in Around(v[1])
                 PROVE  \E i \in DOMAIN stack' : i <= j /\ stack'[i].by = x
    BY <1>3 DEF WrittenAbove
  <2>2. CASE v \in stack[j].writes
    BY <1>4, <2>1, <2>2 DEF UndoneInv, WrittenAbove
  <2>3. CASE j = Len(stack)
    <3>1. PICK i \in DOMAIN stack : stack[i].by = x
      BY <1>1, <2>1 DEF StackInv, OwnFrame
    <3>2. QED
      BY <1>4, <2>3, <3>1
  <2>4. QED
    BY <1>5, <2>2, <2>3
<1>8. FailedGone'
  <2>1. SUFFICES ASSUME NEW x \in Savepoint, x \notin orphans, pc[x] = "rejected", usable[x],
                        NEW v \in Inside(x)', v \in durable' \cup AllWrites(stack)'
                 PROVE  FALSE
    BY DEF FailedGone
  <2>2. w[1] \in Flow => x \notin Around(w[1])
    <3>1. SUFFICES ASSUME w[1] \in Flow, x \in Around(w[1]) PROVE FALSE
      OBVIOUS
    <3>2. x # w[1] /\ pc[w[1]] = "callback" /\ UnderWay(w[1])
      BY <2>1, <3>1 DEF Running, UnderWay, Settled
    <3>3. w[1] \in Savepoint /\ x \in within[w[1]]
      BY <1>1, <3>1, <3>2 DEF Around
    <3>4. QED
      BY <1>1, <2>1, <3>2, <3>3 DEF Awaiting, Waiting
  <2>3. PICK g \in Flow : x \in Around(g) /\ v \in Writes(g)'
    BY <1>3, <2>1 DEF Inside
  <2>4. g # w[1] /\ v \in Writes(g) /\ v[1] = g
    <3>1. g # w[1]
      BY <2>2, <2>3
    <3>2. v \in Writes(g)
      BY <1>3, <2>3, <3>1
    <3>3. QED
      BY <3>1, <3>2 DEF Writes
  <2>5. v \in Inside(x) /\ v # w
    BY <2>3, <2>4 DEF Inside
  <2>6. v \in durable \cup AllWrites(stack)
    BY <1>2, <1>4, <1>5, <2>1, <2>5 DEF AllWrites
  <2>7. QED
    BY <2>1, <2>5, <2>6 DEF UndoneInv, FailedGone
<1>9. QED
  BY <1>6, <1>7, <1>8 DEF UndoneInv

LEMMA UndoneStep ==
    ASSUME Alone, UserName = {}, UndoneInv, ~strayed', [Next]_vars
    PROVE  UndoneInv'
<1>1. ~Branches /\ StackInv /\ StackInv' /\ TypeOK
  BY StackStep DEF Alone, UndoneInv, StackInv, OwnerInv
<1>2. ASSUME NEW t \in Begin, BeginStep(t) PROVE UndoneInv'
  BY <1>1, <1>2, BeginUndone
<1>3. ASSUME NEW s \in Savepoint, NEW f \in Flow, SendSavepoint(s, f) PROVE UndoneInv'
  BY <1>1, <1>3, SendSavepointUndone
<1>4. ASSUME NEW s \in Savepoint, SavepointStep(s) PROVE UndoneInv'
  BY <1>1, <1>4, SavepointUndoes
<1>5. ASSUME NEW f \in Flow, NEW g \in Flow, Write(f, g) PROVE UndoneInv'
  <2> DEFINE w == <<f, wrote[f] + 1>>
  <2>1. /\ Running(f) /\ w \in Statement /\ Insert(w)
        /\ UNCHANGED <<state, counter, pc, within, name, usable, plain, closed, undone, orphans>>
        /\ \A h \in Flow : h # f => wrote'[h] = wrote[h]
    BY <1>1, <1>5, WriteEffect
  <2>2. w[1] = f
    OBVIOUS
  <2> HIDE DEF w
  <2>3. QED
    BY <1>1, <2>1, <2>2, InsertUndone
<1>6. ASSUME NEW p \in Plain, PlainQuery(p) PROVE UndoneInv'
  <2> DEFINE w == <<p, 1>>
  <2>1. /\ w \in Statement /\ Insert(w)
        /\ UNCHANGED <<state, counter, pc, within, name, usable, wrote, closed, undone, orphans>>
    BY <1>1, <1>6, PlainEffect DEF history
  <2>2. w[1] \notin Flow
    BY TransactionAssumption
  <2> HIDE DEF w
  <2>3. QED
    BY <1>1, <2>1, <2>2, InsertUndone
<1>7. CASE UNCHANGED vars
  <2>1. UNCHANGED <<stack, durable, state, counter, pc, within, name, usable, wrote, plain, closed,
                    undone, orphans>>
    BY <1>7 DEF vars, server, others, history
  <2>2. NamesDiffer' /\ WrittenAbove' /\ OneFrame' /\ FailedGone'
    BY <2>1 DEF UndoneInv, NamesDiffer, WrittenAbove, OneFrame, FailedGone, Open, Root, Around,
       Inside, Writes, AllWrites
  <2>3. QED
    BY <1>1, <2>2 DEF UndoneInv
<1>8. ~ Close /\ \A f \in Flow : ~ FailAndRollBack(f)
  BY DEF Alone, Close, FailAndRollBack
<1>9. QED
  BY <1>2, <1>3, <1>4, <1>5, <1>6, <1>7, <1>8 DEF Next, BeginStep, SavepointStep

\* A savepoint() that rejects leaves nothing behind of what its callback and the
\* savepoints inside it wrote, as long as callers leave the names to the
\* transaction, unless a call inside it had ended it, and until a statement strays.
THEOREM FailedSavepointsLeaveNothing == Alone /\ UserName = {} => (Spec => []SavepointUndone)
<1> SUFFICES ASSUME Alone, UserName = {} PROVE Spec => []SavepointUndone
  OBVIOUS
<1> DEFINE I == OwnerInv /\ (~strayed => UndoneInv)
<1>1. Init => I
  <2> SUFFICES ASSUME Init PROVE I
    OBVIOUS
  <2>1. (\A f \in Flow : pc[f] = "idle") /\ Savepoint \subseteq Flow /\ DOMAIN stack = {}
    BY DEF Init, Flow
  <2>2. NamesDiffer /\ WrittenAbove /\ OneFrame /\ FailedGone
    BY <2>1 DEF NamesDiffer, WrittenAbove, OneFrame, FailedGone
  <2>3. QED
    BY <2>2, OwnerInit, StackInit DEF UndoneInv
<1>2. ASSUME I, [Next]_vars PROVE I'
  <2>1. OwnerInv'
    BY <1>2, OwnerStep DEF Alone
  <2>2. ASSUME ~strayed' PROVE UndoneInv'
    <3>1. ~strayed
      BY <1>2, <2>2, StrayedStays
    <3>2. QED
      BY <1>2, <2>2, <3>1, UndoneStep
  <2>3. QED
    BY <2>1, <2>2
<1>3. I => SavepointUndone
  BY DEF UndoneInv, FailedGone, SavepointUndone
<1>4. QED
  BY <1>1, <1>2, <1>3, PTL DEF Spec

===============================================================================
