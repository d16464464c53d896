---------------------------- MODULE SqlTransaction ----------------------------
(***************************************************************************)
(* SQL.begin (sql/client.js), Transaction and Savepoint                    *)
(* (sql/transaction.js) over the SQLite adapter (sql/adapters/sqlite.js),  *)
(* whose one connection every caller shares.  A statement runs inside the  *)
(* call that sends it; what the JavaScript records about it is written a   *)
(* few microtasks later, so BEGIN, COMMIT, ROLLBACK, SAVEPOINT and RELEASE *)
(* are two steps each, and other calls come in between.                    *)
(*                                                                         *)
(* A flow is the callback of a begin() or of a savepoint().  A callback    *)
(* has the handles of all the flows around it: inside a savepoint it may   *)
(* send statements through tx, call tx.rollback() or release an outer      *)
(* savepoint.  It awaits what it starts unless Branches holds, when it may *)
(* go on, return or throw while its savepoints run, and keep using its     *)
(* handles after it has ended (Promise.all, a promise nobody awaits).      *)
(***************************************************************************)
EXTENDS Integers, Sequences

CONSTANTS
    Begin,         \* calls of begin()
    Savepoint,     \* calls of tx.savepoint()
    Plain,         \* queries sent outside any transaction, one write each
    UserName,      \* names callbacks give savepoints; k is "sp_k"
    MaxWrites,     \* bound: writes of one flow
    Branches,      \* callbacks run branches they do not await
    StatementsRollBack, \* a failing statement may end the transaction
    Closes         \* the program may close the client under its begin() calls

Flow == Begin \cup Savepoint

ASSUME TransactionAssumption ==
    /\ Begin \cap Savepoint = {} /\ Flow \cap Plain = {}
    /\ UserName \subseteq Nat \ {0}
    /\ MaxWrites \in Nat
    /\ Branches \in BOOLEAN /\ StatementsRollBack \in BOOLEAN /\ Closes \in BOOLEAN

VARIABLES
    stack,     \* external: the connection's open transaction and savepoints
    durable,   \* external: the writes that are committed
    state,     \* kState of the Transaction of each begin()
    counter,   \* its kSavepointCounter
    pc,        \* how far each begin() and savepoint() is
    within,    \* the flows whose callbacks savepoint() was called in
    name,      \* the savepoint's #name
    usable,    \* its #active, once the callback has the object
    wrote,     \* writes each flow has made: <<f, 1>> .. <<f, wrote[f]>>
    plain,     \* plain queries that have run
    closed,    \* kClosed of the client and of the adapter
    undone,    \* history: the writes a callback undid with sp.rollback()
    orphans,   \* history: the savepoints that a call inside them has ended
    strayed    \* history: a statement sent for an orphan took effect elsewhere

server == <<stack, durable>>
history == <<undone, orphans, strayed>>
\* what changes only with a plain query, with close() and with the history
others == <<plain, closed, history>>
vars   == <<stack, durable, state, counter, pc, within, name, usable, wrote, others>>

Settled == {"resolved", "rejected"}

\* The savepoints and the begin() around flow f, f included.
Around(f) == {f} \cup IF f \in Begin THEN {} ELSE within[f]

\* The begin() that flow f runs in.
Root(f) == CHOOSE t \in Around(f) : t \in Begin

Writes(f) == {<<f, i>> : i \in 1..wrote[f]}

\* What flow f and the savepoints inside it wrote.
Inside(f) == UNION {Writes(g) : g \in {h \in Flow : f \in Around(h)}}

-------------------------------------------------------------------------------
(* External: the statements, on the connection's stack of frames.  The bottom *)
(* frame is the transaction, the others its savepoints; `by` is the flow that  *)
(* opened it.                                                                  *)

Frame(n, f) == [name |-> n, by |-> f, writes |-> {}]

AllWrites(frames) == UNION {frames[i].writes : i \in DOMAIN frames}

\* An insert goes to the innermost savepoint, or is committed by itself.
Insert(w) ==
    IF stack = <<>>
    THEN durable' = durable \cup {w} /\ UNCHANGED stack
    ELSE /\ stack' = [stack EXCEPT ![Len(stack)].writes = @ \cup {w}]
         /\ UNCHANGED durable

\* The position of the newest savepoint called n; 0 when there is none.
Newest(n) ==
    LET found == {i \in DOMAIN stack : stack[i].name = n}
    IN  IF found = {} THEN 0 ELSE CHOOSE i \in found : \A j \in found : j <= i

\* RELEASE n: the savepoint and those inside it join what is around them.
ReleaseTo(n) ==
    LET i == Newest(n)
        freed == AllWrites(SubSeq(stack, i, Len(stack)))
    IN  IF i = 1 THEN stack' = <<>> /\ durable' = durable \cup freed
        ELSE /\ stack' = [SubSeq(stack, 1, i - 1) EXCEPT ![i - 1].writes = @ \cup freed]
             /\ UNCHANGED durable

\* ROLLBACK TO n: what was written since is undone; the savepoint stays.
RollbackTo(n) ==
    /\ stack' = [SubSeq(stack, 1, Newest(n)) EXCEPT ![Newest(n)].writes = {}]
    /\ UNCHANGED durable

-------------------------------------------------------------------------------
(* begin().  *)

Goto(f, s) == pc' = [pc EXCEPT ![f] = s]

\* The callback of f is running.  It waits for no savepoint that began in it and
\* for no call on a handle; pc of a flow shows the call under way on its handle.
Running(f) ==
    /\ pc[f] = "callback"
    /\ Branches \/ /\ \A g \in Around(f) : pc[g] = "callback"
                   /\ \A s \in Savepoint : f \in within[s] => pc[s] \in Settled

\* acquireConnection hands out the shared connection, tx.begin() sends BEGIN,
\* which fails inside a transaction.
SendBegin(t) ==
    /\ pc[t] = "idle"
    /\ IF stack = <<>>
       THEN stack' = <<Frame(0, t)>> /\ Goto(t, "begun")
       ELSE Goto(t, "catching") /\ UNCHANGED stack
    /\ UNCHANGED <<durable, state, counter, within, name, usable, wrote, others>>

\* tx.begin() resumes; the callback gets the transaction.
Began(t) ==
    /\ pc[t] = "begun"
    /\ state' = [state EXCEPT ![t] = "ACTIVE"]
    /\ Goto(t, "callback")
    /\ UNCHANGED <<server, counter, within, name, usable, wrote, others>>

\* COMMIT of transaction t, in a call that goes on at s; it can fail with the
\* transaction still open (busy, a deferred constraint), and at `failed`.
Commit(t, s, failed) ==
    \/ /\ state[t] = "ACTIVE" /\ stack # <<>>
       /\ durable' = durable \cup AllWrites(stack)
       /\ stack' = <<>>
       /\ Goto(t, s)
    \/ /\ Goto(t, failed)
       /\ UNCHANGED server

\* The callback returns: commit() checks the state and sends COMMIT.
Return(t) ==
    /\ Running(t)
    /\ Commit(t, "committed", "catching")
    /\ UNCHANGED <<state, counter, within, name, usable, wrote, others>>

\* commit() resumes, begin() resolves.
Committed(t) ==
    /\ pc[t] = "committed"
    /\ state' = [state EXCEPT ![t] = "COMMITTED"]
    /\ Goto(t, "resolved")
    /\ UNCHANGED <<server, counter, within, name, usable, wrote, others>>

\* The callback throws, because a statement did or of its own.
Throw(t) ==
    /\ Running(t)
    /\ Goto(t, "catching")
    /\ UNCHANGED <<server, state, counter, within, name, usable, wrote, others>>

\* Mutant: ROLLBACK is sent also for a transaction that never began.
Catch_Pending(t) ==
    /\ pc[t] = "catching"
    /\ IF state[t] \in {"PENDING", "ACTIVE"} /\ stack # <<>>
       THEN stack' = <<>> /\ Goto(t, "rolledback")
       ELSE Goto(t, "rejected") /\ UNCHANGED stack
    /\ UNCHANGED <<durable, state, counter, within, name, usable, wrote, others>>

\* Mutant: the rollback is left to the connection, which is not closed.
Catch_Nothing(t) ==
    /\ pc[t] = "catching"
    /\ Goto(t, "rejected")
    /\ UNCHANGED <<server, state, counter, within, name, usable, wrote, others>>

\* The catch of begin(): rollback() sends ROLLBACK only for an active
\* transaction; when that fails, begin() rejects with its error instead.
Catch(t) ==
    /\ pc[t] = "catching"
    /\ IF state[t] = "ACTIVE" /\ stack # <<>>
       THEN stack' = <<>> /\ Goto(t, "rolledback")
       ELSE Goto(t, "rejected") /\ UNCHANGED stack
    /\ state' = IF state[t] = "PENDING" THEN [state EXCEPT ![t] = "ROLLED_BACK"] ELSE state
    /\ UNCHANGED <<durable, counter, within, name, usable, wrote, others>>

\* rollback() resumes, begin() rejects.
RolledBack(t) ==
    /\ pc[t] = "rolledback"
    /\ state' = [state EXCEPT ![t] = "ROLLED_BACK"]
    /\ Goto(t, "rejected")
    /\ UNCHANGED <<server, counter, within, name, usable, wrote, others>>

\* The savepoints that callback f runs in and that are inside flow g: their
\* frames go with that of g.
Between(g, f) == {s \in Around(f) \ {g} : g \in Around(s)}

\* A callback f calls tx.commit() or tx.rollback() itself, and goes on.  They look
\* at the state of the transaction only: f may be the callback of a savepoint,
\* which has then lost its own.
CallCommit(t, f) ==
    /\ Running(f) /\ t \in Around(f) /\ pc[t] = "callback"
    /\ Commit(t, "callCommitted", "callback")
    /\ orphans' = IF pc'[t] = "callCommitted" THEN orphans \cup Between(t, f) ELSE orphans
    /\ UNCHANGED <<state, counter, within, name, usable, wrote, plain, closed, undone, strayed>>

CallRollback(t, f) ==
    /\ Running(f) /\ t \in Around(f) /\ pc[t] = "callback"
    /\ state[t] = "ACTIVE" /\ stack # <<>>
    /\ stack' = <<>>
    /\ Goto(t, "callRolledBack")
    /\ orphans' = orphans \cup Between(t, f)
    /\ UNCHANGED <<durable, state, counter, within, name, usable, wrote, plain, closed, undone, strayed>>

Called(t) ==
    /\ pc[t] \in {"callCommitted", "callRolledBack"}
    /\ state' = [state EXCEPT ![t] = IF pc[t] = "callCommitted" THEN "COMMITTED"
                                     ELSE "ROLLED_BACK"]
    /\ Goto(t, "callback")
    /\ UNCHANGED <<server, counter, within, name, usable, wrote, others>>

-------------------------------------------------------------------------------
(* savepoint().  *)

\* Mutant: every savepoint of a transaction is called sp_1.
NextName_Constant(t) == 1

NextName(t) == counter[t] + 1

\* savepoint(), called in the callback of f: an automatic name or one given.
SendSavepoint(s, f) ==
    /\ pc[s] = "idle"
    /\ Running(f)
    /\ state[Root(f)] = "ACTIVE"
    /\ \/ /\ name' = [name EXCEPT ![s] = NextName(Root(f))]
          /\ counter' = [counter EXCEPT ![Root(f)] = @ + 1]
       \/ /\ \E n \in UserName : name' = [name EXCEPT ![s] = n]
          /\ UNCHANGED counter
    /\ within' = [within EXCEPT ![s] = Around(f)]
    /\ stack' = Append(stack, Frame(name'[s], s))
    /\ Goto(s, "created")
    /\ UNCHANGED <<durable, state, usable, wrote, others>>

\* create() resumes; the callback gets the savepoint.
Created(s) ==
    /\ pc[s] = "created"
    /\ usable' = [usable EXCEPT ![s] = TRUE]
    /\ Goto(s, "callback")
    /\ UNCHANGED <<server, state, counter, within, name, wrote, others>>

\* RELEASE or ROLLBACK TO has found the name of s: if s is an orphan that was
\* the savepoint of somebody else.
FoundFor(s) == strayed' = (strayed \/ s \in orphans)

\* The callback returns and release() sends RELEASE SAVEPOINT, which fails when
\* the name is gone; a savepoint the callback has released is left alone.
SendRelease(s) ==
    /\ Running(s)
    /\ \/ ~usable[s] /\ Goto(s, "released") /\ UNCHANGED <<server, strayed>>
       \/ /\ usable[s] /\ Newest(name[s]) # 0
          /\ ReleaseTo(name[s]) /\ FoundFor(s) /\ Goto(s, "released")
       \/ /\ usable[s] /\ Newest(name[s]) = 0
          /\ Goto(s, "undoing") /\ UNCHANGED <<server, strayed>>
    /\ UNCHANGED <<state, counter, within, name, usable, wrote, plain, closed, undone, orphans>>

\* release() resumes, savepoint() resolves.
Released(s) ==
    /\ pc[s] = "released"
    /\ usable' = [usable EXCEPT ![s] = FALSE]
    /\ Goto(s, "resolved")
    /\ UNCHANGED <<server, state, counter, within, name, wrote, others>>

\* A callback f calls release() or rollback() on the savepoint s it runs in, or on
\* one around that, and goes on; when the statement fails, it does so as ThrowOut
\* or has caught the error.
CallRelease(s, f) ==
    /\ Running(f) /\ s \in Around(f) /\ pc[s] = "callback"
    /\ usable[s] /\ Newest(name[s]) # 0
    /\ ReleaseTo(name[s]) /\ FoundFor(s)
    /\ Goto(s, "callReleased")
    /\ orphans' = orphans \cup Between(s, f)
    /\ UNCHANGED <<state, counter, within, name, usable, wrote, plain, closed, undone>>

CallReleased(s) ==
    /\ pc[s] = "callReleased"
    /\ usable' = [usable EXCEPT ![s] = FALSE]
    /\ Goto(s, "callback")
    /\ UNCHANGED <<server, state, counter, within, name, wrote, others>>

CallRollbackTo(s, f) ==
    /\ Running(f) /\ s \in Around(f) /\ pc[s] = "callback"
    /\ usable[s] /\ Newest(name[s]) # 0
    /\ RollbackTo(name[s]) /\ FoundFor(s)
    /\ undone' = undone \cup Inside(s)
    /\ orphans' = orphans \cup Between(s, f)
    /\ UNCHANGED <<state, counter, pc, within, name, usable, wrote, plain, closed>>

\* The callback throws.
ThrowOut(s) ==
    /\ Running(s)
    /\ Goto(s, "undoing")
    /\ UNCHANGED <<server, state, counter, within, name, usable, wrote, others>>

\* Mutant: the catch undoes the transaction and not the savepoint.
Undo_All(s) ==
    /\ pc[s] = "undoing"
    /\ stack' = IF stack = <<>> THEN stack
                ELSE <<[stack[1] EXCEPT !.writes = {}]>>
    /\ Goto(s, "rejected")
    /\ UNCHANGED <<durable, state, counter, within, name, usable, wrote, others>>

\* The catch of savepoint(): it was created, so rollback() sends ROLLBACK TO
\* SAVEPOINT, whose failure is swallowed.  The object stays usable.
Undo(s) ==
    /\ pc[s] = "undoing"
    /\ IF usable[s] /\ Newest(name[s]) # 0 THEN RollbackTo(name[s]) /\ FoundFor(s)
       ELSE UNCHANGED <<server, strayed>>
    /\ Goto(s, "rejected")
    /\ UNCHANGED <<state, counter, within, name, usable, wrote, plain, closed, undone, orphans>>

-------------------------------------------------------------------------------
(* The statements of the callbacks.  *)

\* Mutant: a tagged template does not look at the state of its transaction.
MayUse_Always(g) == TRUE

\* The tagged template of a transaction asks for its state, that of a savepoint
\* for its own flag only.
MayUse(g) == IF g \in Begin THEN state[g] = "ACTIVE" ELSE usable[g]

\* A statement of flow f's callback, or of a branch it left behind, through the
\* handle of a flow g around it.  It strays when g is a savepoint whose whole
\* transaction a call has ended.
Write(f, g) ==
    /\ wrote[f] < MaxWrites
    /\ IF Branches THEN pc[f] # "idle" ELSE Running(f)
    /\ g \in Around(f) /\ MayUse(g)
    /\ Insert(<<f, wrote[f] + 1>>)
    /\ wrote' = [wrote EXCEPT ![f] = @ + 1]
    /\ strayed' = (strayed \/ (g \in orphans /\ state[Root(f)] # "ACTIVE"))
    /\ UNCHANGED <<state, counter, pc, within, name, usable, plain, closed, undone, orphans>>

\* A statement that fails and takes the transaction with it (INSERT OR
\* ROLLBACK, a full disk); the callback lets its error through.
FailAndRollBack(f) ==
    /\ StatementsRollBack
    /\ Running(f) /\ \E g \in Around(f) : MayUse(g)
    /\ stack' = <<>>
    /\ Goto(f, IF f \in Begin THEN "catching" ELSE "undoing")
    /\ UNCHANGED <<durable, state, counter, within, name, usable, wrote, others>>

\* A query of other code, through the client.
PlainQuery(p) ==
    /\ p \notin plain
    /\ Insert(<<p, 1>>)
    /\ plain' = plain \cup {p}
    /\ UNCHANGED <<state, counter, pc, within, name, usable, wrote, closed, history>>

\* close() discards the open transaction with the connection.  It stops no call
\* under way: the next statement of one, or of a begin() or a query made before,
\* opens the database again.
Close ==
    /\ Closes /\ ~closed
    /\ closed' = TRUE
    /\ stack' = <<>>
    /\ UNCHANGED <<durable, state, counter, pc, within, name, usable, wrote, plain, history>>

-------------------------------------------------------------------------------

Init ==
    /\ stack = <<>>
    /\ durable = {}
    /\ state = [t \in Begin |-> "PENDING"]
    /\ counter = [t \in Begin |-> 0]
    /\ pc = [f \in Flow |-> "idle"]
    /\ within = [s \in Savepoint |-> {}]
    /\ name = [s \in Savepoint |-> 0]
    /\ usable = [s \in Savepoint |-> FALSE]
    /\ wrote = [f \in Flow |-> 0]
    /\ plain = {}
    /\ closed = FALSE
    /\ undone = {} /\ orphans = {} /\ strayed = FALSE

Next ==
    \/ \E t \in Begin :
          \/ SendBegin(t) \/ Began(t) \/ Return(t) \/ Committed(t)
          \/ Throw(t) \/ Catch(t) \/ RolledBack(t)
          \/ Called(t)
          \/ \E f \in Flow : CallCommit(t, f) \/ CallRollback(t, f)
    \/ \E s \in Savepoint :
          \/ \E f \in Flow : SendSavepoint(s, f) \/ CallRelease(s, f) \/ CallRollbackTo(s, f)
          \/ Created(s) \/ SendRelease(s) \/ Released(s) \/ ThrowOut(s) \/ Undo(s)
          \/ CallReleased(s)
    \/ \E f \in Flow : FailAndRollBack(f) \/ \E g \in Flow : Write(f, g)
    \/ \E p \in Plain : PlainQuery(p)
    \/ Close

Spec == Init /\ [][Next]_vars

-------------------------------------------------------------------------------
(* Properties.  *)

\* What was not undone with a savepoint.
Kept(t) ==
    (UNION {Writes(g) : g \in {h \in Flow : t \in Around(h) /\
                                 \A s \in Around(h) \ {t} : pc[s] = "resolved"}}) \ undone

\* begin() t has kept its promise: when it resolves everything its callback kept is
\* committed, and when it rejects nothing is, unless tx.commit() was called.
AllOrNone(t) ==
    /\ pc[t] = "resolved" => Kept(t) \subseteq durable
    /\ pc[t] = "rejected" /\ state[t] # "COMMITTED" => Inside(t) \cap durable = {}

\* begin() "automatically commits on success or rolls back on error"
\* (smol-sql.md:135), as long as nothing has strayed: a savepoint goes on accepting
\* statements after tx.rollback() was called inside it, and they are committed one
\* by one (SqlTransaction_orphans.cfg).
Atomic == ~strayed => \A t \in Begin : AllOrNone(t)

\* A savepoint() that rejects leaves nothing behind: "Savepoint rolled back, but
\* transaction continues" (smol-sql.md:231).  One that its callback had released,
\* or that a call inside it had ended, is no savepoint any more.
SavepointUndone ==
    ~strayed => \A s \in Savepoint \ orphans : pc[s] = "rejected" /\ usable[s] =>
        Inside(s) \cap (durable \cup AllWrites(stack)) = {}

\* A savepoint that fails takes nothing else with it: what the transaction kept
\* so far is still there while the transaction is open.
NothingElseUndone ==
    ~strayed => \A t \in Begin : pc[t] = "callback" /\ state[t] = "ACTIVE" =>
        Kept(t) \subseteq AllWrites(stack)

\* A transaction on the connection belongs to a begin() under way, and a begin()
\* that has settled has left none open for the next caller to write into.
NoneLeftOpen ==
    \A i \in DOMAIN stack : pc[Root(stack[i].by)] \notin Settled

\* "Acquire an exclusive connection" (sqlite.js:236): the statements on the
\* connection while a begin() has its transaction open are that begin()'s. This
\* relies on every caller going through begin(): a query issued outside one
\* (Plain # {}) takes no turn in the queue and lands in the open transaction; so
\* may a statement that strays.
Exclusive ==
    ~strayed => \A i \in DOMAIN stack : \A w \in stack[i].writes :
        w[1] \in Flow /\ Root(w[1]) = Root(stack[i].by)

===============================================================================
