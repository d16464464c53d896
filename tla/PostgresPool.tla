----------------------------- MODULE PostgresPool -----------------------------
(***************************************************************************)
(* The native connection pool behind the Postgres adapter                  *)
(* (socketsecurity/postgres/postgres_pool.{h,cc}), the binding that hands  *)
(* its connections to JavaScript (postgres_binding.cc) and the thread-pool *)
(* job that runs prepared statements off the main thread                   *)
(* (postgres_async.cc).                                                    *)
(*                                                                         *)
(* The mutex is held for the whole of Acquire (PQconnectdb included),      *)
(* Release and ReleaseByToken (PQreset included) and the statement-map     *)
(* accesses, so each of these is one step.  The libpq calls between them   *)
(* are steps of their own, on a connection the thread holds.               *)
(* PooledConnection objects live at addresses the allocator reuses.        *)
(***************************************************************************)
EXTENDS Integers, Sequences, FiniteSets, Functions

CONSTANTS
    Addr,                \* addresses the allocator can give a PooledConnection
    Main,                \* the JavaScript thread
    Worker,              \* libuv jobs that can be in flight at once
    Name,                \* prepared-statement names
    Sql,                 \* query texts
    None,                \* no connection, no name, no text
    MinConnections,      \* config_.min_connections
    MaxConnections,      \* config_.max_connections
    StatementCacheSize,  \* kMaxStatementCacheSize
    MaxToken             \* bound: connections created over a behaviour

Thread == {Main} \cup Worker

ASSUME PoolAssumption ==
    /\ None \notin Addr
    /\ Main \notin Worker
    /\ None \notin Name
    /\ None \notin Sql
    /\ IsFiniteSet(Addr)
    /\ MinConnections \in Nat
    /\ MaxConnections \in Nat
    /\ StatementCacheSize \in Nat \ {0}
    /\ MaxToken \in Nat

VARIABLES
    lifecycle,           \* of the one pool: its entry in pools_ and its object
    token,               \* token_ of the object at an address, 0 when free
    net,                 \* its PGconn: "ok", "lost" (libpq has not noticed), "bad"
    prepared,            \* prepared_statements_: what the client believes
    session,             \* external: the statements the server session holds
    nextToken,           \* g_next_conn_token
    idle,                \* idle_connections_, front first
    active,              \* active_connections_
    statement_sql,       \* statement_sql_
    statement_sql_order, \* statement_sql_order_, oldest first
    pc,                  \* where each thread is in its call on the pool
    held,                \* the connection it acquired
    name, sql,           \* the call's statement name and text
    handles              \* ReservedConnection objects alive in JavaScript

heap       == <<token, net, prepared, session, nextToken>>
lists      == <<idle, active>>
statements == <<statement_sql, statement_sql_order>>
calls      == <<pc, held, name, sql>>
vars       == <<lifecycle, heap, lists, statements, calls, handles>>

NoStatements == [n \in Name |-> None]
Handle       == [addr : Addr, token : 1..MaxToken, released : BOOLEAN]

-------------------------------------------------------------------------------
(* The objects.  *)

\* IsAlive: PQstatus is the client's opinion, so a lost session passes.
IsAlive(a) == net[a] # "bad"

\* Mutant: Reset reconnects without prepared_statements_.clear().
Reclaim_KeepCache(freed, reset) ==
    /\ token' = [a \in Addr |-> IF a \in freed THEN 0 ELSE token[a]]
    /\ net' = [a \in Addr |-> IF a \in freed THEN "bad"
                              ELSE IF a \in reset THEN "ok" ELSE net[a]]
    /\ prepared' = [a \in Addr |-> IF a \in freed THEN NoStatements ELSE prepared[a]]
    /\ session' = [a \in Addr |-> IF a \in freed \cup reset THEN NoStatements
                                  ELSE session[a]]
    /\ UNCHANGED nextToken

\* The heap after ~PooledConnection on `freed` and a successful PQreset on
\* `reset`: a new server session, and prepared_statements_.clear().
Reclaim(freed, reset) ==
    /\ token' = [a \in Addr |-> IF a \in freed THEN 0 ELSE token[a]]
    /\ net' = [a \in Addr |-> IF a \in freed THEN "bad"
                              ELSE IF a \in reset THEN "ok" ELSE net[a]]
    /\ prepared' = [a \in Addr |-> IF a \in freed \cup reset THEN NoStatements
                                   ELSE prepared[a]]
    /\ session' = [a \in Addr |-> IF a \in freed \cup reset THEN NoStatements
                                  ELSE session[a]]
    /\ UNCHANGED nextToken

\* Mutant: the token counter is read and not advanced.
CreateConnection_SameToken(a, freed) ==
    /\ a \in Addr
    /\ token[a] = 0 \/ a \in freed
    /\ nextToken <= MaxToken
    /\ token' = [x \in Addr |-> IF x = a THEN nextToken
                                ELSE IF x \in freed THEN 0 ELSE token[x]]
    /\ net' = [x \in Addr |-> IF x = a THEN "ok"
                              ELSE IF x \in freed THEN "bad" ELSE net[x]]
    /\ UNCHANGED <<prepared, session, nextToken>>

\* A connection that succeeds in PQconnectdb, at an address that is free once
\* the objects of `freed` are deleted.
CreateConnection(a, freed) ==
    /\ a \in Addr
    /\ token[a] = 0 \/ a \in freed
    /\ nextToken <= MaxToken
    /\ nextToken' = nextToken + 1
    /\ token' = [x \in Addr |-> IF x = a THEN nextToken
                                ELSE IF x \in freed THEN 0 ELSE token[x]]
    /\ net' = [x \in Addr |-> IF x = a THEN "ok"
                              ELSE IF x \in freed THEN "bad" ELSE net[x]]
    /\ prepared' = [x \in Addr |-> IF x = a \/ x \in freed THEN NoStatements
                                   ELSE prepared[x]]
    /\ session' = [x \in Addr |-> IF x = a \/ x \in freed THEN NoStatements
                                  ELSE session[x]]

-------------------------------------------------------------------------------
(* The critical sections of the pool.  *)

\* Idle connections are popped from the front until one is alive; the dead
\* ones are deleted.
AcquireIdle(got) ==
    \E k \in DOMAIN idle :
        /\ IsAlive(idle[k])
        /\ \A j \in 1..(k - 1) : ~IsAlive(idle[j])
        /\ got = idle[k]
        /\ idle' = SubSeq(idle, k + 1, Len(idle))
        /\ active' = active \cup {got}
        /\ Reclaim({idle[j] : j \in 1..(k - 1)}, {})

\* Mutant: the limit is compared with <=.
Acquire_OneTooMany(got) ==
    \/ AcquireIdle(got)
    \/ /\ idle = <<>>
       /\ Cardinality(active) <= MaxConnections
       /\ CreateConnection(got, {})
       /\ active' = active \cup {got}
       /\ UNCHANGED idle

\* Mutant: an exhausted pool makes the caller wait for a connection.
Acquire_Waiting(got) ==
    \/ AcquireIdle(got)
    \/ /\ idle = <<>>
       /\ Cardinality(active) < MaxConnections
       /\ CreateConnection(got, {})
       /\ active' = active \cup {got}
       /\ UNCHANGED idle

\* Acquire: with no idle connection alive a new one is opened below the
\* maximum.  got = None when the pool is exhausted or the connection fails.
Acquire(got) ==
    \/ AcquireIdle(got)
    \/ /\ \A k \in DOMAIN idle : ~IsAlive(idle[k])
       /\ idle' = <<>>
       /\ \/ /\ Cardinality(active) < MaxConnections
             /\ CreateConnection(got, Range(idle))
             /\ active' = active \cup {got}
          \/ /\ got = None
             /\ UNCHANGED active
             /\ Reclaim(Range(idle), {})

\* Mutant: the scan does not stop at min_connections.
Evicted_All(q, expired) == {i \in DOMAIN q : q[i] \in expired}

\* EvictStaleConnections on deque q: the positions it erases when `expired`
\* holds the connections past idle_timeout_ms or max_lifetime_ms.  The scan
\* runs from the front and stops when min_connections are left.
Evicted(q, expired) ==
    {i \in DOMAIN q :
        /\ q[i] \in expired
        /\ Cardinality({j \in 1..i : q[j] \in expired}) <= Len(q) - MinConnections}

\* The end of Release: deque q is trimmed (any of its members may have
\* expired: the clock is abstracted), the survivors q[pos[1]], q[pos[2]], ...
\* keep their order, and what leaves the deque is deleted.
EvictStaleConnections(q, failed, reset) ==
    \E expired \in SUBSET Range(q) :
    \E n \in 0..Len(q) : \E pos \in [1..n -> DOMAIN q] :
        /\ \A i, j \in 1..n : i < j => pos[i] < pos[j]
        /\ {pos[i] : i \in 1..n} = (DOMAIN q) \ Evicted(q, expired)
        /\ idle' = [i \in 1..n |-> q[pos[i]]]
        /\ Reclaim(failed \cup {q[i] : i \in Evicted(q, expired)}, reset)

\* Mutant: the connection is not erased from the active list.
Release_StaysActive(a) ==
    /\ UNCHANGED active
    /\ net[a] # "bad"
    /\ EvictStaleConnections(Append(idle, a), {}, {})

\* Release and the tail of ReleaseByToken: the connection leaves the active
\* list, Reset decides between the back of the deque and deletion, and the
\* deque is trimmed.
Release(a) ==
    /\ active' = active \ {a}
    /\ \/ /\ net[a] # "bad"              \* PQstatus is CONNECTION_OK
          /\ EvictStaleConnections(Append(idle, a), {}, {})
       \/ /\ net[a] = "bad"              \* PQreset reconnects
          /\ EvictStaleConnections(Append(idle, a), {}, {a})
       \/ /\ net[a] = "bad"              \* PQreset fails: DestroyConnection
          /\ EvictStaleConnections(idle, {a}, {})

\* ~PostgresPool: the idle deque and every active connection are deleted.
Destructor ==
    /\ idle' = <<>>
    /\ active' = {}
    /\ statement_sql' = NoStatements
    /\ statement_sql_order' = <<>>
    /\ Reclaim(Addr, {})

-------------------------------------------------------------------------------
(* The calls: one step per critical section and per libpq call between two. *)

\* Thread t goes on to step s of its call.
Goto(t, s) ==
    /\ pc' = [pc EXCEPT ![t] = s]
    /\ UNCHANGED <<name, sql>>

\* The call of t ends: the main thread returns to JavaScript, a job waits for
\* AfterThreadPoolWork.
Return(t) ==
    /\ pc' = [pc EXCEPT ![t] = IF t = Main THEN "none" ELSE "done"]
    /\ name' = [name EXCEPT ![t] = None]
    /\ sql' = [sql EXCEPT ![t] = None]

\* The main thread can enter the binding: no other call is on its stack and
\* the pool id is in pools_.
MainCanCall == pc[Main] = "none" /\ lifecycle = "open"

\* Thread t runs Acquire: nullptr ends its call, a connection takes it to s.
AcquireFor(t, got, s) ==
    /\ Acquire(got)
    /\ held' = [held EXCEPT ![t] = got]
    /\ IF got = None THEN Return(t) ELSE Goto(t, s)
    /\ UNCHANGED <<lifecycle, statements, handles>>

\* createPool: Initialize tries to open min_connections; the pool id is handed
\* out when at least one of them succeeded, and otherwise createPool throws.
CreatePool ==
    /\ lifecycle = "absent"
    /\ pc[Main] = "none"
    /\ \E n \in 1..MinConnections : \E at \in [1..n -> Addr] :
          /\ n <= MaxToken
          /\ IsInjective(at)
          /\ idle' = at
          /\ nextToken' = n + 1
          /\ token' = [a \in Addr |-> IF \E i \in 1..n : at[i] = a
                                     THEN CHOOSE i \in 1..n : at[i] = a ELSE 0]
          /\ net' = [a \in Addr |-> IF \E i \in 1..n : at[i] = a THEN "ok" ELSE "bad"]
    /\ lifecycle' = "open"
    /\ UNCHANGED <<prepared, session, active, statements, calls, handles>>

\* Execute and ExecuteParams.
ExecuteAcquire ==
    /\ MainCanCall
    /\ \E got \in Addr \cup {None} : AcquireFor(Main, got, "executing")

\* The query text runs on the server: it succeeds or is refused, or the
\* connection is found broken.  Text that deallocates statements is left out.
PQexec ==
    /\ pc[Main] = "executing"
    /\ \/ net[held[Main]] = "ok" /\ UNCHANGED net
       \/ net' = [net EXCEPT ![held[Main]] = "bad"]
    /\ Goto(Main, "releasing")
    /\ UNCHANGED <<lifecycle, token, prepared, session, nextToken, lists,
                   statements, held, handles>>

\* Mutant: the evicted name leaves the order, its text stays in the map.
PrepareStore_KeepText(n, text) ==
    /\ MainCanCall
    /\ statement_sql_order' =
          IF statement_sql[n] # None THEN statement_sql_order
          ELSE IF Len(statement_sql_order) >= StatementCacheSize
          THEN Append(Tail(statement_sql_order), n)
          ELSE Append(statement_sql_order, n)
    /\ statement_sql' = [statement_sql EXCEPT ![n] = text]
    /\ pc' = [pc EXCEPT ![Main] = "stored"]
    /\ name' = [name EXCEPT ![Main] = n]
    /\ sql' = [sql EXCEPT ![Main] = text]
    /\ UNCHANGED <<lifecycle, heap, lists, held, handles>>

\* Prepare, first critical section: the text is recorded for every connection,
\* the oldest names making room for a new one.
PrepareStore(n, text) ==
    /\ MainCanCall
    /\ statement_sql_order' =
          IF statement_sql[n] # None THEN statement_sql_order
          ELSE IF Len(statement_sql_order) >= StatementCacheSize
          THEN Append(Tail(statement_sql_order), n)
          ELSE Append(statement_sql_order, n)
    /\ statement_sql' =
          [m \in Name |->
             IF m = n THEN text
             ELSE IF /\ statement_sql[n] = None
                     /\ Len(statement_sql_order) >= StatementCacheSize
                     /\ m = Head(statement_sql_order)
             THEN None ELSE statement_sql[m]]
    /\ pc' = [pc EXCEPT ![Main] = "stored"]
    /\ name' = [name EXCEPT ![Main] = n]
    /\ sql' = [sql EXCEPT ![Main] = text]
    /\ UNCHANGED <<lifecycle, heap, lists, held, handles>>

\* Prepare, second: nothing to send when the connection has the name already.
PrepareAcquire ==
    /\ pc[Main] = "stored"
    /\ \E got \in Addr \cup {None} :
          AcquireFor(Main, got,
              IF prepared'[got][name[Main]] # None THEN "releasing" ELSE "preparing")

\* PQprepare and CachePreparedStatement: the statement exists on both sides, or
\* the server refused it, or the connection is found broken.  A job goes on to
\* execute what it prepared, and otherwise gives the connection back.
PQprepare(t) ==
    /\ pc[t] \in {"preparing", "repreparing"}
    /\ \/ /\ net[held[t]] = "ok"
          /\ session[held[t]][name[t]] = None
          /\ prepared' = [prepared EXCEPT ![held[t]][name[t]] = sql[t]]
          /\ session' = [session EXCEPT ![held[t]][name[t]] = sql[t]]
          /\ Goto(t, IF pc[t] = "preparing" THEN "releasing" ELSE "prepared")
          /\ UNCHANGED net
       \/ /\ net[held[t]] = "ok"
          /\ Goto(t, "releasing")
          /\ UNCHANGED <<net, prepared, session>>
       \/ /\ net' = [net EXCEPT ![held[t]] = "bad"]
          /\ Goto(t, "releasing")
          /\ UNCHANGED <<prepared, session>>
    /\ UNCHANGED <<lifecycle, token, nextToken, lists, statements, held, handles>>

\* ExecutePreparedSync on the main thread, or a job started by
\* executePreparedAsync with its own reference to the pool.
StartExecutePrepared(t, n) ==
    /\ MainCanCall
    /\ pc[t] = "none"
    /\ pc' = [pc EXCEPT ![t] = "queued"]
    /\ name' = [name EXCEPT ![t] = n]
    /\ UNCHANGED <<lifecycle, heap, lists, statements, held, sql, handles>>

\* Mutant: the name is taken to be prepared on whatever connection comes.
ExecutePreparedAcquire_NoCheck(t) ==
    /\ pc[t] = "queued"
    /\ \E got \in Addr \cup {None} : AcquireFor(t, got, "prepared")

\* ExecutePrepared: a connection without the name needs its text first.
ExecutePreparedAcquire(t) ==
    /\ pc[t] = "queued"
    /\ \E got \in Addr \cup {None} :
          AcquireFor(t, got,
              IF prepared'[got][name[t]] = None THEN "looking" ELSE "prepared")

\* Mutant: the early return for a missing text forgets to release.
LookUpText_NoRelease(t) ==
    /\ pc[t] = "looking"
    /\ statement_sql[name[t]] = None
    /\ held' = [held EXCEPT ![t] = None]
    /\ Return(t)
    /\ UNCHANGED <<lifecycle, heap, lists, statements, handles>>

\* The text is copied out of the statement map under the mutex; a name the map
\* has evicted cannot be prepared again.
LookUpText(t) ==
    /\ pc[t] = "looking"
    /\ sql' = [sql EXCEPT ![t] = statement_sql[name[t]]]
    /\ pc' = [pc EXCEPT ![t] = IF statement_sql[name[t]] = None
                              THEN "releasing" ELSE "repreparing"]
    /\ UNCHANGED <<lifecycle, heap, lists, statements, held, name, handles>>

\* PQexecPrepared: as PQexec, for the statement the session holds by that name.
PQexecPrepared(t) ==
    /\ pc[t] = "prepared"
    /\ \/ net[held[t]] = "ok" /\ UNCHANGED net
       \/ net' = [net EXCEPT ![held[t]] = "bad"]
    /\ Goto(t, "releasing")
    /\ UNCHANGED <<lifecycle, token, prepared, session, nextToken, lists,
                   statements, held, handles>>

\* The Release every call that acquired a connection ends with.
ReleaseHeld(t) ==
    /\ pc[t] = "releasing"
    /\ Release(held[t])
    /\ held' = [held EXCEPT ![t] = None]
    /\ Return(t)
    /\ UNCHANGED <<lifecycle, statements, handles>>

\* Mutant: the finished job is not deleted, and keeps its reference.
AfterThreadPoolWork_NoDelete(w) ==
    /\ pc[Main] = "none"
    /\ pc[w] = "done"
    /\ Goto(w, "none")
    /\ UNCHANGED <<lifecycle, heap, lists, statements, held, handles>>

\* AfterThreadPoolWork, on the main thread: the callback runs and the job is
\* deleted, with its reference.
AfterThreadPoolWork(w) ==
    /\ pc[Main] = "none"
    /\ pc[w] = "done"
    /\ Goto(w, "none")
    /\ IF lifecycle = "unmapped" /\ \A v \in Worker \ {w} : pc[v] = "none"
       THEN lifecycle' = "gone" /\ Destructor
       ELSE UNCHANGED <<lifecycle, heap, lists, statements>>
    /\ UNCHANGED <<held, handles>>

\* destroyPool: the id leaves pools_; jobs in flight keep the pool alive.
DestroyPool ==
    /\ MainCanCall
    /\ IF \A w \in Worker : pc[w] = "none"
       THEN lifecycle' = "gone" /\ Destructor
       ELSE lifecycle' = "unmapped" /\ UNCHANGED <<heap, lists, statements>>
    /\ UNCHANGED <<calls, handles>>

-------------------------------------------------------------------------------
(* Connections handed to JavaScript.  *)

\* Mutant: the token is read before the connection is acquired.
AcquireConnection_StaleToken ==
    /\ MainCanCall
    /\ \E got \in Addr \cup {None} :
          /\ Acquire(got)
          /\ handles' = IF got = None THEN handles ELSE handles \cup
                {[addr |-> got, token |-> token[got], released |-> FALSE]}
    /\ UNCHANGED <<lifecycle, statements, calls>>

\* acquireConnection: the object JavaScript gets carries the address and the
\* identity token of the connection.
AcquireConnection ==
    /\ MainCanCall
    /\ \E got \in Addr \cup {None} :
          /\ Acquire(got)
          /\ handles' = IF got = None THEN handles ELSE handles \cup
                {[addr |-> got, token |-> token'[got], released |-> FALSE]}
    /\ UNCHANGED <<lifecycle, statements, calls>>

\* Mutant: release() gives the connection back each time it is called.
MayRelease_Always(h) == TRUE

\* ReservedConnection.release: once per object.
MayRelease(h) == ~h.released

\* releaseConnection: nothing when the pool id is gone; ReleaseByToken looks
\* the address up in the active list before it trusts it, then the token.
ReleaseConnection(h) ==
    /\ pc[Main] = "none"
    /\ MayRelease(h)
    /\ handles' = (handles \ {h}) \cup {[h EXCEPT !.released = TRUE]}
    /\ IF lifecycle = "open" /\ h.addr \in active /\ token[h.addr] = h.token
       THEN Release(h.addr)
       ELSE UNCHANGED <<heap, lists>>
    /\ UNCHANGED <<lifecycle, statements, calls>>

-------------------------------------------------------------------------------
(* The environment: the server, or the network, drops a session.  *)

LoseSession(a) ==
    /\ net[a] = "ok"
    /\ net' = [net EXCEPT ![a] = "lost"]
    /\ session' = [session EXCEPT ![a] = NoStatements]
    /\ UNCHANGED <<lifecycle, token, prepared, nextToken, lists, statements,
                   calls, handles>>

-------------------------------------------------------------------------------

Init ==
    /\ lifecycle = "absent"
    /\ token = [a \in Addr |-> 0]
    /\ net = [a \in Addr |-> "bad"]
    /\ prepared = [a \in Addr |-> NoStatements]
    /\ session = [a \in Addr |-> NoStatements]
    /\ nextToken = 1
    /\ idle = <<>>
    /\ active = {}
    /\ statement_sql = NoStatements
    /\ statement_sql_order = <<>>
    /\ pc = [t \in Thread |-> "none"]
    /\ held = [t \in Thread |-> None]
    /\ name = [t \in Thread |-> None]
    /\ sql = [t \in Thread |-> None]
    /\ handles = {}

\* A step of a call that thread t has under way.
Step(t) ==
    \/ t = Main /\ (PQexec \/ PrepareAcquire)
    \/ PQprepare(t)
    \/ ExecutePreparedAcquire(t)
    \/ LookUpText(t)
    \/ PQexecPrepared(t)
    \/ ReleaseHeld(t)

Next ==
    \/ CreatePool
    \/ ExecuteAcquire
    \/ \E n \in Name, text \in Sql : PrepareStore(n, text)
    \/ \E t \in Thread, n \in Name : StartExecutePrepared(t, n)
    \/ \E t \in Thread : Step(t)
    \/ \E w \in Worker : AfterThreadPoolWork(w)
    \/ DestroyPool
    \/ AcquireConnection
    \/ \E h \in handles : ReleaseConnection(h)
    \/ \E a \in Addr : LoseSession(a)

Spec == Init /\ [][Next]_vars

-------------------------------------------------------------------------------
(* Properties.  *)

Alive == lifecycle \in {"open", "unmapped"}

\* The steps of a call at which its thread has a connection, and those at which
\* it has a statement name.
HoldingSteps == {"executing", "preparing", "looking", "repreparing", "prepared", "releasing"}
NamingSteps  == {"stored", "preparing", "queued", "looking", "repreparing", "prepared"}
CallSteps    == {"none", "stored", "queued", "done"} \cup HoldingSteps

TypeOK ==
    /\ lifecycle \in {"absent", "open", "unmapped", "gone"}
    /\ token \in [Addr -> 0..MaxToken]
    /\ net \in [Addr -> {"ok", "lost", "bad"}]
    /\ prepared \in [Addr -> [Name -> Sql \cup {None}]]
    /\ session \in [Addr -> [Name -> Sql \cup {None}]]
    /\ nextToken \in 1..(MaxToken + 1)
    /\ idle \in Seq(Addr)
    /\ active \in SUBSET Addr
    /\ statement_sql \in [Name -> Sql \cup {None}]
    /\ statement_sql_order \in Seq(Name)
    /\ pc \in [Thread -> CallSteps]
    /\ held \in [Thread -> Addr \cup {None}]
    /\ name \in [Thread -> Name \cup {None}]
    /\ sql \in [Thread -> Sql \cup {None}]
    /\ handles \in SUBSET Handle

\* Every live connection is in exactly one place, once: in the idle deque or in
\* the active list; and nothing freed is in either (no leak, no double free in
\* Acquire, Release, EvictStaleConnections and the destructor).
OwnedOnce ==
    /\ IsInjective(idle)
    /\ Range(idle) \cap active = {}
    /\ Range(idle) \cup active = {a \in Addr : token[a] # 0}

\* A holder's connection is the live, active one it acquired, whatever other
\* threads release, evict or destroy meanwhile: threads and JavaScript handles
\* that have not released never share one (postgres_pool.h "exclusive" use).
ExclusiveHold ==
    /\ \A t \in Thread : held[t] # None => held[t] \in active
    /\ \A t, u \in Thread : t # u /\ held[t] # None => held[t] # held[u]
    /\ Alive => \A h \in handles : ~h.released =>
          /\ h.addr \in active
          /\ token[h.addr] = h.token
          /\ \A t \in Thread : held[t] # h.addr
          /\ \A g \in handles : ~g.released /\ g # h => g.addr # h.addr

\* A thread has a connection exactly at the steps that use or release one.
CallsConsistent ==
    \A t \in Thread : /\ held[t] # None <=> pc[t] \in HoldingSteps
                      /\ pc[t] \in NamingSteps => name[t] \in Name

\* No call is inside a pool that does not exist yet or any more.
NoPoolNoCalls ==
    /\ ~Alive => /\ idle = <<>>
                 /\ active = {}
                 /\ \A t \in Thread : pc[t] = "none"
    /\ lifecycle = "absent" => handles = {}
    /\ lifecycle = "unmapped" => pc[Main] = "none"

\* The inductive invariant behind OwnedOnce and ExclusiveHold.
IInv ==
    /\ TypeOK
    /\ OwnedOnce
    /\ ExclusiveHold
    /\ CallsConsistent
    /\ NoPoolNoCalls

\* No connection is lost to the pool: while its id is known, each active
\* connection is held by a call under way or by a handle that can release it.
ActiveIsHeld ==
    lifecycle = "open" =>
        \A a \in active : \/ \E t \in Thread : held[t] = a
                          \/ \E h \in handles : ~h.released /\ h.addr = a

\* The connections of a pool never outnumber its configured limits.
Limit == IF MinConnections > MaxConnections THEN MinConnections ELSE MaxConnections
TotalWithinLimit == Len(idle) + Cardinality(active) <= Limit

\* The `max` option bounds the pool's connections (smol-sql.md).
TotalWithinMax == Len(idle) + Cardinality(active) <= MaxConnections

\* What a connection believes it has prepared is what its server session holds,
\* over reconnects, evictions and failed prepares.
CacheIsSession ==
    \A a \in Addr : net[a] = "ok" => prepared[a] = session[a]

\* A call about to run a statement by name finds it on the session, unless the
\* session was dropped under it.
ReadyToExecute ==
    \A t \in Thread : pc[t] = "prepared" /\ net[held[t]] = "ok" =>
        session[held[t]][name[t]] # None

\* The statement map and its eviction order name the same statements, each
\* once, and no more than the cap.
StatementIndex ==
    /\ IsInjective(statement_sql_order)
    /\ Range(statement_sql_order) = {n \in Name : statement_sql[n] # None}
    /\ Len(statement_sql_order) <= StatementCacheSize

\* The pool lends connections, identified by their tokens, as ConnectionLending
\* says: a token that leaves the two lists never comes back, and what Acquire
\* hands out is one of the free ones or a connection no handle has ever named.
Lending == INSTANCE ConnectionLending WITH
    free   <- {token[a] : a \in Range(idle)},
    lent   <- {token[a] : a \in active},
    issued <- nextToken - 1

ImplementsLending == Lending!Spec

\* What the refinement needs besides IInv: tokens are issued in order, never
\* twice, and none before the pool exists.
TokensIssued ==
    /\ \A a \in Addr : token[a] < nextToken
    /\ \A a, b \in Addr : a # b /\ token[a] # 0 => token[a] # token[b]
FirstToken == lifecycle = "absent" => nextToken = 1

\* Giving a healthy connection back never takes the idle deque below what it
\* had or min_connections, whichever is less.
EvictionKeepsMin ==
    [][\A a \in active \ active' : lifecycle' # "gone" /\ net[a] # "bad" =>
          Len(idle') > Len(idle) \/ Len(idle') >= MinConnections]_vars

-------------------------------------------------------------------------------
(* Liveness.  Every libpq call returns (PQconnectdb has a connect_timeout), so *)
(* the mutex is always given back and a thread inside the pool always goes on; *)
(* the main thread comes back to its event loop, where finished jobs queue.    *)

Fairness ==
    /\ \A t \in Thread : WF_vars(Step(t))
    /\ \A w \in Worker : SF_vars(AfterThreadPoolWork(w))

FairSpec == Spec /\ Fairness

\* Acquire never waits: a call on an exhausted pool returns rather than block
\* a libuv thread or the event loop.
CallsReturn == \A t \in Thread : pc[t] # "none" ~> pc[t] = "none"

\* A destroyed pool is freed once the jobs in flight are finished.
DestroyedPoolIsFreed == lifecycle = "unmapped" ~> lifecycle = "gone"

===============================================================================
