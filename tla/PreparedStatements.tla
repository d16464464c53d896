-------------------------- MODULE PreparedStatements --------------------------
(***************************************************************************)
(* PostgresAdapter.query (lib/internal/socketsecurity/sql/adapters/        *)
(* postgres.js) over the native pool.  The adapter names a prepared        *)
(* statement after the hash of its text, remembers up to                   *)
(* PREPARED_STMT_CACHE_MAX_SIZE names in a least-recently-used map         *)
(* (sql/cache.js), and asks the pool to prepare and to run by name.  The   *)
(* pool has its own bounded, first-in-first-out map from name to text, and *)
(* each connection its own set of prepared names, which nothing            *)
(* deallocates.                                                            *)
(*                                                                         *)
(* After #ensurePool, query has no await: no other JavaScript runs until   *)
(* it returns.  Composes PostgresPool, driven from the main thread only.   *)
(***************************************************************************)
EXTENDS Integers, Sequences, FiniteSets, SequencesExt

CONSTANTS
    Addr, Main, Sql, None,              \* as in PostgresPool
    MinConnections, MaxConnections, StatementCacheSize, MaxToken,
    HashValue,                          \* 32-bit values
    Hash,                               \* FNV-1a of each text
    CacheMaxSize                        \* PREPARED_STMT_CACHE_MAX_SIZE

\* cacheKey: "hash" for probe 0 and "hash#probe" after it.  The statement name
\* is "stmt_" and the key, so the key stands for both.
Name   == HashValue \X (0..(CacheMaxSize - 1))
Worker == {}

ASSUME CacheAssumption ==
    /\ CacheMaxSize \in Nat \ {0}
    /\ Hash \in [Sql -> HashValue]

VARIABLES
    lifecycle, token, net, prepared, session, nextToken, idle, active,
    statement_sql, statement_sql_order, pc, held, name, sql, handles,
    cache,       \* kPreparedStatements: [key, text], least recently used first
    phase,       \* of the adapter's query: "none", "preparing", "executing"
    text,        \* its text
    cacheKey     \* its key

poolVars == <<lifecycle, token, net, prepared, session, nextToken, idle, active,
              statement_sql, statement_sql_order, pc, held, name, sql, handles>>
queryVars == <<phase, text, cacheKey>>
vars == <<poolVars, cache, queryVars>>

Pool == INSTANCE PostgresPool

ASSUME PoolAssumption == Pool!PoolAssumption

-------------------------------------------------------------------------------
(* The cache.  *)

Keys == {cache[i].key : i \in DOMAIN cache}

hashQuery(t) == Hash[t]

\* Mutant: a hit on the hash is taken for a hit on the text.
Matches_HashOnly(entry, t) == TRUE

\* Mutant: texts are compared as the objects they come in.
Matches_Never(entry, t) == FALSE

\* A cached entry counts for text t only when it holds that text.
Matches(entry, t) == entry.text = t

\* Probe p of t ends the walk: its slot is empty or holds t.
Ends(t, p) ==
    \A i \in DOMAIN cache : cache[i].key = <<hashQuery(t), p>> => Matches(cache[i], t)

\* The probe the walk along the collision chain of t stops at; the last one
\* when every slot is taken by another text.
Probe(t) ==
    LET ends == {p \in 0..(CacheMaxSize - 1) : Ends(t, p)}
    IN  IF ends = {} THEN CacheMaxSize - 1
        ELSE CHOOSE p \in ends : \A q \in ends : p <= q

\* lruGet on each probe of the walk: the entries found move to the end, in the
\* order in which the walk finds them.
Touched(t) ==
    LET found(e) == e.key \in {<<hashQuery(t), p>> : p \in 0..Probe(t)}
        place(i) == IF found(cache[i]) THEN Len(cache) + 1 + cache[i].key[2] ELSE i
        upTo(i)  == {j \in DOMAIN cache : place(j) <= place(i)}
    IN  [n \in DOMAIN cache |-> cache[CHOOSE i \in DOMAIN cache : Cardinality(upTo(i)) = n]]

\* lruSet: a key that is there is overwritten, a new one evicts the oldest
\* when the cache is full.
lruSet(entry) ==
    IF entry.key \in Keys
    THEN LET i == CHOOSE i \in DOMAIN cache : cache[i].key = entry.key
         IN  Append(RemoveAt(cache, i), entry)
    ELSE Append(IF Len(cache) >= CacheMaxSize THEN Tail(cache) ELSE cache, entry)

-------------------------------------------------------------------------------
(* query(text).  *)

\* The walk, then prepareSync of a text that is not cached or the execution of
\* one that is.
Lookup(t) ==
    /\ phase = "none"
    /\ cache' = Touched(t)
    /\ text' = t
    /\ cacheKey' = <<hashQuery(t), Probe(t)>>
    /\ IF \E e \in ToSet(cache) : e.key = cacheKey' /\ Matches(e, t)
       THEN phase' = "executing" /\ Pool!StartExecutePrepared(Main, cacheKey')
       ELSE phase' = "preparing" /\ Pool!PrepareStore(cacheKey', t)

\* prepareSync has returned: whether it prepared anything is not looked at, the
\* name is cached, and executePreparedSync starts.
CacheAndExecute ==
    /\ phase = "preparing"
    /\ cache' = lruSet([key |-> cacheKey, text |-> text])
    /\ phase' = "executing"
    /\ Pool!StartExecutePrepared(Main, cacheKey)
    /\ UNCHANGED <<text, cacheKey>>

\* executePreparedSync has returned or thrown: so does query.
QueryReturns ==
    /\ phase = "executing"
    /\ pc[Main] = "none"
    /\ phase' = "none"
    /\ text' = None
    /\ cacheKey' = None
    /\ UNCHANGED <<poolVars, cache>>

-------------------------------------------------------------------------------

Init ==
    /\ Pool!Init
    /\ cache = <<>>
    /\ phase = "none"
    /\ text = None
    /\ cacheKey = None

\* What else happens to the pool between two queries: it is opened, connections
\* are reserved and released.
Between ==
    /\ phase = "none"
    /\ \/ Pool!CreatePool
       \/ Pool!AcquireConnection
       \/ \E h \in handles : Pool!ReleaseConnection(h)
    /\ UNCHANGED <<cache, queryVars>>

\* The pool's own steps under a query, and the network's.
Within ==
    /\ Pool!Step(Main) \/ \E a \in Addr : Pool!LoseSession(a)
    /\ UNCHANGED <<cache, queryVars>>

Next ==
    \/ \E t \in Sql : Lookup(t)
    \/ CacheAndExecute
    \/ QueryReturns
    \/ Between
    \/ Within

Spec == Init /\ [][Next]_vars

-------------------------------------------------------------------------------
(* Properties.  *)

\* The statement a query runs by name is, on the session that runs it, its own
\* text.  postgres.js:220-226: a collision "would execute the WRONG query with
\* the caller's values"; keys are probed "so both queries coexist".
RunsOwnText ==
    phase = "executing" /\ pc[Main] = "prepared" /\ net[held[Main]] = "ok" =>
        session[held[Main]][name[Main]] = text

\* A query that reaches a connection without its statement finds the text to
\* prepare it again, "transparently" (postgres_pool.cc:31-36).  It does as long as
\* the map has not evicted the name: the adapter's cache, which drops names in
\* another order, does not avoid "reusing evicted names" (postgres_pool.h:227),
\* as PreparedStatements_fifo.cfg shows.
TextIsKnown ==
    phase = "executing" /\ pc[Main] = "looking" => statement_sql[name[Main]] # None

\* The cap holds and a text is cached once, under one key: a text found under
\* two keys would be prepared, and age, twice.  (lruGet, lruSet and the walk.)
CacheIsMap ==
    /\ Len(cache) <= CacheMaxSize
    /\ \A i, j \in DOMAIN cache :
          i # j => cache[i].key # cache[j].key /\ cache[i].text # cache[j].text

===============================================================================
