------------------------ MODULE PreparedStatementsProofs ------------------------
(***************************************************************************)
(* The Postgres adapter over the pool, for every number of connections,    *)
(* texts and hashes and every size of the two caches: it implements the    *)
(* pool's specification, so the pool's theorems hold under it, a query     *)
(* runs a text with its own hash, and its cache is one.  Where hashes do   *)
(* not collide, or nothing is evicted, the text is the query's own.        *)
(***************************************************************************)
EXTENDS PreparedStatements, FiniteSetTheorems, SequenceTheorems, WellFoundedInduction, TLAPS

\* The pool again, with its theorems.
P == INSTANCE PostgresPoolProofs

\* The key of a query under way is a statement name, and carries its hash.
QueryTypeOK ==
    phase # "none" => text \in Sql /\ cacheKey \in Name /\ cacheKey[1] = Hash[text]

\* Name n stands for text t: in the pool's map, on a session or in the call
\* under way.
Stands(n, t) ==
    /\ n \in Name /\ t \in Sql
    /\ \/ statement_sql[n] = t
       \/ \E a \in Addr : session[a][n] = t
       \/ name[Main] = n /\ sql[Main] = t

\* The query under way has given t the key n.
Current(n, t) == phase # "none" /\ n = cacheKey /\ t = text

\* A name stands only for texts with its hash.
NamesCarryHash == \A n \in Name, t \in Sql : Stands(n, t) => n[1] = Hash[t]

\* The pool runs the name the query asked for.
CallIsQuerys ==
    /\ pc[Main] = "none" => sql[Main] = None
    /\ phase = "executing" /\ name[Main] # None => name[Main] = cacheKey

QueryInv == QueryTypeOK /\ NamesCarryHash /\ CallIsQuerys

\* A cache c: at most as many entries as it may have, each under a key of its
\* own that carries the hash of its text.
Entry == [key : Name, text : Sql]

IsCache(c) ==
    /\ c \in Seq(Entry) /\ Len(c) <= CacheMaxSize
    /\ \A i \in DOMAIN c : c[i].key[1] = Hash[c[i].text]
    /\ \A i, j \in DOMAIN c : c[i].key = c[j].key => i = j

Holds(c, n, t) == \E i \in DOMAIN c : c[i].key = n /\ c[i].text = t

CacheInv == IsCache(cache) /\ (phase = "executing" => Holds(cache, cacheKey, text))

\* No two texts have one hash.
Apart == \A s, t \in Sql : Hash[s] = Hash[t] => s = t

\* Then every key is the first of its walk.
FirstProbes ==
    /\ \A n \in Keys : n[2] = 0
    /\ phase # "none" => cacheKey[2] = 0
    /\ \A n \in Name, t \in Sql : Stands(n, t) => n[2] = 0

\* The cache has room for every text.
Roomy == IsFiniteSet(Sql) /\ Cardinality(Sql) <= CacheMaxSize

\* Then it keeps every text, under one key, and every name stands for the text
\* it is the key of.  A chain of collisions has no gap: a walk that stops at a
\* free slot has passed all texts with its hash.
Chained(n) == \A p \in 0..(n[2] - 1) : <<n[1], p>> \in Keys

NoneEvicted ==
    /\ \A m, n \in Name, t \in Sql : Holds(cache, m, t) /\ Holds(cache, n, t) => m = n
    /\ \A n \in Keys : Chained(n)
    /\ phase = "preparing" =>
          cacheKey \notin Keys /\ Chained(cacheKey) /\ \A n \in Name : ~Holds(cache, n, text)
    /\ \A n \in Name, t \in Sql : Stands(n, t) => Holds(cache, n, t) \/ Current(n, t)

\* The pool's map has room for every text, and so for every key.
RoomyMap == IsFiniteSet(Sql) /\ Cardinality(Sql) <= StatementCacheSize

Recorded ==
    /\ \A n \in Keys : statement_sql[n] # None
    /\ phase # "none" => statement_sql[cacheKey] # None

-------------------------------------------------------------------------------
(* The adapter implements the pool.  *)

\* The two instances are of one specification.
LEMMA SamePool ==
    /\ Pool!PoolAssumption <=> P!PoolAssumption
    /\ Pool!Init <=> P!Init
    /\ [Pool!Next]_(Pool!vars) <=> [P!Next]_(P!vars)
BY Zenon
   DEF Pool!Init, P!Init, Pool!Next, P!Next, Pool!CreatePool, P!CreatePool,
       Pool!ExecuteAcquire, P!ExecuteAcquire, Pool!PrepareStore, P!PrepareStore,
       Pool!StartExecutePrepared, P!StartExecutePrepared, Pool!Step, P!Step,
       Pool!AfterThreadPoolWork, P!AfterThreadPoolWork, Pool!DestroyPool, P!DestroyPool,
       Pool!AcquireConnection, P!AcquireConnection, Pool!ReleaseConnection,
       P!ReleaseConnection, Pool!LoseSession, P!LoseSession, Pool!PQexec, P!PQexec,
       Pool!PrepareAcquire, P!PrepareAcquire, Pool!PQprepare, P!PQprepare,
       Pool!ExecutePreparedAcquire, P!ExecutePreparedAcquire, Pool!LookUpText,
       P!LookUpText, Pool!PQexecPrepared, P!PQexecPrepared, Pool!ReleaseHeld,
       P!ReleaseHeld, Pool!Goto, P!Goto, Pool!Return, P!Return, Pool!MainCanCall,
       P!MainCanCall, Pool!AcquireFor, P!AcquireFor, Pool!Acquire, P!Acquire,
       Pool!AcquireIdle, P!AcquireIdle, Pool!Reclaim, P!Reclaim, Pool!CreateConnection,
       P!CreateConnection, Pool!IsAlive, P!IsAlive, Pool!Evicted, P!Evicted,
       Pool!EvictStaleConnections, P!EvictStaleConnections, Pool!Release, P!Release,
       Pool!Destructor, P!Destructor, Pool!MayRelease, P!MayRelease, Pool!NoStatements,
       P!NoStatements, Pool!heap, P!heap, Pool!lists, P!lists, Pool!statements,
       P!statements, Pool!calls, P!calls, Pool!Thread, P!Thread, Pool!Cardinality,
       P!Cardinality, Pool!Range, P!Range, Pool!IsInjective, P!IsInjective,
       Pool!IsFiniteSet, P!IsFiniteSet, Pool!PoolAssumption, P!PoolAssumption, Pool!vars, P!vars

\* The walk stops at the first probe that ends it, if there is one.
LEMMA ProbeIsProbe ==
    ASSUME NEW t
    PROVE  /\ Probe(t) \in 0..(CacheMaxSize - 1)
           /\ (\E p \in 0..(CacheMaxSize - 1) : Ends(t, p)) =>
                  Ends(t, Probe(t)) /\ \A p \in 0..(Probe(t) - 1) : ~Ends(t, p)
<1> DEFINE ends == {p \in 0..(CacheMaxSize - 1) : Ends(t, p)}
<1>1. CacheMaxSize \in Nat \ {0}
  BY CacheAssumption
<1>2. CASE ends = {}
  BY <1>1, <1>2 DEF Probe
<1>3. CASE ends # {}
  <2>1. ends \subseteq Nat
    BY <1>1
  <2>2. PICK p \in ends : \A q \in ends : ~(<<q, p>> \in OpToRel(<, Nat))
    BY <1>3, <2>1, NatLessThanWellFounded, WFMin
  <2>3. \A q \in ends : p <= q
    <3> HIDE DEF ends
    <3>1. \A q \in ends : ~(q < p)
      BY <2>1, <2>2 DEF OpToRel
    <3>2. QED
      BY <2>1, <3>1
  <2>4. Probe(t) \in ends /\ \A q \in ends : Probe(t) <= q
    BY <1>3, <2>3 DEF Probe
  <2>5. ASSUME NEW q \in 0..(Probe(t) - 1) PROVE ~Ends(t, q)
    <3>1. Probe(t) \in 0..(CacheMaxSize - 1)
      BY <2>4
    <3>2. q \in 0..(CacheMaxSize - 1) /\ ~(Probe(t) <= q)
      BY <1>1, <3>1
    <3>3. QED
      BY <2>4, <3>2
  <2>6. QED
    BY <2>4, <2>5
<1>4. QED
  BY <1>2, <1>3

\* A query's key is a name that carries its hash.
LEMMA LookupKey ==
    ASSUME NEW t \in Sql, Lookup(t)
    PROVE  text' = t /\ cacheKey' \in Name /\ cacheKey'[1] = Hash[t]
BY CacheAssumption, ProbeIsProbe DEF Lookup, hashQuery, Name

\* CacheAndExecute runs the name that was prepared, and nothing else changes a
\* query under way.
LEMMA KeyKept == ASSUME QueryTypeOK, [Next]_vars PROVE QueryTypeOK'
<1>1. CASE \E t \in Sql : Lookup(t)
  <2>1. PICK t \in Sql : Lookup(t)
    BY <1>1
  <2>2. QED
    BY <2>1, LookupKey DEF QueryTypeOK
<1>2. CASE CacheAndExecute
  BY <1>2 DEF CacheAndExecute, QueryTypeOK
<1>3. CASE QueryReturns
  BY <1>3 DEF QueryReturns, QueryTypeOK
<1>4. CASE Between \/ Within \/ UNCHANGED vars
  BY <1>4 DEF Between, Within, vars, queryVars, QueryTypeOK
<1>5. QED
  BY <1>1, <1>2, <1>3, <1>4 DEF Next

\* A step of the adapter is a step of the pool, or leaves it alone.
LEMMA StepIsPoolStep == ASSUME QueryTypeOK, [Next]_vars PROVE [Pool!Next]_(Pool!vars)
<1> USE DEF Pool!Next
<1>1. Main \in Pool!Thread
  BY DEF Pool!Thread
<1>2. CASE \E t \in Sql : Lookup(t)
  <2>1. PICK t \in Sql : Lookup(t)
    BY <1>2
  <2>2. Pool!StartExecutePrepared(Main, cacheKey') \/ Pool!PrepareStore(cacheKey', t)
    BY <2>1 DEF Lookup
  <2>3. QED
    BY <1>1, <2>1, <2>2, LookupKey
<1>3. CASE CacheAndExecute
  <2>1. cacheKey \in Name /\ Pool!StartExecutePrepared(Main, cacheKey)
    BY <1>3 DEF CacheAndExecute, QueryTypeOK
  <2>2. QED
    BY <1>1, <2>1
<1>4. CASE QueryReturns \/ UNCHANGED vars
  BY <1>4 DEF QueryReturns, vars, poolVars, Pool!vars, Pool!heap, Pool!lists, Pool!statements,
              Pool!calls
<1>5. CASE Between
  BY <1>5 DEF Between
<1>6. CASE Within
  BY <1>1, <1>6 DEF Within
<1>7. QED
  BY <1>2, <1>3, <1>4, <1>5, <1>6 DEF Next

\* The adapter uses the pool as the pool's specification allows: it never starts
\* a call inside another, on a pool that is not open, or with a key that is no
\* name.
THEOREM ImplementsPool == Spec => Pool!Spec
<1>1. Init => Pool!Init /\ QueryTypeOK
  BY DEF Init, QueryTypeOK
<1>2. QED
  BY <1>1, KeyKept, StepIsPoolStep, PTL DEF Spec, Pool!Spec

\* The pool's theorems hold of its state.
LEMMA PoolTheorems == Spec => [](P!IInv /\ P!ReadyToExecute /\ P!StatementIndex)
<1>1. P!PoolAssumption
  BY PoolAssumption, SamePool
<1>2. P!Spec => []P!IInv
  BY <1>1, P!Invariance
<1>3. P!Spec => []P!ReadyToExecute
  BY <1>1, P!NamesAreReady
<1>4. P!Spec => []P!StatementIndex
  BY <1>1, P!IndexAgrees
<1>5. Spec => P!Spec
  BY ImplementsPool, SamePool, PTL DEF Pool!Spec, P!Spec
<1>6. QED
  BY <1>2, <1>3, <1>4, <1>5, PTL

-------------------------------------------------------------------------------
(* What a name stands for.  *)

\* What the steps need to know of the pool.
PoolTypes ==
    /\ pc \in [Pool!Thread -> Pool!CallSteps]
    /\ session \in [Addr -> [Name -> Sql \cup {None}]]
    /\ name \in [Pool!Thread -> Name \cup {None}]
    /\ sql \in [Pool!Thread -> Sql \cup {None}]
    /\ pc[Main] \in Pool!HoldingSteps => held[Main] \in Addr
    /\ pc[Main] \in Pool!NamingSteps => name[Main] \in Name
    /\ statement_sql \in [Name -> Sql \cup {None}]
    /\ statement_sql_order \in Seq(Name)
    /\ None \notin Name /\ None \notin Sql

LEMMA PoolTypesHold == P!IInv => PoolTypes
BY PoolAssumption, SamePool
   DEF P!IInv, P!TypeOK, P!CallsConsistent, P!Thread, P!HoldingSteps, P!NamingSteps, P!CallSteps,
       PoolTypes, P!PoolAssumption, Pool!CallSteps, Pool!Thread, Pool!HoldingSteps, Pool!NamingSteps

\* Sessions are only emptied by the pool's critical sections.
SessionsShrink ==
    \A a \in Addr : session'[a] = session[a] \/ session'[a] = Pool!NoStatements

LEMMA AcquireShrinks == ASSUME PoolTypes, NEW got, Pool!Acquire(got) PROVE SessionsShrink
BY DEF Pool!Acquire, Pool!AcquireIdle, Pool!Reclaim, Pool!CreateConnection, SessionsShrink

LEMMA ReleaseShrinks == ASSUME PoolTypes, NEW a, Pool!Release(a) PROVE SessionsShrink
BY DEF Pool!Release, Pool!EvictStaleConnections, Pool!Reclaim, SessionsShrink

\* No name comes to stand for a text but the key of a query for its own.
NamesKept == \A n, t : Stands(n, t)' => Stands(n, t) \/ Current(n, t)'

LEMMA ShrinkKeeps ==
    ASSUME PoolTypes, SessionsShrink, UNCHANGED statement_sql,
           sql'[Main] = None \/ UNCHANGED <<name, sql>>
    PROVE  NamesKept
<1> SUFFICES ASSUME NEW n \in Name, NEW t \in Sql, Stands(n, t)' PROVE Stands(n, t)
  BY DEF NamesKept, Stands
<1>1. CASE \E a \in Addr : session'[a][n] = t
  <2>1. PICK a \in Addr : session'[a][n] = t
    BY <1>1
  <2>2. session[a][n] = t
    BY <2>1 DEF SessionsShrink, PoolTypes, Pool!NoStatements
  <2>3. QED
    BY <2>2 DEF Stands
<1>2. CASE statement_sql'[n] = t
  BY <1>2 DEF Stands
<1>3. CASE name'[Main] = n /\ sql'[Main] = t
  BY <1>3 DEF Stands, PoolTypes
<1>4. QED
  BY <1>1, <1>2, <1>3 DEF Stands

\* A step of the pool under a query.
LEMMA StepKeepsNames ==
    ASSUME PoolTypes, CallIsQuerys, Pool!Step(Main), UNCHANGED queryVars
    PROVE  NamesKept /\ CallIsQuerys' /\ UNCHANGED statement_sql
<1> USE DEF Pool!Thread
<1>1. CASE Pool!PQexec \/ Pool!PQexecPrepared(Main)
  <2>1. UNCHANGED <<session, statement_sql, name, sql, phase, cacheKey>> /\ pc'[Main] # "none"
    BY <1>1 DEF Pool!PQexec, Pool!PQexecPrepared, Pool!Goto, queryVars, Pool!lists,
                Pool!statements, PoolTypes
  <2>2. QED
    BY <2>1 DEF NamesKept, Stands, CallIsQuerys
<1>2. CASE Pool!PrepareAcquire \/ Pool!ExecutePreparedAcquire(Main)
  <2>1. PICK got \in Addr \cup {None}, s \in {"releasing", "preparing", "looking", "prepared"} :
                 Pool!AcquireFor(Main, got, s)
    BY <1>2, Zenon DEF Pool!PrepareAcquire, Pool!ExecutePreparedAcquire
  <2>2. SessionsShrink /\ UNCHANGED statement_sql
    BY <2>1, AcquireShrinks DEF Pool!AcquireFor, Pool!statements
  <2>3. CASE got = None
    <3>1. name'[Main] = None /\ sql'[Main] = None
      BY <2>1, <2>3 DEF Pool!AcquireFor, Pool!Return, PoolTypes
    <3>2. QED
      BY <2>2, <3>1, ShrinkKeeps DEF CallIsQuerys
  <2>4. CASE got # None
    <3>1. UNCHANGED <<name, sql>> /\ pc'[Main] # "none"
      BY <2>1, <2>4 DEF Pool!AcquireFor, Pool!Goto, PoolTypes
    <3>2. QED
      BY <2>2, <3>1, ShrinkKeeps DEF CallIsQuerys, queryVars
  <2>5. QED
    BY <2>3, <2>4
<1>3. CASE Pool!PQprepare(Main)
  <2>1. /\ UNCHANGED <<statement_sql, name, sql>> /\ pc'[Main] # "none"
        /\ \/ UNCHANGED session
           \/ session' = [session EXCEPT ![held[Main]][name[Main]] = sql[Main]]
    BY <1>3 DEF Pool!PQprepare, Pool!Goto, Pool!statements, PoolTypes
  <2>2. held[Main] \in Addr /\ name[Main] \in Name
    BY <1>3 DEF Pool!PQprepare, PoolTypes, Pool!HoldingSteps, Pool!NamingSteps
  <2>3. ASSUME NEW a \in Addr, NEW n \in Name
        PROVE  \/ session'[a][n] = session[a][n]
               \/ n = name[Main] /\ session'[a][n] = sql[Main]
    BY <2>1, <2>2 DEF PoolTypes
  <2>4. QED
    BY <2>1, <2>3 DEF NamesKept, Stands, CallIsQuerys, queryVars
<1>4. CASE Pool!LookUpText(Main)
  <2>1. /\ UNCHANGED <<statement_sql, session, name>> /\ pc'[Main] # "none"
        /\ sql'[Main] = statement_sql[name[Main]]
    BY <1>4 DEF Pool!LookUpText, Pool!statements, Pool!heap, PoolTypes
  <2>2. name[Main] \in Name
    BY <1>4 DEF Pool!LookUpText, PoolTypes, Pool!NamingSteps
  <2>3. QED
    BY <2>1, <2>2 DEF NamesKept, Stands, CallIsQuerys, queryVars
<1>5. CASE Pool!ReleaseHeld(Main)
  <2>1. SessionsShrink /\ UNCHANGED statement_sql
    BY <1>5, ReleaseShrinks DEF Pool!ReleaseHeld, Pool!statements
  <2>2. name'[Main] = None /\ sql'[Main] = None
    BY <1>5 DEF Pool!ReleaseHeld, Pool!Return, PoolTypes
  <2>3. QED
    BY <2>1, <2>2, ShrinkKeeps DEF CallIsQuerys
<1>6. QED
  BY <1>1, <1>2, <1>3, <1>4, <1>5 DEF Pool!Step

\* A new query gives the pool its key and its text.
LEMMA LookupKeepsNames ==
    ASSUME PoolTypes, CallIsQuerys, NEW t \in Sql, Lookup(t)
    PROVE  NamesKept /\ CallIsQuerys'
<1> USE DEF Pool!Thread
<1>1. text' = t /\ cacheKey' \in Name
  BY LookupKey
<1>2. sql[Main] = None
  BY DEF Lookup, Pool!StartExecutePrepared, Pool!PrepareStore, Pool!MainCanCall, CallIsQuerys
<1>3. CASE phase' = "executing" /\ Pool!StartExecutePrepared(Main, cacheKey')
  <2>1. UNCHANGED <<session, statement_sql, sql>> /\ pc'[Main] # "none"
        /\ name'[Main] = cacheKey'
    BY <1>3 DEF Pool!StartExecutePrepared, Pool!heap, Pool!statements, PoolTypes
  <2>2. QED
    BY <1>2, <2>1 DEF NamesKept, Stands, PoolTypes, CallIsQuerys
<1>4. CASE phase' = "preparing" /\ Pool!PrepareStore(cacheKey', t)
  <2>1. /\ UNCHANGED session /\ pc'[Main] # "none"
        /\ name'[Main] = cacheKey' /\ sql'[Main] = t
    BY <1>4 DEF Pool!PrepareStore, Pool!heap, PoolTypes
  <2>2. ASSUME NEW n \in Name
        PROVE  \/ statement_sql'[n] \in {None, statement_sql[n]}
               \/ n = cacheKey' /\ statement_sql'[n] = t
    BY <1>4 DEF Pool!PrepareStore
  <2>3. QED
    BY <1>1, <1>4, <2>1, <2>2 DEF NamesKept, Stands, Current, PoolTypes, CallIsQuerys
<1>5. QED
  BY <1>3, <1>4 DEF Lookup

LEMMA NextKeepsNames ==
    ASSUME PoolTypes, CallIsQuerys, [Next]_vars
    PROVE  /\ NamesKept /\ CallIsQuerys'
           /\ UNCHANGED statement_sql \/ \E t \in Sql : Lookup(t)
<1> USE DEF Pool!Thread
<1>1. CASE \E t \in Sql : Lookup(t)
  BY <1>1, LookupKeepsNames
<1>2. CASE CacheAndExecute
  <2>1. /\ UNCHANGED <<session, statement_sql, sql, cacheKey>> /\ pc'[Main] # "none"
        /\ name'[Main] = cacheKey /\ sql[Main] = None
    BY <1>2 DEF CacheAndExecute, Pool!StartExecutePrepared, Pool!MainCanCall, Pool!heap,
                Pool!statements, PoolTypes, CallIsQuerys
  <2>2. QED
    BY <2>1 DEF NamesKept, Stands, PoolTypes, CallIsQuerys
<1>3. CASE QueryReturns \/ UNCHANGED vars
  BY <1>3 DEF QueryReturns, vars, poolVars, queryVars, NamesKept, Stands, CallIsQuerys
<1>4. CASE Between
  <2>1. UNCHANGED <<statement_sql, pc, name, sql, phase, cacheKey>>
    BY <1>4 DEF Between, queryVars, Pool!CreatePool, Pool!AcquireConnection,
                Pool!ReleaseConnection, Pool!statements, Pool!calls
  <2>2. SessionsShrink
    <3>1. CASE Pool!CreatePool
      BY <3>1 DEF Pool!CreatePool, SessionsShrink
    <3>2. CASE Pool!AcquireConnection
      BY <3>2, AcquireShrinks DEF Pool!AcquireConnection
    <3>3. ASSUME NEW h \in handles, Pool!ReleaseConnection(h)
          PROVE  SessionsShrink
      <4>1. CASE UNCHANGED session
        BY <4>1 DEF SessionsShrink
      <4>2. CASE Pool!Release(h.addr)
        BY <4>2, ReleaseShrinks
      <4>3. QED
        BY <3>3, <4>1, <4>2 DEF Pool!ReleaseConnection, Pool!heap
    <3>4. QED
      BY <1>4, <3>1, <3>2, <3>3 DEF Between
  <2>3. QED
    BY <2>1, <2>2, ShrinkKeeps DEF CallIsQuerys
<1>5. CASE Within
  <2>1. CASE Pool!Step(Main)
    BY <1>5, <2>1, StepKeepsNames DEF Within
  <2>2. ASSUME NEW a \in Addr, Pool!LoseSession(a)
        PROVE  NamesKept /\ CallIsQuerys' /\ UNCHANGED statement_sql
    <3>1. SessionsShrink /\ UNCHANGED <<statement_sql, pc, name, sql>>
      BY <2>2 DEF Pool!LoseSession, Pool!statements, Pool!calls, SessionsShrink, PoolTypes
    <3>2. QED
      BY <1>5, <3>1, ShrinkKeeps DEF Within, queryVars, CallIsQuerys
  <2>3. QED
    BY <1>5, <2>1, <2>2 DEF Within
<1>6. QED
  BY <1>1, <1>2, <1>3, <1>4, <1>5 DEF Next

LEMMA NextKeepsQuery == ASSUME PoolTypes, QueryInv, [Next]_vars PROVE QueryInv'
<1>1. QueryTypeOK' /\ NamesKept /\ CallIsQuerys'
  BY KeyKept, NextKeepsNames DEF QueryInv
<1>2. NamesCarryHash'
  BY <1>1 DEF QueryInv, QueryTypeOK, NamesKept, NamesCarryHash, Current
<1>3. QED
  BY <1>1, <1>2 DEF QueryInv

-------------------------------------------------------------------------------
(* The cache.  *)

\* The places of a cache.
LEMMA CacheDomain ==
    ASSUME NEW c, IsCache(c)
    PROVE  /\ DOMAIN c = 1..Len(c) /\ Len(c) \in Nat
           /\ IsFiniteSet(DOMAIN c) /\ Cardinality(DOMAIN c) = Len(c)
<1>1. DOMAIN c = 1..Len(c) /\ Len(c) \in Nat
  BY DEF IsCache
<1> DEFINE n == Len(c)
<1>2. 1 \in Int /\ n \in Int /\ n \in Nat
  BY <1>1
<1> HIDE DEF n
<1>3. IsFiniteSet(1..n) /\ Cardinality(1..n) = IF 1 > n THEN 0 ELSE n - 1 + 1
  BY <1>2, FS_Interval, Zenon
<1>4. Cardinality(1..n) = n
  BY <1>2, <1>3
<1>5. QED
  BY <1>1, <1>3, <1>4 DEF n

\* A function on the first n numbers is a sequence.
LEMMA FunctionIsSeq ==
    ASSUME NEW S, NEW n \in Nat, NEW f \in [1..n -> S]
    PROVE  f \in Seq(S) /\ Len(f) = n
OBVIOUS

\* lruGet changes the order of the entries and nothing else.
LEMMA TouchedReorders ==
    ASSUME IsCache(cache), NEW t \in Sql
    PROVE  \E order \in [DOMAIN cache -> DOMAIN cache] :
               /\ Touched(t) = [n \in DOMAIN cache |-> cache[order[n]]]
               /\ \A m, n \in DOMAIN cache : order[m] = order[n] => m = n
               /\ \A i \in DOMAIN cache : \E n \in DOMAIN cache : order[n] = i
<1> DEFINE found(e) == e.key \in {<<hashQuery(t), p>> : p \in 0..Probe(t)}
           place(i) == IF found(cache[i]) THEN Len(cache) + 1 + cache[i].key[2] ELSE i
           upTo(i)  == {j \in DOMAIN cache : place(j) <= place(i)}
           D == DOMAIN cache
           rank == [i \in D |-> Cardinality(upTo(i))]
<1>1. /\ D = 1..Len(cache) /\ Len(cache) \in Nat /\ IsFiniteSet(D) /\ Cardinality(D) = Len(cache)
      /\ \A i \in D : cache[i] \in Entry /\ cache[i].key \in Name
  <2>1. \A i \in D : cache[i] \in Entry
    BY DEF IsCache
  <2>2. QED
    BY <2>1, CacheDomain DEF Entry
<1>2. \A i \in D : cache[i].key[2] \in Nat /\ cache[i].key = <<cache[i].key[1], cache[i].key[2]>>
  BY <1>1, CacheAssumption DEF Name
<1>3. \A i \in D : place(i) \in Nat
  BY <1>1, <1>2
<1>4. ASSUME NEW i \in D, NEW j \in D, place(i) = place(j)
      PROVE  i = j
  <2>1. CASE found(cache[i]) /\ found(cache[j])
    <3>1. cache[i].key[1] = cache[j].key[1]
      BY <2>1
    <3>2. cache[i].key[2] = cache[j].key[2]
      BY <1>1, <1>2, <1>4, <2>1
    <3>3. cache[i].key = cache[j].key
      BY <1>2, <3>1, <3>2
    <3>4. QED
      BY <3>3 DEF IsCache
  <2>2. CASE ~found(cache[i]) /\ ~found(cache[j])
    BY <1>4, <2>2
  <2>3. CASE found(cache[i]) # found(cache[j])
    BY <1>1, <1>2, <1>4, <2>3
  <2>4. QED
    BY <2>1, <2>2, <2>3
<1> HIDE DEF place, found
<1>5. \A i \in D : /\ upTo(i) \in SUBSET D /\ IsFiniteSet(upTo(i)) /\ i \in upTo(i)
                   /\ Cardinality(upTo(i)) \in D
  <2> SUFFICES ASSUME NEW i \in D
               PROVE  /\ upTo(i) \in SUBSET D /\ IsFiniteSet(upTo(i)) /\ i \in upTo(i)
                      /\ Cardinality(upTo(i)) \in D
    OBVIOUS
  <2>1. upTo(i) \in SUBSET D /\ i \in upTo(i)
    BY <1>3
  <2> HIDE DEF upTo
  <2>2. IsFiniteSet(upTo(i)) /\ Cardinality(upTo(i)) <= Len(cache) /\ Cardinality(upTo(i)) \in Nat
    BY <1>1, <2>1, FS_Subset, FS_CardinalityType
  <2>3. Cardinality(upTo(i)) # 0
    BY <2>1, <2>2, FS_EmptySet
  <2>4. QED
    BY <1>1, <2>1, <2>2, <2>3
<1>6. ASSUME NEW i \in D, NEW j \in D, place(i) < place(j)
      PROVE  Cardinality(upTo(i)) # Cardinality(upTo(j))
  <2>1. upTo(i) \in SUBSET upTo(j)
    BY <1>3, <1>6
  <2>2. j \notin upTo(i)
    BY <1>3, <1>6
  <2>3. QED
    BY <1>5, <2>1, <2>2, FS_Subset
<1>7. rank \in [D -> D] /\ \A i \in D : rank[i] = Cardinality(upTo(i))
  BY <1>5
<1>8. ASSUME NEW i \in D, NEW j \in D, rank[i] = rank[j]
      PROVE  i = j
  <2>1. place(i) = place(j) \/ place(i) < place(j) \/ place(j) < place(i)
    BY <1>3
  <2>2. QED
    BY <1>4, <1>6, <1>7, <1>8, <2>1
<1> HIDE DEF rank
<1>9. rank \in Surjection(D, D)
  <2>1. rank \in Injection(D, D)
    BY <1>7, <1>8 DEF Injection, IsInjective
  <2>2. QED
    BY <1>1, <2>1, FS_Injection
<1>10. \A n \in D : \E i \in D : rank[i] = n
  BY <1>9 DEF Surjection
<1> DEFINE order == [n \in D |-> CHOOSE i \in D : Cardinality(upTo(i)) = n]
<1>11. \A n \in D : order[n] \in D /\ rank[order[n]] = n
  BY <1>7, <1>10
<1>12. order \in [D -> D]
  BY <1>11
<1>13. Touched(t) = [n \in D |-> cache[order[n]]]
  BY DEF Touched, place, found
<1> HIDE DEF order, D
<1>14. \A m, n \in D : order[m] = order[n] => m = n
  BY <1>11
<1>15. \A i \in D : \E n \in D : order[n] = i
  <2> SUFFICES ASSUME NEW i \in D PROVE \E n \in D : order[n] = i
    OBVIOUS
  <2>1. rank[i] \in D
    BY <1>7
  <2>2. order[rank[i]] = i
    BY <1>8, <1>11, <2>1
  <2>3. QED
    BY <2>1, <2>2
<1>16. QED
  BY <1>12, <1>13, <1>14, <1>15 DEF D

\* What is left of a cache is a cache, in any order.
LEMMA SubCache ==
    ASSUME NEW c, IsCache(c), NEW d \in Seq(Entry), Len(d) <= Len(c),
           NEW at \in [DOMAIN d -> DOMAIN c],
           \A i, j \in DOMAIN d : at[i] = at[j] => i = j,
           \A i \in DOMAIN d : d[i] = c[at[i]]
    PROVE  /\ IsCache(d)
           /\ \A n, t : Holds(d, n, t) => Holds(c, n, t)
<1>1. Len(d) <= CacheMaxSize
  <2>1. Len(d) \in Nat /\ Len(c) \in Nat /\ Len(c) <= CacheMaxSize /\ CacheMaxSize \in Nat
    BY CacheAssumption DEF IsCache
  <2>2. QED
    BY <2>1
<1>2. \A i \in DOMAIN d : d[i].key[1] = Hash[d[i].text]
  BY DEF IsCache
<1>3. ASSUME NEW i \in DOMAIN d, NEW j \in DOMAIN d, d[i].key = d[j].key
      PROVE  i = j
  <2>1. at[i] = at[j]
    BY <1>3 DEF IsCache
  <2>2. QED
    BY <2>1
<1>4. ASSUME NEW n, NEW t, Holds(d, n, t)
      PROVE  Holds(c, n, t)
  BY <1>4 DEF Holds
<1>5. QED
  BY <1>1, <1>2, <1>3, <1>4 DEF IsCache

LEMMA TouchedFacts ==
    ASSUME IsCache(cache), NEW t \in Sql
    PROVE  /\ IsCache(Touched(t))
           /\ \A n, s : Holds(Touched(t), n, s) <=> Holds(cache, n, s)
<1>1. PICK order \in [DOMAIN cache -> DOMAIN cache] :
               /\ Touched(t) = [n \in DOMAIN cache |-> cache[order[n]]]
               /\ \A m, n \in DOMAIN cache : order[m] = order[n] => m = n
               /\ \A i \in DOMAIN cache : \E n \in DOMAIN cache : order[n] = i
  BY TouchedReorders
<1> DEFINE c == Touched(t)
<1>2. DOMAIN c = DOMAIN cache /\ \A n \in DOMAIN c : c[n] = cache[order[n]]
  BY <1>1
<1> HIDE DEF c
<1>3. c \in Seq(Entry) /\ Len(c) <= Len(cache)
  <2>1. DOMAIN cache = 1..Len(cache) /\ Len(cache) \in Nat /\ \A i \in DOMAIN cache : cache[i] \in Entry
    BY DEF IsCache
  <2>2. c = [n \in 1..Len(cache) |-> cache[order[n]]]
    BY <1>1, <2>1 DEF c
  <2>3. \A n \in 1..Len(cache) : cache[order[n]] \in Entry
    BY <2>1
  <2> DEFINE n == Len(cache)
             f == [k \in 1..n |-> cache[order[k]]]
  <2> HIDE DEF n
  <2>4. f \in [1..n -> Entry] /\ n \in Nat
    BY <2>1, <2>3 DEF n
  <2>5. c = f
    BY <2>2 DEF n
  <2> HIDE DEF f
  <2>6. c \in Seq(Entry) /\ Len(c) = n
    BY <2>4, <2>5, FunctionIsSeq, Zenon
  <2>7. QED
    BY <2>1, <2>6 DEF n
<1>4. IsCache(c) /\ \A n, s : Holds(c, n, s) => Holds(cache, n, s)
  <2>1. order \in [DOMAIN c -> DOMAIN cache] /\ \A n \in DOMAIN c : c[n] = cache[order[n]]
    BY <1>2
  <2>2. \A m, n \in DOMAIN c : order[m] = order[n] => m = n
    BY <1>1, <1>2
  <2>3. QED
    BY <1>3, <2>1, <2>2, SubCache, ZenonT(30)
<1>5. ASSUME NEW n, NEW s, Holds(cache, n, s)
      PROVE  Holds(c, n, s)
  BY <1>1, <1>2, <1>5 DEF Holds
<1>6. QED
  BY <1>4, <1>5 DEF c

LEMMA RemovedFacts ==
    ASSUME IsCache(cache), NEW i \in DOMAIN cache
    PROVE  /\ IsCache(RemoveAt(cache, i)) /\ Len(RemoveAt(cache, i)) = Len(cache) - 1
           /\ \A n, t : Holds(RemoveAt(cache, i), n, t) => Holds(cache, n, t) /\ n # cache[i].key
<1> DEFINE d  == RemoveAt(cache, i)
           at == [j \in 1..(Len(cache) - 1) |-> IF j < i THEN j ELSE j + 1]
<1>1. cache \in Seq(Entry) /\ Len(cache) \in Nat /\ DOMAIN cache = 1..Len(cache) /\ i \in 1..Len(cache)
  BY DEF IsCache
<1>2. /\ d \in Seq(Entry) /\ Len(d) = Len(cache) - 1
      /\ \A j \in 1..(Len(cache) - 1) : d[j] = IF j < i THEN cache[j] ELSE cache[j + 1]
  <2> DEFINE low == SubSeq(cache, 1, i - 1)
             high == SubSeq(cache, i + 1, Len(cache))
  <2>1. low \in Seq(Entry) /\ Len(low) = i - 1 /\ \A j \in 1..(i - 1) : low[j] = cache[j]
    BY <1>1
  <2>2. high \in Seq(Entry) /\ Len(high) = Len(cache) - i
        /\ \A j \in 1..(Len(cache) - i) : high[j] = cache[i + j]
    BY <1>1
  <2>3. d = low \o high
    BY DEF RemoveAt
  <2> HIDE DEF low, high, d
  <2>4. low \in Seq(Entry) /\ high \in Seq(Entry)
    BY <2>1, <2>2
  <2>5. /\ low \o high \in Seq(Entry)
        /\ Len(low \o high) = Len(low) + Len(high)
        /\ \A j \in 1..(Len(low) + Len(high)) :
              (low \o high)[j] = IF j <= Len(low) THEN low[j] ELSE high[j - Len(low)]
    BY <2>4, ConcatProperties, ZenonT(30)
  <2>6. \A j \in 1..(Len(low) + Len(high)) :
           d[j] = IF j <= Len(low) THEN low[j] ELSE high[j - Len(low)]
    BY <2>3, <2>5, Zenon
  <2>7. d \in Seq(Entry)
    BY <2>3, <2>5, Zenon
  <2>8. Len(low) = i - 1 /\ Len(high) = Len(cache) - i /\ i \in Int /\ Len(cache) \in Int
    BY <1>1, <2>1, <2>2
  <2>9. Len(d) = Len(cache) - 1
    <3>1. Len(d) = (i - 1) + (Len(cache) - i)
      BY <2>3, <2>5, <2>8
    <3>2. QED
      BY <2>8, <3>1
  <2>10. ASSUME NEW j \in 1..(Len(cache) - 1)
         PROVE  d[j] = IF j < i THEN cache[j] ELSE cache[j + 1]
    <3>1. d[j] = IF j <= i - 1 THEN low[j] ELSE high[j - (i - 1)]
      <4>1. j \in 1..(Len(low) + Len(high))
        BY <2>8
      <4>2. QED
        BY <2>6, <2>8, <4>1
    <3>2. CASE j < i
      <4>1. j \in 1..(i - 1)
        BY <1>1, <3>2
      <4>2. QED
        BY <2>1, <3>1, <3>2, <4>1
    <3>3. CASE ~(j < i)
      <4>1. j - (i - 1) \in 1..(Len(cache) - i) /\ i + (j - (i - 1)) = j + 1 /\ ~(j <= i - 1)
        BY <1>1, <3>3
      <4>2. QED
        BY <2>2, <3>1, <3>3, <4>1
    <3>4. QED
      BY <3>2, <3>3
  <2>11. QED
    BY <2>7, <2>9, <2>10
<1> HIDE DEF d
<1>3. at \in [1..(Len(cache) - 1) -> DOMAIN cache]
      /\ \A j \in 1..(Len(cache) - 1) : at[j] # i /\ d[j] = cache[at[j]]
  BY <1>1, <1>2
<1>4. \A j, k \in 1..(Len(cache) - 1) : at[j] = at[k] => j = k
  BY <1>1
<1>5. d \in Seq(Entry) /\ DOMAIN d = 1..(Len(cache) - 1) /\ Len(d) <= Len(cache)
  BY <1>1, <1>2
<1> HIDE DEF at
<1>6. IsCache(d) /\ \A n, t : Holds(d, n, t) => Holds(cache, n, t)
  <2>1. at \in [DOMAIN d -> DOMAIN cache] /\ \A j \in DOMAIN d : d[j] = cache[at[j]]
    BY <1>3, <1>5
  <2>2. \A j, k \in DOMAIN d : at[j] = at[k] => j = k
    BY <1>4, <1>5
  <2>3. QED
    BY <1>5, <2>1, <2>2, SubCache
<1>7. ASSUME NEW n, NEW t, Holds(d, n, t)
      PROVE  n # cache[i].key
  BY <1>3, <1>5, <1>7 DEF Holds, IsCache
<1>8. QED
  BY <1>2, <1>6, <1>7 DEF d

LEMMA TailFacts ==
    ASSUME IsCache(cache), cache # <<>>
    PROVE  /\ IsCache(Tail(cache)) /\ Len(Tail(cache)) = Len(cache) - 1
           /\ \A n, t : Holds(Tail(cache), n, t) => Holds(cache, n, t)
<1> DEFINE d  == Tail(cache)
           at == [j \in 1..(Len(cache) - 1) |-> j + 1]
<1>1. cache \in Seq(Entry) /\ Len(cache) \in Nat /\ Len(cache) > 0 /\ DOMAIN cache = 1..Len(cache)
  BY DEF IsCache
<1>2. /\ d \in Seq(Entry) /\ Len(d) = Len(cache) - 1 /\ DOMAIN d = 1..(Len(cache) - 1)
      /\ \A j \in 1..(Len(cache) - 1) : d[j] = cache[j + 1]
  BY <1>1
<1> HIDE DEF d
<1>3. at \in [DOMAIN d -> DOMAIN cache] /\ \A j \in DOMAIN d : d[j] = cache[at[j]]
  BY <1>1, <1>2
<1>4. \A j, k \in DOMAIN d : at[j] = at[k] => j = k
  BY <1>1, <1>2
<1>5. d \in Seq(Entry) /\ Len(d) <= Len(cache)
  BY <1>1, <1>2
<1> HIDE DEF at
<1>6. IsCache(d) /\ \A n, t : Holds(d, n, t) => Holds(cache, n, t)
  BY <1>3, <1>4, <1>5, SubCache
<1>7. QED
  BY <1>2, <1>6 DEF d

LEMMA AppendFacts ==
    ASSUME NEW c, IsCache(c), Len(c) < CacheMaxSize, NEW e \in Entry, e.key[1] = Hash[e.text],
           \A t : ~Holds(c, e.key, t)
    PROVE  /\ IsCache(Append(c, e))
           /\ \A n, t : Holds(Append(c, e), n, t) <=> Holds(c, n, t) \/ (n = e.key /\ t = e.text)
<1> DEFINE d == Append(c, e)
<1>1. c \in Seq(Entry) /\ Len(c) \in Nat /\ DOMAIN c = 1..Len(c)
  BY DEF IsCache
<1>2. /\ d \in Seq(Entry) /\ Len(d) = Len(c) + 1 /\ DOMAIN d = 1..(Len(c) + 1)
      /\ d[Len(c) + 1] = e /\ \A i \in 1..Len(c) : d[i] = c[i]
  BY <1>1
<1> HIDE DEF d
<1>3. \A i \in DOMAIN d : (i \in DOMAIN c /\ d[i] = c[i]) \/ (d[i] = e /\ i = Len(c) + 1)
  BY <1>1, <1>2
<1>4. \A i \in DOMAIN c : i \in DOMAIN d /\ d[i] = c[i] /\ c[i].key # e.key
  <2> SUFFICES ASSUME NEW i \in DOMAIN c
               PROVE  i \in DOMAIN d /\ d[i] = c[i] /\ c[i].key # e.key
    OBVIOUS
  <2>1. i \in DOMAIN d /\ d[i] = c[i]
    BY <1>1, <1>2
  <2>2. ~Holds(c, e.key, c[i].text)
    OBVIOUS
  <2>3. QED
    BY <2>1, <2>2 DEF Holds
<1>5. Len(d) <= CacheMaxSize
  BY <1>1, <1>2, CacheAssumption
<1>6. \A i \in DOMAIN d : d[i].key[1] = Hash[d[i].text]
  BY <1>3 DEF IsCache
<1>7. \A i, j \in DOMAIN d : d[i].key = d[j].key => i = j
  BY <1>3, <1>4 DEF IsCache
<1>8. IsCache(d)
  BY <1>2, <1>5, <1>6, <1>7 DEF IsCache
<1>9. ASSUME NEW n, NEW t
      PROVE  Holds(d, n, t) <=> Holds(c, n, t) \/ (n = e.key /\ t = e.text)
  <2>1. ASSUME Holds(d, n, t) PROVE Holds(c, n, t) \/ (n = e.key /\ t = e.text)
    BY <1>3, <2>1 DEF Holds
  <2>2. ASSUME Holds(c, n, t) PROVE Holds(d, n, t)
    BY <1>4, <2>2 DEF Holds
  <2>3. Len(c) + 1 \in DOMAIN d
    BY <1>1, <1>2
  <2>4. ASSUME n = e.key /\ t = e.text PROVE Holds(d, n, t)
    BY <1>2, <2>3, <2>4 DEF Holds
  <2>5. QED
    BY <2>1, <2>2, <2>4
<1>10. QED
  BY <1>8, <1>9 DEF d

\* lruSet puts the entry in, and takes nothing out where there is room.
LEMMA lruSetFacts ==
    ASSUME IsCache(cache), NEW e \in Entry, e.key[1] = Hash[e.text]
    PROVE  /\ IsCache(lruSet(e)) /\ Holds(lruSet(e), e.key, e.text)
           /\ \A n, t : Holds(lruSet(e), n, t) => Holds(cache, n, t) \/ (n = e.key /\ t = e.text)
           /\ e.key \notin Keys /\ Len(cache) < CacheMaxSize =>
                  \A n, t : Holds(cache, n, t) => Holds(lruSet(e), n, t)
<1>1. Len(cache) \in Nat /\ CacheMaxSize \in Nat \ {0} /\ Len(cache) <= CacheMaxSize
  BY CacheAssumption DEF IsCache
<1>2. CASE e.key \in Keys
  <2> DEFINE i == CHOOSE k \in DOMAIN cache : cache[k].key = e.key
  <2>1. i \in DOMAIN cache /\ cache[i].key = e.key
    BY <1>2 DEF Keys
  <2> HIDE DEF i
  <2>2. /\ IsCache(RemoveAt(cache, i)) /\ Len(RemoveAt(cache, i)) < CacheMaxSize
        /\ \A n, t : Holds(RemoveAt(cache, i), n, t) => Holds(cache, n, t) /\ n # e.key
    BY <1>1, <2>1, RemovedFacts
  <2>3. lruSet(e) = Append(RemoveAt(cache, i), e)
    BY <1>2 DEF lruSet, i
  <2>4. QED
    BY <1>2, <2>2, <2>3, AppendFacts
<1>3. CASE e.key \notin Keys /\ Len(cache) < CacheMaxSize
  <2>1. lruSet(e) = Append(cache, e)
    BY <1>1, <1>3 DEF lruSet
  <2>2. \A t : ~Holds(cache, e.key, t)
    BY <1>3 DEF Keys, Holds
  <2>3. QED
    BY <1>3, <2>1, <2>2, AppendFacts
<1>4. CASE e.key \notin Keys /\ ~(Len(cache) < CacheMaxSize)
  <2>1. cache # <<>>
    BY <1>1, <1>4
  <2>2. /\ IsCache(Tail(cache)) /\ Len(Tail(cache)) < CacheMaxSize
        /\ \A n, t : Holds(Tail(cache), n, t) => Holds(cache, n, t)
    BY <1>1, <2>1, TailFacts
  <2>3. lruSet(e) = Append(Tail(cache), e)
    BY <1>1, <1>4 DEF lruSet
  <2>4. \A t : ~Holds(cache, e.key, t)
    BY <1>4 DEF Keys, Holds
  <2>5. \A t : ~Holds(Tail(cache), e.key, t)
    BY <2>2, <2>4
  <2>6. /\ IsCache(Append(Tail(cache), e))
        /\ \A n, t : Holds(Append(Tail(cache), e), n, t)
                        <=> Holds(Tail(cache), n, t) \/ (n = e.key /\ t = e.text)
    BY <2>2, <2>5, AppendFacts
  <2>7. QED
    BY <1>4, <2>2, <2>3, <2>6
<1>5. QED
  BY <1>2, <1>3, <1>4

LEMMA KeysHeld ==
    /\ \A n : n \in Keys <=> \E t : Holds(cache, n, t)
    /\ (\A n : n \in Keys <=> \E t : Holds(cache, n, t))'
BY DEF Keys, Holds

LEMMA HeldTypes ==
    ASSUME NEW c, IsCache(c)
    PROVE  /\ \A n, t : Holds(c, n, t) => n \in Name /\ t \in Sql /\ n[1] = Hash[t]
           /\ \A n, s, t : Holds(c, n, s) /\ Holds(c, n, t) => s = t
<1>1. \A i \in DOMAIN c : c[i].key \in Name /\ c[i].text \in Sql /\ c[i].key[1] = Hash[c[i].text]
  <2>1. \A i \in DOMAIN c : c[i] \in Entry
    BY DEF IsCache
  <2>2. QED
    BY <2>1 DEF IsCache, Entry
<1>2. QED
  BY <1>1 DEF IsCache, Holds

\* What the steps do to the cache.
LEMMA LookupCache ==
    ASSUME CacheInv, NEW t \in Sql, Lookup(t)
    PROVE  /\ IsCache(cache') /\ phase = "none" /\ text' = t
           /\ \A n, s : Holds(cache', n, s) <=> Holds(cache, n, s)
           /\ \/ phase' = "executing" /\ Holds(cache', cacheKey', t)
              \/ phase' = "preparing" /\ ~Holds(cache, cacheKey', t)
                 /\ Pool!PrepareStore(cacheKey', t)
<1>1. cache' = Touched(t) /\ phase = "none" /\ text' = t
  BY DEF Lookup
<1>2. IsCache(cache') /\ \A n, s : Holds(cache', n, s) <=> Holds(cache, n, s)
  BY <1>1, TouchedFacts DEF CacheInv
<1>3. (\E e \in ToSet(cache) : e.key = cacheKey' /\ Matches(e, t)) <=> Holds(cache, cacheKey', t)
  BY DEF ToSet, Matches, Holds
<1>4. QED
  BY <1>1, <1>2, <1>3 DEF Lookup

LEMMA ExecuteCache ==
    ASSUME CacheInv, QueryTypeOK, CacheAndExecute
    PROVE  /\ IsCache(cache') /\ Holds(cache', cacheKey, text)
           /\ phase = "preparing" /\ phase' = "executing" /\ UNCHANGED <<text, cacheKey>>
           /\ \A n, t : Holds(cache', n, t) => Holds(cache, n, t) \/ (n = cacheKey /\ t = text)
           /\ cacheKey \notin Keys /\ Len(cache) < CacheMaxSize =>
                  \A n, t : Holds(cache, n, t) => Holds(cache', n, t)
<1> DEFINE e == [key |-> cacheKey, text |-> text]
<1>1. cache' = lruSet(e) /\ phase = "preparing" /\ phase' = "executing" /\ UNCHANGED <<text, cacheKey>>
  BY DEF CacheAndExecute
<1>2. e \in Entry /\ e.key = cacheKey /\ e.text = text /\ e.key[1] = Hash[e.text]
  BY <1>1 DEF QueryTypeOK, Entry
<1> HIDE DEF e
<1>3. QED
  BY <1>1, <1>2, lruSetFacts DEF CacheInv

LEMMA OtherCache ==
    ASSUME QueryReturns \/ Between \/ Within \/ UNCHANGED vars
    PROVE  /\ UNCHANGED cache
           /\ UNCHANGED queryVars \/ (phase = "executing" /\ phase' = "none")
BY DEF QueryReturns, Between, Within, vars

LEMMA NextKeepsCache == ASSUME CacheInv, QueryTypeOK, [Next]_vars PROVE CacheInv'
<1>1. CASE \E t \in Sql : Lookup(t)
  BY <1>1, LookupCache DEF CacheInv
<1>2. CASE CacheAndExecute
  BY <1>2, ExecuteCache DEF CacheInv
<1>3. CASE QueryReturns \/ Between \/ Within \/ UNCHANGED vars
  BY <1>3, OtherCache DEF CacheInv, queryVars
<1>4. QED
  BY <1>1, <1>2, <1>3 DEF Next

-------------------------------------------------------------------------------
(* Texts with hashes of their own.  *)

LEMMA FirstProbe ==
    ASSUME Apart, CacheInv, NEW t \in Sql
    PROVE  Probe(t) = 0
<1>1. CacheMaxSize \in Nat \ {0} /\ 0 \in 0..(CacheMaxSize - 1)
  BY CacheAssumption
<1>2. Ends(t, 0)
  <2> SUFFICES ASSUME NEW i \in DOMAIN cache, cache[i].key = <<hashQuery(t), 0>>
               PROVE  Matches(cache[i], t)
    BY DEF Ends
  <2>1. Holds(cache, <<Hash[t], 0>>, cache[i].text)
    BY DEF Holds, hashQuery
  <2>2. cache[i].text \in Sql /\ Hash[t] = Hash[cache[i].text]
    BY <2>1, HeldTypes DEF CacheInv
  <2>3. QED
    BY <2>2 DEF Apart, Matches
<1>3. Probe(t) \in 0..(CacheMaxSize - 1) /\ \A p \in 0..(Probe(t) - 1) : ~Ends(t, p)
  BY <1>1, <1>2, ProbeIsProbe
<1>4. QED
  BY <1>1, <1>2, <1>3

LEMMA NextKeepsFirst ==
    ASSUME Apart, CacheInv, QueryTypeOK, FirstProbes, NamesKept, [Next]_vars
    PROVE  FirstProbes'
<1>1. QueryTypeOK'
  BY KeyKept
<1>2. (\A n \in Keys : n[2] = 0)' /\ (phase # "none" => cacheKey[2] = 0)'
  <2>1. ASSUME NEW t \in Sql, Lookup(t)
        PROVE  (\A n \in Keys : n[2] = 0)' /\ cacheKey'[2] = 0
    <3>1. cacheKey' = <<hashQuery(t), 0>>
      BY <2>1, FirstProbe DEF Lookup
    <3>2. Keys' = Keys
      BY <2>1, LookupCache, KeysHeld
    <3>3. QED
      BY <3>1, <3>2 DEF FirstProbes
  <2>2. CASE CacheAndExecute
    <3>1. \A n \in Keys' : n \in Keys \/ n = cacheKey
      BY <2>2, ExecuteCache, KeysHeld
    <3>2. phase # "none" /\ cacheKey' = cacheKey
      BY <2>2, ExecuteCache
    <3>3. QED
      BY <3>1, <3>2 DEF FirstProbes
  <2>3. CASE QueryReturns \/ Between \/ Within \/ UNCHANGED vars
    BY <2>3, OtherCache DEF FirstProbes, Keys, queryVars
  <2>4. QED
    BY <2>1, <2>2, <2>3 DEF Next
<1>3. ASSUME NEW n \in Name, NEW t \in Sql, Stands(n, t)'
      PROVE  n[2] = 0
  BY <1>2, <1>3 DEF NamesKept, Current, FirstProbes
<1>4. QED
  BY <1>2, <1>3 DEF FirstProbes

-------------------------------------------------------------------------------
(* A cache with room for every text.  *)

\* What the cache holds of a text under a name it holds at a place of its own.
OneName == \A m, n \in Name, t \in Sql : Holds(cache, m, t) /\ Holds(cache, n, t) => m = n

\* A text the cache does not hold leaves it a free place.
LEMMA RoomLeft ==
    ASSUME IsCache(cache), Roomy, OneName, NEW t \in Sql, \A n : ~Holds(cache, n, t)
    PROVE  Len(cache) < CacheMaxSize
<1> DEFINE D == DOMAIN cache
           textOf == [i \in D |-> cache[i].text]
           others == Sql \ {t}
<1>1. D = 1..Len(cache) /\ Len(cache) \in Nat /\ IsFiniteSet(D) /\ Cardinality(D) = Len(cache)
  BY CacheDomain
<1>2. \A i \in D : Holds(cache, cache[i].key, cache[i].text)
  BY DEF Holds
<1>3. \A i \in D : cache[i].key \in Name /\ cache[i].text \in Sql /\ cache[i].text # t
  BY <1>2, HeldTypes
<1>4. textOf \in [D -> others] /\ \A i \in D : textOf[i] = cache[i].text
  BY <1>3
<1> HIDE DEF textOf, D
<1>5. \A i, j \in D : textOf[i] = textOf[j] => i = j
  <2> SUFFICES ASSUME NEW i \in D, NEW j \in D, textOf[i] = textOf[j] PROVE i = j
    OBVIOUS
  <2>1. cache[i].key = cache[j].key
    BY <1>2, <1>3, <1>4 DEF OneName
  <2>2. QED
    BY <2>1 DEF IsCache, D
<1>6. textOf \in Injection(D, others)
  BY <1>4, <1>5 DEF Injection, IsInjective
<1>7. IsFiniteSet(others) /\ Cardinality(others) = Cardinality(Sql) - 1 /\ Cardinality(Sql) \in Nat
  BY FS_RemoveElement, FS_CardinalityType DEF Roomy
<1> HIDE DEF others
<1>8. Cardinality(D) <= Cardinality(others)
  BY <1>1, <1>6, <1>7, FS_Injection
<1>9. CacheMaxSize \in Nat
  BY CacheAssumption
<1>10. QED
  BY <1>1, <1>7, <1>8, <1>9 DEF Roomy

\* A cache with a free place has a free slot in every walk.
LEMMA WalkEnds ==
    ASSUME IsCache(cache), Len(cache) < CacheMaxSize, NEW t \in Sql
    PROVE  \E p \in 0..(CacheMaxSize - 1) : Ends(t, p)
<1> SUFFICES ASSUME \A p \in 0..(CacheMaxSize - 1) : ~Ends(t, p)
             PROVE  FALSE
  OBVIOUS
<1> DEFINE D == DOMAIN cache
           probes == 1..CacheMaxSize
           slot == [q \in probes |-> CHOOSE i \in D : cache[i].key = <<Hash[t], q - 1>>]
<1>1. D = 1..Len(cache) /\ Len(cache) \in Nat /\ IsFiniteSet(D) /\ Cardinality(D) = Len(cache)
  BY CacheDomain
<1>2. /\ CacheMaxSize \in Nat
      /\ IsFiniteSet(probes) /\ Cardinality(probes) = CacheMaxSize
  <2>1. CacheMaxSize \in Nat /\ 1 \in Int /\ CacheMaxSize \in Int
    BY CacheAssumption
  <2>2. QED
    BY <2>1, FS_Interval, CacheAssumption
<1>3. \A q \in probes : \E i \in D : cache[i].key = <<Hash[t], q - 1>>
  <2> SUFFICES ASSUME NEW q \in probes PROVE \E i \in D : cache[i].key = <<Hash[t], q - 1>>
    OBVIOUS
  <2>1. q - 1 \in 0..(CacheMaxSize - 1)
    BY <1>2
  <2>2. ~Ends(t, q - 1)
    BY <2>1
  <2>3. QED
    BY <2>2 DEF Ends, hashQuery
<1>4. slot \in [probes -> D] /\ \A q \in probes : cache[slot[q]].key = <<Hash[t], q - 1>>
  BY <1>3
<1> HIDE DEF slot, D
<1>5. \A p, q \in probes : slot[p] = slot[q] => p = q
  <2> SUFFICES ASSUME NEW p \in probes, NEW q \in probes, slot[p] = slot[q] PROVE p = q
    OBVIOUS
  <2>1. <<Hash[t], p - 1>> = <<Hash[t], q - 1>>
    BY <1>4
  <2>2. p - 1 = q - 1 /\ p \in Int /\ q \in Int
    BY <1>2, <2>1
  <2>3. QED
    BY <2>2
<1>6. slot \in Injection(probes, D)
  BY <1>4, <1>5 DEF Injection, IsInjective
<1> HIDE DEF probes
<1>7. CacheMaxSize <= Len(cache)
  BY <1>1, <1>2, <1>6, FS_Injection
<1>8. QED
  BY <1>1, <1>2, <1>7

\* A lookup that does not find its text gives it a free key that leaves no gap:
\* the text is under no other name.
LEMMA LookupMisses ==
    ASSUME CacheInv, Roomy, NoneEvicted, NEW t \in Sql, Lookup(t), phase' = "preparing"
    PROVE  /\ \A n : ~Holds(cache, n, t)
           /\ cacheKey' \notin Keys /\ Chained(cacheKey')
<1> DEFINE k == Probe(t)
<1>1. CacheMaxSize \in Nat \ {0} /\ IsCache(cache)
  BY CacheAssumption DEF CacheInv
<1>2. cacheKey' = <<Hash[t], k>> /\ k \in 0..(CacheMaxSize - 1)
  BY ProbeIsProbe DEF Lookup, hashQuery
<1>3. ~Holds(cache, cacheKey', t)
  BY LookupCache
<1>4. \A p \in 0..(CacheMaxSize - 1) :
          Ends(t, p) <=> \A s : Holds(cache, <<Hash[t], p>>, s) => s = t
  BY DEF Ends, Holds, Matches, hashQuery
<1> HIDE DEF k
<1>5. ASSUME NEW n, Holds(cache, n, t)
      PROVE  FALSE
  <2>1. n \in Name /\ n[1] = Hash[t] /\ n \in Keys
    BY <1>1, <1>5, HeldTypes, KeysHeld
  <2>2. n = <<Hash[t], n[2]>> /\ n[2] \in 0..(CacheMaxSize - 1)
    BY <2>1 DEF Name
  <2>3. Ends(t, n[2])
    BY <1>1, <1>4, <1>5, <2>2, HeldTypes
  <2>4. Ends(t, k) /\ \A p \in 0..(k - 1) : ~Ends(t, p)
    BY <2>2, <2>3, ProbeIsProbe DEF k
  <2>5. k <= n[2]
    BY <1>2, <2>2, <2>3, <2>4
  <2>6. k # n[2]
    BY <1>2, <1>3, <1>5, <2>2
  <2>7. k \in 0..(n[2] - 1)
    BY <1>2, <2>2, <2>5, <2>6
  <2>8. <<n[1], k>> \in Keys
    BY <2>1, <2>7 DEF NoneEvicted, Chained
  <2>9. PICK s : Holds(cache, <<Hash[t], k>>, s)
    BY <2>1, <2>8, KeysHeld
  <2>10. s = t
    BY <1>2, <1>4, <2>4, <2>9
  <2>11. QED
    BY <1>2, <1>3, <2>9, <2>10
<1>6. \A n : ~Holds(cache, n, t)
  BY <1>5
<1>7. Ends(t, k) /\ \A p \in 0..(k - 1) : ~Ends(t, p)
  <2>1. OneName
    BY DEF NoneEvicted, OneName
  <2>2. \E p \in 0..(CacheMaxSize - 1) : Ends(t, p)
    BY <1>1, <1>6, <2>1, RoomLeft, WalkEnds
  <2>3. QED
    BY <2>2, ProbeIsProbe DEF k
<1>8. cacheKey' \notin Keys
  <2>1. \A s : Holds(cache, cacheKey', s) => s = t
    BY <1>2, <1>4, <1>7
  <2>2. QED
    BY <1>3, <2>1, KeysHeld
<1>9. Chained(cacheKey')
  <2> SUFFICES ASSUME NEW p \in 0..(cacheKey'[2] - 1)
               PROVE  <<cacheKey'[1], p>> \in Keys
    BY DEF Chained
  <2>1. p \in 0..(k - 1) /\ p \in 0..(CacheMaxSize - 1) /\ cacheKey'[1] = Hash[t]
    BY <1>1, <1>2
  <2>2. ~Ends(t, p)
    BY <1>7, <2>1
  <2>3. \E s : Holds(cache, <<Hash[t], p>>, s)
    BY <1>4, <2>1, <2>2
  <2>4. QED
    BY <2>1, <2>3, KeysHeld
<1>10. QED
  BY <1>6, <1>8, <1>9

\* What a step puts in the cache it puts there to stay.
LEMMA NextKeepsNoneEvicted ==
    ASSUME CacheInv, QueryTypeOK, Roomy, NoneEvicted, NamesKept, [Next]_vars
    PROVE  NoneEvicted'
<1>1. CASE \E t \in Sql : Lookup(t)
  <2>1. PICK t \in Sql : Lookup(t)
    BY <1>1
  <2>2. /\ \A n, s : Holds(cache', n, s) <=> Holds(cache, n, s)
        /\ phase = "none" /\ text' = t /\ IsCache(cache')
    BY <2>1, LookupCache
  <2>3. Keys' = Keys
    BY <2>2, KeysHeld
  <2>4. \A m, n \in Name, s \in Sql : Holds(cache', m, s) /\ Holds(cache', n, s) => m = n
    BY <2>2 DEF NoneEvicted
  <2>5. (\A n \in Keys : Chained(n))'
    BY <2>3 DEF NoneEvicted, Chained
  <2>6. ASSUME phase' = "preparing"
        PROVE  (cacheKey \notin Keys /\ Chained(cacheKey) /\ \A n \in Name : ~Holds(cache, n, text))'
    <3>1. (\A n : ~Holds(cache, n, t)) /\ cacheKey' \notin Keys /\ Chained(cacheKey')
      BY <2>1, <2>6, LookupMisses
    <3>2. QED
      BY <2>2, <2>3, <3>1 DEF Chained
  <2>7. ASSUME NEW n \in Name, NEW s \in Sql, Stands(n, s)'
        PROVE  Holds(cache', n, s) \/ Current(n, s)'
    BY <2>2, <2>7 DEF NamesKept, NoneEvicted, Current
  <2>8. QED
    BY <2>4, <2>5, <2>6, <2>7 DEF NoneEvicted
<1>2. CASE CacheAndExecute
  <2>1. /\ phase = "preparing" /\ phase' = "executing" /\ UNCHANGED <<text, cacheKey>>
        /\ \A n, t : Holds(cache', n, t) => Holds(cache, n, t) \/ (n = cacheKey /\ t = text)
        /\ Holds(cache', cacheKey, text)
    BY <1>2, ExecuteCache
  <2>2. /\ cacheKey \notin Keys /\ Chained(cacheKey) /\ text \in Sql /\ IsCache(cache)
        /\ \A n \in Name : ~Holds(cache, n, text)
    BY <2>1 DEF NoneEvicted, QueryTypeOK, CacheInv
  <2>3. Len(cache) < CacheMaxSize
    <3>1. OneName
      BY DEF NoneEvicted, OneName
    <3>2. \A n : ~Holds(cache, n, text)
      BY <2>2, HeldTypes
    <3>3. QED
      BY <2>2, <3>1, <3>2, RoomLeft
  <2>4. \A n, t : Holds(cache', n, t) <=> Holds(cache, n, t) \/ (n = cacheKey /\ t = text)
    BY <1>2, <2>1, <2>2, <2>3, ExecuteCache
  <2>5. \A n : n \in Keys' <=> n \in Keys \/ n = cacheKey
    BY <2>4, KeysHeld
  <2>6. \A m, n \in Name, t \in Sql : Holds(cache', m, t) /\ Holds(cache', n, t) => m = n
    BY <2>2, <2>4 DEF NoneEvicted
  <2>7. (\A n \in Keys : Chained(n))'
    BY <2>2, <2>5 DEF NoneEvicted, Chained
  <2>8. ASSUME NEW n \in Name, NEW t \in Sql, Stands(n, t)'
        PROVE  Holds(cache', n, t)
    <3>1. Stands(n, t) \/ Current(n, t)
      BY <2>1, <2>8 DEF NamesKept, Current
    <3>2. Holds(cache, n, t) \/ (n = cacheKey /\ t = text)
      BY <3>1 DEF NoneEvicted, Current
    <3>3. QED
      BY <2>4, <3>2
  <2>9. QED
    BY <2>1, <2>6, <2>7, <2>8 DEF NoneEvicted
<1>3. CASE QueryReturns \/ Between \/ Within \/ UNCHANGED vars
  <2>1. /\ UNCHANGED cache
        /\ UNCHANGED <<phase, text, cacheKey>> \/ (phase = "executing" /\ phase' = "none")
    BY <1>3, OtherCache DEF queryVars
  <2>2. ASSUME NEW n \in Name, NEW t \in Sql, Stands(n, t)'
        PROVE  Holds(cache', n, t) \/ Current(n, t)'
    <3>1. Stands(n, t) \/ Current(n, t)'
      BY <2>2 DEF NamesKept
    <3>2. Stands(n, t) => Holds(cache, n, t) \/ Current(n, t)
      BY DEF NoneEvicted
    <3>3. Current(n, t) => Holds(cache, n, t) \/ Current(n, t)'
      BY <2>1 DEF Current, CacheInv
    <3>4. QED
      BY <2>1, <3>1, <3>2, <3>3
  <2>3. Keys' = Keys /\ \A n, t : Holds(cache', n, t) <=> Holds(cache, n, t)
    BY <2>1 DEF Keys, Holds
  <2>4. (\A n \in Keys : Chained(n))'
    BY <2>3 DEF NoneEvicted, Chained
  <2>5. \A m, n \in Name, t \in Sql : Holds(cache', m, t) /\ Holds(cache', n, t) => m = n
    BY <2>3 DEF NoneEvicted
  <2>6. (phase = "preparing" =>
            cacheKey \notin Keys /\ Chained(cacheKey) /\ \A n \in Name : ~Holds(cache, n, text))'
    <3>1. ASSUME phase' = "preparing" PROVE UNCHANGED <<phase, text, cacheKey>>
      BY <2>1, <3>1
    <3>2. QED
      BY <2>3, <3>1 DEF NoneEvicted, Chained
  <2>7. QED
    BY <2>2, <2>4, <2>5, <2>6 DEF NoneEvicted
<1>4. QED
  BY <1>1, <1>2, <1>3 DEF Next

-------------------------------------------------------------------------------
(* A map of names with room for every text.  *)

\* A text recorded under no name leaves the pool's map a free place, when the
\* names it has stand for different texts.
LEMMA RoomInMap ==
    ASSUME PoolTypes, P!StatementIndex, RoomyMap, NEW t \in Sql,
           \A m \in Name : statement_sql[m] # t,
           \A m, n \in Name : statement_sql[m] # None /\ statement_sql[m] = statement_sql[n] => m = n
    PROVE  Len(statement_sql_order) < StatementCacheSize
<1> DEFINE q == statement_sql_order
           D == DOMAIN q
           textOf == [i \in D |-> statement_sql[q[i]]]
           others == Sql \ {t}
<1>1. q \in Seq(Name) /\ D = 1..Len(q) /\ Len(q) \in Nat
  BY DEF PoolTypes
<1> DEFINE n == Len(q)
<1>2. n \in Nat /\ 1 \in Int /\ n \in Int
  BY <1>1
<1> HIDE DEF n
<1>3. IsFiniteSet(1..n) /\ Cardinality(1..n) = IF 1 > n THEN 0 ELSE n - 1 + 1
  BY <1>2, FS_Interval, Zenon
<1>4. IsFiniteSet(D) /\ Cardinality(D) = n
  <2>1. Cardinality(1..n) = n
    BY <1>2, <1>3
  <2>2. QED
    BY <1>1, <1>3, <2>1 DEF n
<1>5. /\ \A i \in D : q[i] \in Name /\ statement_sql[q[i]] # None
      /\ \A i, j \in D : q[i] = q[j] => i = j
  BY <1>1 DEF P!StatementIndex, P!Range, P!IsInjective
<1>6. \A i \in D : statement_sql[q[i]] \in others
  BY <1>5 DEF PoolTypes
<1>7. textOf \in [D -> others] /\ \A i \in D : textOf[i] = statement_sql[q[i]]
  BY <1>6
<1> HIDE DEF textOf, D, q
<1>8. \A i, j \in D : textOf[i] = textOf[j] => i = j
  BY <1>5, <1>7
<1>9. textOf \in Injection(D, others)
  BY <1>7, <1>8 DEF Injection, IsInjective
<1>10. IsFiniteSet(others) /\ Cardinality(others) = Cardinality(Sql) - 1 /\ Cardinality(Sql) \in Nat
  BY FS_RemoveElement, FS_CardinalityType DEF RoomyMap
<1> HIDE DEF others
<1>11. Cardinality(D) <= Cardinality(others)
  BY <1>4, <1>9, <1>10, FS_Injection
<1>12. StatementCacheSize \in Nat
  BY PoolAssumption DEF Pool!PoolAssumption
<1>13. QED
  BY <1>2, <1>4, <1>10, <1>11, <1>12 DEF RoomyMap, n, q

LEMMA NextKeepsRecorded ==
    ASSUME PoolTypes, P!StatementIndex, CacheInv, QueryInv, RoomyMap,
           (Apart /\ FirstProbes /\ FirstProbes') \/ (Roomy /\ NoneEvicted),
           Recorded, [Next]_vars
    PROVE  Recorded'
<1>1. CASE \E t \in Sql : Lookup(t)
  <2>1. PICK t \in Sql : Lookup(t)
    BY <1>1
  <2>2. /\ \A n, s : Holds(cache', n, s) <=> Holds(cache, n, s)
        /\ phase = "none"
        /\ \/ phase' = "executing" /\ Holds(cache', cacheKey', t)
           \/ phase' = "preparing" /\ Pool!PrepareStore(cacheKey', t)
    BY <2>1, LookupCache
  <2>3. Keys' = Keys /\ \A n \in Keys : n \in Name
    BY <2>2, KeysHeld, HeldTypes DEF CacheInv
  <2>4. CASE phase' = "executing"
    <3>1. UNCHANGED statement_sql
      BY <2>1, <2>4 DEF Lookup, Pool!StartExecutePrepared, Pool!statements
    <3>2. cacheKey' \in Keys
      BY <2>2, <2>3, <2>4, KeysHeld
    <3>3. QED
      BY <2>3, <3>1, <3>2 DEF Recorded
  <2>5. CASE phase' = "preparing" /\ Pool!PrepareStore(cacheKey', t)
    <3>1. cacheKey' \in Name /\ cacheKey'[1] = Hash[t] /\ t # None
      BY <2>1, LookupKey DEF PoolTypes
    <3>2. \A m \in Name, s \in Sql : statement_sql[m] = s => Stands(m, s) /\ m[1] = Hash[s]
      BY DEF QueryInv, NamesCarryHash, Stands
    <3>3. ASSUME statement_sql[cacheKey'] = None
          PROVE  Len(statement_sql_order) < StatementCacheSize
      <4>1. CASE Apart /\ FirstProbes /\ FirstProbes'
        <5>1. \A m, n \in Name : m[1] = n[1] /\ m[2] = 0 /\ n[2] = 0 => m = n
          BY DEF Name
        <5>2. cacheKey'[2] = 0
          BY <2>5, <4>1 DEF FirstProbes
        <5>3. \A m \in Name, s \in Sql : statement_sql[m] = s => m[2] = 0
          BY <3>2, <4>1 DEF FirstProbes
        <5>4. \A m \in Name : statement_sql[m] # t
          BY <3>1, <3>2, <3>3, <5>1, <5>2, <5>3
        <5>5. \A m, n \in Name : statement_sql[m] # None /\ statement_sql[m] = statement_sql[n] => m = n
          BY <3>2, <5>1, <5>3 DEF PoolTypes
        <5>6. QED
          BY <5>4, <5>5, RoomInMap
      <4>2. CASE Roomy /\ NoneEvicted
        <5>1. \A m \in Name, s \in Sql : statement_sql[m] = s => Holds(cache, m, s)
          BY <2>2, <3>2, <4>2 DEF NoneEvicted, Current
        <5>2. \A n : ~Holds(cache, n, t)
          BY <2>1, <2>5, <4>2, LookupMisses
        <5>3. \A m \in Name : statement_sql[m] # t
          BY <5>1, <5>2
        <5>4. \A m, n \in Name : statement_sql[m] # None /\ statement_sql[m] = statement_sql[n] => m = n
          BY <4>2, <5>1 DEF NoneEvicted, PoolTypes
        <5>5. QED
          BY <5>3, <5>4, RoomInMap
      <4>3. QED
        BY <4>1, <4>2
    <3>4. \A m \in Name : statement_sql'[m] = IF m = cacheKey' THEN t ELSE statement_sql[m]
      <4>1. StatementCacheSize \in Nat /\ Len(statement_sql_order) \in Nat
        BY PoolAssumption DEF Pool!PoolAssumption, PoolTypes
      <4>2. ~(statement_sql[cacheKey'] = None /\ Len(statement_sql_order) >= StatementCacheSize)
        BY <3>3, <4>1
      <4>3. QED
        BY <2>5, <4>2 DEF Pool!PrepareStore
    <3>5. QED
      BY <2>3, <3>1, <3>4 DEF Recorded
  <2>6. QED
    BY <2>2, <2>4, <2>5
<1>2. CASE ~\E t \in Sql : Lookup(t)
  <2>1. UNCHANGED statement_sql
    BY <1>2, NextKeepsNames DEF QueryInv
  <2>2. CASE CacheAndExecute
    <3>1. phase # "none" /\ cacheKey' = cacheKey /\ \A n \in Keys' : n \in Keys \/ n = cacheKey
      BY <2>2, ExecuteCache, KeysHeld DEF QueryInv
    <3>2. QED
      BY <2>1, <3>1 DEF Recorded
  <2>3. CASE QueryReturns \/ Between \/ Within \/ UNCHANGED vars
    BY <2>1, <2>3, OtherCache DEF Recorded, Keys, queryVars
  <2>4. QED
    BY <1>2, <2>2, <2>3 DEF Next
<1>3. QED
  BY <1>1, <1>2

-------------------------------------------------------------------------------
(* The theorems.  *)

\* The invariant holds in every reachable state.
THEOREM QueryInvariance == Spec => []QueryInv
<1>1. Init => QueryInv
  BY PoolAssumption DEF Init, Pool!Init, Pool!NoStatements, Pool!Thread, Pool!PoolAssumption,
         QueryInv, QueryTypeOK, NamesCarryHash, CallIsQuerys, Stands
<1>2. P!IInv /\ QueryInv /\ [Next]_vars => QueryInv'
  BY PoolTypesHold, NextKeepsQuery
<1>3. QED
  BY <1>1, <1>2, PoolTheorems, PTL DEF Spec

\* Whatever the caches evict and the connections lose, what a query runs by name
\* is a text with the hash of its own: only a collision can make it another.
THEOREM RunsOwnHash ==
    Spec => [](phase = "executing" /\ pc[Main] = "prepared" /\ net[held[Main]] = "ok" =>
                  /\ session[held[Main]][name[Main]] \in Sql
                  /\ Hash[session[held[Main]][name[Main]]] = Hash[text])
<1>1. P!IInv /\ P!ReadyToExecute /\ QueryInv =>
         (phase = "executing" /\ pc[Main] = "prepared" /\ net[held[Main]] = "ok" =>
             /\ session[held[Main]][name[Main]] \in Sql
             /\ Hash[session[held[Main]][name[Main]]] = Hash[text])
  <2>1. SUFFICES ASSUME P!IInv, P!ReadyToExecute, QueryInv,
                        phase = "executing", pc[Main] = "prepared", net[held[Main]] = "ok"
                 PROVE  /\ session[held[Main]][name[Main]] \in Sql
                        /\ Hash[session[held[Main]][name[Main]]] = Hash[text]
    OBVIOUS
  <2>2. PoolTypes
    BY <2>1, PoolTypesHold
  <2>3. held[Main] \in Addr /\ name[Main] \in Name /\ name[Main] # None
    BY <2>1, <2>2 DEF PoolTypes, Pool!HoldingSteps, Pool!NamingSteps
  <2>4. session[held[Main]][name[Main]] # None
    BY <2>1 DEF P!ReadyToExecute, P!Thread
  <2>5. session[held[Main]][name[Main]] \in Sql
    BY <2>2, <2>3, <2>4 DEF PoolTypes
  <2>6. Hash[session[held[Main]][name[Main]]] = name[Main][1]
    BY <2>1, <2>3, <2>5 DEF QueryInv, NamesCarryHash, Stands
  <2>7. name[Main] = cacheKey /\ cacheKey[1] = Hash[text]
    BY <2>1, <2>3 DEF QueryInv, CallIsQuerys, QueryTypeOK
  <2>8. QED
    BY <2>5, <2>6, <2>7
<1>2. QED
  BY <1>1, PoolTheorems, QueryInvariance, PTL

\* The cache never outgrows its cap, and no name is in it twice; a query runs
\* under the name its text is cached by.
THEOREM CacheInvariance == Spec => []CacheInv
<1>1. Init => CacheInv
  BY CacheAssumption DEF Init, CacheInv, IsCache
<1>2. QueryInv /\ CacheInv /\ [Next]_vars => CacheInv'
  BY NextKeepsCache DEF QueryInv
<1>3. QED
  BY <1>1, <1>2, QueryInvariance, PTL DEF Spec

LEMMA NothingStands == Init => \A n \in Name, t \in Sql : ~Stands(n, t)
BY PoolAssumption DEF Init, Pool!Init, Pool!NoStatements, Pool!Thread, Pool!PoolAssumption, Stands

LEMMA FirstProbesHold == Apart => (Spec => []FirstProbes)
<1> SUFFICES ASSUME Apart PROVE Spec => []FirstProbes
  OBVIOUS
<1>1. Init => FirstProbes
  BY NothingStands DEF Init, FirstProbes, Keys
<1>2. P!IInv /\ QueryInv /\ CacheInv /\ FirstProbes /\ [Next]_vars => FirstProbes'
  BY PoolTypesHold, NextKeepsNames, NextKeepsFirst DEF QueryInv
<1>3. QED
  BY <1>1, <1>2, PoolTheorems, QueryInvariance, CacheInvariance, PTL DEF Spec

LEMMA NoneIsEvicted == Roomy => (Spec => []NoneEvicted)
<1> SUFFICES ASSUME Roomy PROVE Spec => []NoneEvicted
  OBVIOUS
<1>1. Init => NoneEvicted
  BY NothingStands DEF Init, NoneEvicted, Keys, Holds
<1>2. P!IInv /\ QueryInv /\ CacheInv /\ NoneEvicted /\ [Next]_vars => NoneEvicted'
  BY PoolTypesHold, NextKeepsNames, NextKeepsNoneEvicted DEF QueryInv
<1>3. QED
  BY <1>1, <1>2, PoolTheorems, QueryInvariance, CacheInvariance, PTL DEF Spec

\* Where no two texts have one hash, or the cache has room for every text, every
\* query runs its own text: however much the pool's map evicts and the
\* connections lose.
THEOREM QueriesRunOwnText == Apart \/ Roomy => (Spec => []RunsOwnText)
<1> DEFINE Runs == phase = "executing" /\ pc[Main] = "prepared" /\ net[held[Main]] = "ok"
           ran  == session[held[Main]][name[Main]]
<1>1. CASE Apart
  <2>1. QueryInv /\ (Runs => ran \in Sql /\ Hash[ran] = Hash[text]) => RunsOwnText
    BY <1>1 DEF QueryInv, QueryTypeOK, RunsOwnText, Apart
  <2>2. QED
    BY <2>1, RunsOwnHash, QueryInvariance, PTL
<1>2. CASE Roomy
  <2>1. P!IInv /\ QueryInv /\ CacheInv /\ NoneEvicted
           /\ (Runs => ran \in Sql /\ Hash[ran] = Hash[text]) => RunsOwnText
    <3> SUFFICES ASSUME P!IInv, QueryInv, CacheInv, NoneEvicted, Runs, ran \in Sql
                 PROVE  ran = text
      BY DEF RunsOwnText
    <3>1. held[Main] \in Addr /\ name[Main] \in Name
      BY PoolTypesHold DEF PoolTypes, Pool!HoldingSteps, Pool!NamingSteps
    <3>2. name[Main] = cacheKey
      BY <3>1, PoolTypesHold DEF PoolTypes, QueryInv, CallIsQuerys
    <3>3. Stands(cacheKey, ran)
      BY <3>1, <3>2 DEF Stands
    <3>4. Holds(cache, cacheKey, ran) \/ ran = text
      BY <3>1, <3>2, <3>3 DEF NoneEvicted, Current
    <3>5. Holds(cache, cacheKey, text) /\ IsCache(cache)
      BY DEF CacheInv
    <3>6. QED
      BY <3>4, <3>5, HeldTypes
  <2>2. QED
    BY <1>2, <2>1, RunsOwnHash, PoolTheorems, QueryInvariance, CacheInvariance, NoneIsEvicted, PTL
<1>3. QED
  BY <1>1, <1>2

\* There, a text is cached once, under one key.
THEOREM TextsCachedOnce == Apart \/ Roomy => (Spec => []CacheIsMap)
<1>1. ASSUME CacheInv, \A m, n \in Name, t \in Sql : Holds(cache, m, t) /\ Holds(cache, n, t) => m = n
      PROVE  CacheIsMap
  <2>1. IsCache(cache)
    BY <1>1 DEF CacheInv
  <2>2. ASSUME NEW i \in DOMAIN cache, NEW j \in DOMAIN cache, i # j
        PROVE  cache[i].key # cache[j].key /\ cache[i].text # cache[j].text
    <3>1. cache[i].key # cache[j].key
      BY <2>1, <2>2 DEF IsCache
    <3>2. Holds(cache, cache[i].key, cache[i].text) /\ Holds(cache, cache[j].key, cache[j].text)
      BY DEF Holds
    <3>3. QED
      BY <1>1, <2>1, <3>1, <3>2, HeldTypes
  <2>3. QED
    BY <2>1, <2>2 DEF IsCache, CacheIsMap
<1>2. CASE Apart
  <2>1. CacheInv /\ FirstProbes => CacheIsMap
    <3> SUFFICES ASSUME CacheInv, FirstProbes PROVE CacheIsMap
      OBVIOUS
    <3>1. \A n, t : Holds(cache, n, t) => n \in Name /\ n[1] = Hash[t] /\ n[2] = 0
      BY KeysHeld, HeldTypes DEF CacheInv, FirstProbes
    <3>2. \A m, n \in Name : m[1] = n[1] /\ m[2] = n[2] => m = n
      BY DEF Name
    <3>3. QED
      BY <1>1, <3>1, <3>2
  <2>2. QED
    BY <1>2, <2>1, CacheInvariance, FirstProbesHold, PTL
<1>3. CASE Roomy
  <2>1. CacheInv /\ NoneEvicted => CacheIsMap
    BY <1>1 DEF NoneEvicted
  <2>2. QED
    BY <1>3, <2>1, CacheInvariance, NoneIsEvicted, PTL
<1>4. QED
  BY <1>2, <1>3

\* Where the pool's map, too, has room for every text, a query that has to
\* prepare its statement again finds its text: the map keeps every name the
\* adapter has cached.
THEOREM TextsAreKnown == (Apart \/ Roomy) /\ RoomyMap => (Spec => []TextIsKnown)
<1> SUFFICES ASSUME Apart \/ Roomy, RoomyMap PROVE Spec => []TextIsKnown
  OBVIOUS
<1> DEFINE Inv == /\ P!IInv /\ P!StatementIndex /\ QueryInv /\ CacheInv
                  /\ (Apart /\ FirstProbes) \/ (Roomy /\ NoneEvicted)
<1>1. Spec => []Inv
  <2>1. CASE Apart
    <3>1. P!IInv /\ P!StatementIndex /\ QueryInv /\ CacheInv /\ FirstProbes => Inv
      BY <2>1
    <3>2. QED
      BY <2>1, <3>1, PoolTheorems, QueryInvariance, CacheInvariance, FirstProbesHold, PTL
  <2>2. CASE Roomy
    <3>1. P!IInv /\ P!StatementIndex /\ QueryInv /\ CacheInv /\ NoneEvicted => Inv
      BY <2>2
    <3>2. QED
      BY <2>2, <3>1, PoolTheorems, QueryInvariance, CacheInvariance, NoneIsEvicted, PTL
  <2>3. QED
    BY <2>1, <2>2
<1>2. Init => Recorded
  BY DEF Init, Recorded, Keys
<1>3. Inv /\ Inv' /\ Recorded /\ [Next]_vars => Recorded'
  BY PoolTypesHold, NextKeepsRecorded, NextKeepsFirst, NextKeepsNames DEF QueryInv
<1>4. Inv /\ Recorded => TextIsKnown
  BY PoolTypesHold DEF PoolTypes, Pool!NamingSteps, QueryInv, CallIsQuerys, Recorded, TextIsKnown
<1>5. QED
  BY <1>1, <1>2, <1>3, <1>4, PTL DEF Spec
===============================================================================
