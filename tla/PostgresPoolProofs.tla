-------------------------- MODULE PostgresPoolProofs --------------------------
(***************************************************************************)
(* Theorems about the native connection pool, for every number of jobs,    *)
(* addresses, statements and texts and every limit.  In this order: what a *)
(* critical section does; who owns a connection; that no slot is lost and  *)
(* the limits hold; what is prepared on a session; the refinement of       *)
(* ConnectionLending.                                                      *)
(***************************************************************************)
EXTENDS PostgresPool, SequenceTheorems, FiniteSetTheorems, WellFoundedInduction, TLAPS

(***************************************************************************)
(* What one critical section does to the connections and to the two lists. *)
(***************************************************************************)

\* The types of the variables that the critical sections change.
HeapTypeOK ==
    /\ token \in [Addr -> 0..MaxToken]
    /\ net \in [Addr -> {"ok", "lost", "bad"}]
    /\ prepared \in [Addr -> [Name -> Sql \cup {None}]]
    /\ session \in [Addr -> [Name -> Sql \cup {None}]]
    /\ nextToken \in 1..(MaxToken + 1)

ListsTypeOK ==
    /\ idle \in Seq(Addr)
    /\ active \in SUBSET Addr

-------------------------------------------------------------------------------
(* Lemmas about the deque.  *)

\* The connections that Acquire leaves in the deque after it popped k.
LEMMA SuffixElements ==
    ASSUME NEW S, NEW q \in Seq(S), NEW k \in 1..Len(q)
    PROVE  /\ SubSeq(q, k + 1, Len(q)) \in Seq(S)
           /\ Len(SubSeq(q, k + 1, Len(q))) = Len(q) - k
           /\ \A i \in 1..(Len(q) - k) : SubSeq(q, k + 1, Len(q))[i] = q[k + i]
<1> DEFINE r == SubSeq(q, k + 1, Len(q))
<1>1. /\ Len(q) \in Nat
      /\ \A i \in (k + 1)..Len(q) : q[i] \in S
  OBVIOUS
<1>2. /\ r \in Seq(S)
      /\ Len(r) = IF k + 1 <= Len(q) THEN Len(q) - (k + 1) + 1 ELSE 0
      /\ \A i \in 1..(Len(q) - (k + 1) + 1) : r[i] = q[(k + 1) + i - 1]
  BY <1>1, SubSeqProperties
<1> HIDE DEF r
<1>3. Len(r) = Len(q) - k
  BY <1>1, <1>2
<1>4. ASSUME NEW i \in 1..(Len(q) - k)
      PROVE  r[i] = q[k + i]
  <2>1. i \in 1..(Len(q) - (k + 1) + 1) /\ (k + 1) + i - 1 = k + i
    BY <1>1
  <2>2. r[i] = q[(k + 1) + i - 1]
    BY <1>2, <2>1
  <2>3. QED
    BY <2>1, <2>2
<1>5. QED
  BY <1>2, <1>3, <1>4 DEF r

\* What is popped leaves the deque, and what stays was not popped.
LEMMA SuffixOfDistinct ==
    ASSUME NEW S, NEW q \in Seq(S), IsInjective(q), NEW k \in 1..Len(q),
           NEW r \in Seq(S), Len(r) = Len(q) - k,
           \A i \in 1..(Len(q) - k) : r[i] = q[k + i],
           NEW popped,
           \A x : x \in popped <=> \E j \in 1..(k - 1) : x = q[j]
    PROVE  /\ IsInjective(r)
           /\ q[k] \in Range(q)
           /\ q[k] \notin popped
           /\ popped \subseteq Range(q)
           /\ Range(r) = Range(q) \ (popped \cup {q[k]})
<1>1. /\ Len(q) \in Nat
      /\ DOMAIN q = 1..Len(q)
      /\ DOMAIN r = 1..(Len(q) - k)
      /\ \A i, j \in 1..Len(q) : q[i] = q[j] => i = j
      /\ \A i \in 1..(Len(q) - k) : r[i] = q[k + i] /\ k + i \in 1..Len(q)
  <2>1. Len(q) \in Nat /\ DOMAIN q = 1..Len(q) /\ DOMAIN r = 1..(Len(q) - k)
    OBVIOUS
  <2>2. \A i \in 1..(Len(q) - k) : r[i] = q[k + i] /\ k + i \in 1..Len(q)
    BY <2>1
  <2>3. QED
    BY <2>1, <2>2 DEF IsInjective
<1>2. IsInjective(r)
  BY <1>1 DEF IsInjective
<1>3. q[k] \notin {q[j] : j \in 1..(k - 1)}
  BY <1>1
<1>4. ASSUME NEW i \in 1..(Len(q) - k)
      PROVE  r[i] \in Range(q) \ ({q[j] : j \in 1..(k - 1)} \cup {q[k]})
  <2>1. r[i] = q[k + i] /\ k + i \in 1..Len(q)
    BY <1>1
  <2>2. r[i] \in Range(q)
    BY <1>1, <2>1 DEF Range
  <2>3. \A j \in 1..k : j \in 1..Len(q) /\ j # k + i
    BY <1>1
  <2>4. \A j \in 1..k : q[j] # r[i]
    BY <1>1, <2>1, <2>3
  <2>5. QED
    BY <2>2, <2>4
<1>5. ASSUME NEW j \in 1..Len(q), q[j] \notin {q[m] : m \in 1..(k - 1)}, q[j] # q[k]
      PROVE  q[j] \in Range(r)
  <2>1. j > k
    BY <1>1, <1>5
  <2>2. j - k \in 1..(Len(q) - k) /\ k + (j - k) = j
    BY <1>1, <2>1
  <2>3. q[j] = r[j - k]
    BY <1>1, <2>2
  <2>4. QED
    BY <1>1, <2>2, <2>3 DEF Range
<1>6. Range(r) = Range(q) \ ({q[j] : j \in 1..(k - 1)} \cup {q[k]})
  <2> DEFINE rest == Range(q) \ ({q[j] : j \in 1..(k - 1)} \cup {q[k]})
  <2>1. ASSUME NEW x \in Range(r)
        PROVE  x \in rest
    <3>1. PICK i \in 1..(Len(q) - k) : x = r[i]
      BY <1>1 DEF Range
    <3>2. QED
      BY <1>4, <3>1
  <2>2. ASSUME NEW x \in rest
        PROVE  x \in Range(r)
    <3>1. PICK j \in 1..Len(q) : x = q[j]
      BY <1>1 DEF Range
    <3>2. QED
      BY <1>5, <3>1
  <2>3. QED
    BY <2>1, <2>2
<1>7. q[k] \in Range(q) /\ {q[j] : j \in 1..(k - 1)} \subseteq Range(q)
  <2>1. \A j \in 1..k : j \in DOMAIN q
    BY <1>1
  <2>2. \A j \in 1..k : q[j] \in Range(q)
    BY <2>1 DEF Range
  <2>3. k \in 1..k /\ \A j \in 1..(k - 1) : j \in 1..k
    OBVIOUS
  <2>4. QED
    BY <2>2, <2>3
<1>8. QED
  BY <1>2, <1>3, <1>6, <1>7

\* The deque to which Release appends a connection that was not in it.
LEMMA AppendOfDistinct ==
    ASSUME NEW S, NEW q \in Seq(S), IsInjective(q), NEW a \in S, a \notin Range(q)
    PROVE  /\ Append(q, a) \in Seq(S)
           /\ IsInjective(Append(q, a))
           /\ Range(Append(q, a)) = Range(q) \cup {a}
<1>1. /\ Append(q, a) \in Seq(S)
      /\ DOMAIN Append(q, a) = 1..(Len(q) + 1)
      /\ DOMAIN q = 1..Len(q)
      /\ Len(q) \in Nat
      /\ \A i \in 1..Len(q) : Append(q, a)[i] = q[i]
      /\ Append(q, a)[Len(q) + 1] = a
  OBVIOUS
<1>2. \A i \in 1..(Len(q) + 1) : i \in 1..Len(q) \/ i = Len(q) + 1
  BY <1>1
<1>3. \A i \in 1..Len(q) : i \in 1..(Len(q) + 1)
  BY <1>1
<1>4. IsInjective(Append(q, a))
  BY <1>1, <1>2 DEF IsInjective, Range
<1>5. Len(q) + 1 \in 1..(Len(q) + 1)
  BY <1>1
<1>6. Range(Append(q, a)) \subseteq Range(q) \cup {a}
  BY <1>1, <1>2 DEF Range
<1>7. Range(q) \cup {a} \subseteq Range(Append(q, a))
  BY <1>1, <1>3, <1>5 DEF Range
<1>8. QED
  BY <1>1, <1>4, <1>6, <1>7

-------------------------------------------------------------------------------
(* Lemmas about the critical sections.  *)

\* What ~PooledConnection and PQreset leave alone.
LEMMA ReclaimEffect ==
    ASSUME PoolAssumption, HeapTypeOK, NEW freed \in SUBSET Addr,
           NEW reset \in SUBSET Addr, Reclaim(freed, reset)
    PROVE  /\ HeapTypeOK'
           /\ \A a \in Addr : a \in freed => token'[a] = 0
           /\ \A a \in Addr : a \notin freed => token'[a] = token[a]
           /\ \A a \in Addr : a \notin freed \cup reset =>
                 /\ net'[a] = net[a]
                 /\ prepared'[a] = prepared[a]
                 /\ session'[a] = session[a]
BY DEF PoolAssumption, HeapTypeOK, Reclaim, NoStatements

\* What opening a connection leaves alone.
LEMMA CreateEffect ==
    ASSUME PoolAssumption, HeapTypeOK, NEW freed \in SUBSET Addr, NEW a,
           CreateConnection(a, freed)
    PROVE  /\ HeapTypeOK'
           /\ a \in Addr
           /\ token[a] = 0 \/ a \in freed
           /\ token'[a] \in 1..MaxToken
           /\ \A x \in freed \ {a} : token'[x] = 0
           /\ \A x \in Addr : x # a /\ x \notin freed =>
                 /\ token'[x] = token[x]
                 /\ net'[x] = net[x]
                 /\ prepared'[x] = prepared[x]
                 /\ session'[x] = session[x]
BY DEF PoolAssumption, HeapTypeOK, CreateConnection, NoStatements

\* The parts of the invariant that a critical section must keep, and what it
\* must not touch.
PoolOK == HeapTypeOK /\ ListsTypeOK /\ OwnedOnce

Undisturbed(others) ==
    \A a \in others : /\ token'[a] = token[a]
                     /\ net'[a] = net[a]
                     /\ prepared'[a] = prepared[a]
                     /\ session'[a] = session[a]

Acquired(got) ==
    /\ PoolOK'
    /\ got = None => active' = active
    /\ got # None => /\ got \in Addr \ active
                     /\ active' = active \cup {got}
                     /\ token'[got] \in 1..MaxToken
    /\ Undisturbed(active)

Released(a) ==
    /\ PoolOK'
    /\ active' = active \ {a}
    /\ Undisturbed(active \ {a})

\* Acquire keeps every live connection in exactly one list, hands out one that
\* was not active, and disturbs no other active connection.
LEMMA AcquireEffect ==
    ASSUME PoolAssumption, PoolOK, NEW got \in Addr \cup {None}, Acquire(got)
    PROVE  Acquired(got)
<1>0. HeapTypeOK /\ ListsTypeOK /\ OwnedOnce
  BY DEF PoolOK
<1>1. /\ Len(idle) \in Nat
      /\ DOMAIN idle = 1..Len(idle)
      /\ \A i \in 1..Len(idle) : idle[i] \in Addr
      /\ active \in SUBSET Addr
      /\ idle \in Seq(Addr)
  BY <1>0 DEF ListsTypeOK
<1>2. Range(idle) \in SUBSET Addr
  BY <1>1 DEF Range
<1>3. CASE \E k \in DOMAIN idle :
              /\ IsAlive(idle[k])
              /\ \A j \in 1..(k - 1) : ~IsAlive(idle[j])
              /\ got = idle[k]
              /\ idle' = SubSeq(idle, k + 1, Len(idle))
              /\ active' = active \cup {got}
              /\ Reclaim({idle[j] : j \in 1..(k - 1)}, {})
  <2>1. PICK k \in 1..Len(idle), freed \in SUBSET Addr :
              /\ freed = {idle[j] : j \in 1..(k - 1)}
              /\ got = idle[k]
              /\ idle' = SubSeq(idle, k + 1, Len(idle))
              /\ active' = active \cup {got}
              /\ Reclaim(freed, {})
    <3>1. PICK k \in 1..Len(idle) :
                /\ got = idle[k]
                /\ idle' = SubSeq(idle, k + 1, Len(idle))
                /\ active' = active \cup {got}
                /\ Reclaim({idle[j] : j \in 1..(k - 1)}, {})
      BY <1>1, <1>3
    <3>2. {idle[j] : j \in 1..(k - 1)} \in SUBSET Addr
      BY <1>1
    <3>3. QED
      BY <3>1, <3>2
  <2>3. /\ idle' \in Seq(Addr)
        /\ IsInjective(idle')
        /\ got \in Range(idle)
        /\ got \notin freed
        /\ freed \subseteq Range(idle)
        /\ Range(idle') = Range(idle) \ (freed \cup {got})
    <3>1. /\ idle' \in Seq(Addr)
          /\ Len(idle') = Len(idle) - k
          /\ \A i \in 1..(Len(idle) - k) : idle'[i] = idle[k + i]
      BY <1>1, <2>1, SuffixElements
    <3>2. IsInjective(idle)
      BY <1>0 DEF OwnedOnce
    <3>3. /\ IsInjective(idle')
          /\ idle[k] \in Range(idle)
          /\ idle[k] \notin freed
          /\ freed \subseteq Range(idle)
          /\ Range(idle') = Range(idle) \ (freed \cup {idle[k]})
      <4>1. idle \in Seq(Addr) /\ k \in 1..Len(idle)
        BY <1>1
      <4>2. \A x : x \in freed <=> \E j \in 1..(k - 1) : x = idle[j]
        BY <2>1
      <4>3. QED
        BY <3>1, <3>2, <4>1, <4>2, SuffixOfDistinct
    <3>4. QED
      BY <2>1, <3>1, <3>3
  <2>4. /\ HeapTypeOK'
        /\ \A a \in Addr : a \in freed => token'[a] = 0
        /\ \A a \in Addr : a \notin freed =>
              /\ token'[a] = token[a]
              /\ net'[a] = net[a]
              /\ prepared'[a] = prepared[a]
              /\ session'[a] = session[a]
    <3>1. Reclaim(freed, {})
      BY <2>1
    <3>2. freed \in SUBSET Addr /\ {} \in SUBSET Addr
      OBVIOUS
    <3>3. /\ HeapTypeOK'
          /\ \A a \in Addr : a \in freed => token'[a] = 0
          /\ \A a \in Addr : a \notin freed => token'[a] = token[a]
          /\ \A a \in Addr : a \notin freed \cup {} =>
                /\ net'[a] = net[a]
                /\ prepared'[a] = prepared[a]
                /\ session'[a] = session[a]
      BY <3>1, <3>2, <1>0, ReclaimEffect
    <3>4. QED
      BY <3>3
  <2>5. got \in Addr /\ got \notin active /\ token[got] # 0
    BY <1>0, <1>2, <2>3 DEF OwnedOnce
  <2>6. active \cap freed = {}
    BY <1>0, <2>3 DEF OwnedOnce
  <2>7. Range(idle') \cap active' = {}
    BY <1>0, <2>1, <2>3, <2>6 DEF OwnedOnce
  <2>8. OwnedOnce'
    <3>1. Range(idle') \cup active' = (Range(idle) \cup active) \ freed
      BY <2>1, <2>3, <2>6
    <3>2. QED
      BY <1>0, <1>2, <2>3, <2>4, <2>7, <3>1 DEF OwnedOnce
  <2>9. got # None
    BY <2>5 DEF PoolAssumption
  <2>10. ListsTypeOK'
    BY <1>1, <2>1, <2>3, <2>5 DEF ListsTypeOK
  <2>11. token'[got] \in 1..MaxToken
    BY <2>3, <2>4, <2>5 DEF HeapTypeOK, PoolAssumption
  <2>12. \A a \in active : a \in Addr /\ a \notin freed
    BY <1>1, <2>6
  <2>13. QED
    BY <2>1, <2>4, <2>5, <2>8, <2>9, <2>10, <2>11, <2>12 DEF Acquired, PoolOK, Undisturbed
<1>4. CASE /\ idle' = <<>>
           /\ CreateConnection(got, Range(idle))
           /\ active' = active \cup {got}
  <2>1. /\ HeapTypeOK'
        /\ got \in Addr
        /\ token[got] = 0 \/ got \in Range(idle)
        /\ token'[got] \in 1..MaxToken
        /\ \A x \in Range(idle) \ {got} : token'[x] = 0
        /\ \A x \in Addr : x # got /\ x \notin Range(idle) =>
              /\ token'[x] = token[x]
              /\ net'[x] = net[x]
              /\ prepared'[x] = prepared[x]
              /\ session'[x] = session[x]
    BY <1>2, <1>4, <1>0, CreateEffect
  <2>2. got \notin active /\ got # None
    BY <1>0, <2>1 DEF OwnedOnce, PoolAssumption
  <2>3. \A a \in active : a \in Addr /\ a # got /\ a \notin Range(idle)
    BY <1>0, <1>1, <2>2 DEF OwnedOnce
  <2>4. ListsTypeOK'
    BY <1>1, <1>4, <2>1 DEF ListsTypeOK
  <2>5. Range(idle') = {} /\ IsInjective(idle')
    BY <1>4 DEF Range, IsInjective
  <2>6. active' = {a \in Addr : token'[a] # 0}
    BY <1>0, <1>1, <1>2, <1>4, <2>1, <2>3 DEF OwnedOnce
  <2>7. OwnedOnce'
    BY <1>0, <2>5, <2>6 DEF OwnedOnce
  <2>8. QED
    BY <1>4, <2>1, <2>2, <2>3, <2>4, <2>7 DEF Acquired, PoolOK, Undisturbed
<1>5. CASE /\ idle' = <<>>
           /\ got = None
           /\ UNCHANGED active
           /\ Reclaim(Range(idle), {})
  <2>1. /\ HeapTypeOK'
        /\ \A a \in Addr : a \in Range(idle) => token'[a] = 0
        /\ \A a \in Addr : a \notin Range(idle) =>
              /\ token'[a] = token[a]
              /\ net'[a] = net[a]
              /\ prepared'[a] = prepared[a]
              /\ session'[a] = session[a]
    BY <1>2, <1>5, <1>0, ReclaimEffect
  <2>2. \A a \in active : a \in Addr /\ a \notin Range(idle)
    BY <1>0, <1>1 DEF OwnedOnce
  <2>3. Range(idle') = {} /\ IsInjective(idle')
    BY <1>5 DEF Range, IsInjective
  <2>4. active' = {a \in Addr : token'[a] # 0}
    BY <1>0, <1>1, <1>2, <1>5, <2>1, <2>2 DEF OwnedOnce
  <2>5. OwnedOnce' /\ ListsTypeOK'
    BY <1>0, <1>1, <1>5, <2>3, <2>4 DEF OwnedOnce, ListsTypeOK
  <2>6. QED
    BY <1>5, <2>1, <2>2, <2>5 DEF Acquired, PoolOK, Undisturbed
<1>6. QED
  BY <1>3, <1>4, <1>5 DEF Acquire, AcquireIdle

\* EvictStaleConnections keeps a deque of distinct connections, deletes exactly
\* those that leave it, and disturbs no other.
Trimmed(q, failed, reset) ==
    /\ HeapTypeOK'
    /\ idle' \in Seq(Addr)
    /\ IsInjective(idle')
    /\ Range(idle') \subseteq Range(q)
    /\ \A a \in failed : token'[a] = 0
    /\ \A a \in Range(q) : a \notin Range(idle') => token'[a] = 0
    /\ \A a \in Addr : a \notin failed /\ (a \in Range(q) => a \in Range(idle')) =>
          /\ token'[a] = token[a]
          /\ a \notin reset => /\ net'[a] = net[a]
                               /\ prepared'[a] = prepared[a]
                               /\ session'[a] = session[a]

LEMMA EvictEffect ==
    ASSUME PoolAssumption, HeapTypeOK, NEW q \in Seq(Addr), IsInjective(q),
           NEW failed \in SUBSET Addr, NEW reset \in SUBSET Addr,
           EvictStaleConnections(q, failed, reset)
    PROVE  Trimmed(q, failed, reset)
<1>1. PICK expired \in SUBSET Range(q), n \in 0..Len(q) :
         \E pos \in [1..n -> DOMAIN q] :
            /\ \A i, j \in 1..n : i < j => pos[i] < pos[j]
            /\ {pos[i] : i \in 1..n} = (DOMAIN q) \ Evicted(q, expired)
            /\ idle' = [i \in 1..n |-> q[pos[i]]]
            /\ Reclaim(failed \cup {q[i] : i \in Evicted(q, expired)}, reset)
  BY DEF EvictStaleConnections
<1>2. PICK pos \in [1..n -> DOMAIN q] :
         /\ \A i, j \in 1..n : i < j => pos[i] < pos[j]
         /\ {pos[i] : i \in 1..n} = (DOMAIN q) \ Evicted(q, expired)
         /\ idle' = [i \in 1..n |-> q[pos[i]]]
         /\ Reclaim(failed \cup {q[i] : i \in Evicted(q, expired)}, reset)
  BY <1>1
<1>3. PICK out \in SUBSET DOMAIN q : out = Evicted(q, expired)
  BY DEF Evicted
<1>4. PICK freed : freed = {q[i] : i \in out}
  OBVIOUS
<1>5. /\ Len(q) \in Nat
      /\ DOMAIN q = 1..Len(q)
      /\ \A i \in 1..Len(q) : q[i] \in Addr
      /\ n \in Nat
      /\ \A i \in 1..n : pos[i] \in 1..Len(q)
  OBVIOUS
<1>6. idle' \in [1..n -> Addr] /\ \A i \in 1..n : idle'[i] = q[pos[i]]
  BY <1>2, <1>5
<1>7. idle' \in Seq(Addr)
  BY <1>5, <1>6, SeqDef
<1>8. IsInjective(idle')
  <2>1. ASSUME NEW i \in 1..n, NEW j \in 1..n, pos[i] = pos[j], i # j
        PROVE  FALSE
    <3>1. i < j \/ j < i
      BY <2>1
    <3>2. pos[i] \in Int /\ pos[j] \in Int
      BY <1>5
    <3>3. pos[i] < pos[j] \/ pos[j] < pos[i]
      BY <1>2, <3>1
    <3>4. QED
      BY <2>1, <3>2, <3>3
  <2>2. QED
    BY <1>5, <1>6, <2>1 DEF IsInjective
<1>9. Range(idle') = Range(q) \ freed
  <2>1. ASSUME NEW x \in Range(idle')
        PROVE  x \in Range(q) \ freed
    <3>1. PICK i \in 1..n : x = q[pos[i]]
      BY <1>6 DEF Range
    <3>2. pos[i] \in DOMAIN q \ out
      BY <1>2, <1>3
    <3>3. \A j \in out : q[j] # x
      BY <3>1, <3>2 DEF IsInjective
    <3>4. QED
      BY <1>4, <3>1, <3>2, <3>3 DEF Range
  <2>2. ASSUME NEW x \in Range(q) \ freed
        PROVE  x \in Range(idle')
    <3>1. PICK p \in DOMAIN q : x = q[p]
      BY DEF Range
    <3>2. p \notin out
      BY <1>4, <2>2, <3>1
    <3>3. PICK i \in 1..n : pos[i] = p
      BY <1>2, <1>3, <3>2
    <3>4. QED
      BY <1>6, <3>1, <3>3 DEF Range
  <2>3. QED
    BY <2>1, <2>2
<1>10. Range(q) \subseteq Addr /\ freed \subseteq Range(q)
  BY <1>4, <1>5 DEF Range
<1>11. Reclaim(failed \cup freed, reset) /\ failed \cup freed \in SUBSET Addr
  BY <1>2, <1>3, <1>4, <1>10
<1>12. /\ HeapTypeOK'
       /\ \A a \in Addr : a \in failed \cup freed => token'[a] = 0
       /\ \A a \in Addr : a \notin failed \cup freed => token'[a] = token[a]
       /\ \A a \in Addr : a \notin (failed \cup freed) \cup reset =>
             /\ net'[a] = net[a]
             /\ prepared'[a] = prepared[a]
             /\ session'[a] = session[a]
  BY <1>11, ReclaimEffect
<1>13. QED
  BY <1>7, <1>8, <1>9, <1>10, <1>12 DEF Trimmed

\* Release takes one connection off the active list, keeps every live one in
\* exactly one list, and disturbs no connection that stays active.
LEMMA ReleaseEffect ==
    ASSUME PoolAssumption, PoolOK, NEW a \in active, Release(a)
    PROVE  Released(a)
<1>0. HeapTypeOK /\ ListsTypeOK /\ OwnedOnce
  BY DEF PoolOK
<1>1. /\ idle \in Seq(Addr)
      /\ IsInjective(idle)
      /\ active \in SUBSET Addr
      /\ a \in Addr
      /\ a \notin Range(idle)
      /\ Range(idle) \cap active = {}
      /\ Range(idle) \cup active = {x \in Addr : token[x] # 0}
      /\ active' = active \ {a}
  BY <1>0 DEF ListsTypeOK, OwnedOnce, Release
<1>2. ASSUME NEW q \in Seq(Addr), IsInjective(q), Range(q) \subseteq Range(idle) \cup {a},
             NEW failed \in SUBSET Addr, NEW reset \in SUBSET {a},
             EvictStaleConnections(q, failed, reset),
             Range(q) \cup failed = Range(idle) \cup {a}, Range(q) \cap failed = {}
      PROVE  PoolOK' /\ Undisturbed(active \ {a})
  <2>1. reset \in SUBSET Addr
    BY <1>1
  <2>2. Trimmed(q, failed, reset)
    BY <1>0, <1>2, <2>1, EvictEffect
  <2>3. Range(q) \in SUBSET Addr
    BY DEF Range
  <2>4. ListsTypeOK'
    BY <1>1, <2>2 DEF ListsTypeOK, Trimmed
  <2>5. \A x \in active \ {a} : /\ x \in Addr
                                /\ x \notin failed
                                /\ x \notin Range(q)
                                /\ x \notin reset
    BY <1>1, <1>2
  <2>6. Range(idle') \cap active' = {}
    BY <1>1, <1>2, <2>2 DEF Trimmed
  <2>7. ASSUME NEW x \in Addr
        PROVE  x \in Range(idle') \cup active' <=> token'[x] # 0
    <3>1. CASE x \in Range(idle') \cup (active \ {a})
      BY <1>1, <1>2, <2>2, <2>5, <3>1 DEF Trimmed
    <3>2. CASE x \in failed \/ (x \in Range(q) /\ x \notin Range(idle'))
      BY <1>1, <1>2, <2>2, <3>2 DEF Trimmed
    <3>3. CASE x \notin Range(idle) \cup active
      BY <1>1, <1>2, <2>2, <3>3 DEF Trimmed
    <3>4. QED
      BY <1>1, <1>2, <3>1, <3>2, <3>3
  <2>8. OwnedOnce'
    BY <1>1, <2>2, <2>3, <2>6, <2>7 DEF OwnedOnce, Trimmed
  <2>9. QED
    BY <2>2, <2>4, <2>5, <2>8 DEF Trimmed, PoolOK, Undisturbed
<1>3. /\ Append(idle, a) \in Seq(Addr)
      /\ IsInjective(Append(idle, a))
      /\ Range(Append(idle, a)) = Range(idle) \cup {a}
  BY <1>1, AppendOfDistinct
<1>4. CASE EvictStaleConnections(Append(idle, a), {}, {})
  <2>1. PoolOK' /\ Undisturbed(active \ {a})
    <3>1. /\ Range(Append(idle, a)) \subseteq Range(idle) \cup {a}
          /\ Range(Append(idle, a)) \cup {} = Range(idle) \cup {a}
          /\ Range(Append(idle, a)) \cap {} = {}
      BY <1>3
    <3>2. {} \in SUBSET Addr /\ {} \in SUBSET {a}
      OBVIOUS
    <3>3. QED
      BY <1>2, <1>3, <1>4, <3>1, <3>2
  <2>2. QED
    BY <1>1, <2>1 DEF Released
<1>5. CASE EvictStaleConnections(Append(idle, a), {}, {a})
  <2>1. PoolOK' /\ Undisturbed(active \ {a})
    BY <1>2, <1>3, <1>5
  <2>2. QED
    BY <1>1, <2>1 DEF Released
<1>6. CASE EvictStaleConnections(idle, {a}, {})
  <2>1. PoolOK' /\ Undisturbed(active \ {a})
    BY <1>1, <1>2, <1>6
  <2>2. QED
    BY <1>1, <2>1 DEF Released
<1>7. QED
  BY <1>4, <1>5, <1>6 DEF Release

\* ~PostgresPool leaves nothing alive.
LEMMA DestructorEffect ==
    ASSUME PoolAssumption, HeapTypeOK, Destructor
    PROVE  PoolOK' /\ active' = {} /\ idle' = <<>>
<1>1. Addr \in SUBSET Addr /\ {} \in SUBSET Addr
  OBVIOUS
<1>2. HeapTypeOK' /\ \A a \in Addr : token'[a] = 0
  BY <1>1, ReclaimEffect DEF Destructor
<1>3. idle' = <<>> /\ active' = {} /\ Range(idle') = {} /\ IsInjective(idle')
  BY DEF Destructor, Range, IsInjective
<1>4. ListsTypeOK'
  BY <1>3 DEF ListsTypeOK
<1>5. QED
  BY <1>2, <1>3, <1>4 DEF OwnedOnce, PoolOK

(***************************************************************************)
(* Ownership: the inductive invariant, one lemma for each kind of step and *)
(* one step of the proof for each action.                                  *)
(***************************************************************************)

\* The types of the variables that the critical sections leave alone.
CallsTypeOK ==
    /\ lifecycle \in {"absent", "open", "unmapped", "gone"}
    /\ statement_sql \in [Name -> Sql \cup {None}]
    /\ statement_sql_order \in Seq(Name)
    /\ pc \in [Thread -> CallSteps]
    /\ held \in [Thread -> Addr \cup {None}]
    /\ name \in [Thread -> Name \cup {None}]
    /\ sql \in [Thread -> Sql \cup {None}]
    /\ handles \in SUBSET Handle

\* The type invariant in its two halves.
LEMMA TypeParts == TypeOK <=> HeapTypeOK /\ ListsTypeOK /\ CallsTypeOK
BY DEF TypeOK, HeapTypeOK, ListsTypeOK, CallsTypeOK

\* The two halves in the next state.
LEMMA TypePartsPrime == TypeOK' <=> (HeapTypeOK /\ ListsTypeOK /\ CallsTypeOK)'
BY TypeParts, PTL

\* The invariant holds of the initial states.
LEMMA InitIInv == ASSUME PoolAssumption, Init PROVE IInv
<1>1. TypeOK
  BY DEF Init, TypeOK, PoolAssumption, CallSteps, NoStatements
<1>2. OwnedOnce
  BY DEF Init, OwnedOnce, Range, IsInjective
<1>3. ExclusiveHold
  BY DEF Init, ExclusiveHold, Alive
<1>4. CallsConsistent
  BY DEF Init, CallsConsistent, HoldingSteps, NamingSteps
<1>5. NoPoolNoCalls
  BY DEF Init, NoPoolNoCalls
<1>6. QED
  BY <1>1, <1>2, <1>3, <1>4, <1>5 DEF IInv

\* A call that acquires: no other holder has the connection it gets.
LEMMA AcquireForStep ==
    ASSUME PoolAssumption, IInv, Alive, NEW t \in Thread, pc[t] \notin HoldingSteps,
           lifecycle = "unmapped" => t # Main,
           NEW got \in Addr \cup {None}, NEW s \in HoldingSteps,
           s \in NamingSteps => name[t] \in Name, AcquireFor(t, got, s)
    PROVE  IInv'
<1>1. PoolOK /\ CallsTypeOK
  BY TypeParts DEF IInv, PoolOK
<1>2. Acquire(got)
  BY DEF AcquireFor
<1>3. Acquired(got)
  BY <1>1, <1>2, AcquireEffect
<1>4. UNCHANGED <<lifecycle, statements, handles>>
  BY DEF AcquireFor
<1>5. held' = [held EXCEPT ![t] = got] /\ held[t] = None
  BY DEF AcquireFor, IInv, CallsConsistent
<1>6. /\ pc' = [pc EXCEPT ![t] = IF got # None THEN s ELSE IF t = Main THEN "none" ELSE "done"]
      /\ got # None => UNCHANGED <<name, sql>>
      /\ got = None => /\ name' = [name EXCEPT ![t] = None]
                       /\ sql' = [sql EXCEPT ![t] = None]
  BY DEF AcquireFor, Return, Goto
<1>7. CallsTypeOK'
  BY <1>1, <1>4, <1>5, <1>6 DEF CallsTypeOK, CallSteps, statements
<1>8. TypeOK' /\ OwnedOnce'
  BY <1>3, <1>7, TypePartsPrime DEF Acquired, PoolOK
<1>9. ExclusiveHold'
  <2>1. \A u \in Thread : u # t => held'[u] = held[u]
    BY <1>1, <1>5 DEF CallsTypeOK
  <2>2. held'[t] = got
    BY <1>1, <1>5 DEF CallsTypeOK
  <2>3. got # None => got \notin active /\ active' = active \cup {got}
    BY <1>3 DEF Acquired
  <2>4. got = None => active' = active
    BY <1>3 DEF Acquired
  <2>5. \A u \in Thread : held[u] # None => held[u] \in active
    BY DEF IInv, ExclusiveHold
  <2>6. \A u \in Thread : held'[u] # None => held'[u] \in active'
    BY <2>1, <2>2, <2>3, <2>4, <2>5
  <2>7. \A u, v \in Thread : u # v /\ held'[u] # None => held'[u] # held'[v]
    BY <2>1, <2>2, <2>3, <2>4, <2>5 DEF IInv, ExclusiveHold
  <2>8. ASSUME NEW h \in handles, ~h.released
        PROVE  /\ h.addr \in active'
               /\ token'[h.addr] = h.token
               /\ \A u \in Thread : held'[u] # h.addr
               /\ \A g \in handles : ~g.released /\ g # h => g.addr # h.addr
    <3>1. /\ h.addr \in active
          /\ token[h.addr] = h.token
          /\ \A u \in Thread : held[u] # h.addr
          /\ \A g \in handles : ~g.released /\ g # h => g.addr # h.addr
      BY <2>8 DEF IInv, ExclusiveHold
    <3>2. token'[h.addr] = token[h.addr] /\ h.addr # None
      BY <1>1, <1>3, <3>1 DEF Acquired, Undisturbed, PoolOK, ListsTypeOK, PoolAssumption
    <3>3. QED
      BY <2>1, <2>2, <2>3, <2>4, <3>1, <3>2
  <2>9. QED
    BY <1>4, <2>6, <2>7, <2>8 DEF ExclusiveHold, Alive
<1>10. CallsConsistent'
  <2>1. \A u \in Thread : u # t => /\ held'[u] = held[u]
                                   /\ pc'[u] = pc[u]
                                   /\ name'[u] = name[u]
    BY <1>1, <1>5, <1>6 DEF CallsTypeOK
  <2>2. held'[t] = got
    BY <1>1, <1>5 DEF CallsTypeOK
  <2>3. CASE got = None
    <3>1. pc'[t] \in {"none", "done"}
      BY <1>1, <1>6, <2>3 DEF CallsTypeOK
    <3>2. QED
      BY <2>1, <2>2, <2>3, <3>1 DEF IInv, CallsConsistent, HoldingSteps, NamingSteps
  <2>4. CASE got # None
    <3>1. pc'[t] = s /\ name'[t] = name[t]
      BY <1>1, <1>6, <2>4 DEF CallsTypeOK
    <3>2. QED
      BY <2>1, <2>2, <2>4, <3>1 DEF IInv, CallsConsistent
  <2>5. QED
    BY <2>3, <2>4
<1>11. NoPoolNoCalls'
  <2>1. lifecycle' = lifecycle /\ lifecycle \in {"open", "unmapped"}
    BY <1>4 DEF Alive
  <2>2. lifecycle = "unmapped" => pc'[Main] = pc[Main]
    BY <1>1, <1>6 DEF CallsTypeOK, Thread
  <2>3. QED
    BY <2>1, <2>2 DEF IInv, NoPoolNoCalls, Alive
<1>12. QED
  BY <1>8, <1>9, <1>10, <1>11 DEF IInv

\* A libpq call on the connection a thread holds changes no list, no holder and
\* no token, and the thread keeps the connection.
LEMMA LibpqStep ==
    ASSUME PoolAssumption, IInv, HeapTypeOK', NEW t \in Thread, pc[t] \in HoldingSteps,
           UNCHANGED <<lifecycle, token, lists, statements, held, handles>>,
           NEW s \in HoldingSteps, s \in NamingSteps => name[t] \in Name, Goto(t, s)
    PROVE  IInv'
<1>1. PoolOK /\ CallsTypeOK
  BY TypeParts DEF IInv, PoolOK
<1>2. pc' = [pc EXCEPT ![t] = s] /\ UNCHANGED <<name, sql>>
  BY DEF Goto
<1>3. UNCHANGED <<lifecycle, token, idle, active, statement_sql, statement_sql_order, held, handles>>
  BY DEF lists, statements
<1>4. ListsTypeOK'
  BY <1>1, <1>3 DEF ListsTypeOK, PoolOK
<1>5. CallsTypeOK'
  BY <1>1, <1>2, <1>3 DEF CallsTypeOK, CallSteps
<1>6. TypeOK'
  BY <1>4, <1>5, TypePartsPrime
<1>7. OwnedOnce'
  BY <1>3 DEF IInv, OwnedOnce
<1>8. ExclusiveHold'
  BY <1>3 DEF IInv, ExclusiveHold, Alive
<1>9. CallsConsistent'
  <2>1. \A u \in Thread : u # t => pc'[u] = pc[u]
    BY <1>1, <1>2 DEF CallsTypeOK
  <2>2. pc'[t] = s
    BY <1>1, <1>2 DEF CallsTypeOK
  <2>3. QED
    BY <1>2, <1>3, <2>1, <2>2 DEF IInv, CallsConsistent
<1>10. NoPoolNoCalls'
  <2>1. Alive
    BY DEF IInv, NoPoolNoCalls, HoldingSteps
  <2>2. lifecycle = "unmapped" => t # Main
    BY DEF IInv, NoPoolNoCalls, HoldingSteps
  <2>3. t # Main => pc'[Main] = pc[Main]
    BY <1>1, <1>2 DEF CallsTypeOK, Thread
  <2>4. QED
    BY <1>3, <2>1, <2>2, <2>3 DEF IInv, NoPoolNoCalls, Alive
<1>11. QED
  BY <1>6, <1>7, <1>8, <1>9, <1>10 DEF IInv

\* A step that changes neither the connections nor who holds them.
LEMMA BookkeepingStep ==
    ASSUME PoolAssumption, IInv, CallsTypeOK', CallsConsistent', NoPoolNoCalls',
           UNCHANGED <<heap, lists, held, handles>>, Alive' => Alive
    PROVE  IInv'
<1>1. HeapTypeOK /\ ListsTypeOK
  BY TypeParts DEF IInv
<1>2. UNCHANGED <<token, net, prepared, session, nextToken, idle, active, held, handles>>
  BY DEF heap, lists
<1>3. HeapTypeOK' /\ ListsTypeOK'
  BY <1>1, <1>2 DEF HeapTypeOK, ListsTypeOK
<1>4. TypeOK'
  BY <1>3, TypePartsPrime
<1>5. OwnedOnce'
  BY <1>2 DEF IInv, OwnedOnce
<1>6. ExclusiveHold'
  BY <1>2 DEF IInv, ExclusiveHold
<1>7. QED
  BY <1>4, <1>5, <1>6 DEF IInv

\* The Release at the end of a call touches no other holder's connection.
LEMMA ReleaseHeldStep ==
    ASSUME PoolAssumption, IInv, NEW t \in Thread, ReleaseHeld(t)
    PROVE  IInv'
<1>1. PoolOK /\ CallsTypeOK
  BY TypeParts DEF IInv, PoolOK
<1>2. /\ pc[t] = "releasing"
      /\ Release(held[t])
      /\ held' = [held EXCEPT ![t] = None]
      /\ pc' = [pc EXCEPT ![t] = IF t = Main THEN "none" ELSE "done"]
      /\ name' = [name EXCEPT ![t] = None]
      /\ sql' = [sql EXCEPT ![t] = None]
      /\ UNCHANGED <<lifecycle, statement_sql, statement_sql_order, handles>>
  BY DEF ReleaseHeld, Return, statements
<1>3. held[t] # None /\ held[t] \in active
  BY <1>2 DEF IInv, CallsConsistent, HoldingSteps, ExclusiveHold
<1>4. Released(held[t])
  BY <1>1, <1>2, <1>3, ReleaseEffect
<1>5. CallsTypeOK'
  BY <1>1, <1>2 DEF CallsTypeOK, CallSteps
<1>6. TypeOK' /\ OwnedOnce'
  BY <1>4, <1>5, TypePartsPrime DEF Released, PoolOK
<1>7. /\ active' = active \ {held[t]}
      /\ held'[t] = None
      /\ pc'[t] \in {"none", "done"}
      /\ \A u \in Thread : u # t => /\ held'[u] = held[u]
                                    /\ pc'[u] = pc[u]
                                    /\ name'[u] = name[u]
  BY <1>1, <1>2, <1>4 DEF Released, CallsTypeOK
<1>8. ExclusiveHold'
  <2>1. \A u \in Thread : u # t /\ held[u] # None => held[u] \in active \ {held[t]}
    BY <1>3 DEF IInv, ExclusiveHold
  <2>2. \A u \in Thread : held'[u] # None => held'[u] \in active'
    BY <1>7, <2>1
  <2>3. \A u, v \in Thread : u # v /\ held'[u] # None => held'[u] # held'[v]
    BY <1>7 DEF IInv, ExclusiveHold
  <2>4. ASSUME NEW h \in handles, ~h.released, Alive
        PROVE  /\ h.addr \in active'
               /\ token'[h.addr] = h.token
               /\ \A u \in Thread : held'[u] # h.addr
               /\ \A g \in handles : ~g.released /\ g # h => g.addr # h.addr
    <3>1. /\ h.addr \in active
          /\ token[h.addr] = h.token
          /\ \A u \in Thread : held[u] # h.addr
          /\ \A g \in handles : ~g.released /\ g # h => g.addr # h.addr
      BY <2>4 DEF IInv, ExclusiveHold
    <3>2. h.addr \in active \ {held[t]} /\ h.addr # None
      BY <1>1, <3>1 DEF PoolOK, ListsTypeOK, PoolAssumption
    <3>3. token'[h.addr] = token[h.addr]
      BY <1>4, <3>2 DEF Released, Undisturbed
    <3>4. QED
      BY <1>7, <3>1, <3>2, <3>3
  <2>5. QED
    BY <1>2, <2>2, <2>3, <2>4 DEF ExclusiveHold, Alive
<1>9. CallsConsistent'
  BY <1>7 DEF IInv, CallsConsistent, HoldingSteps, NamingSteps
<1>10. NoPoolNoCalls'
  <2>1. Alive
    BY <1>2 DEF IInv, NoPoolNoCalls
  <2>2. lifecycle = "unmapped" => pc'[Main] = pc[Main]
    BY <1>2, <1>7 DEF IInv, NoPoolNoCalls, Thread
  <2>3. QED
    BY <1>2, <2>1, <2>2 DEF IInv, NoPoolNoCalls, Alive
<1>11. QED
  BY <1>6, <1>8, <1>9, <1>10 DEF IInv

\* The pool is created with connections that nobody holds.
LEMMA CreatePoolStep == ASSUME PoolAssumption, IInv, CreatePool PROVE IInv'
<1>1. PoolOK /\ CallsTypeOK
  BY TypeParts DEF IInv, PoolOK
<1>2. /\ lifecycle = "absent"
      /\ idle = <<>>
      /\ active = {}
      /\ \A t \in Thread : pc[t] = "none"
      /\ handles = {}
  BY DEF CreatePool, IInv, NoPoolNoCalls, Alive
<1>3. \A t \in Thread : held[t] = None
  BY <1>2 DEF IInv, CallsConsistent, HoldingSteps
<1>4. /\ lifecycle' = "open"
      /\ UNCHANGED <<prepared, session, active, statement_sql, statement_sql_order,
                     pc, held, name, sql, handles>>
  BY DEF CreatePool, statements, calls
<1>5. PICK n \in 1..MinConnections :
         \E at \in [1..n -> Addr] :
            /\ n <= MaxToken
            /\ IsInjective(at)
            /\ idle' = at
            /\ nextToken' = n + 1
            /\ token' = [a \in Addr |-> IF \E i \in 1..n : at[i] = a
                                       THEN CHOOSE i \in 1..n : at[i] = a ELSE 0]
            /\ net' = [a \in Addr |-> IF \E i \in 1..n : at[i] = a THEN "ok" ELSE "bad"]
  BY DEF CreatePool
<1>6. PICK at \in [1..n -> Addr] :
            /\ n <= MaxToken
            /\ IsInjective(at)
            /\ idle' = at
            /\ nextToken' = n + 1
            /\ token' = [a \in Addr |-> IF \E i \in 1..n : at[i] = a
                                       THEN CHOOSE i \in 1..n : at[i] = a ELSE 0]
            /\ net' = [a \in Addr |-> IF \E i \in 1..n : at[i] = a THEN "ok" ELSE "bad"]
  BY <1>5
<1>7. n \in Nat /\ n <= MaxToken /\ MaxToken \in Nat
  BY <1>6 DEF PoolAssumption
<1>8. \A a \in Addr : IF \E i \in 1..n : at[i] = a THEN token'[a] \in 1..n ELSE token'[a] = 0
  <2>1. SUFFICES ASSUME NEW a \in Addr
                 PROVE  IF \E i \in 1..n : at[i] = a THEN token'[a] \in 1..n
                                                    ELSE token'[a] = 0
    OBVIOUS
  <2>2. token'[a] = IF \E i \in 1..n : at[i] = a
                    THEN CHOOSE i \in 1..n : at[i] = a ELSE 0
    BY <1>6
  <2>3. (\E i \in 1..n : at[i] = a) => (CHOOSE i \in 1..n : at[i] = a) \in 1..n
    OBVIOUS
  <2>4. QED
    BY <2>2, <2>3
<1>9. token' \in [Addr -> 0..MaxToken]
  <2>1. DOMAIN token' = Addr /\ token' = [a \in Addr |-> token'[a]]
    BY <1>6
  <2>2. \A a \in Addr : token'[a] \in 0..MaxToken
    BY <1>7, <1>8
  <2>3. QED
    BY <2>1, <2>2
<1>10. HeapTypeOK'
  <2>1. nextToken' \in 1..(MaxToken + 1)
    BY <1>6, <1>7
  <2>2. net' \in [Addr -> {"ok", "lost", "bad"}]
    BY <1>6
  <2>3. QED
    BY <1>1, <1>4, <1>9, <2>1, <2>2 DEF PoolOK, HeapTypeOK
<1>11. ListsTypeOK'
  BY <1>1, <1>4, <1>6, <1>7, SeqDef DEF PoolOK, ListsTypeOK
<1>12. CallsTypeOK'
  BY <1>1, <1>4 DEF CallsTypeOK
<1>13. TypeOK'
  BY <1>10, <1>11, <1>12, TypePartsPrime
<1>14. OwnedOnce'
  <2>1. IsInjective(idle')
    BY <1>6
  <2>2. Range(idle') = {a \in Addr : token'[a] # 0}
    BY <1>6, <1>7, <1>8 DEF Range
  <2>3. QED
    BY <1>2, <1>4, <2>1, <2>2 DEF OwnedOnce
<1>15. ExclusiveHold'
  BY <1>2, <1>3, <1>4 DEF ExclusiveHold
<1>16. CallsConsistent'
  BY <1>4 DEF IInv, CallsConsistent
<1>17. NoPoolNoCalls'
  BY <1>4 DEF NoPoolNoCalls, Alive
<1>18. QED
  BY <1>13, <1>14, <1>15, <1>16, <1>17 DEF IInv

\* The end of a pool that nobody is inside.
LEMMA DestructorStep ==
    ASSUME PoolAssumption, IInv, lifecycle' = "gone", Destructor,
           \A t \in Thread : pc'[t] = "none", \A t \in Thread : held[t] = None,
           pc' \in [Thread -> CallSteps], UNCHANGED <<held, name, sql, handles>>
    PROVE  IInv'
<1>1. PoolOK /\ CallsTypeOK
  BY TypeParts DEF IInv, PoolOK
<1>2. PoolOK' /\ active' = {} /\ idle' = <<>>
  BY <1>1, DestructorEffect DEF PoolOK
<1>3. CallsTypeOK'
  BY <1>1 DEF CallsTypeOK, Destructor, NoStatements
<1>4. TypeOK' /\ OwnedOnce'
  BY <1>2, <1>3, TypePartsPrime DEF PoolOK
<1>5. ExclusiveHold'
  BY DEF ExclusiveHold, Alive
<1>6. CallsConsistent'
  BY DEF CallsConsistent, HoldingSteps, NamingSteps
<1>7. NoPoolNoCalls'
  BY <1>2 DEF NoPoolNoCalls, Alive
<1>8. QED
  BY <1>4, <1>5, <1>6, <1>7 DEF IInv

\* AfterThreadPoolWork drops one reference; the last one deletes the pool.
LEMMA AfterThreadPoolWorkStep ==
    ASSUME PoolAssumption, IInv, NEW w \in Worker, AfterThreadPoolWork(w)
    PROVE  IInv'
<1>1. CallsTypeOK
  BY TypeParts DEF IInv
<1>2. /\ pc[w] = "done"
      /\ pc[Main] = "none"
      /\ pc' = [pc EXCEPT ![w] = "none"]
      /\ UNCHANGED <<held, name, sql, handles>>
  BY DEF AfterThreadPoolWork, Goto
<1>3. w \in Thread /\ w # Main
  BY DEF Thread, PoolAssumption
<1>4. /\ pc' \in [Thread -> CallSteps]
      /\ pc'[w] = "none"
      /\ \A u \in Thread : u # w => pc'[u] = pc[u]
  BY <1>1, <1>2, <1>3 DEF CallsTypeOK, CallSteps
<1>5. CASE lifecycle = "unmapped" /\ \A v \in Worker \ {w} : pc[v] = "none"
  <2>1. lifecycle' = "gone" /\ Destructor
    BY <1>5 DEF AfterThreadPoolWork
  <2>2. \A t \in Thread : pc'[t] = "none"
    BY <1>2, <1>3, <1>4, <1>5 DEF Thread
  <2>3. \A t \in Thread : held[t] = None
    BY <1>2, <1>5 DEF Thread, IInv, CallsConsistent, HoldingSteps
  <2>4. QED
    BY <1>2, <1>4, <2>1, <2>2, <2>3, DestructorStep
<1>6. CASE ~(lifecycle = "unmapped" /\ \A v \in Worker \ {w} : pc[v] = "none")
  <2>1. UNCHANGED <<lifecycle, heap, lists, statements, held, name, sql, handles>>
    BY <1>2, <1>6 DEF AfterThreadPoolWork
  <2>2. CallsTypeOK'
    BY <1>1, <1>4, <2>1 DEF CallsTypeOK, statements
  <2>3. CallsConsistent'
    BY <1>2, <1>4, <2>1 DEF IInv, CallsConsistent, HoldingSteps, NamingSteps
  <2>4. NoPoolNoCalls'
    <3>1. Alive
      BY <1>2, <1>3 DEF IInv, NoPoolNoCalls
    <3>2. QED
      BY <1>2, <1>3, <1>4, <2>1, <3>1 DEF NoPoolNoCalls, Alive, Thread
  <2>5. Alive' => Alive
    BY <2>1 DEF Alive
  <2>6. QED
    BY <2>1, <2>2, <2>3, <2>4, <2>5, BookkeepingStep
<1>7. QED
  BY <1>5, <1>6

\* destroyPool leaves the pool to the jobs in flight, or deletes it.
LEMMA DestroyPoolStep == ASSUME PoolAssumption, IInv, DestroyPool PROVE IInv'
<1>1. CallsTypeOK
  BY TypeParts DEF IInv
<1>2. /\ pc[Main] = "none"
      /\ lifecycle = "open"
      /\ UNCHANGED <<pc, held, name, sql, handles>>
  BY DEF DestroyPool, MainCanCall, calls
<1>3. CASE \A w \in Worker : pc[w] = "none"
  <2>1. lifecycle' = "gone" /\ Destructor
    BY <1>3 DEF DestroyPool
  <2>2. \A t \in Thread : pc'[t] = "none" /\ held[t] = None
    BY <1>2, <1>3 DEF Thread, IInv, CallsConsistent, HoldingSteps
  <2>3. pc' \in [Thread -> CallSteps]
    BY <1>1, <1>2 DEF CallsTypeOK
  <2>4. QED
    BY <1>2, <2>1, <2>2, <2>3, DestructorStep
<1>4. CASE ~(\A w \in Worker : pc[w] = "none")
  <2>1. lifecycle' = "unmapped" /\ UNCHANGED <<heap, lists, statements>>
    BY <1>4 DEF DestroyPool
  <2>2. CallsTypeOK'
    BY <1>1, <1>2, <2>1 DEF CallsTypeOK, statements
  <2>3. CallsConsistent'
    BY <1>2 DEF IInv, CallsConsistent
  <2>4. NoPoolNoCalls'
    BY <1>2, <2>1 DEF NoPoolNoCalls, Alive
  <2>5. Alive
    BY <1>2 DEF Alive
  <2>6. QED
    BY <1>2, <2>1, <2>2, <2>3, <2>4, <2>5, BookkeepingStep
<1>5. QED
  BY <1>3, <1>4

\* acquireConnection hands out a connection that nobody else has.
LEMMA AcquireConnectionStep ==
    ASSUME PoolAssumption, IInv, AcquireConnection
    PROVE  IInv'
<1>1. PoolOK /\ CallsTypeOK
  BY TypeParts DEF IInv, PoolOK
<1>2. /\ lifecycle = "open"
      /\ UNCHANGED <<lifecycle, statement_sql, statement_sql_order, pc, held, name, sql>>
  BY DEF AcquireConnection, MainCanCall, statements, calls
<1>3. PICK got \in Addr \cup {None} :
         /\ Acquire(got)
         /\ handles' = IF got = None THEN handles ELSE handles \cup
               {[addr |-> got, token |-> token'[got], released |-> FALSE]}
  BY DEF AcquireConnection
<1>4. Acquired(got)
  BY <1>1, <1>3, AcquireEffect
<1>5. PICK given : given = [addr |-> got, token |-> token'[got], released |-> FALSE]
  OBVIOUS
<1>6. /\ got # None => given \in Handle
      /\ given.addr = got
      /\ given.token = token'[got]
      /\ ~given.released
  BY <1>4, <1>5 DEF Acquired, Handle
<1>7. handles' = IF got = None THEN handles ELSE handles \cup {given}
  BY <1>3, <1>5
<1>8. CallsTypeOK'
  BY <1>1, <1>2, <1>6, <1>7 DEF CallsTypeOK
<1>9. TypeOK' /\ OwnedOnce'
  BY <1>4, <1>8, TypePartsPrime DEF Acquired, PoolOK
<1>10. ExclusiveHold'
  <2>1. /\ got # None => got \notin active /\ active' = active \cup {got}
        /\ got = None => active' = active
    BY <1>4 DEF Acquired
  <2>2. \A u \in Thread : held[u] # None => held[u] \in active
    BY DEF IInv, ExclusiveHold
  <2>3. /\ \A u \in Thread : held'[u] # None => held'[u] \in active'
        /\ \A u, v \in Thread : u # v /\ held'[u] # None => held'[u] # held'[v]
    BY <1>2, <2>1, <2>2 DEF IInv, ExclusiveHold
  <2>4. ASSUME NEW h \in handles, ~h.released
        PROVE  /\ h.addr \in active
               /\ h.addr \in active'
               /\ h.addr # got
               /\ token'[h.addr] = h.token
               /\ \A u \in Thread : held[u] # h.addr
               /\ \A g \in handles : ~g.released /\ g # h => g.addr # h.addr
    <3>1. /\ h.addr \in active
          /\ token[h.addr] = h.token
          /\ \A u \in Thread : held[u] # h.addr
          /\ \A g \in handles : ~g.released /\ g # h => g.addr # h.addr
      BY <1>2, <2>4 DEF IInv, ExclusiveHold, Alive
    <3>2. token'[h.addr] = token[h.addr] /\ h.addr # None
      BY <1>1, <1>4, <3>1 DEF Acquired, Undisturbed, PoolOK, ListsTypeOK, PoolAssumption
    <3>3. QED
      BY <2>1, <3>1, <3>2
  <2>5. got # None => \A u \in Thread : held[u] # got
    BY <2>1, <2>2
  <2>6. ASSUME NEW h \in handles', ~h.released
        PROVE  /\ h.addr \in active'
               /\ token'[h.addr] = h.token
               /\ \A u \in Thread : held'[u] # h.addr
               /\ \A g \in handles' : ~g.released /\ g # h => g.addr # h.addr
    <3>1. CASE h \in handles
      BY <1>2, <1>6, <1>7, <2>4, <2>6, <3>1
    <3>2. CASE got # None /\ h = given
      BY <1>2, <1>6, <1>7, <2>1, <2>4, <2>5, <3>2
    <3>3. QED
      BY <1>7, <3>1, <3>2
  <2>7. QED
    BY <2>3, <2>6 DEF ExclusiveHold
<1>11. CallsConsistent'
  BY <1>2 DEF IInv, CallsConsistent
<1>12. NoPoolNoCalls'
  BY <1>2 DEF NoPoolNoCalls, Alive
<1>13. QED
  BY <1>9, <1>10, <1>11, <1>12 DEF IInv

\* releaseConnection gives back the connection of this handle and no other.
LEMMA ReleaseConnectionStep ==
    ASSUME PoolAssumption, IInv, NEW h \in handles, ReleaseConnection(h)
    PROVE  IInv'
<1>1. PoolOK /\ CallsTypeOK
  BY TypeParts DEF IInv, PoolOK
<1>2. /\ ~h.released
      /\ pc[Main] = "none"
      /\ UNCHANGED <<lifecycle, statement_sql, statement_sql_order, pc, held, name, sql>>
  BY DEF ReleaseConnection, MayRelease, statements, calls
<1>3. PICK done : done = [h EXCEPT !.released = TRUE]
  OBVIOUS
<1>4. /\ handles' = (handles \ {h}) \cup {done}
      /\ done \in Handle
      /\ done.released
  <2>1. h \in Handle
    BY <1>1 DEF CallsTypeOK
  <2>2. QED
    BY <1>3, <2>1 DEF ReleaseConnection, Handle
<1>5. CallsTypeOK'
  BY <1>1, <1>2, <1>4 DEF CallsTypeOK
<1>6. CallsConsistent'
  BY <1>2 DEF IInv, CallsConsistent
<1>7. CASE lifecycle = "open"
  <2>1. /\ h.addr \in active
        /\ token[h.addr] = h.token
        /\ \A u \in Thread : held[u] # h.addr
        /\ \A g \in handles : ~g.released /\ g # h => g.addr # h.addr
    BY <1>2, <1>7 DEF IInv, ExclusiveHold, Alive
  <2>2. Released(h.addr)
    <3>1. Release(h.addr)
      BY <1>7, <2>1 DEF ReleaseConnection
    <3>2. QED
      BY <1>1, <2>1, <3>1, ReleaseEffect
  <2>3. TypeOK' /\ OwnedOnce'
    BY <1>5, <2>2, TypePartsPrime DEF Released, PoolOK
  <2>4. active' = active \ {h.addr}
    BY <2>2 DEF Released
  <2>5. ASSUME NEW g \in handles', ~g.released
        PROVE  /\ g.addr \in active'
               /\ token'[g.addr] = g.token
               /\ \A u \in Thread : held'[u] # g.addr
               /\ \A f \in handles' : ~f.released /\ f # g => f.addr # g.addr
    <3>1. g \in handles /\ g # h
      BY <1>4, <2>5
    <3>2. /\ g.addr \in active
          /\ token[g.addr] = g.token
          /\ \A u \in Thread : held[u] # g.addr
          /\ \A f \in handles : ~f.released /\ f # g => f.addr # g.addr
      BY <1>7, <2>5, <3>1 DEF IInv, ExclusiveHold, Alive
    <3>3. g.addr \in active \ {h.addr}
      BY <1>2, <3>1, <3>2
    <3>4. token'[g.addr] = token[g.addr]
      BY <2>2, <3>3 DEF Released, Undisturbed
    <3>5. \A f \in handles' : ~f.released => f \in handles
      BY <1>4
    <3>6. QED
      BY <1>2, <2>4, <3>2, <3>3, <3>4, <3>5
  <2>6. /\ \A u \in Thread : held'[u] # None => held'[u] \in active'
        /\ \A u, v \in Thread : u # v /\ held'[u] # None => held'[u] # held'[v]
    BY <1>2, <2>1, <2>4 DEF IInv, ExclusiveHold
  <2>7. ExclusiveHold'
    BY <2>5, <2>6 DEF ExclusiveHold
  <2>8. NoPoolNoCalls'
    BY <1>2, <1>7 DEF NoPoolNoCalls, Alive
  <2>9. QED
    BY <1>6, <2>3, <2>7, <2>8 DEF IInv
<1>8. CASE lifecycle # "open"
  <2>1. UNCHANGED <<token, net, prepared, session, nextToken, idle, active>>
    BY <1>8 DEF ReleaseConnection, heap, lists
  <2>2. HeapTypeOK' /\ ListsTypeOK'
    BY <1>1, <2>1 DEF PoolOK, HeapTypeOK, ListsTypeOK
  <2>3. TypeOK'
    BY <1>5, <2>2, TypePartsPrime
  <2>4. OwnedOnce'
    BY <2>1 DEF IInv, OwnedOnce
  <2>5. ExclusiveHold'
    <3>1. \A g \in handles' : ~g.released => g \in handles
      BY <1>4
    <3>2. QED
      BY <1>2, <2>1, <3>1 DEF IInv, ExclusiveHold, Alive
  <2>6. NoPoolNoCalls'
    <3>1. lifecycle # "absent"
      BY DEF IInv, NoPoolNoCalls
    <3>2. QED
      BY <1>2, <2>1, <3>1 DEF IInv, NoPoolNoCalls, Alive
  <2>7. QED
    BY <1>6, <2>3, <2>4, <2>5, <2>6 DEF IInv
<1>9. QED
  BY <1>7, <1>8

\* A thread inside a call is inside a pool that exists, and the main thread is
\* not inside one whose id is gone.
LEMMA InsideIsAlive ==
    ASSUME IInv, NEW t \in Thread, pc[t] # "none"
    PROVE  Alive /\ (lifecycle = "unmapped" => t # Main)
BY DEF IInv, NoPoolNoCalls

\* A step of a call under way.
LEMMA StepStep ==
    ASSUME PoolAssumption, IInv, NEW t \in Thread, Step(t)
    PROVE  IInv'
<1>1. HeapTypeOK /\ CallsTypeOK /\ Main \in Thread
  BY TypeParts DEF IInv, Thread
<1>2. pc[t] \in NamingSteps => name[t] \in Name
  BY DEF IInv, CallsConsistent
<1>3. CASE t = Main /\ PQexec
  <2>1. /\ pc[Main] = "executing"
        /\ Goto(Main, "releasing")
        /\ UNCHANGED <<lifecycle, token, lists, statements, held, handles>>
    BY <1>3 DEF PQexec
  <2>2. HeapTypeOK'
    BY <1>1, <1>3 DEF PQexec, HeapTypeOK
  <2>3. QED
    BY <1>1, <2>1, <2>2, LibpqStep DEF HoldingSteps, NamingSteps
<1>4. CASE t = Main /\ PrepareAcquire
  <2>1. pc[Main] = "stored"
    BY <1>4 DEF PrepareAcquire
  <2>2. Alive /\ lifecycle # "unmapped"
    BY <1>1, <2>1, InsideIsAlive
  <2>3. PICK got \in Addr \cup {None} :
           AcquireFor(Main, got,
               IF prepared'[got][name[Main]] # None THEN "releasing" ELSE "preparing")
    BY <1>4 DEF PrepareAcquire
  <2>4. name[Main] \in Name
    BY <1>2, <1>4, <2>1 DEF NamingSteps
  <2>5. PICK s \in HoldingSteps : AcquireFor(Main, got, s)
    BY <2>3 DEF HoldingSteps
  <2>6. pc[Main] \notin HoldingSteps
    BY <2>1 DEF HoldingSteps
  <2>7. QED
    BY <1>1, <2>2, <2>4, <2>5, <2>6, AcquireForStep
<1>5. CASE PQprepare(t)
  <2>1. /\ pc[t] \in {"preparing", "repreparing"}
        /\ UNCHANGED <<lifecycle, token, nextToken, lists, statements, held, handles>>
    BY <1>5 DEF PQprepare
  <2>2. PICK s \in {"releasing", "prepared"} : Goto(t, s)
    BY <1>5 DEF PQprepare
  <2>3. HeapTypeOK'
    <3>1. sql[t] \in Sql \cup {None}
      BY <1>1 DEF CallsTypeOK
    <3>2. net' \in [Addr -> {"ok", "lost", "bad"}]
      BY <1>1, <1>5 DEF PQprepare, HeapTypeOK
    <3>3. /\ prepared' \in [Addr -> [Name -> Sql \cup {None}]]
          /\ session' \in [Addr -> [Name -> Sql \cup {None}]]
      <4>1. /\ prepared' \in {prepared, [prepared EXCEPT ![held[t]][name[t]] = sql[t]]}
            /\ session' \in {session, [session EXCEPT ![held[t]][name[t]] = sql[t]]}
        BY <1>5 DEF PQprepare
      <4>2. /\ prepared \in [Addr -> [Name -> Sql \cup {None}]]
            /\ session \in [Addr -> [Name -> Sql \cup {None}]]
        BY <1>1 DEF HeapTypeOK
      <4>3. [prepared EXCEPT ![held[t]][name[t]] = sql[t]] \in [Addr -> [Name -> Sql \cup {None}]]
        BY <3>1, <4>2
      <4>4. [session EXCEPT ![held[t]][name[t]] = sql[t]] \in [Addr -> [Name -> Sql \cup {None}]]
        BY <3>1, <4>2
      <4>5. QED
        BY <4>1, <4>2, <4>3, <4>4
    <3>4. QED
      BY <1>1, <2>1, <3>2, <3>3 DEF HeapTypeOK
  <2>4. name[t] \in Name
    BY <1>2, <2>1 DEF NamingSteps
  <2>5. s \in HoldingSteps /\ pc[t] \in HoldingSteps
    BY <2>1 DEF HoldingSteps
  <2>6. QED
    BY <2>1, <2>2, <2>3, <2>4, <2>5, LibpqStep
<1>6. CASE ExecutePreparedAcquire(t)
  <2>1. pc[t] = "queued"
    BY <1>6 DEF ExecutePreparedAcquire
  <2>2. Alive /\ (lifecycle = "unmapped" => t # Main)
    BY <2>1, InsideIsAlive
  <2>3. PICK got \in Addr \cup {None} :
           AcquireFor(t, got,
               IF prepared'[got][name[t]] = None THEN "looking" ELSE "prepared")
    BY <1>6 DEF ExecutePreparedAcquire
  <2>4. name[t] \in Name
    BY <1>2, <2>1 DEF NamingSteps
  <2>5. PICK s \in HoldingSteps : AcquireFor(t, got, s)
    BY <2>3 DEF HoldingSteps
  <2>6. pc[t] \notin HoldingSteps
    BY <2>1 DEF HoldingSteps
  <2>7. QED
    BY <2>2, <2>4, <2>5, <2>6, AcquireForStep
<1>7. CASE LookUpText(t)
  <2>1. /\ pc[t] = "looking"
        /\ UNCHANGED <<lifecycle, heap, lists, statements, held, name, handles>>
        /\ sql' = [sql EXCEPT ![t] = statement_sql[name[t]]]
    BY <1>7 DEF LookUpText
  <2>2. PICK s \in {"releasing", "repreparing"} : pc' = [pc EXCEPT ![t] = s]
    BY <1>7 DEF LookUpText
  <2>3. name[t] \in Name
    BY <1>2, <2>1 DEF NamingSteps
  <2>4. /\ pc'[t] = s
        /\ \A u \in Thread : u # t => pc'[u] = pc[u]
    BY <1>1, <2>2 DEF CallsTypeOK
  <2>5. CallsTypeOK'
    BY <1>1, <2>1, <2>2, <2>3 DEF CallsTypeOK, CallSteps, HoldingSteps, statements
  <2>6. CallsConsistent'
    BY <2>1, <2>3, <2>4 DEF IInv, CallsConsistent, HoldingSteps, NamingSteps
  <2>7. Alive /\ (lifecycle = "unmapped" => t # Main)
    BY <2>1, InsideIsAlive
  <2>8. NoPoolNoCalls'
    BY <1>1, <2>1, <2>4, <2>7 DEF IInv, NoPoolNoCalls, Alive
  <2>9. QED
    BY <2>1, <2>5, <2>6, <2>7, <2>8, BookkeepingStep
<1>8. CASE PQexecPrepared(t)
  <2>1. /\ pc[t] = "prepared"
        /\ Goto(t, "releasing")
        /\ UNCHANGED <<lifecycle, token, lists, statements, held, handles>>
    BY <1>8 DEF PQexecPrepared
  <2>2. HeapTypeOK'
    BY <1>1, <1>8 DEF PQexecPrepared, HeapTypeOK
  <2>3. QED
    BY <2>1, <2>2, LibpqStep DEF HoldingSteps, NamingSteps
<1>9. CASE ReleaseHeld(t)
  BY <1>9, ReleaseHeldStep
<1>10. QED
  BY <1>3, <1>4, <1>5, <1>6, <1>7, <1>8, <1>9 DEF Step

\* A main-thread call that only starts: nothing of the pool changes hands.
LEMMA StartStep ==
    ASSUME PoolAssumption, IInv, MainCanCall, NEW t \in Thread, pc[t] = "none",
           NEW s \in {"stored", "queued"}, NEW n \in Name, CallsTypeOK',
           pc' = [pc EXCEPT ![t] = s], name' = [name EXCEPT ![t] = n],
           UNCHANGED <<lifecycle, heap, lists, held, handles>>
    PROVE  IInv'
<1>1. CallsTypeOK
  BY TypeParts DEF IInv
<1>2. /\ pc'[t] = s
      /\ name'[t] = n
      /\ \A u \in Thread : u # t => pc'[u] = pc[u] /\ name'[u] = name[u]
  BY <1>1 DEF CallsTypeOK
<1>3. CallsConsistent'
  BY <1>2 DEF IInv, CallsConsistent, HoldingSteps, NamingSteps
<1>4. NoPoolNoCalls' /\ Alive
  BY DEF NoPoolNoCalls, Alive, MainCanCall
<1>5. QED
  BY <1>3, <1>4, BookkeepingStep

\* Every step keeps the invariant.
LEMMA NextIInv == ASSUME PoolAssumption, IInv, [Next]_vars PROVE IInv'
<1>1. CallsTypeOK /\ HeapTypeOK /\ Main \in Thread
  BY TypeParts DEF IInv, Thread
<1>2. CASE CreatePool
  BY <1>2, CreatePoolStep
<1>3. CASE ExecuteAcquire
  <2>1. /\ pc[Main] = "none"
        /\ Alive
        /\ lifecycle # "unmapped"
    BY <1>3 DEF ExecuteAcquire, MainCanCall, Alive
  <2>2. PICK got \in Addr \cup {None} : AcquireFor(Main, got, "executing")
    BY <1>3 DEF ExecuteAcquire
  <2>3. QED
    BY <1>1, <2>1, <2>2, AcquireForStep DEF HoldingSteps, NamingSteps
<1>4. CASE \E n \in Name, text \in Sql : PrepareStore(n, text)
  <2>1. PICK n \in Name, text \in Sql : PrepareStore(n, text)
    BY <1>4
  <2>2. /\ MainCanCall
        /\ pc[Main] = "none"
        /\ pc' = [pc EXCEPT ![Main] = "stored"]
        /\ name' = [name EXCEPT ![Main] = n]
        /\ sql' = [sql EXCEPT ![Main] = text]
        /\ UNCHANGED <<lifecycle, heap, lists, held, handles>>
    BY <2>1 DEF PrepareStore, MainCanCall
  <2>3. statement_sql' \in [Name -> Sql \cup {None}]
    BY <1>1, <2>1 DEF PrepareStore, CallsTypeOK
  <2>4. statement_sql_order' \in Seq(Name)
    <3>1. Len(statement_sql_order) >= StatementCacheSize => statement_sql_order # <<>>
      BY DEF PoolAssumption
    <3>2. QED
      BY <1>1, <2>1, <3>1 DEF PrepareStore, CallsTypeOK
  <2>5. CallsTypeOK'
    BY <1>1, <2>2, <2>3, <2>4 DEF CallsTypeOK, CallSteps
  <2>6. QED
    BY <1>1, <2>2, <2>5, StartStep
<1>5. CASE \E t \in Thread, n \in Name : StartExecutePrepared(t, n)
  <2>1. PICK t \in Thread, n \in Name : StartExecutePrepared(t, n)
    BY <1>5
  <2>2. /\ MainCanCall
        /\ pc[t] = "none"
        /\ pc' = [pc EXCEPT ![t] = "queued"]
        /\ name' = [name EXCEPT ![t] = n]
        /\ UNCHANGED <<lifecycle, heap, lists, statements, held, sql, handles>>
    BY <2>1 DEF StartExecutePrepared
  <2>3. CallsTypeOK'
    BY <1>1, <2>2 DEF CallsTypeOK, CallSteps, statements
  <2>4. QED
    BY <2>2, <2>3, StartStep
<1>6. CASE \E t \in Thread : Step(t)
  BY <1>6, StepStep
<1>7. CASE \E w \in Worker : AfterThreadPoolWork(w)
  BY <1>7, AfterThreadPoolWorkStep
<1>8. CASE DestroyPool
  BY <1>8, DestroyPoolStep
<1>9. CASE AcquireConnection
  BY <1>9, AcquireConnectionStep
<1>10. CASE \E h \in handles : ReleaseConnection(h)
  BY <1>10, ReleaseConnectionStep
<1>11. CASE \E a \in Addr : LoseSession(a)
  <2>1. UNCHANGED <<lifecycle, token, prepared, nextToken, idle, active, statement_sql,
                    statement_sql_order, pc, held, name, sql, handles>>
    BY <1>11 DEF LoseSession, lists, statements, calls
  <2>2. HeapTypeOK'
    BY <1>1, <1>11 DEF LoseSession, HeapTypeOK, NoStatements
  <2>3. CallsTypeOK' /\ ListsTypeOK'
    BY <1>1, <2>1, TypeParts DEF IInv, CallsTypeOK, ListsTypeOK
  <2>4. TypeOK'
    BY <2>2, <2>3, TypePartsPrime
  <2>5. OwnedOnce' /\ ExclusiveHold' /\ CallsConsistent' /\ NoPoolNoCalls'
    BY <2>1 DEF IInv, OwnedOnce, ExclusiveHold, CallsConsistent, NoPoolNoCalls, Alive
  <2>6. QED
    BY <2>4, <2>5 DEF IInv
<1>12. CASE UNCHANGED vars
  BY <1>12 DEF IInv, TypeOK, OwnedOnce, ExclusiveHold, CallsConsistent, NoPoolNoCalls,
               Alive, vars, heap, lists, statements, calls
<1>13. QED
  BY <1>2, <1>3, <1>4, <1>5, <1>6, <1>7, <1>8, <1>9, <1>10, <1>11, <1>12 DEF Next

-------------------------------------------------------------------------------
(* The theorems.  *)

\* The inductive invariant holds in every reachable state.
THEOREM Invariance == Spec => []IInv
<1>1. Init => IInv
  BY PoolAssumption, InitIInv
<1>2. IInv /\ [Next]_vars => IInv'
  BY PoolAssumption, NextIInv
<1>3. QED
  BY <1>1, <1>2, PTL DEF Spec

\* Every variable of the pool keeps its type.
THEOREM TypeCorrect == Spec => []TypeOK
<1>1. IInv => TypeOK
  BY DEF IInv
<1>2. QED
  BY <1>1, Invariance, PTL

\* Every live connection is in the idle deque or the active list, exactly once,
\* and nothing deleted is in either: no connection leaks, none is freed twice.
THEOREM EveryConnectionOwnedOnce == Spec => []OwnedOnce
<1>1. IInv => OwnedOnce
  BY DEF IInv
<1>2. QED
  BY <1>1, Invariance, PTL

\* However calls, jobs, reservations and the end of the pool interleave, two
\* holders never have one connection, and a holder's connection stays the live
\* one it acquired.
THEOREM HoldersAreExclusive == Spec => []ExclusiveHold
<1>1. IInv => ExclusiveHold
  BY DEF IInv
<1>2. QED
  BY <1>1, Invariance, PTL

(***************************************************************************)
(* Slots: never more connections than the limits allow, and no slot lost to *)
(* a connection that nobody can give back.                                 *)
(***************************************************************************)

-------------------------------------------------------------------------------
(* Counting.  *)

\* The active list is finite, and adding or erasing one connection counts one.
LEMMA CountActive ==
    ASSUME PoolAssumption, active \subseteq Addr, NEW a
    PROVE  /\ Cardinality(active) \in Nat
           /\ a \notin active => Cardinality(active \cup {a}) = Cardinality(active) + 1
           /\ a \in active => Cardinality(active \ {a}) = Cardinality(active) - 1
<1>1. IsFiniteSet(active)
  BY FS_Subset DEF PoolAssumption
<1>2. Cardinality(active) \in Nat
  BY <1>1, FS_CardinalityType
<1>3. QED
  BY <1>1, <1>2, FS_AddElement, FS_RemoveElement

\* Acquire takes its connection from the deque, or opens it below the limit.
LEMMA AcquireCount ==
    ASSUME PoolAssumption, PoolOK, TotalWithinLimit,
           NEW got \in Addr \cup {None}, Acquire(got)
    PROVE  TotalWithinLimit'
<1>1. /\ Acquired(got)
      /\ idle \in Seq(Addr) /\ Len(idle) \in Nat
      /\ active \subseteq Addr
      /\ MaxConnections \in Nat /\ MinConnections \in Nat
  BY AcquireEffect DEF PoolOK, ListsTypeOK, PoolAssumption
<1>2. Cardinality(active) \in Nat
  BY <1>1, CountActive
<1>3. CASE got = None
  <2>1. active' = active /\ idle' = <<>>
    <3>1. active' = active
      BY <1>1, <1>3 DEF Acquired
    <3>2. \A k \in DOMAIN idle : idle[k] # None
      BY <1>1 DEF PoolAssumption
    <3>3. QED
      BY <1>3, <3>1, <3>2 DEF Acquire, AcquireIdle
  <2>2. QED
    BY <1>1, <1>2, <2>1 DEF TotalWithinLimit, Limit
<1>4. CASE got # None
  <2>1. got \notin active /\ active' = active \cup {got}
    BY <1>1, <1>4 DEF Acquired
  <2>2. Cardinality(active') = Cardinality(active) + 1
    BY <1>1, <2>1, CountActive
  <2>3. \/ Len(idle') + 1 <= Len(idle) /\ Len(idle') \in Nat
        \/ idle' = <<>> /\ Cardinality(active) < MaxConnections
    <3>1. CASE AcquireIdle(got)
      <4>0. DOMAIN idle = 1..Len(idle)
        BY <1>1
      <4>1. PICK k \in 1..Len(idle) : idle' = SubSeq(idle, k + 1, Len(idle))
        BY <3>1, <4>0, Zenon DEF AcquireIdle
      <4>2. Len(idle') = Len(idle) - k
        BY <1>1, <4>1, SuffixElements
      <4>3. QED
        BY <1>1, <4>2
    <3>2. CASE idle' = <<>> /\ Cardinality(active) < MaxConnections
      BY <3>2
    <3>3. QED
      BY <1>4, <3>1, <3>2 DEF Acquire
  <2>4. QED
    BY <1>1, <1>2, <2>2, <2>3 DEF TotalWithinLimit, Limit
<1>5. QED
  BY <1>3, <1>4

\* The deque of Release grows by at most the connection given back.
LEMMA ReleaseCount ==
    ASSUME PoolAssumption, PoolOK, TotalWithinLimit, NEW a \in active, Release(a)
    PROVE  TotalWithinLimit'
<1>1. /\ idle \in Seq(Addr) /\ Len(idle) \in Nat
      /\ active \subseteq Addr /\ a \in Addr
      /\ MaxConnections \in Nat /\ MinConnections \in Nat
  BY DEF PoolOK, ListsTypeOK, PoolAssumption
<1>2. Cardinality(active) \in Nat /\ Cardinality(active') = Cardinality(active) - 1
  BY <1>1, CountActive DEF Release
<1>3. ASSUME NEW q \in Seq(Addr), NEW failed, NEW reset,
             EvictStaleConnections(q, failed, reset)
      PROVE  Len(idle') \in Nat /\ Len(idle') <= Len(q)
  <2>1. PICK n \in 0..Len(q) : \E pos \in [1..n -> DOMAIN q] :
           idle' = [i \in 1..n |-> q[pos[i]]]
    BY <1>3 DEF EvictStaleConnections
  <2>2. PICK pos \in [1..n -> DOMAIN q] : idle' = [i \in 1..n |-> q[pos[i]]]
    BY <2>1
  <2>3. n \in Nat /\ idle' \in [1..n -> Addr]
    BY <2>2
  <2>4. idle' \in Seq(Addr) /\ Len(idle') = n
    BY <2>3, SeqDef
  <2>5. QED
    BY <2>4
<1>4. Append(idle, a) \in Seq(Addr) /\ Len(Append(idle, a)) = Len(idle) + 1
  BY <1>1
<1>5. Len(idle') \in Nat /\ Len(idle') <= Len(idle) + 1
  <2>1. \/ \E failed, reset : EvictStaleConnections(Append(idle, a), failed, reset)
        \/ \E failed, reset : EvictStaleConnections(idle, failed, reset)
    BY DEF Release
  <2>2. CASE \E failed, reset : EvictStaleConnections(Append(idle, a), failed, reset)
    BY <1>1, <1>3, <1>4, <2>2
  <2>3. CASE \E failed, reset : EvictStaleConnections(idle, failed, reset)
    BY <1>1, <1>3, <2>3
  <2>4. QED
    BY <2>1, <2>2, <2>3
<1>6. QED
  BY <1>1, <1>2, <1>5 DEF TotalWithinLimit, Limit

\* A pool with empty lists is within any limits.
LEMMA EmptyCount ==
    ASSUME PoolAssumption
    PROVE  /\ idle = <<>> /\ active = {} => TotalWithinLimit
           /\ idle' = <<>> /\ active' = {} => TotalWithinLimit'
<1>1. Cardinality({}) = 0 /\ 0 + 0 <= Limit
  BY FS_EmptySet DEF Limit, PoolAssumption
<1>2. Len(<<>>) = 0
  OBVIOUS
<1>3. idle = <<>> /\ active = {} => TotalWithinLimit
  BY <1>1, <1>2 DEF TotalWithinLimit
<1>4. idle' = <<>> /\ active' = {} => TotalWithinLimit'
  BY <1>1, <1>2 DEF TotalWithinLimit, Limit
<1>5. QED
  BY <1>3, <1>4

-------------------------------------------------------------------------------
(* Each action.  *)

SlotInv == TotalWithinLimit /\ ActiveIsHeld

\* A step that leaves the lists, the holders and the life of the pool alone.
LEMMA SameSlots ==
    ASSUME SlotInv, UNCHANGED <<idle, active, held, handles>>,
           lifecycle' = "open" => lifecycle = "open"
    PROVE  SlotInv'
BY DEF SlotInv, TotalWithinLimit, ActiveIsHeld

\* The thread that acquires a connection holds it.
LEMMA AcquireForSlots ==
    ASSUME PoolAssumption, IInv, SlotInv, NEW t \in Thread, pc[t] \notin HoldingSteps,
           NEW got \in Addr \cup {None}, NEW s, AcquireFor(t, got, s)
    PROVE  SlotInv'
<1>1. PoolOK /\ CallsTypeOK
  BY TypeParts DEF IInv, PoolOK
<1>2. /\ Acquire(got)
      /\ held' = [held EXCEPT ![t] = got]
      /\ UNCHANGED <<lifecycle, handles>>
  BY DEF AcquireFor
<1>3. Acquired(got) /\ TotalWithinLimit'
  BY <1>1, <1>2, AcquireEffect, AcquireCount DEF SlotInv
<1>4. held[t] = None
  BY DEF IInv, CallsConsistent
<1>5. ActiveIsHeld'
  <2>1. held'[t] = got /\ \A u \in Thread : u # t => held'[u] = held[u]
    BY <1>1, <1>2 DEF CallsTypeOK
  <2>2. \A a \in active' : a \in active \/ a = got
    BY <1>3 DEF Acquired
  <2>3. \A a \in active : a # None
    BY <1>1 DEF PoolOK, ListsTypeOK, PoolAssumption
  <2>4. QED
    BY <1>2, <1>4, <2>1, <2>2, <2>3 DEF SlotInv, ActiveIsHeld
<1>6. QED
  BY <1>3, <1>5 DEF SlotInv

\* Giving a connection back takes it off the active list and from its thread.
LEMMA ReleaseHeldSlots ==
    ASSUME PoolAssumption, IInv, SlotInv, NEW t \in Thread, ReleaseHeld(t)
    PROVE  SlotInv'
<1>1. PoolOK /\ CallsTypeOK
  BY TypeParts DEF IInv, PoolOK
<1>2. /\ Release(held[t])
      /\ active' = active \ {held[t]}
      /\ held' = [held EXCEPT ![t] = None]
      /\ UNCHANGED <<lifecycle, handles>>
  BY DEF ReleaseHeld, Release
<1>3. held[t] \in active
  BY DEF ReleaseHeld, IInv, CallsConsistent, HoldingSteps, ExclusiveHold
<1>4. TotalWithinLimit'
  BY <1>1, <1>2, <1>3, ReleaseCount DEF SlotInv
<1>5. ActiveIsHeld'
  <2>1. \A u \in Thread : u # t => held'[u] = held[u]
    BY <1>1, <1>2 DEF CallsTypeOK
  <2>2. QED
    BY <1>2, <2>1 DEF SlotInv, ActiveIsHeld
<1>6. QED
  BY <1>4, <1>5 DEF SlotInv

\* The object acquireConnection hands out can give its connection back.
LEMMA AcquireConnectionSlots ==
    ASSUME PoolAssumption, IInv, SlotInv, AcquireConnection
    PROVE  SlotInv'
<1>1. PoolOK
  BY TypeParts DEF IInv, PoolOK
<1>2. PICK got \in Addr \cup {None} :
         /\ Acquire(got)
         /\ handles' = IF got = None THEN handles ELSE handles \cup
               {[addr |-> got, token |-> token'[got], released |-> FALSE]}
  BY DEF AcquireConnection
<1>3. Acquired(got) /\ TotalWithinLimit'
  BY <1>1, <1>2, AcquireEffect, AcquireCount DEF SlotInv
<1>4. ActiveIsHeld'
  <2>1. held' = held /\ lifecycle' = lifecycle
    BY DEF AcquireConnection, calls
  <2>2. handles \subseteq handles'
    BY <1>2
  <2>3. got # None => \E h \in handles' : ~h.released /\ h.addr = got
    <3>1. PICK given : given = [addr |-> got, token |-> token'[got], released |-> FALSE]
      OBVIOUS
    <3>2. ~given.released /\ given.addr = got
      BY <3>1
    <3>3. got # None => given \in handles'
      BY <1>2, <3>1
    <3>4. QED
      BY <3>2, <3>3
  <2>4. \A a \in active' : a \in active \/ (got # None /\ a = got)
    BY <1>3 DEF Acquired
  <2>5. QED
    BY <2>1, <2>2, <2>3, <2>4 DEF SlotInv, ActiveIsHeld
<1>5. QED
  BY <1>3, <1>4 DEF SlotInv

\* A handle that is not released is the one that can release its connection.
LEMMA ReleaseConnectionSlots ==
    ASSUME PoolAssumption, IInv, SlotInv, NEW h \in handles, ReleaseConnection(h)
    PROVE  SlotInv'
<1>1. PoolOK
  BY TypeParts DEF IInv, PoolOK
<1>2. /\ ~h.released
      /\ handles' = (handles \ {h}) \cup {[h EXCEPT !.released = TRUE]}
      /\ UNCHANGED <<lifecycle, held>>
  BY DEF ReleaseConnection, MayRelease, calls
<1>3. CASE lifecycle = "open"
  <2>1. h.addr \in active /\ token[h.addr] = h.token
    BY <1>2, <1>3 DEF IInv, ExclusiveHold, Alive
  <2>2. Release(h.addr) /\ active' = active \ {h.addr}
    BY <1>3, <2>1 DEF ReleaseConnection, Release
  <2>3. TotalWithinLimit'
    BY <1>1, <2>1, <2>2, ReleaseCount DEF SlotInv
  <2>4. \A g \in handles : g.addr # h.addr => g \in handles'
    BY <1>2
  <2>5. ActiveIsHeld'
    BY <1>2, <2>2, <2>4 DEF SlotInv, ActiveIsHeld
  <2>6. QED
    BY <2>3, <2>5 DEF SlotInv
<1>4. CASE lifecycle # "open"
  <2>1. UNCHANGED <<idle, active>>
    BY <1>4 DEF ReleaseConnection, lists
  <2>2. QED
    BY <1>2, <1>4, <2>1 DEF SlotInv, TotalWithinLimit, ActiveIsHeld
<1>5. QED
  BY <1>3, <1>4

\* Initialize opens no more than min_connections, for nobody in particular.
LEMMA CreatePoolSlots ==
    ASSUME PoolAssumption, IInv, CreatePool
    PROVE  SlotInv'
<1>1. active = {} /\ active' = {}
  BY DEF CreatePool, IInv, NoPoolNoCalls, Alive
<1>2. PICK n \in 1..MinConnections : idle' \in [1..n -> Addr]
  BY DEF CreatePool
<1>3. n \in Nat /\ n <= MinConnections /\ MinConnections \in Nat /\ MaxConnections \in Nat
  BY DEF PoolAssumption
<1>4. Len(idle') = n
  <2>1. idle' \in Seq(Addr)
    BY <1>2, <1>3, SeqDef
  <2>2. QED
    BY <1>2, <1>3, <2>1
<1>5. Cardinality(active') = 0
  BY <1>1, FS_EmptySet
<1>6. QED
  BY <1>1, <1>3, <1>4, <1>5 DEF SlotInv, TotalWithinLimit, Limit, ActiveIsHeld

\* A step of a call.
LEMMA StepSlots ==
    ASSUME PoolAssumption, IInv, SlotInv, NEW t \in Thread, Step(t)
    PROVE  SlotInv'
<1>1. CASE PrepareAcquire \/ ExecutePreparedAcquire(t)
  <2>1. PICK u \in Thread, got \in Addr \cup {None}, s \in HoldingSteps :
           pc[u] \notin HoldingSteps /\ AcquireFor(u, got, s)
    BY <1>1 DEF PrepareAcquire, ExecutePreparedAcquire, Thread, HoldingSteps
  <2>2. QED
    BY <2>1, AcquireForSlots
<1>2. CASE ReleaseHeld(t)
  BY <1>2, ReleaseHeldSlots
<1>3. CASE PQexec \/ PQprepare(t) \/ LookUpText(t) \/ PQexecPrepared(t)
  <2>1. UNCHANGED <<idle, active, held, handles, lifecycle>>
    BY <1>3 DEF PQexec, PQprepare, LookUpText, PQexecPrepared, lists
  <2>2. QED
    BY <2>1, SameSlots
<1>4. QED
  BY <1>1, <1>2, <1>3 DEF Step

\* Every step keeps both.
LEMMA NextSlots ==
    ASSUME PoolAssumption, IInv, SlotInv, [Next]_vars
    PROVE  SlotInv'
<1>1. CASE CreatePool
  BY <1>1, CreatePoolSlots
<1>2. CASE ExecuteAcquire
  <2>1. PICK got \in Addr \cup {None} : AcquireFor(Main, got, "executing")
    BY <1>2 DEF ExecuteAcquire
  <2>2. Main \in Thread /\ pc[Main] \notin HoldingSteps
    BY <1>2 DEF ExecuteAcquire, MainCanCall, Thread, HoldingSteps
  <2>3. QED
    BY <2>1, <2>2, AcquireForSlots
<1>3. CASE \E t \in Thread : Step(t)
  BY <1>3, StepSlots
<1>4. CASE (\E w \in Worker : AfterThreadPoolWork(w)) \/ DestroyPool
  <2>1. /\ UNCHANGED <<held, handles>>
        /\ \/ lifecycle' = "gone" /\ Destructor
           \/ lifecycle' = "unmapped" /\ UNCHANGED <<idle, active>>
           \/ UNCHANGED <<lifecycle, idle, active>>
    BY <1>4 DEF AfterThreadPoolWork, DestroyPool, calls, lists, Goto
  <2>2. CASE lifecycle' = "gone" /\ Destructor
    BY <2>2, EmptyCount DEF Destructor, SlotInv, ActiveIsHeld
  <2>3. CASE lifecycle' # "gone"
    BY <2>1, <2>3, SameSlots
  <2>4. QED
    BY <2>1, <2>2, <2>3, SameSlots
<1>5. CASE AcquireConnection
  BY <1>5, AcquireConnectionSlots
<1>6. CASE \E h \in handles : ReleaseConnection(h)
  BY <1>6, ReleaseConnectionSlots
<1>7. CASE \/ \E n \in Name, text \in Sql : PrepareStore(n, text)
           \/ \E t \in Thread, n \in Name : StartExecutePrepared(t, n)
           \/ \E a \in Addr : LoseSession(a)
           \/ UNCHANGED vars
  <2>1. UNCHANGED <<idle, active, held, handles, lifecycle>>
    BY <1>7 DEF PrepareStore, StartExecutePrepared, LoseSession, lists, calls, vars
  <2>2. QED
    BY <2>1, SameSlots
<1>8. QED
  BY <1>1, <1>2, <1>3, <1>4, <1>5, <1>6, <1>7 DEF Next

-------------------------------------------------------------------------------
(* The theorems.  *)

\* Both hold in every reachable state.
THEOREM Slots == Spec => []SlotInv
<1>1. Init => SlotInv
  BY PoolAssumption, EmptyCount DEF Init, SlotInv, ActiveIsHeld
<1>2. IInv /\ SlotInv /\ [Next]_vars => SlotInv'
  BY PoolAssumption, NextSlots
<1>3. QED
  BY <1>1, <1>2, Invariance, PTL DEF Spec

\* The pool never has more connections than max_connections, or min_connections
\* where that is larger.
THEOREM LimitRespected == Spec => []TotalWithinLimit
<1>1. SlotInv => TotalWithinLimit
  BY DEF SlotInv
<1>2. QED
  BY <1>1, Slots, PTL

\* While the pool is known, each connection on its active list has a call under
\* way or a JavaScript object that will give it back: no early return, failed
\* prepare or failed reset loses a slot.
THEOREM NoSlotLost == Spec => []ActiveIsHeld
<1>1. SlotInv => ActiveIsHeld
  BY DEF SlotInv
<1>2. QED
  BY <1>1, Slots, PTL

-------------------------------------------------------------------------------
(* What eviction leaves in the deque.  *)

\* Bounded sets of positions have a last one.
LEMMA LastPosition ==
    ASSUME NEW n \in Nat, NEW P \in SUBSET (1..n), P # {}
    PROVE  \E last \in P : \A i \in P : i <= last
<1> DEFINE T == {m \in Nat : n - m \in P}
<1>1. T \subseteq Nat /\ T # {}
  <2>1. PICK i \in P : TRUE
    OBVIOUS
  <2>2. n - i \in Nat /\ n - (n - i) = i
    OBVIOUS
  <2>3. QED
    BY <2>2
<1>2. PICK m \in T : \A k \in T : ~(<<k, m>> \in OpToRel(<, Nat))
  BY <1>1, NatLessThanWellFounded, WFMin
<1>3. \A k \in T : ~(k < m)
  BY <1>1, <1>2 DEF OpToRel
<1>4. n - m \in P
  OBVIOUS
<1>5. ASSUME NEW i \in P
      PROVE  i <= n - m
  <2>1. n - i \in T
    OBVIOUS
  <2>2. QED
    BY <1>3, <2>1
<1>6. QED
  BY <1>4, <1>5

\* The positions of a deque of n connections, and any part of them.
LEMMA PositionCount ==
    ASSUME NEW n \in Nat
    PROVE  /\ IsFiniteSet(1..n)
           /\ Cardinality(1..n) = n
           /\ \A P \in SUBSET (1..n) : IsFiniteSet(P) /\ Cardinality(P) \in Nat
<1>1. 1 \in Int /\ n \in Int
  OBVIOUS
<1>2. IsFiniteSet(1..n) /\ Cardinality(1..n) = IF 1 > n THEN 0 ELSE n - 1 + 1
  BY <1>1, FS_Interval, Zenon
<1>3. Cardinality(1..n) = n
  BY <1>2
<1>4. \A P \in SUBSET (1..n) : IsFiniteSet(P)
  BY <1>2, FS_Subset
<1>5. QED
  BY <1>2, <1>3, <1>4, FS_CardinalityType

\* The scan erases no more than the deque has above min_connections.
LEMMA EvictedBound ==
    ASSUME PoolAssumption, NEW q \in Seq(Addr), NEW expired
    PROVE  /\ IsFiniteSet(Evicted(q, expired))
           /\ Evicted(q, expired) # {} =>
                 Cardinality(Evicted(q, expired)) <= Len(q) - MinConnections
<1> DEFINE E == Evicted(q, expired)
<1>1. E \in SUBSET (1..Len(q)) /\ Len(q) \in Nat /\ MinConnections \in Nat
  BY DEF Evicted, PoolAssumption
<1>2. IsFiniteSet(E) /\ Cardinality(E) \in Nat
  BY <1>1, PositionCount
<1>3. ASSUME E # {}
      PROVE  Cardinality(E) <= Len(q) - MinConnections
  <2>1. PICK last \in E : \A i \in E : i <= last
    BY <1>1, <1>3, LastPosition
  <2> DEFINE C == {j \in 1..last : q[j] \in expired}
  <2>2. last \in Nat /\ Cardinality(C) <= Len(q) - MinConnections
    BY <1>1, <2>1 DEF Evicted
  <2>3. E \in SUBSET C
    BY <1>1, <2>1, <2>2 DEF Evicted
  <2>4. IsFiniteSet(C) /\ Cardinality(C) \in Nat
    BY <2>2, PositionCount
  <2>5. Cardinality(E) <= Cardinality(C)
    BY <2>3, <2>4, FS_Subset
  <2>6. QED
    BY <1>1, <1>2, <2>2, <2>4, <2>5
<1>4. QED
  BY <1>2, <1>3

\* What is left is the whole deque or at least min_connections.
LEMMA EvictLeavesMin ==
    ASSUME PoolAssumption, NEW q \in Seq(Addr), NEW failed, NEW reset,
           EvictStaleConnections(q, failed, reset)
    PROVE  Len(idle') >= Len(q) \/ Len(idle') >= MinConnections
<1>1. PICK expired \in SUBSET Range(q), n \in 0..Len(q) :
         \E pos \in [1..n -> DOMAIN q] :
            /\ {pos[i] : i \in 1..n} = (DOMAIN q) \ Evicted(q, expired)
            /\ idle' = [i \in 1..n |-> q[pos[i]]]
  BY DEF EvictStaleConnections
<1>2. PICK pos \in [1..n -> DOMAIN q] :
         /\ {pos[i] : i \in 1..n} = (DOMAIN q) \ Evicted(q, expired)
         /\ idle' = [i \in 1..n |-> q[pos[i]]]
  BY <1>1
<1> DEFINE E == Evicted(q, expired)
           K == (1..Len(q)) \ E
<1>3. n \in Nat /\ Len(q) \in Nat /\ DOMAIN q = 1..Len(q) /\ MinConnections \in Nat
  BY DEF PoolAssumption
<1>4. Len(idle') = n
  <2>1. \A i \in 1..n : q[pos[i]] \in Addr
    BY <1>2, <1>3
  <2>2. idle' \in Seq(Addr)
    BY <1>2, <1>3, <2>1, SeqDef
  <2>3. QED
    BY <1>2, <1>3, <2>2
<1>5. Cardinality(K) <= n
  <2>1. pos \in Surjection(1..n, K)
    BY <1>2, <1>3 DEF Surjection
  <2>2. QED
    BY <1>3, <2>1, FS_SurjCardinalityBound DEF ExistsSurjection
<1>6. E \in SUBSET (1..Len(q))
  BY <1>3 DEF Evicted
<1>7. /\ IsFiniteSet(1..Len(q))
      /\ Cardinality(1..Len(q)) = Len(q)
  BY <1>3, PositionCount
<1>8. Cardinality(K) = Len(q) - Cardinality(E)
  <2>1. (1..Len(q)) \cap E = E
    BY <1>6
  <2>2. QED
    BY <1>7, <2>1, FS_Difference
<1>9. Cardinality(E) \in Nat /\ (E = {} => Cardinality(E) = 0)
  BY <1>6, <1>7, FS_Subset, FS_CardinalityType, FS_EmptySet
<1>10. E # {} => Cardinality(E) <= Len(q) - MinConnections
  BY EvictedBound
<1>11. QED
  BY <1>3, <1>4, <1>5, <1>8, <1>9, <1>10

\* Release of a connection that is not broken.
LEMMA ReleaseKeepsMin ==
    ASSUME PoolAssumption, PoolOK, NEW a \in active, Release(a), net[a] # "bad"
    PROVE  Len(idle') > Len(idle) \/ Len(idle') >= MinConnections
<1>1. idle \in Seq(Addr) /\ a \in Addr
  BY DEF PoolOK, ListsTypeOK
<1>2. EvictStaleConnections(Append(idle, a), {}, {})
  BY DEF Release
<1>3. Append(idle, a) \in Seq(Addr) /\ Len(Append(idle, a)) = Len(idle) + 1 /\ Len(idle) \in Nat
  BY <1>1
<1>4. Len(idle') >= Len(idle) + 1 \/ Len(idle') >= MinConnections
  BY <1>2, <1>3, EvictLeavesMin
<1>5. Len(idle') \in Nat
  BY <1>1, ReleaseEffect DEF Released, PoolOK, ListsTypeOK
<1>6. QED
  BY <1>3, <1>4, <1>5

\* Giving a healthy connection back leaves more idle ones than before, or no
\* fewer than min_connections, whatever has expired.
THEOREM MinimumKept == Spec => EvictionKeepsMin
<1> DEFINE Keeps == \A a \in active \ active' : lifecycle' # "gone" /\ net[a] # "bad" =>
                       Len(idle') > Len(idle) \/ Len(idle') >= MinConnections
<1>1. IInv /\ [Next]_vars => [Keeps]_vars
  <2> SUFFICES ASSUME IInv, [Next]_vars
               PROVE  Keeps \/ UNCHANGED vars
    OBVIOUS
  <2>1. PoolOK
    BY TypeParts DEF IInv, PoolOK
  <2>2. ASSUME NEW a \in active, Release(a)
        PROVE  Keeps
    <3>1. active \ active' = {a}
      BY <2>2 DEF Release
    <3>2. QED
      BY <2>1, <2>2, <3>1, PoolAssumption, ReleaseKeepsMin
  <2>3. CASE \E t \in Thread : ReleaseHeld(t)
    <3>1. PICK t \in Thread : Release(held[t]) /\ held[t] \in active
      BY <2>3 DEF ReleaseHeld, IInv, CallsConsistent, HoldingSteps, ExclusiveHold
    <3>2. QED
      BY <2>2, <3>1
  <2>4. CASE \E h \in handles : ReleaseConnection(h)
    <3>1. PICK h \in handles : \/ h.addr \in active /\ Release(h.addr)
                               \/ UNCHANGED lists
      BY <2>4 DEF ReleaseConnection
    <3>2. QED
      BY <2>2, <3>1 DEF lists
  <2>5. CASE (\E w \in Worker : AfterThreadPoolWork(w)) \/ DestroyPool
    BY <2>5 DEF AfterThreadPoolWork, DestroyPool, lists
  <2>6. CASE \E t \in Thread : Step(t) /\ ~ReleaseHeld(t)
    <3>1. active \subseteq active'
      BY <2>6 DEF Step, PQexec, PrepareAcquire, PQprepare, ExecutePreparedAcquire, LookUpText,
                  PQexecPrepared, AcquireFor, Acquire, AcquireIdle, lists
    <3>2. QED
      BY <3>1
  <2>7. CASE ExecuteAcquire \/ AcquireConnection
    <3>1. active \subseteq active'
      BY <2>7 DEF ExecuteAcquire, AcquireConnection, AcquireFor, Acquire, AcquireIdle
    <3>2. QED
      BY <3>1
  <2>8. CASE \/ CreatePool
             \/ \E n \in Name, text \in Sql : PrepareStore(n, text)
             \/ \E t \in Thread, n \in Name : StartExecutePrepared(t, n)
             \/ \E a \in Addr : LoseSession(a)
    <3>1. active' = active
      BY <2>8 DEF CreatePool, PrepareStore, StartExecutePrepared, LoseSession, lists
    <3>2. QED
      BY <3>1
  <2>9. QED
    BY <2>3, <2>4, <2>5, <2>6, <2>7, <2>8 DEF Next
<1>2. QED
  BY <1>1, Invariance, PTL DEF Spec, EvictionKeepsMin

(***************************************************************************)
(* Sessions: what a connection believes its server session holds, what a   *)
(* call runs by name, and the statement map.                               *)
(***************************************************************************)

\* A freed address has nothing left over for the next object that lives there.
FreedIsEmpty ==
    \A a \in Addr : token[a] = 0 =>
        prepared[a] = NoStatements /\ session[a] = NoStatements

Sessions == CacheIsSession /\ FreedIsEmpty

\* A call that is about to run its statement has prepared it, and one that is
\* about to prepare it again has found the text.
Ready(t) ==
    /\ pc[t] = "prepared" => prepared[held[t]][name[t]] # None
    /\ pc[t] = "repreparing" => sql[t] # None

CallsReady == \A t \in Thread : Ready(t)

SessionInv == Sessions /\ CallsReady

-------------------------------------------------------------------------------
(* The critical sections.  *)

\* Deletion and reconnection forget on both sides.
LEMMA ReclaimSessions ==
    ASSUME HeapTypeOK, Sessions, NEW freed, NEW reset, Reclaim(freed, reset)
    PROVE  Sessions'
BY DEF HeapTypeOK, Sessions, CacheIsSession, FreedIsEmpty, Reclaim, NoStatements

\* A new connection starts with nothing on both sides.
LEMMA CreateSessions ==
    ASSUME HeapTypeOK, Sessions, NEW freed, NEW a, CreateConnection(a, freed)
    PROVE  Sessions'
BY DEF HeapTypeOK, Sessions, CacheIsSession, FreedIsEmpty, CreateConnection, NoStatements

LEMMA AcquireSessions ==
    ASSUME HeapTypeOK, Sessions, NEW got, Acquire(got)
    PROVE  Sessions'
<1>1. \/ \E freed : Reclaim(freed, {})
      \/ \E freed : CreateConnection(got, freed)
  BY DEF Acquire, AcquireIdle
<1>2. QED
  BY <1>1, ReclaimSessions, CreateSessions

LEMMA ReleaseSessions ==
    ASSUME HeapTypeOK, Sessions, NEW a, Release(a)
    PROVE  Sessions'
<1>1. \E freed, reset : Reclaim(freed, reset)
  BY DEF Release, EvictStaleConnections
<1>2. QED
  BY <1>1, ReclaimSessions

\* A step that leaves the connections alone.
LEMMA SameSessions ==
    ASSUME Sessions, UNCHANGED <<token, net, prepared, session>>
    PROVE  Sessions'
BY DEF Sessions, CacheIsSession, FreedIsEmpty

\* A step of one call leaves the others where they are, because it touches none
\* of the connections they hold.
LEMMA OthersReady ==
    ASSUME IInv, CallsReady, NEW t \in Thread,
           \A u \in Thread : u # t => /\ pc'[u] = pc[u]
                                      /\ held'[u] = held[u]
                                      /\ name'[u] = name[u]
                                      /\ sql'[u] = sql[u],
           \A u \in Thread : u # t /\ held[u] # None => prepared'[held[u]] = prepared[held[u]],
           Ready(t)'
    PROVE  CallsReady'
<1>1. SUFFICES ASSUME NEW u \in Thread, u # t
               PROVE  Ready(u)'
  BY DEF CallsReady
<1>2. pc[u] = "prepared" => held[u] # None
  BY DEF IInv, CallsConsistent, HoldingSteps
<1>3. QED
  BY <1>1, <1>2 DEF CallsReady, Ready

\* A step that changes no call and no connection that a call holds.
LEMMA AllReady ==
    ASSUME IInv, CallsReady, UNCHANGED <<pc, held, name, sql>>,
           \A u \in Thread : held[u] # None => prepared'[held[u]] = prepared[held[u]]
    PROVE  CallsReady'
<1>1. SUFFICES ASSUME NEW u \in Thread
               PROVE  Ready(u)'
  BY DEF CallsReady
<1>2. pc[u] = "prepared" => held[u] # None
  BY DEF IInv, CallsConsistent, HoldingSteps
<1>3. QED
  BY <1>1, <1>2 DEF CallsReady, Ready

-------------------------------------------------------------------------------
(* Each action.  *)

\* A call acquires a connection and goes on where it is ready.
LEMMA AcquireForReady ==
    ASSUME PoolAssumption, IInv, SessionInv, NEW t \in Thread,
           NEW got \in Addr \cup {None}, NEW s, AcquireFor(t, got, s),
           s # "repreparing",
           s = "prepared" => prepared'[got][name[t]] # None
    PROVE  SessionInv'
<1>1. PoolOK /\ HeapTypeOK /\ CallsTypeOK
  BY TypeParts DEF IInv, PoolOK
<1>2. /\ Acquire(got)
      /\ held' = [held EXCEPT ![t] = got]
      /\ IF got = None THEN Return(t) ELSE Goto(t, s)
  BY DEF AcquireFor
<1>3. Sessions' /\ Acquired(got)
  BY <1>1, <1>2, AcquireSessions, AcquireEffect DEF SessionInv
<1>4. \A u \in Thread : held[u] # None => prepared'[held[u]] = prepared[held[u]]
  BY <1>3 DEF Acquired, Undisturbed, IInv, ExclusiveHold
<1>5. \A u \in Thread : u # t => /\ pc'[u] = pc[u]
                                 /\ held'[u] = held[u]
                                 /\ name'[u] = name[u]
                                 /\ sql'[u] = sql[u]
  BY <1>1, <1>2 DEF CallsTypeOK, Return, Goto
<1>6. Ready(t)'
  <2>1. CASE got = None
    BY <1>1, <1>2, <2>1 DEF CallsTypeOK, Return, Ready
  <2>2. CASE got # None
    BY <1>1, <1>2, <2>2 DEF CallsTypeOK, Goto, Ready
  <2>3. QED
    BY <2>1, <2>2
<1>7. QED
  BY <1>3, <1>4, <1>5, <1>6, OthersReady DEF SessionInv

LEMMA ReleaseHeldReady ==
    ASSUME PoolAssumption, IInv, SessionInv, NEW t \in Thread, ReleaseHeld(t)
    PROVE  SessionInv'
<1>1. PoolOK /\ HeapTypeOK /\ CallsTypeOK
  BY TypeParts DEF IInv, PoolOK
<1>2. /\ Release(held[t])
      /\ held' = [held EXCEPT ![t] = None]
      /\ Return(t)
  BY DEF ReleaseHeld
<1>3. held[t] \in active
  BY DEF ReleaseHeld, IInv, CallsConsistent, HoldingSteps, ExclusiveHold
<1>4. Sessions' /\ Released(held[t])
  BY <1>1, <1>2, <1>3, ReleaseSessions, ReleaseEffect DEF SessionInv
<1>5. \A u \in Thread : u # t /\ held[u] # None => prepared'[held[u]] = prepared[held[u]]
  <2>1. \A u \in Thread : u # t /\ held[u] # None => held[u] \in active \ {held[t]}
    BY <1>3 DEF IInv, ExclusiveHold
  <2>2. QED
    BY <1>4, <2>1 DEF Released, Undisturbed
<1>6. /\ \A u \in Thread : u # t => /\ pc'[u] = pc[u]
                                    /\ held'[u] = held[u]
                                    /\ name'[u] = name[u]
                                    /\ sql'[u] = sql[u]
      /\ Ready(t)'
  BY <1>1, <1>2 DEF CallsTypeOK, Return, Ready
<1>7. QED
  BY <1>4, <1>5, <1>6, OthersReady DEF SessionInv

\* PQprepare tells both sides, and only about the connection the call holds.
LEMMA PQprepareReady ==
    ASSUME PoolAssumption, IInv, SessionInv, NEW t \in Thread, PQprepare(t)
    PROVE  SessionInv'
<1>1. HeapTypeOK /\ CallsTypeOK
  BY TypeParts DEF IInv
<1>2. /\ held[t] \in active
      /\ held[t] \in Addr
      /\ token[held[t]] # 0
      /\ name[t] \in Name
  BY TypeParts DEF PQprepare, IInv, CallsConsistent, HoldingSteps, NamingSteps, ExclusiveHold,
     OwnedOnce, ListsTypeOK
<1>3. /\ \A a \in Addr : a # held[t] => /\ prepared'[a] = prepared[a]
                                        /\ session'[a] = session[a]
                                        /\ net'[a] = net[a]
      /\ token' = token
  BY <1>1 DEF PQprepare, HeapTypeOK
<1>4. net'[held[t]] = "ok" => prepared'[held[t]] = session'[held[t]]
  <2>1. net[held[t]] = "ok" => prepared[held[t]] = session[held[t]]
    BY <1>2 DEF SessionInv, Sessions, CacheIsSession
  <2>2. CASE net' = [net EXCEPT ![held[t]] = "bad"]
    BY <1>1, <1>2, <2>2 DEF HeapTypeOK
  <2>3. CASE UNCHANGED <<net, prepared, session>>
    BY <2>1, <2>3
  <2>4. CASE /\ net[held[t]] = "ok"
             /\ prepared' = [prepared EXCEPT ![held[t]][name[t]] = sql[t]]
             /\ session' = [session EXCEPT ![held[t]][name[t]] = sql[t]]
    <3>1. /\ prepared'[held[t]] = [prepared[held[t]] EXCEPT ![name[t]] = sql[t]]
          /\ session'[held[t]] = [session[held[t]] EXCEPT ![name[t]] = sql[t]]
      BY <1>1, <1>2, <2>4 DEF HeapTypeOK
    <3>2. QED
      BY <2>1, <2>4, <3>1
  <2>5. QED
    BY <2>2, <2>3, <2>4 DEF PQprepare
<1>5. Sessions'
  BY <1>2, <1>3, <1>4 DEF SessionInv, Sessions, CacheIsSession, FreedIsEmpty
<1>6. UNCHANGED <<held, name, sql>> /\ \A u \in Thread : u # t => pc'[u] = pc[u]
  BY <1>1 DEF PQprepare, Goto, CallsTypeOK
<1>7. \A u \in Thread : u # t /\ held[u] # None => prepared'[held[u]] = prepared[held[u]]
  BY <1>2, <1>3, TypeParts DEF IInv, ExclusiveHold, ListsTypeOK
<1>8. Ready(t)'
  <2>1. pc'[t] # "repreparing"
    BY <1>1 DEF PQprepare, Goto, CallsTypeOK
  <2>2. pc'[t] = "prepared" => /\ pc[t] = "repreparing"
                               /\ prepared'[held[t]][name[t]] = sql[t]
    BY <1>1, <1>2 DEF PQprepare, Goto, CallsTypeOK, HeapTypeOK
  <2>3. QED
    BY <1>6, <2>1, <2>2 DEF SessionInv, CallsReady, Ready
<1>9. QED
  BY <1>5, <1>6, <1>7, <1>8, OthersReady DEF SessionInv

\* The libpq calls that run something only find out whether the session lives.
LEMMA ExecReady ==
    ASSUME PoolAssumption, IInv, SessionInv, NEW t \in Thread,
           (t = Main /\ PQexec) \/ PQexecPrepared(t)
    PROVE  SessionInv'
<1>1. HeapTypeOK /\ CallsTypeOK
  BY TypeParts DEF IInv
<1>2. /\ UNCHANGED <<token, prepared, session, held, name, sql>>
      /\ net' = net \/ net' = [net EXCEPT ![held[t]] = "bad"]
      /\ pc' = [pc EXCEPT ![t] = "releasing"]
  BY DEF PQexec, PQexecPrepared, Goto
<1>3. Sessions'
  BY <1>1, <1>2 DEF HeapTypeOK, SessionInv, Sessions, CacheIsSession, FreedIsEmpty
<1>4. Ready(t)' /\ \A u \in Thread : u # t => pc'[u] = pc[u]
  BY <1>1, <1>2 DEF CallsTypeOK, Ready
<1>5. QED
  BY <1>2, <1>3, <1>4, OthersReady DEF SessionInv

LEMMA LookUpTextReady ==
    ASSUME PoolAssumption, IInv, SessionInv, NEW t \in Thread, LookUpText(t)
    PROVE  SessionInv'
<1>1. CallsTypeOK
  BY TypeParts DEF IInv
<1>2. Sessions'
  BY SameSessions DEF LookUpText, heap, SessionInv
<1>3. /\ Ready(t)'
      /\ \A u \in Thread : u # t => pc'[u] = pc[u] /\ sql'[u] = sql[u]
      /\ UNCHANGED <<held, name, prepared>>
  BY <1>1 DEF LookUpText, CallsTypeOK, Ready, heap
<1>4. QED
  BY <1>2, <1>3, OthersReady DEF SessionInv

\* A step of a call.
LEMMA StepReady ==
    ASSUME PoolAssumption, IInv, SessionInv, NEW t \in Thread, Step(t)
    PROVE  SessionInv'
<1>1. CASE PrepareAcquire
  <2>1. PICK got \in Addr \cup {None}, s \in {"releasing", "preparing"} :
           AcquireFor(Main, got, s)
    BY <1>1 DEF PrepareAcquire
  <2>2. QED
    BY <2>1, AcquireForReady DEF Thread
<1>2. CASE ExecutePreparedAcquire(t)
  <2>1. PICK got \in Addr \cup {None} :
           AcquireFor(t, got, IF prepared'[got][name[t]] = None THEN "looking" ELSE "prepared")
    BY <1>2 DEF ExecutePreparedAcquire
  <2>2. QED
    BY <2>1, AcquireForReady
<1>3. CASE PQprepare(t)
  BY <1>3, PQprepareReady
<1>4. CASE LookUpText(t)
  BY <1>4, LookUpTextReady
<1>5. CASE ReleaseHeld(t)
  BY <1>5, ReleaseHeldReady
<1>6. CASE (t = Main /\ PQexec) \/ PQexecPrepared(t)
  BY <1>6, ExecReady
<1>7. QED
  BY <1>1, <1>2, <1>3, <1>4, <1>5, <1>6 DEF Step

\* createPool finds only addresses where nothing is left over.
LEMMA CreatePoolReady ==
    ASSUME PoolAssumption, IInv, SessionInv, CreatePool
    PROVE  SessionInv'
<1>1. UNCHANGED <<prepared, session, pc, held, name, sql>>
  BY DEF CreatePool, calls
<1>2. \A a \in Addr : token[a] = 0
  BY DEF CreatePool, IInv, OwnedOnce, NoPoolNoCalls, Alive, Range
<1>3. \A a \in Addr : prepared[a] = NoStatements /\ session[a] = NoStatements
  BY <1>2 DEF SessionInv, Sessions, FreedIsEmpty
<1>4. Sessions'
  BY <1>1, <1>3 DEF Sessions, CacheIsSession, FreedIsEmpty, NoStatements
<1>5. QED
  BY <1>1, <1>4, AllReady DEF SessionInv

\* acquireConnection and releaseConnection touch no connection a call holds.
LEMMA HandleReady ==
    ASSUME PoolAssumption, IInv, SessionInv,
           AcquireConnection \/ \E h \in handles : ReleaseConnection(h)
    PROVE  SessionInv'
<1>1. PoolOK /\ HeapTypeOK
  BY TypeParts DEF IInv, PoolOK
<1>2. UNCHANGED <<pc, held, name, sql>>
  BY DEF AcquireConnection, ReleaseConnection, calls
<1>3. CASE AcquireConnection
  <2>1. PICK got \in Addr \cup {None} : Acquire(got)
    BY <1>3 DEF AcquireConnection
  <2>2. Sessions' /\ Acquired(got)
    BY <1>1, <2>1, AcquireSessions, AcquireEffect DEF SessionInv
  <2>3. \A u \in Thread : held[u] # None => prepared'[held[u]] = prepared[held[u]]
    BY <2>2 DEF Acquired, Undisturbed, IInv, ExclusiveHold
  <2>4. QED
    BY <1>2, <2>2, <2>3, AllReady DEF SessionInv
<1>4. ASSUME NEW h \in handles, ReleaseConnection(h)
      PROVE  SessionInv'
  <2>1. CASE lifecycle = "open" /\ h.addr \in active /\ token[h.addr] = h.token
    <3>1. Release(h.addr) /\ ~h.released
      BY <1>4, <2>1 DEF ReleaseConnection, MayRelease
    <3>2. Sessions' /\ Released(h.addr)
      BY <1>1, <2>1, <3>1, ReleaseSessions, ReleaseEffect DEF SessionInv
    <3>3. \A u \in Thread : held[u] # None => held[u] \in active \ {h.addr}
      BY <1>4, <2>1, <3>1 DEF IInv, ExclusiveHold, Alive
    <3>4. \A u \in Thread : held[u] # None => prepared'[held[u]] = prepared[held[u]]
      BY <3>2, <3>3 DEF Released, Undisturbed
    <3>5. QED
      BY <1>2, <3>2, <3>4, AllReady DEF SessionInv
  <2>2. CASE UNCHANGED heap
    BY <1>2, <2>2, SameSessions, AllReady DEF heap, SessionInv
  <2>3. QED
    BY <1>4, <2>1, <2>2 DEF ReleaseConnection
<1>5. QED
  BY <1>3, <1>4

\* The end of the pool, when no call is inside it.
LEMMA EndReady ==
    ASSUME PoolAssumption, IInv, SessionInv,
           (\E w \in Worker : AfterThreadPoolWork(w)) \/ DestroyPool
    PROVE  SessionInv'
<1>1. HeapTypeOK /\ CallsTypeOK
  BY TypeParts DEF IInv
<1>2. Destructor \/ UNCHANGED heap
  BY DEF AfterThreadPoolWork, DestroyPool
<1>3. Sessions'
  BY <1>1, <1>2, ReclaimSessions, SameSessions DEF Destructor, heap, SessionInv
<1>4. CASE UNCHANGED heap
  <2>1. UNCHANGED <<held, name, sql, prepared>>
    BY <1>4 DEF AfterThreadPoolWork, DestroyPool, Goto, calls, heap
  <2>2. \A u \in Thread : pc'[u] = pc[u] \/ pc'[u] = "none"
    BY <1>1 DEF AfterThreadPoolWork, DestroyPool, Goto, calls, CallsTypeOK
  <2>3. QED
    BY <1>3, <2>1, <2>2 DEF SessionInv, CallsReady, Ready
<1>5. CASE Destructor /\ ~(UNCHANGED heap)
  <2>1. \A u \in Thread : pc'[u] = "none"
    <3>1. CASE DestroyPool
      BY <1>5, <3>1 DEF DestroyPool, MainCanCall, calls, Thread
    <3>2. ASSUME NEW w \in Worker, AfterThreadPoolWork(w)
          PROVE  \A u \in Thread : pc'[u] = "none"
      <4>1. \A v \in Worker \ {w} : pc[v] = "none"
        BY <1>5, <3>2 DEF AfterThreadPoolWork
      <4>2. QED
        BY <1>1, <3>2, <4>1 DEF AfterThreadPoolWork, Goto, CallsTypeOK, Thread
    <3>3. QED
      BY <3>1, <3>2
  <2>2. QED
    BY <1>3, <2>1 DEF SessionInv, CallsReady, Ready
<1>6. QED
  BY <1>2, <1>4, <1>5

\* A call begins, or a session is lost.
LEMMA OtherReady ==
    ASSUME PoolAssumption, IInv, SessionInv,
           \/ \E n \in Name, text \in Sql : PrepareStore(n, text)
           \/ \E t \in Thread, n \in Name : StartExecutePrepared(t, n)
           \/ \E a \in Addr : LoseSession(a)
    PROVE  SessionInv'
<1>1. HeapTypeOK /\ CallsTypeOK
  BY TypeParts DEF IInv
<1>2. ASSUME NEW a \in Addr, LoseSession(a)
      PROVE  SessionInv'
  <2>1. UNCHANGED <<token, prepared, pc, held, name, sql>>
    BY <1>2 DEF LoseSession, calls
  <2>2. Sessions'
    BY <1>1, <1>2, <2>1 DEF LoseSession, SessionInv, Sessions, CacheIsSession, FreedIsEmpty, HeapTypeOK
  <2>3. QED
    BY <2>1, <2>2, AllReady DEF SessionInv
<1>3. ASSUME NEW n \in Name, NEW text \in Sql, PrepareStore(n, text)
      PROVE  SessionInv'
  <2>1. /\ UNCHANGED <<token, net, prepared, session, held>>
        /\ pc' = [pc EXCEPT ![Main] = "stored"]
        /\ name' = [name EXCEPT ![Main] = n]
        /\ sql' = [sql EXCEPT ![Main] = text]
    BY <1>3 DEF PrepareStore, heap
  <2>2. Sessions'
    BY <2>1, SameSessions DEF SessionInv
  <2>3. Main \in Thread /\ Ready(Main)'
    BY <1>1, <2>1 DEF CallsTypeOK, Ready, Thread
  <2>4. \A u \in Thread : u # Main => pc'[u] = pc[u] /\ name'[u] = name[u] /\ sql'[u] = sql[u]
    BY <1>1, <2>1 DEF CallsTypeOK
  <2>5. QED
    BY <2>1, <2>2, <2>3, <2>4, OthersReady DEF SessionInv
<1>4. ASSUME NEW t \in Thread, NEW n \in Name, StartExecutePrepared(t, n)
      PROVE  SessionInv'
  <2>1. /\ UNCHANGED <<token, net, prepared, session, held, sql>>
        /\ pc' = [pc EXCEPT ![t] = "queued"]
        /\ name' = [name EXCEPT ![t] = n]
    BY <1>4 DEF StartExecutePrepared, heap
  <2>2. Sessions'
    BY <2>1, SameSessions DEF SessionInv
  <2>3. Ready(t)' /\ \A u \in Thread : u # t => pc'[u] = pc[u] /\ name'[u] = name[u]
    BY <1>1, <2>1 DEF CallsTypeOK, Ready
  <2>4. QED
    BY <2>1, <2>2, <2>3, OthersReady DEF SessionInv
<1>5. QED
  BY <1>2, <1>3, <1>4

\* Every step keeps the sessions.
LEMMA NextSessions ==
    ASSUME PoolAssumption, IInv, SessionInv, [Next]_vars
    PROVE  SessionInv'
<1>1. CASE ExecuteAcquire
  <2>1. PICK got \in Addr \cup {None} : AcquireFor(Main, got, "executing")
    BY <1>1 DEF ExecuteAcquire
  <2>2. QED
    BY <2>1, AcquireForReady DEF Thread
<1>2. CASE UNCHANGED vars
  BY <1>2, SameSessions, AllReady DEF vars, heap, calls, SessionInv
<1>3. QED
  BY <1>1, <1>2, CreatePoolReady, StepReady, EndReady, HandleReady, OtherReady DEF Next

-------------------------------------------------------------------------------
(* The statement map.  *)

\* The order without its oldest name.
LEMMA TailOfDistinct ==
    ASSUME NEW S, NEW q \in Seq(S), IsInjective(q), q # <<>>
    PROVE  /\ Tail(q) \in Seq(S)
           /\ IsInjective(Tail(q))
           /\ Range(Tail(q)) = Range(q) \ {Head(q)}
           /\ Len(Tail(q)) = Len(q) - 1
           /\ Head(q) \in Range(q)
<1>1. /\ Len(q) \in Nat \ {0}
      /\ Tail(q) \in Seq(S)
      /\ Len(Tail(q)) = Len(q) - 1
      /\ Head(q) = q[1]
      /\ \A i \in 1..(Len(q) - 1) : Tail(q)[i] = q[i + 1]
      /\ DOMAIN q = 1..Len(q)
      /\ DOMAIN Tail(q) = 1..(Len(q) - 1)
  OBVIOUS
<1>2. \A i, j \in 1..Len(q) : q[i] = q[j] => i = j
  BY <1>1 DEF IsInjective
<1>3. IsInjective(Tail(q))
  <2>1. SUFFICES ASSUME NEW i \in 1..(Len(q) - 1), NEW j \in 1..(Len(q) - 1),
                        Tail(q)[i] = Tail(q)[j]
                 PROVE  i = j
    BY <1>1 DEF IsInjective
  <2>2. i + 1 \in 1..Len(q) /\ j + 1 \in 1..Len(q) /\ q[i + 1] = q[j + 1]
    BY <1>1, <2>1
  <2>3. i + 1 = j + 1
    BY <1>2, <2>2
  <2>4. QED
    BY <1>1, <2>3
<1>4. Range(Tail(q)) \subseteq Range(q) \ {Head(q)}
  <2>1. SUFFICES ASSUME NEW i \in 1..(Len(q) - 1)
                 PROVE  Tail(q)[i] \in Range(q) /\ Tail(q)[i] # Head(q)
    BY <1>1 DEF Range
  <2>2. i + 1 \in 1..Len(q) /\ Tail(q)[i] = q[i + 1] /\ i + 1 # 1 /\ 1 \in 1..Len(q)
    BY <1>1
  <2>3. QED
    BY <1>1, <1>2, <2>2 DEF Range
<1>5. Range(q) \ {Head(q)} \subseteq Range(Tail(q))
  <2>1. SUFFICES ASSUME NEW i \in 1..Len(q), i # 1
                 PROVE  q[i] \in Range(Tail(q))
    BY <1>1 DEF Range
  <2>2. i - 1 \in 1..(Len(q) - 1) /\ Tail(q)[i - 1] = q[i]
    BY <1>1, <2>1
  <2>3. QED
    BY <1>1, <2>2 DEF Range
<1>6. QED
  BY <1>1, <1>3, <1>4, <1>5 DEF Range

\* Prepare records a text and makes room for a new name.
LEMMA PrepareStoreIndex ==
    ASSUME PoolAssumption, IInv, StatementIndex, NEW n \in Name, NEW text \in Sql,
           PrepareStore(n, text)
    PROVE  StatementIndex'
<1>1. /\ statement_sql \in [Name -> Sql \cup {None}]
      /\ statement_sql_order \in Seq(Name)
      /\ text # None
  BY TypeParts DEF IInv, CallsTypeOK, PoolAssumption
<1>2. /\ IsInjective(statement_sql_order)
      /\ Range(statement_sql_order) = {m \in Name : statement_sql[m] # None}
      /\ Len(statement_sql_order) <= StatementCacheSize
      /\ StatementCacheSize \in Nat \ {0}
  BY DEF StatementIndex, PoolAssumption
<1>3. CASE statement_sql[n] # None
  <2>1. /\ statement_sql_order' = statement_sql_order
        /\ \A m \in Name : statement_sql'[m] = IF m = n THEN text ELSE statement_sql[m]
    BY <1>3 DEF PrepareStore
  <2>2. {m \in Name : statement_sql'[m] # None} = {m \in Name : statement_sql[m] # None}
    BY <1>1, <1>3, <2>1
  <2>3. QED
    BY <1>2, <2>1, <2>2 DEF StatementIndex
<1>4. CASE statement_sql[n] = None /\ Len(statement_sql_order) < StatementCacheSize
  <2>1. /\ statement_sql_order' = Append(statement_sql_order, n)
        /\ \A m \in Name : statement_sql'[m] = IF m = n THEN text ELSE statement_sql[m]
    BY <1>1, <1>2, <1>4 DEF PrepareStore
  <2>2. /\ IsInjective(statement_sql_order')
        /\ Range(statement_sql_order') = Range(statement_sql_order) \cup {n}
    BY <1>1, <1>2, <1>4, <2>1, AppendOfDistinct
  <2>3. Len(statement_sql_order') <= StatementCacheSize
    BY <1>1, <1>2, <1>4, <2>1
  <2>4. {m \in Name : statement_sql'[m] # None}
           = {m \in Name : statement_sql[m] # None} \cup {n}
    BY <1>1, <2>1
  <2>5. QED
    BY <1>2, <2>2, <2>3, <2>4 DEF StatementIndex
<1>5. CASE statement_sql[n] = None /\ Len(statement_sql_order) >= StatementCacheSize
  <2> DEFINE oldest == Head(statement_sql_order)
             rest == Tail(statement_sql_order)
  <2>1. /\ statement_sql_order' = Append(rest, n)
        /\ \A m \in Name : statement_sql'[m] =
              IF m = n THEN text ELSE IF m = oldest THEN None ELSE statement_sql[m]
    BY <1>5 DEF PrepareStore
  <2>2. statement_sql_order # <<>>
    BY <1>2, <1>5
  <2>3. /\ rest \in Seq(Name)
        /\ IsInjective(rest)
        /\ Range(rest) = Range(statement_sql_order) \ {oldest}
        /\ Len(rest) = Len(statement_sql_order) - 1
        /\ oldest \in Range(statement_sql_order)
    BY <1>1, <1>2, <2>2, TailOfDistinct
  <2>4. n \notin Range(rest) /\ n # oldest
    BY <1>2, <1>5, <2>3
  <2> HIDE DEF oldest, rest
  <2>5. /\ IsInjective(statement_sql_order')
        /\ Range(statement_sql_order') = Range(rest) \cup {n}
    BY <2>1, <2>3, <2>4, AppendOfDistinct
  <2>6. Len(statement_sql_order') <= StatementCacheSize
    BY <1>1, <1>2, <2>1, <2>3
  <2>7. {m \in Name : statement_sql'[m] # None}
           = ({m \in Name : statement_sql[m] # None} \ {oldest}) \cup {n}
    BY <1>1, <2>1, <2>4
  <2>8. QED
    BY <1>2, <2>3, <2>5, <2>6, <2>7 DEF StatementIndex
<1>6. QED
  BY <1>1, <1>2, <1>3, <1>4, <1>5

\* The empty map, which is what the destructor leaves.
LEMMA EmptyIndex ==
    ASSUME PoolAssumption
    PROVE  /\ statement_sql = NoStatements /\ statement_sql_order = <<>> => StatementIndex
           /\ (statement_sql = NoStatements /\ statement_sql_order = <<>> => StatementIndex)'
<1>1. IsInjective(<<>>) /\ Range(<<>>) = {} /\ Len(<<>>) = 0
  BY DEF IsInjective, Range
<1>2. 0 <= StatementCacheSize
  BY DEF PoolAssumption
<1>3. {m \in Name : NoStatements[m] # None} = {}
  BY DEF NoStatements
<1>4. QED
  BY <1>1, <1>2, <1>3 DEF StatementIndex

LEMMA NextIndex ==
    ASSUME PoolAssumption, IInv, StatementIndex, [Next]_vars
    PROVE  StatementIndex'
<1>1. CASE \E n \in Name, text \in Sql : PrepareStore(n, text)
  BY <1>1, PrepareStoreIndex
<1>2. CASE (\E w \in Worker : AfterThreadPoolWork(w)) \/ DestroyPool
  <2>1. Destructor \/ UNCHANGED <<statement_sql, statement_sql_order>>
    BY <1>2 DEF AfterThreadPoolWork, DestroyPool, statements
  <2>2. QED
    BY <2>1, EmptyIndex DEF Destructor, StatementIndex
<1>3. CASE \/ CreatePool
           \/ ExecuteAcquire
           \/ AcquireConnection
           \/ \E t \in Thread, n \in Name : StartExecutePrepared(t, n)
           \/ \E h \in handles : ReleaseConnection(h)
           \/ \E a \in Addr : LoseSession(a)
           \/ UNCHANGED vars
  <2>1. UNCHANGED <<statement_sql, statement_sql_order>>
    BY <1>3 DEF CreatePool, ExecuteAcquire, AcquireFor, AcquireConnection, StartExecutePrepared,
                ReleaseConnection, LoseSession, statements, vars
  <2>2. QED
    BY <2>1 DEF StatementIndex
<1>4. CASE \E t \in Thread : Step(t)
  <2>1. UNCHANGED <<statement_sql, statement_sql_order>>
    BY <1>4 DEF Step, PQexec, PrepareAcquire, PQprepare, ExecutePreparedAcquire, LookUpText,
                PQexecPrepared, ReleaseHeld, AcquireFor, statements
  <2>2. QED
    BY <2>1 DEF StatementIndex
<1>5. QED
  BY <1>1, <1>2, <1>3, <1>4 DEF Next

-------------------------------------------------------------------------------
(* The theorems.  *)

\* Both parts of the invariant hold in every reachable state.
THEOREM SessionInvariance == Spec => []SessionInv
<1>1. Init => SessionInv
  BY DEF Init, SessionInv, Sessions, CacheIsSession, FreedIsEmpty, CallsReady, Ready, NoStatements
<1>2. IInv /\ SessionInv /\ [Next]_vars => SessionInv'
  BY PoolAssumption, NextSessions
<1>3. QED
  BY <1>1, <1>2, Invariance, PTL DEF Spec

\* What a live connection believes it has prepared is what its session holds:
\* through reconnects, failed prepares, evictions and reused addresses.
THEOREM CacheIsCoherent == Spec => []CacheIsSession
<1>1. SessionInv => CacheIsSession
  BY DEF SessionInv, Sessions
<1>2. QED
  BY <1>1, SessionInvariance, PTL

\* A call that runs a statement by name finds it on the session it runs it on,
\* whichever connection it was given and whatever became of it before.
THEOREM NamesAreReady == Spec => []ReadyToExecute
<1>1. IInv /\ SessionInv => ReadyToExecute
  <2>1. SUFFICES ASSUME IInv, SessionInv, NEW t \in Thread, pc[t] = "prepared",
                        net[held[t]] = "ok"
                 PROVE  session[held[t]][name[t]] # None
    BY DEF ReadyToExecute
  <2>2. held[t] \in Addr
    BY <2>1, TypeParts DEF IInv, CallsConsistent, HoldingSteps, CallsTypeOK
  <2>3. prepared[held[t]] = session[held[t]] /\ prepared[held[t]][name[t]] # None
    BY <2>1, <2>2 DEF SessionInv, Sessions, CacheIsSession, CallsReady, Ready
  <2>4. QED
    BY <2>3
<1>2. QED
  BY <1>1, SessionInvariance, Invariance, PTL

\* The statement map and its eviction order agree, and stay within the cap.
THEOREM IndexAgrees == Spec => []StatementIndex
<1>1. Init => StatementIndex
  BY PoolAssumption, EmptyIndex DEF Init
<1>2. IInv /\ StatementIndex /\ [Next]_vars => StatementIndex'
  BY PoolAssumption, NextIndex
<1>3. QED
  BY <1>1, <1>2, Invariance, PTL DEF Spec


(***************************************************************************)
(* The pool implements ConnectionLending: each critical section is one     *)
(* lending step on the tokens of the two lists, and every other step of a  *)
(* call is a stutter.                                                      *)
(***************************************************************************)

\* The abstract state, as the instance of ConnectionLending reads it.
Free == {token[a] : a \in Range(idle)}
Lent == {token[a] : a \in active}

RefInv == IInv /\ TokensIssued /\ FirstToken

\* Objects are deleted or left alone.
OnlyDeleted(others) == \A a \in others : token'[a] \in {0, token[a]}

-------------------------------------------------------------------------------
(* What the critical sections do to the tokens.  *)

\* Deletions and reconnects issue no token.
LEMMA ReclaimTokens ==
    ASSUME NEW freed, NEW reset, Reclaim(freed, reset)
    PROVE  OnlyDeleted(Addr) /\ nextToken' = nextToken
BY DEF Reclaim, OnlyDeleted

\* A new connection gets the next token.
LEMMA CreateTokens ==
    ASSUME NEW freed, NEW a, CreateConnection(a, freed)
    PROVE  /\ a \in Addr
           /\ token'[a] = nextToken
           /\ nextToken' = nextToken + 1
           /\ OnlyDeleted(Addr \ {a})
BY DEF CreateConnection, OnlyDeleted

\* The three outcomes of Acquire.
AcquiredIdle(got) ==
    /\ got \in Range(idle)
    /\ Range(idle') \subseteq Range(idle) \ {got}
    /\ nextToken' = nextToken
    /\ OnlyDeleted(Addr)

AcquiredNew(got) ==
    /\ got \in Addr
    /\ idle' = <<>>
    /\ token'[got] = nextToken
    /\ nextToken' = nextToken + 1
    /\ OnlyDeleted(Addr \ {got})

AcquiredNone ==
    /\ idle' = <<>>
    /\ nextToken' = nextToken
    /\ OnlyDeleted(Addr)

LEMMA AcquireTokens ==
    ASSUME PoolAssumption, PoolOK, NEW got \in Addr \cup {None}, Acquire(got)
    PROVE  \/ got # None /\ (AcquiredIdle(got) \/ AcquiredNew(got))
           \/ got = None /\ AcquiredNone
<1>1. /\ idle \in Seq(Addr)
      /\ IsInjective(idle)
      /\ Range(idle) \subseteq Addr
      /\ Len(idle) \in Nat
      /\ DOMAIN idle = 1..Len(idle)
  <2>1. idle \in Seq(Addr) /\ IsInjective(idle)
    BY DEF PoolOK, ListsTypeOK, OwnedOnce
  <2>2. QED
    BY <2>1 DEF Range
<1>2. CASE AcquireIdle(got)
  <2>1. PICK k \in 1..Len(idle), popped \in SUBSET Addr :
           /\ popped = {idle[j] : j \in 1..(k - 1)}
           /\ got = idle[k]
           /\ idle' = SubSeq(idle, k + 1, Len(idle))
           /\ Reclaim(popped, {})
    <3>1. PICK k \in 1..Len(idle) :
             /\ got = idle[k]
             /\ idle' = SubSeq(idle, k + 1, Len(idle))
             /\ Reclaim({idle[j] : j \in 1..(k - 1)}, {})
      BY <1>1, <1>2 DEF AcquireIdle
    <3>2. {idle[j] : j \in 1..(k - 1)} \in SUBSET Addr
      BY <1>1
    <3>3. QED
      BY <3>1, <3>2
  <2>4. /\ idle' \in Seq(Addr)
        /\ Len(idle') = Len(idle) - k
        /\ \A i \in 1..(Len(idle) - k) : idle'[i] = idle[k + i]
    BY <1>1, <2>1, SuffixElements
  <2>5. /\ IsInjective(idle')
        /\ idle[k] \in Range(idle)
        /\ idle[k] \notin popped
        /\ popped \subseteq Range(idle)
        /\ Range(idle') = Range(idle) \ (popped \cup {idle[k]})
    <3>1. IsInjective(idle)
      BY <1>1
    <3>2. idle \in Seq(Addr) /\ k \in 1..Len(idle)
      BY <1>1
    <3>3. \A x : x \in popped <=> \E j \in 1..(k - 1) : x = idle[j]
      BY <2>1
    <3>4. QED
      BY <2>4, <3>1, <3>2, <3>3, SuffixOfDistinct
  <2>6. OnlyDeleted(Addr) /\ nextToken' = nextToken
    BY <2>1, ReclaimTokens
  <2>7. got # None
    BY <1>1, <2>1, <2>5 DEF PoolAssumption
  <2>8. QED
    BY <2>1, <2>5, <2>6, <2>7 DEF AcquiredIdle
<1>3. CASE idle' = <<>> /\ CreateConnection(got, Range(idle))
  <2>1. got \in Addr /\ AcquiredNew(got)
    BY <1>3, CreateTokens DEF AcquiredNew
  <2>2. QED
    BY <2>1 DEF PoolAssumption
<1>4. CASE idle' = <<>> /\ got = None /\ Reclaim(Range(idle), {})
  BY <1>4, ReclaimTokens DEF AcquiredNone
<1>5. QED
  BY <1>2, <1>3, <1>4 DEF Acquire

\* Release puts at most one more connection in the deque, and issues no token.
LEMMA ReleaseTokens ==
    ASSUME PoolAssumption, PoolOK, NEW a \in active, Release(a)
    PROVE  /\ Range(idle') \subseteq Range(idle) \cup {a}
           /\ nextToken' = nextToken
           /\ OnlyDeleted(Addr)
<1>1. /\ HeapTypeOK
      /\ idle \in Seq(Addr)
      /\ IsInjective(idle)
      /\ a \in Addr
      /\ a \notin Range(idle)
  BY DEF PoolOK, ListsTypeOK, OwnedOnce
<1>2. ASSUME NEW q \in Seq(Addr), IsInjective(q), Range(q) \subseteq Range(idle) \cup {a},
             NEW failed \in SUBSET Addr, NEW reset \in SUBSET Addr,
             EvictStaleConnections(q, failed, reset)
      PROVE  /\ Range(idle') \subseteq Range(idle) \cup {a}
             /\ nextToken' = nextToken
             /\ OnlyDeleted(Addr)
  <2>1. Range(idle') \subseteq Range(q)
    BY <1>1, <1>2, EvictEffect DEF Trimmed
  <2>2. PICK freed : Reclaim(freed, reset)
    BY <1>2 DEF EvictStaleConnections
  <2>3. QED
    BY <1>2, <2>1, <2>2, ReclaimTokens
<1>3. /\ Append(idle, a) \in Seq(Addr)
      /\ IsInjective(Append(idle, a))
      /\ Range(Append(idle, a)) = Range(idle) \cup {a}
  BY <1>1, AppendOfDistinct
<1>4. \E failed, reset \in SUBSET Addr :
         \/ EvictStaleConnections(Append(idle, a), failed, reset)
         \/ EvictStaleConnections(idle, failed, reset)
  <2>1. {} \in SUBSET Addr /\ {a} \in SUBSET Addr
    BY <1>1
  <2>2. QED
    BY <2>1 DEF Release
<1>5. QED
  BY <1>1, <1>2, <1>3, <1>4

-------------------------------------------------------------------------------
(* From the tokens to lending steps.  *)

\* The tokens stay in order, and distinct, when objects are only deleted.
LEMMA DeletionKeepsTokens ==
    ASSUME TokensIssued, OnlyDeleted(Addr), nextToken' = nextToken, nextToken \in Nat \ {0}
    PROVE  TokensIssued'
BY DEF TokensIssued, OnlyDeleted

\* Acquire is a lending step, and keeps the tokens in order.
LEMMA AcquireRefines ==
    ASSUME PoolAssumption, PoolOK, TokensIssued, NEW got \in Addr \cup {None}, Acquire(got)
    PROVE  Lending!Next /\ TokensIssued'
<1>1. /\ Acquired(got)
      /\ \/ got # None /\ (AcquiredIdle(got) \/ AcquiredNew(got))
         \/ got = None /\ AcquiredNone
  BY AcquireEffect, AcquireTokens
<1>2. /\ Range(idle) \subseteq Addr /\ active \subseteq Addr
      /\ Range(idle) \cap active = {}
      /\ \A a \in Range(idle) \cup active : token[a] # 0
      /\ token \in [Addr -> 0..MaxToken]
      /\ nextToken \in 1..(MaxToken + 1)
      /\ MaxToken \in Nat
  BY DEF PoolOK, HeapTypeOK, ListsTypeOK, OwnedOnce, Range, PoolAssumption
<1>3. /\ \A a \in Range(idle') \cup active' : token'[a] # 0
      /\ \A a \in active : token'[a] = token[a]
  BY <1>1 DEF Acquired, PoolOK, OwnedOnce, Undisturbed
<1>4. CASE got # None /\ AcquiredIdle(got)
  <2>1. /\ got \in Range(idle)
        /\ Range(idle') \subseteq Range(idle) \ {got}
        /\ nextToken' = nextToken
        /\ \A a \in Addr : token'[a] \in {0, token[a]}
        /\ active' = active \cup {got}
    BY <1>1, <1>4 DEF AcquiredIdle, OnlyDeleted, Acquired
  <2>2. \A a \in Range(idle') \cup active' : token'[a] = token[a]
    BY <1>2, <1>3, <2>1
  <2>3. token[got] \in Free /\ Lent' = Lent \cup {token[got]}
    BY <2>1, <2>2 DEF Free, Lent
  <2>4. Free' \subseteq Free \ {token[got]}
    BY <1>2, <2>1, <2>2 DEF Free, TokensIssued
  <2>5. Lending!LendFree(token[got])
    BY <2>1, <2>3, <2>4 DEF Lending!LendFree, Free, Lent
  <2>6. TokensIssued'
    BY <1>2, <2>1, DeletionKeepsTokens DEF OnlyDeleted
  <2>7. \E k \in {token[a] : a \in Range(idle)} : Lending!LendFree(k)
    BY <2>3, <2>5 DEF Lending!LendFree, Free
  <2>8. QED
    BY <2>6, <2>7 DEF Lending!Next
<1>5. CASE got # None /\ AcquiredNew(got)
  <2>1. /\ got \in Addr
        /\ idle' = <<>>
        /\ token'[got] = nextToken
        /\ nextToken' = nextToken + 1
        /\ \A a \in Addr \ {got} : token'[a] \in {0, token[a]}
        /\ active' = active \cup {got}
    BY <1>1, <1>5 DEF AcquiredNew, OnlyDeleted, Acquired
  <2>2. Lent' = Lent \cup {nextToken}
    BY <1>3, <2>1 DEF Lent
  <2>3. Free' = {}
    BY <2>1 DEF Free, Range
  <2>4. Lending!LendNew
    <3>1. (nextToken - 1)' = nextToken - 1 + 1 /\ (nextToken - 1)' = nextToken
      BY <1>2, <2>1
    <3>2. QED
      BY <2>2, <2>3, <3>1 DEF Lending!LendNew, Free, Lent
  <2>5. TokensIssued'
    BY <1>2, <2>1 DEF TokensIssued
  <2>6. QED
    BY <2>4, <2>5 DEF Lending!Next
<1>6. CASE got = None /\ AcquiredNone
  <2>1. /\ idle' = <<>>
        /\ nextToken' = nextToken
        /\ OnlyDeleted(Addr)
        /\ active' = active
    BY <1>1, <1>6 DEF AcquiredNone, Acquired
  <2>2. Lent' = Lent
    BY <1>3, <2>1 DEF Lent
  <2>3. Free' = {}
    BY <2>1 DEF Free, Range
  <2>4. Lending!Refuse
    BY <2>1, <2>2, <2>3 DEF Lending!Refuse, Free, Lent
  <2>5. TokensIssued'
    BY <1>2, <2>1, DeletionKeepsTokens
  <2>6. QED
    BY <2>4, <2>5 DEF Lending!Next
<1>7. QED
  BY <1>1, <1>4, <1>5, <1>6

\* Release is a return, and keeps the tokens in order.
LEMMA ReleaseRefines ==
    ASSUME PoolAssumption, PoolOK, TokensIssued, NEW a \in active, Release(a)
    PROVE  Lending!Next /\ TokensIssued'
<1>1. /\ Released(a)
      /\ Range(idle') \subseteq Range(idle) \cup {a}
      /\ nextToken' = nextToken
      /\ OnlyDeleted(Addr)
  BY ReleaseEffect, ReleaseTokens
<1>2. /\ Range(idle) \subseteq Addr /\ active \subseteq Addr
      /\ \A x \in Range(idle) \cup active : token[x] # 0
      /\ nextToken \in Nat \ {0}
  BY DEF PoolOK, HeapTypeOK, ListsTypeOK, OwnedOnce, Range, PoolAssumption
<1>3. /\ active' = active \ {a}
      /\ \A x \in Range(idle') \cup active' : token'[x] # 0
  BY <1>1 DEF Released, PoolOK, OwnedOnce
<1>4. \A x \in Range(idle') \cup active' : token'[x] = token[x]
  BY <1>1, <1>2, <1>3 DEF OnlyDeleted
<1>5. token[a] \in Lent /\ Lent' = Lent \ {token[a]}
  BY <1>2, <1>3, <1>4 DEF Lent, TokensIssued
<1>6. Free' \subseteq Free \cup {token[a]}
  BY <1>1, <1>4 DEF Free
<1>7. Lending!Return(token[a])
  BY <1>1, <1>5, <1>6 DEF Lending!Return, Free, Lent
<1>8. TokensIssued'
  BY <1>1, <1>2, DeletionKeepsTokens
<1>9. \E k \in {token[x] : x \in active} : Lending!Return(k)
  BY <1>5, <1>7 DEF Lending!Return, Lent
<1>10. QED
  BY <1>8, <1>9 DEF Lending!Next

\* The first connections of the pool get the first tokens.
LEMMA CreatePoolRefines ==
    ASSUME PoolAssumption, RefInv, CreatePool
    PROVE  Lending!Next /\ TokensIssued'
<1>1. /\ idle = <<>> /\ active = {}
      /\ nextToken = 1
      /\ active' = active
  <2>1. lifecycle = "absent" /\ active' = active
    BY DEF CreatePool
  <2>2. QED
    BY <2>1 DEF RefInv, IInv, NoPoolNoCalls, Alive, FirstToken
<1>2. PICK n \in 1..MinConnections :
         \E at \in [1..n -> Addr] :
            /\ n <= MaxToken
            /\ IsInjective(at)
            /\ idle' = at
            /\ nextToken' = n + 1
            /\ token' = [a \in Addr |-> IF \E i \in 1..n : at[i] = a
                                       THEN CHOOSE i \in 1..n : at[i] = a ELSE 0]
            /\ net' = [a \in Addr |-> IF \E i \in 1..n : at[i] = a THEN "ok" ELSE "bad"]
  BY DEF CreatePool
<1>3. PICK at \in [1..n -> Addr] :
         /\ IsInjective(at)
         /\ idle' = at
         /\ nextToken' = n + 1
         /\ token' = [a \in Addr |-> IF \E i \in 1..n : at[i] = a
                                    THEN CHOOSE i \in 1..n : at[i] = a ELSE 0]
  BY <1>2
<1>4. n \in Nat \ {0}
  BY DEF PoolAssumption
<1>5. ASSUME NEW i \in 1..n
      PROVE  at[i] \in Addr /\ token'[at[i]] = i
  <2>1. at[i] \in Addr
    OBVIOUS
  <2>2. \A j \in 1..n : at[j] = at[i] => j = i
    BY <1>3 DEF IsInjective
  <2>3. (CHOOSE j \in 1..n : at[j] = at[i]) = i
    BY <2>2
  <2>4. QED
    BY <1>3, <2>1, <2>3
<1>6. \A a \in Addr : token'[a] # 0 => \E i \in 1..n : at[i] = a
  BY <1>3
<1>7. Range(idle') = {at[i] : i \in 1..n}
  BY <1>3 DEF Range
<1>8. Free' = 1..n
  <2>1. \A x \in Free' : x \in 1..n
    BY <1>5, <1>7 DEF Free
  <2>2. \A i \in 1..n : i \in Free'
    BY <1>5, <1>7 DEF Free
  <2>3. QED
    BY <2>1, <2>2 DEF Free
<1>9. Free = {} /\ Lent = {} /\ Lent' = {}
  BY <1>1 DEF Free, Lent, Range
<1>10. Lending!Open
  <2>1. nextToken - 1 + 1 = 1 /\ (nextToken - 1)' = n
    BY <1>1, <1>3, <1>4
  <2>2. QED
    BY <1>8, <1>9, <2>1 DEF Lending!Open, Free, Lent
<1>11. TokensIssued'
  <2>1. \A a \in Addr : token'[a] < nextToken'
    <3>1. \A a \in Addr : token'[a] = 0 \/ token'[a] \in 1..n
      BY <1>5, <1>6
    <3>2. QED
      BY <1>3, <1>4, <3>1
  <2>2. \A a, b \in Addr : a # b /\ token'[a] # 0 => token'[a] # token'[b]
    <3>1. SUFFICES ASSUME NEW a \in Addr, NEW b \in Addr,
                          token'[a] # 0, token'[a] = token'[b]
                   PROVE  a = b
      OBVIOUS
    <3>2. PICK i \in 1..n, j \in 1..n : at[i] = a /\ at[j] = b
      BY <1>6, <3>1
    <3>3. QED
      BY <1>5, <3>1, <3>2
  <2>3. QED
    BY <2>1, <2>2 DEF TokensIssued
<1>12. QED
  BY <1>10, <1>11 DEF Lending!Next

\* The end of the pool closes every connection.
LEMMA DestructorRefines ==
    ASSUME PoolAssumption, HeapTypeOK, TokensIssued, Destructor
    PROVE  Lending!Next /\ TokensIssued'
<1>1. /\ idle' = <<>> /\ active' = {}
      /\ nextToken' = nextToken
      /\ OnlyDeleted(Addr)
  BY ReclaimTokens DEF Destructor
<1>2. Free' = {} /\ Lent' = {}
  BY <1>1 DEF Free, Lent, Range
<1>3. Lending!Close
  BY <1>1, <1>2 DEF Lending!Close, Free, Lent
<1>4. TokensIssued'
  <2>1. nextToken \in Nat \ {0}
    BY DEF HeapTypeOK, PoolAssumption
  <2>2. QED
    BY <1>1, <2>1, DeletionKeepsTokens
<1>5. QED
  BY <1>3, <1>4 DEF Lending!Next

\* A step outside the critical sections is a stutter of the lending.
Stutters == UNCHANGED <<token, nextToken, idle, active>>

LEMMA StutterRefines ==
    ASSUME TokensIssued, Stutters
    PROVE  UNCHANGED Lending!vars /\ TokensIssued'
BY DEF Stutters, TokensIssued, Lending!vars

-------------------------------------------------------------------------------
(* The theorem.  *)

\* Initially nothing is issued.
LEMMA InitRefines ==
    ASSUME PoolAssumption, Init
    PROVE  Lending!Init /\ TokensIssued /\ FirstToken
<1>1. /\ idle = <<>> /\ active = {} /\ nextToken = 1
      /\ token = [a \in Addr |-> 0]
  BY DEF Init
<1>2. Range(idle) = {}
  BY <1>1 DEF Range
<1>3. TokensIssued /\ FirstToken
  BY <1>1 DEF TokensIssued, FirstToken
<1>4. QED
  BY <1>1, <1>2, <1>3 DEF Lending!Init

\* A step of a call is an Acquire, a Release or a stutter.
LEMMA StepRefines ==
    ASSUME PoolAssumption, RefInv, NEW t \in Thread, Step(t)
    PROVE  [Lending!Next]_Lending!vars /\ TokensIssued'
<1>1. PoolOK /\ TokensIssued /\ IInv
  BY TypeParts DEF RefInv, IInv, PoolOK
<1>2. CASE PrepareAcquire \/ ExecutePreparedAcquire(t)
  <2>1. PICK got \in Addr \cup {None} : Acquire(got)
    BY <1>2 DEF PrepareAcquire, ExecutePreparedAcquire, AcquireFor
  <2>2. QED
    BY <1>1, <2>1, AcquireRefines
<1>3. CASE ReleaseHeld(t)
  <2>1. held[t] \in active /\ Release(held[t])
    BY <1>1, <1>3 DEF ReleaseHeld, IInv, CallsConsistent, HoldingSteps, ExclusiveHold
  <2>2. QED
    BY <1>1, <2>1, ReleaseRefines
<1>4. CASE PQexec \/ PQprepare(t) \/ LookUpText(t) \/ PQexecPrepared(t)
  <2>1. Stutters
    BY <1>4 DEF PQexec, PQprepare, LookUpText, PQexecPrepared, Stutters, lists, heap
  <2>2. QED
    BY <1>1, <2>1, StutterRefines
<1>5. QED
  BY <1>2, <1>3, <1>4 DEF Step

\* Each step of the pool is a lending step or a stutter.
LEMMA NextRefines ==
    ASSUME PoolAssumption, RefInv, [Next]_vars
    PROVE  [Lending!Next]_Lending!vars /\ TokensIssued' /\ FirstToken'
<1>1. PoolOK /\ HeapTypeOK /\ TokensIssued /\ IInv
  BY TypeParts DEF RefInv, IInv, PoolOK
<1>2. [Lending!Next]_Lending!vars /\ TokensIssued'
  <2>1. CASE CreatePool
    BY <2>1, CreatePoolRefines
  <2>2. CASE ExecuteAcquire \/ AcquireConnection
    <3>1. PICK got \in Addr \cup {None} : Acquire(got)
      BY <2>2 DEF ExecuteAcquire, AcquireConnection, AcquireFor
    <3>2. QED
      BY <1>1, <3>1, AcquireRefines
  <2>3. CASE \E t \in Thread : Step(t)
    BY <2>3, StepRefines
  <2>4. CASE \E h \in handles : ReleaseConnection(h)
    <3>1. PICK h \in handles : ReleaseConnection(h)
      BY <2>4
    <3>2. CASE lifecycle = "open" /\ h.addr \in active /\ token[h.addr] = h.token
      BY <1>1, <3>1, <3>2, ReleaseRefines DEF ReleaseConnection
    <3>3. CASE ~(lifecycle = "open" /\ h.addr \in active /\ token[h.addr] = h.token)
      <4>1. Stutters
        BY <3>1, <3>3 DEF ReleaseConnection, Stutters, heap, lists
      <4>2. QED
        BY <1>1, <4>1, StutterRefines
    <3>4. QED
      BY <3>2, <3>3
  <2>5. CASE (\E w \in Worker : AfterThreadPoolWork(w)) \/ DestroyPool
    <3>1. Destructor \/ Stutters
      BY <2>5 DEF AfterThreadPoolWork, DestroyPool, Stutters, heap, lists
    <3>2. QED
      BY <1>1, <3>1, DestructorRefines, StutterRefines
  <2>6. CASE \/ \E n \in Name, text \in Sql : PrepareStore(n, text)
             \/ \E t \in Thread, n \in Name : StartExecutePrepared(t, n)
             \/ \E a \in Addr : LoseSession(a)
             \/ UNCHANGED vars
    <3>1. Stutters
      BY <2>6 DEF PrepareStore, StartExecutePrepared, LoseSession, Stutters, heap, lists, vars
    <3>2. QED
      BY <1>1, <3>1, StutterRefines
  <2>7. QED
    BY <2>1, <2>2, <2>3, <2>4, <2>5, <2>6 DEF Next
<1>3. FirstToken'
  <2>1. CASE lifecycle = "absent"
    \* Only CreatePool and a lost session can happen before the pool exists.
    <3>1. /\ \A t \in Thread : pc[t] = "none" /\ Main \in Thread
          /\ handles = {}
          /\ \A w \in Worker : w \in Thread
      BY <1>1, <2>1 DEF IInv, NoPoolNoCalls, Alive, Thread
    <3>2. ~ \E t \in Thread : Step(t)
      BY <3>1 DEF Step, PQexec, PrepareAcquire, PQprepare, ExecutePreparedAcquire,
                  LookUpText, PQexecPrepared, ReleaseHeld
    <3>3. ~ \E w \in Worker : AfterThreadPoolWork(w)
      BY <3>1 DEF AfterThreadPoolWork
    <3>4. CreatePool \/ (\E a \in Addr : LoseSession(a)) \/ UNCHANGED vars
      BY <2>1, <3>1, <3>2, <3>3 DEF Next, ExecuteAcquire, PrepareStore, StartExecutePrepared,
         MainCanCall, DestroyPool, AcquireConnection
    <3>5. lifecycle' = "open" \/ nextToken' = nextToken
      BY <3>4 DEF CreatePool, LoseSession, vars, heap
    <3>6. QED
      BY <2>1, <3>5 DEF FirstToken, RefInv
  <2>2. CASE lifecycle # "absent"
    <3>1. lifecycle' # "absent"
      BY <2>2 DEF Next, Step, CreatePool, ExecuteAcquire, PrepareStore, StartExecutePrepared,
         PQexec, PrepareAcquire, PQprepare, ExecutePreparedAcquire, LookUpText,
         PQexecPrepared, ReleaseHeld, AfterThreadPoolWork, DestroyPool,
         AcquireConnection, ReleaseConnection, LoseSession, AcquireFor, vars
    <3>2. QED
      BY <3>1 DEF FirstToken
  <2>3. QED
    BY <2>1, <2>2
<1>4. QED
  BY <1>2, <1>3

\* The pool lends its connections as ConnectionLending says, however calls,
\* jobs, reservations, failures and the end of the pool interleave.
THEOREM Refinement == Spec => ImplementsLending
<1>1. Init => IInv /\ Lending!Init /\ RefInv
  BY PoolAssumption, InitIInv, InitRefines DEF RefInv
<1>2. RefInv /\ [Next]_vars => RefInv' /\ [Lending!Next]_Lending!vars
  BY PoolAssumption, NextIInv, NextRefines DEF RefInv
<1>3. QED
  BY <1>1, <1>2, PTL DEF Spec, ImplementsLending, Lending!Spec
===============================================================================
