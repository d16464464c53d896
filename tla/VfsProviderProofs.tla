---------------------------- MODULE VfsProviderProofs ----------------------------
(***************************************************************************)
(* The file tree of the SQLite provider, for any names, contents and       *)
(* depths: every call that returns leaves a tree, and a rename that was    *)
(* broken off at any statement has lost nothing.                           *)
(***************************************************************************)
EXTENDS VfsProvider, FiniteSetTheorems, WellFoundedInduction, TLAPS

Paths == Seq(Name)
RowSet == [type : {"directory", "file", "link"}, parent : Paths \cup {None},
           content : Content \cup {None}, target : LinkTarget \cup {None}]
RowsSet(r) == DOMAIN r \in SUBSET Paths /\ r \in [DOMAIN r -> RowSet]

StatementSet ==
    [do : {"insert"}, path : Paths, row : RowSet]
    \cup [do : {"update"}, path : Paths, content : Content]
    \cup [do : {"delete", "deleteByPrefix"}, path : Paths]
    \cup [do : {"rename", "children"}, path : Paths, to : Paths]
    \cup [do : {"throw"}]

Writes == {"writeFile", "mkdir", "symlink"}
CallSet == [op : Writes \cup {"unlink"}, path : Paths] \cup [op : {"rename"}, path : Paths, to : Paths]

TypeOK ==
    /\ RowsSet(rows) /\ IsFiniteSet(DOMAIN rows)
    /\ RowsSet(before)
    /\ call \in CallSet \cup {Idle}
    /\ todo \in Seq(StatementSet)
    /\ broken \in BOOLEAN
    /\ broken \/ call = Idle => todo = <<>>
    /\ call = Idle => ~broken

\* Names that are no patterns for each other.
Literal == Alike = {<<n, n>> : n \in Name}

-------------------------------------------------------------------------------
(* What a call has done so far.  *)

NewDirectory(q) == InsertDirectory(q).row

\* The directories above p, the root among them.
Above(p) == {SubSeq(p, 1, k) : k \in 0..(Len(p) - 1)} \cup {Root}

RootIsDirectory ==
    /\ IsDirectory(rows, Root) \/ Root \notin DOMAIN rows
    /\ \A i \in DOMAIN todo : todo[i].do = "insert" /\ todo[i].path = Root =>
           \/ todo[i].row.type = "directory"
           \/ /\ call.op \in Writes
              /\ \/ Root \in DOMAIN rows
                 \/ \E j \in 1..(i - 1) : todo[j] = InsertDirectory(Root)
    /\ \A i \in DOMAIN todo : todo[i].do \in {"rename", "children"} => todo[i].to # Root

\* Nothing has been deleted or moved, and only directories above the target,
\* or the target, have been added.
Grown ==
    /\ DOMAIN before \subseteq DOMAIN rows
    /\ \A q \in DOMAIN before :
          /\ rows[q].type = before[q].type /\ rows[q].parent = before[q].parent
          /\ call.op = "rename" => rows[q] = before[q]
    /\ \A q \in DOMAIN rows \ DOMAIN before :
          \/ q \in Above(Target) /\ rows[q] = NewDirectory(q)
          \/ q = Target /\ call.op # "rename" /\ rows[q].parent = parentPath(q)

\* Every directory above the target is there or will be inserted.
Coming ==
    IsTree(before) => \A q \in Above(Target) :
        \/ q \in DOMAIN rows
        \/ \E i \in DOMAIN todo : todo[i] = InsertDirectory(q)
        \/ q = Root /\ call.op = "mkdir" /\ before = <<>>

\* A statement of a call that adds one entry.
Adds(s) ==
    \/ \E q \in Above(Target) : s = InsertDirectory(q)
    \/ s.do = "insert" /\ s.path = Target /\ s.row.parent = parentPath(Target)
    \/ s.do = "update" /\ s.path = Target /\ Target # Root
    \/ s.do = "throw"

Adding ==
    call.op \in Writes =>
        /\ Grown
        /\ ~broken => Coming
        /\ \A i \in DOMAIN todo : Adds(todo[i])

Unlinking ==
    call.op = "unlink" =>
        /\ call.path \in DOMAIN before /\ ~IsDirectory(before, call.path)
        /\ \/ /\ rows = before
              /\ broken \/ todo = <<[do |-> "delete", path |-> call.path]>>
           \/ /\ rows = Restrict(before, DOMAIN before \ {call.path})
              /\ todo = <<>>

-------------------------------------------------------------------------------
(* A rename.  *)

\* The new path of what was at or below the source.
New(q) == call.to \o SubSeq(q, Len(call.path) + 1, Len(q))
Stays == {q \in DOMAIN before : ~Under(q, call.to)}
Moves == {q \in Stays : Under(q, call.path)}

Move(q) == [do |-> "rename", path |-> q, to |-> New(q)]
Clear == [do |-> "deleteByPrefix", path |-> call.to]
Children == [do |-> "children", path |-> call.path, to |-> call.to]
Rest == <<Move(call.path)>> \o IF IsDirectory(before, call.path) THEN <<Children>> ELSE <<>>

\* The destination is cleared, and of what moves all but the entries in P have.
RowsAre(P) ==
    /\ P \subseteq Moves
    /\ \A q \in (Stays \ Moves) \cup P : q \in DOMAIN rows /\ rows[q] = before[q]
    /\ \A q \in Moves \ P : New(q) \in DOMAIN rows /\ rows[New(q)] = Moved(before[q], New(q))
    /\ \A q \in DOMAIN rows :
          \/ q \in (Stays \ Moves) \cup P
          \/ \E r \in Moves \ P : q = New(r)
          \/ q \notin DOMAIN before /\ q \in Above(call.to) /\ rows[q] = NewDirectory(q)
    /\ ~broken /\ IsTree(before) /\ call.path # Root => Above(call.to) \subseteq DOMAIN rows

Ensuring ==
    /\ Grown
    /\ ~broken => Coming /\ \E n \in 0..Len(todo) :
          /\ Len(todo) = n + 1 + Len(Rest)
          /\ \A i \in 1..n : \E q \in Above(call.to) : todo[i] = InsertDirectory(q)
          /\ todo[n + 1] = Clear
          /\ \A i \in 1..Len(Rest) : todo[n + 1 + i] = Rest[i]

Deleted ==
    /\ RowsAre(Moves)
    /\ ~broken => todo = Rest

Moving ==
    \E P \in SUBSET (Moves \ {call.path}) :
        /\ RowsAre(P)
        /\ ~broken =>
              \/ todo = <<>> /\ ~IsDirectory(before, call.path)
              \/ todo = <<Children>> /\ P = Moves \ {call.path}
              \/ /\ \A i \in DOMAIN todo : \E q \in Moves \ {call.path} : todo[i] = Move(q)
                 /\ call.path # Root =>
                        \A q \in P : \E i \in DOMAIN todo : todo[i] = Move(q)

Renaming ==
    call.op = "rename" /\ ~Under(call.path, call.to) =>
        /\ call.path \in DOMAIN before /\ call.to # Root
        /\ call.path = Root \/ ~Under(call.to, call.path)
        /\ Ensuring \/ Deleted \/ Moving

IInv == TypeOK /\ RootIsDirectory /\ Adding /\ Unlinking /\ Renaming

-------------------------------------------------------------------------------
(* Paths.  *)

LEMMA PathEqual ==
    ASSUME NEW p \in Paths, NEW q \in Paths, Len(p) = Len(q),
           \A i \in 1..Len(p) : p[i] = q[i]
    PROVE  p = q
BY DEF Paths

LEMMA PrefixFacts ==
    ASSUME NEW p \in Paths, NEW k \in 0..Len(p)
    PROVE  /\ SubSeq(p, 1, k) \in Paths
           /\ Len(SubSeq(p, 1, k)) = k
           /\ \A i \in 1..k : SubSeq(p, 1, k)[i] = p[i]
BY DEF Paths

LEMMA UnderIff ==
    ASSUME NEW p \in Paths, NEW q \in Paths
    PROVE  Under(q, p) <=> Len(p) <= Len(q) /\ \A i \in 1..Len(p) : q[i] = p[i]
<1>1. Len(p) \in Nat /\ Len(q) \in Nat
  BY DEF Paths
<1>2. CASE Len(p) <= Len(q)
  <2>1. Len(p) \in 0..Len(p) /\ Len(p) \in 0..Len(q)
    BY <1>1, <1>2
  <2>2. /\ SubSeq(p, 1, Len(p)) \in Paths /\ Len(SubSeq(p, 1, Len(p))) = Len(p)
        /\ \A i \in 1..Len(p) : SubSeq(p, 1, Len(p))[i] = p[i]
    BY <2>1, PrefixFacts
  <2>3. /\ SubSeq(q, 1, Len(p)) \in Paths /\ Len(SubSeq(q, 1, Len(p))) = Len(p)
        /\ \A i \in 1..Len(p) : SubSeq(q, 1, Len(p))[i] = q[i]
    BY <2>1, PrefixFacts
  <2>4. SubSeq(p, 1, Len(p)) = SubSeq(q, 1, Len(p)) <=> \A i \in 1..Len(p) : q[i] = p[i]
    BY <2>2, <2>3, PathEqual
  <2>5. QED
    BY <1>2, <2>4 DEF Under, IsPrefix
<1>3. CASE ~(Len(p) <= Len(q))
  BY <1>3 DEF Under, IsPrefix
<1>4. QED
  BY <1>2, <1>3

LEMMA RootFacts == Root \in Paths /\ Len(Root) = 0 /\ \A p \in Paths : Len(p) = 0 => p = Root
<1>1. Root \in Paths /\ Len(Root) = 0
  BY DEF Paths, Root
<1>2. QED
  BY <1>1, PathEqual

LEMMA UnderOrder ==
    ASSUME NEW p \in Paths, NEW q \in Paths
    PROVE  /\ Under(p, p) /\ Under(p, Root)
           /\ Under(p, q) /\ Under(q, p) => p = q
           /\ \A r \in Paths : Under(r, q) /\ Under(q, p) => Under(r, p)
           /\ \A r \in Paths : Under(r, q) /\ Under(r, p) => Under(q, p) \/ Under(p, q)
<1>1. Len(p) \in Nat /\ Len(q) \in Nat /\ \A r \in Paths : Len(r) \in Nat
  BY DEF Paths
<1>2. Under(p, p) /\ Under(p, Root)
  BY <1>1, UnderIff, RootFacts
<1>3. Under(p, q) /\ Under(q, p) => p = q
  BY <1>1, UnderIff, PathEqual
<1>4. ASSUME NEW r \in Paths, Under(r, q), Under(q, p)
      PROVE  Under(r, p)
  <2>1. Len(p) <= Len(q) /\ Len(q) <= Len(r) /\ Len(r) \in Nat
    BY <1>1, <1>4, UnderIff
  <2>2. \A i \in 1..Len(p) : i \in 1..Len(q) /\ q[i] = p[i] /\ r[i] = q[i]
    BY <1>1, <1>4, <2>1, UnderIff
  <2>3. QED
    BY <1>1, <2>1, <2>2, UnderIff
<1>5. ASSUME NEW r \in Paths, Under(r, q), Under(r, p)
      PROVE  Under(q, p) \/ Under(p, q)
  BY <1>1, <1>5, UnderIff
<1>6. QED
  BY <1>2, <1>3, <1>4, <1>5

LEMMA ParentFacts ==
    ASSUME NEW p \in Paths, p # Root
    PROVE  /\ parentPath(p) \in Paths /\ Len(p) > 0
           /\ Len(parentPath(p)) = Len(p) - 1
           /\ parentPath(p) = SubSeq(p, 1, Len(p) - 1)
           /\ \A i \in 1..(Len(p) - 1) : parentPath(p)[i] = p[i]
           /\ Under(p, parentPath(p))
<1>1. Len(p) \in Nat /\ Len(p) > 0
  BY RootFacts DEF Paths
<1>2. parentPath(p) = SubSeq(p, 1, Len(p) - 1)
  BY DEF parentPath, Front
<1>3. Len(p) - 1 \in 0..Len(p)
  BY <1>1
<1>4. /\ parentPath(p) \in Paths /\ Len(parentPath(p)) = Len(p) - 1
      /\ \A i \in 1..(Len(p) - 1) : parentPath(p)[i] = p[i]
  BY <1>2, <1>3, PrefixFacts
<1>5. Under(p, parentPath(p))
  BY <1>1, <1>4, UnderIff
<1>6. QED
  BY <1>1, <1>2, <1>4, <1>5

\* What is strictly below has its parent below.
LEMMA ParentUnder ==
    ASSUME NEW p \in Paths, NEW q \in Paths, Under(q, p), q # p
    PROVE  q # Root /\ Under(parentPath(q), p) /\ Len(p) < Len(q)
<1>1. Len(p) \in Nat /\ Len(q) \in Nat /\ Len(p) <= Len(q) /\ \A i \in 1..Len(p) : q[i] = p[i]
  BY UnderIff DEF Paths
<1>2. Len(p) # Len(q)
  BY <1>1, PathEqual
<1>3. q # Root /\ Len(p) < Len(q)
  BY <1>1, <1>2, RootFacts
<1>4. /\ parentPath(q) \in Paths /\ Len(parentPath(q)) = Len(q) - 1
      /\ \A i \in 1..(Len(q) - 1) : parentPath(q)[i] = q[i]
  BY <1>3, ParentFacts
<1>5. \A i \in 1..Len(p) : parentPath(q)[i] = p[i]
  BY <1>1, <1>3, <1>4
<1>6. QED
  BY <1>1, <1>3, <1>4, <1>5, UnderIff

LEMMA LikeIsUnder ==
    ASSUME Literal, NEW p \in Paths, NEW q \in Paths
    PROVE  LikeUnder(q, p) <=> p # Root /\ Under(q, p) /\ q # p
<1>1. Len(p) \in Nat /\ Len(q) \in Nat /\ DOMAIN p = 1..Len(p)
      /\ (\A i \in 1..Len(p) : p[i] \in Name) /\ \A i \in 1..Len(q) : q[i] \in Name
  BY DEF Paths
<1>2. ASSUME LikeUnder(q, p)
      PROVE  p # Root /\ Under(q, p) /\ q # p
  <2>1. p # Root /\ Len(q) > Len(p) /\ \A i \in 1..Len(p) : <<p[i], q[i]>> \in Alike
    BY <1>1, <1>2 DEF LikeUnder
  <2>2. \A i \in 1..Len(p) : q[i] = p[i]
    BY <2>1 DEF Literal
  <2>3. QED
    BY <1>1, <2>1, <2>2, UnderIff
<1>3. ASSUME p # Root, Under(q, p), q # p
      PROVE  LikeUnder(q, p)
  <2>1. Len(q) > Len(p) /\ \A i \in 1..Len(p) : q[i] = p[i]
    BY <1>1, <1>3, UnderIff, ParentUnder
  <2>2. \A i \in 1..Len(p) : <<p[i], q[i]>> \in Alike
    BY <1>1, <2>1 DEF Literal
  <2>3. QED
    BY <1>1, <1>3, <2>1, <2>2 DEF LikeUnder
<1>4. QED
  BY <1>2, <1>3

LEMMA AboveFacts ==
    ASSUME NEW p \in Paths, NEW q \in Above(p)
    PROVE  /\ q \in Paths /\ Under(p, q)
           /\ p # Root => Len(q) < Len(p) /\ ~Under(q, p)
           /\ q # Root => parentPath(q) \in Above(p)
           /\ q # Root => \E k \in 1..(Len(p) - 1) : q = SubSeq(p, 1, k)
<1>1. Len(p) \in Nat /\ (p # Root => Len(p) > 0)
  BY RootFacts DEF Paths
<1>2. CASE q = Root
  BY <1>1, <1>2, RootFacts, UnderOrder, UnderIff
<1>3. CASE q # Root
  <2>1. PICK k \in 0..(Len(p) - 1) : q = SubSeq(p, 1, k)
    BY <1>3 DEF Above
  <2>2. k \in 0..Len(p) /\ k < Len(p)
    BY <1>1
  <2>3. q \in Paths /\ Len(q) = k /\ \A i \in 1..k : q[i] = p[i]
    BY <2>1, <2>2, PrefixFacts
  <2>4. k > 0 /\ k \in 1..(Len(p) - 1)
    BY <1>3, <2>2, <2>3, RootFacts
  <2>5. Under(p, q) /\ ~Under(q, p)
    BY <1>1, <2>2, <2>3, UnderIff
  <2>6. parentPath(q) \in Above(p)
    <3>1. k - 1 \in 0..Len(p) /\ k - 1 \in 0..(Len(p) - 1)
      BY <2>2, <2>4
    <3>2. /\ SubSeq(p, 1, k - 1) \in Paths /\ Len(SubSeq(p, 1, k - 1)) = k - 1
          /\ \A i \in 1..(k - 1) : SubSeq(p, 1, k - 1)[i] = p[i]
      BY <3>1, PrefixFacts
    <3>3. /\ parentPath(q) \in Paths /\ Len(parentPath(q)) = k - 1
          /\ \A i \in 1..(k - 1) : parentPath(q)[i] = q[i]
      BY <1>3, <2>3, ParentFacts
    <3> DEFINE above == SubSeq(p, 1, k - 1)
               parent == parentPath(q)
    <3>6. \A i \in 1..(k - 1) : i \in 1..k /\ parent[i] = above[i]
      BY <2>3, <2>4, <3>2, <3>3
    <3>7. parent \in Paths /\ above \in Paths /\ Len(parent) = k - 1 /\ Len(above) = k - 1
      BY <3>2, <3>3
    <3> HIDE DEF above, parent
    <3>8. parent = above
      BY <3>6, <3>7, PathEqual
    <3>4. parentPath(q) = SubSeq(p, 1, k - 1)
      BY <3>8 DEF above, parent
    <3>5. QED
      BY <3>1, <3>4 DEF Above
  <2>7. QED
    BY <2>1, <2>2, <2>3, <2>4, <2>5, <2>6
<1>4. QED
  BY <1>2, <1>3

LEMMA ParentAbove ==
    ASSUME NEW p \in Paths
    PROVE  parentPath(p) \in Above(p)
<1>1. CASE p = Root
  BY <1>1 DEF parentPath, Above
<1>2. CASE p # Root
  <2>1. parentPath(p) = SubSeq(p, 1, Len(p) - 1) /\ Len(p) - 1 \in 0..(Len(p) - 1)
    BY <1>2, ParentFacts DEF Paths
  <2>2. QED
    BY <2>1 DEF Above
<1>3. QED
  BY <1>1, <1>2

\* What a path becomes when what is at or below f moves to t.
NewPath(f, t, q) == t \o SubSeq(q, Len(f) + 1, Len(q))

LEMMA NewFacts ==
    ASSUME NEW f \in Paths, NEW t \in Paths, NEW q \in Paths, Under(q, f)
    PROVE  /\ NewPath(f, t, q) \in Paths
           /\ Len(NewPath(f, t, q)) = Len(t) + (Len(q) - Len(f))
           /\ \A i \in 1..Len(t) : NewPath(f, t, q)[i] = t[i]
           /\ \A i \in 1..(Len(q) - Len(f)) : NewPath(f, t, q)[Len(t) + i] = q[Len(f) + i]
           /\ Under(NewPath(f, t, q), t)
           /\ q = f => NewPath(f, t, q) = t
<1> DEFINE rest == SubSeq(q, Len(f) + 1, Len(q))
           n == Len(q) - Len(f)
<1>1. Len(f) \in Nat /\ Len(t) \in Nat /\ Len(q) \in Nat /\ Len(f) <= Len(q) /\ n \in Nat
  BY UnderIff DEF Paths
<1>2. rest \in Paths /\ Len(rest) = n /\ \A i \in 1..n : rest[i] = q[Len(f) + i]
  BY <1>1 DEF Paths
<1>3. NewPath(f, t, q) = t \o rest
  BY DEF NewPath
<1> HIDE DEF rest, n
<1>4. /\ t \o rest \in Paths /\ Len(t \o rest) = Len(t) + n
      /\ \A i \in 1..Len(t) : (t \o rest)[i] = t[i]
      /\ \A i \in 1..n : (t \o rest)[Len(t) + i] = rest[i]
  <2>1. t \in Seq(Name) /\ rest \in Seq(Name)
    BY <1>2 DEF Paths
  <2>2. t \o rest \in Seq(Name) /\ Len(t \o rest) = Len(t) + n
    BY <1>2, <2>1
  <2>3. \A i \in 1..Len(t) : (t \o rest)[i] = t[i]
    BY <1>1, <1>2, <2>1
  <2>4. \A i \in 1..n : (t \o rest)[Len(t) + i] = rest[i]
    BY <1>1, <1>2, <2>1
  <2>5. QED
    BY <2>2, <2>3, <2>4 DEF Paths
<1>5. Under(t \o rest, t)
  <2> DEFINE s == t \o rest
  <2>1. s \in Paths /\ Len(t) <= Len(s) /\ \A i \in 1..Len(t) : s[i] = t[i]
    BY <1>1, <1>4
  <2> HIDE DEF s
  <2>2. Under(s, t)
    BY <2>1, UnderIff
  <2>3. QED
    BY <2>2 DEF s
<1>6. ASSUME q = f
      PROVE  t \o rest = t
  <2>1. n = 0
    BY <1>1, <1>6 DEF n
  <2>2. Len(t \o rest) = Len(t)
    BY <1>1, <1>4, <2>1
  <2>3. QED
    BY <1>4, <2>2, PathEqual
<1>7. QED
  BY <1>2, <1>3, <1>4, <1>5, <1>6 DEF n

LEMMA NewParent ==
    ASSUME NEW f \in Paths, NEW t \in Paths, NEW q \in Paths, Under(q, f), q # f
    PROVE  /\ NewPath(f, t, q) # Root
           /\ parentPath(NewPath(f, t, q)) = NewPath(f, t, parentPath(q))
<1>a. ASSUME NEW p \in Paths, Under(p, f)
      PROVE  /\ NewPath(f, t, p) \in Paths /\ Len(NewPath(f, t, p)) = Len(t) + (Len(p) - Len(f))
             /\ \A i \in 1..Len(t) : NewPath(f, t, p)[i] = t[i]
             /\ \A i \in 1..(Len(p) - Len(f)) : NewPath(f, t, p)[Len(t) + i] = p[Len(f) + i]
  <2>1. NewPath(f, t, p) \in Paths /\ Len(NewPath(f, t, p)) = Len(t) + (Len(p) - Len(f))
    BY <1>a, NewFacts, Zenon
  <2>2. \A i \in 1..Len(t) : NewPath(f, t, p)[i] = t[i]
    <3> SUFFICES ASSUME NEW i \in 1..Len(t) PROVE NewPath(f, t, p)[i] = t[i]
      OBVIOUS
    <3>1. QED
      BY <1>a, NewFacts
  <2>3. \A i \in 1..(Len(p) - Len(f)) : NewPath(f, t, p)[Len(t) + i] = p[Len(f) + i]
    <3> SUFFICES ASSUME NEW i \in 1..(Len(p) - Len(f))
                 PROVE  NewPath(f, t, p)[Len(t) + i] = p[Len(f) + i]
      OBVIOUS
    <3>1. Len(p) \in Nat /\ Len(f) \in Nat /\ Len(t) \in Nat
      BY DEF Paths
    <3>2. QED
      BY <1>a, <3>1, NewFacts
  <2>4. QED
    BY <2>1, <2>2, <2>3
<1> DEFINE pq == parentPath(q)
           new == NewPath(f, t, q)
           up == NewPath(f, t, pq)
           n == Len(q) - Len(f)
<1>1. /\ Len(f) \in Nat /\ Len(t) \in Nat /\ Len(q) \in Nat /\ Len(f) < Len(q)
      /\ q # Root /\ Under(pq, f)
  BY ParentUnder DEF Paths
<1>2. /\ pq \in Paths /\ Len(pq) = Len(q) - 1
      /\ \A i \in 1..(Len(q) - 1) : pq[i] = q[i]
  BY <1>1, ParentFacts
<1>3. /\ new \in Paths /\ Len(new) = Len(t) + n
      /\ \A i \in 1..Len(t) : new[i] = t[i]
      /\ \A i \in 1..n : new[Len(t) + i] = q[Len(f) + i]
  BY <1>a, Zenon
<1>4. /\ up \in Paths /\ Len(up) = Len(t) + (Len(pq) - Len(f))
      /\ \A i \in 1..Len(t) : up[i] = t[i]
      /\ \A i \in 1..(Len(pq) - Len(f)) : up[Len(t) + i] = pq[Len(f) + i]
  BY <1>1, <1>2, <1>a, Zenon
<1>5. n \in Nat /\ n > 0 /\ Len(pq) - Len(f) = n - 1
  BY <1>1, <1>2
<1>6. \A i \in 1..(n - 1) : up[Len(t) + i] = q[Len(f) + i]
  <2> SUFFICES ASSUME NEW i \in 1..(n - 1) PROVE up[Len(t) + i] = q[Len(f) + i]
    OBVIOUS
  <2>1. up[Len(t) + i] = pq[Len(f) + i]
    BY <1>4, <1>5
  <2>2. Len(f) + i \in 1..(Len(q) - 1)
    BY <1>1, <1>5
  <2>3. QED
    BY <1>2, <2>1, <2>2
<1> HIDE DEF n, new, up, pq
<1>7. Len(new) > 0 /\ new # Root
  BY <1>1, <1>3, <1>5, RootFacts
<1> DEFINE pn == parentPath(new)
<1>8. /\ pn \in Paths /\ Len(pn) = Len(t) + n - 1
      /\ \A i \in 1..(Len(t) + n - 1) : pn[i] = new[i]
  <2>1. Len(new) - 1 = Len(t) + n - 1
    BY <1>1, <1>3, <1>5
  <2>2. QED
    BY <1>3, <1>7, <2>1, ParentFacts
<1> HIDE DEF pn
<1>9. Len(pn) = Len(up)
  BY <1>1, <1>4, <1>5, <1>8
<1>10. ASSUME NEW i \in 1..Len(pn)
       PROVE  pn[i] = up[i]
  <2>0. i \in Nat /\ i >= 1 /\ i <= Len(t) + n - 1
    BY <1>1, <1>5, <1>8
  <2>1. pn[i] = new[i]
    BY <1>8
  <2>2. CASE i <= Len(t)
    BY <1>1, <1>3, <1>4, <2>0, <2>1, <2>2
  <2>3. CASE i > Len(t)
    <3>1. PICK j \in 1..(n - 1) : i = Len(t) + j
      <4>1. i - Len(t) \in 1..(n - 1) /\ i = Len(t) + (i - Len(t))
        BY <1>1, <1>5, <2>0, <2>3
      <4>2. QED
        BY <4>1
    <3>2. j \in 1..n
      BY <1>5
    <3>3. QED
      BY <1>3, <1>6, <2>1, <3>1, <3>2
  <2>4. QED
    BY <1>1, <2>0, <2>2, <2>3
<1>11. pn = up
  BY <1>4, <1>8, <1>9, <1>10, PathEqual
<1>12. QED
  BY <1>7, <1>11 DEF pn, new, up, pq

-------------------------------------------------------------------------------
(* Trees.  *)

\* A set of natural numbers has a least element.
LEMMA Least ==
    ASSUME NEW S \in SUBSET Nat, S # {}
    PROVE  \E x \in S : \A y \in S : x <= y
<1> DEFINE R == {ss \in Nat \X Nat : ss[1] < ss[2]}
<1>1. OpToRel(<, Nat) = R
  BY DEF OpToRel
<1>2. IsWellFoundedOn(R, Nat)
  BY <1>1, NatLessThanWellFounded
<1>3. PICK x \in S : \A y \in S : ~ (<<y, x>> \in R)
  BY <1>2, WFMin
<1>4. \A y \in S : y \in Nat /\ x \in Nat /\ ~(y < x)
  BY <1>3
<1>5. QED
  BY <1>4

\* Everything above an entry of a tree is a directory of it.
LEMMA TreeAbove ==
    ASSUME NEW r, DOMAIN r \in SUBSET Paths, IsTree(r), NEW p \in DOMAIN r, p # Root
    PROVE  \A q \in Above(p) : IsDirectory(r, q)
<1>0. p \in Paths /\ Len(p) \in Nat /\ Len(p) > 0
  BY ParentFacts DEF Paths
\* How far below p the lowest gap would be.
<1> DEFINE Gaps == {d \in 1..Len(p) : ~IsDirectory(r, SubSeq(p, 1, Len(p) - d))}
<1>1. Gaps = {}
  <2> SUFFICES ASSUME Gaps # {} PROVE FALSE
    OBVIOUS
  <2>1. Gaps \in SUBSET Nat
    OBVIOUS
  <2>2. PICK d \in Gaps : \A e \in Gaps : d <= e
    BY <2>1, Least
  <2>3. d \in 1..Len(p) /\ ~IsDirectory(r, SubSeq(p, 1, Len(p) - d))
    OBVIOUS
  <2> HIDE DEF Gaps
  <2> DEFINE k == Len(p) - d
             q == SubSeq(p, 1, k + 1)
  <2>4. k \in 0..Len(p) /\ k + 1 \in 0..Len(p) /\ k + 1 > 0
    BY <1>0, <2>3
  <2>5. q \in Paths /\ Len(q) = k + 1 /\ \A i \in 1..(k + 1) : q[i] = p[i]
    BY <1>0, <2>4, PrefixFacts
  <2>6. q # Root
    BY <2>4, <2>5, RootFacts
  <2>7. q \in DOMAIN r
    <3>1. CASE d = 1
      <4>1. Len(q) = Len(p)
        BY <1>0, <2>5, <3>1
      <4>2. q = p
        BY <1>0, <2>5, <4>1, PathEqual
      <4>3. QED
        BY <4>2
    <3>2. CASE d # 1
      <4>1. d - 1 \in 1..Len(p) /\ Len(p) - (d - 1) = k + 1 /\ ~(d <= d - 1)
        BY <1>0, <2>3, <3>2
      <4>2. d - 1 \notin Gaps
        BY <2>2, <4>1
      <4>3. IsDirectory(r, q)
        BY <4>1, <4>2 DEF Gaps
      <4>4. QED
        BY <4>3 DEF IsDirectory
    <3>3. QED
      BY <3>1, <3>2
  <2>8. IsDirectory(r, parentPath(q))
    BY <2>6, <2>7 DEF IsTree
  <2>9. parentPath(q) = SubSeq(p, 1, k)
    <3>1. /\ SubSeq(p, 1, k) \in Paths /\ Len(SubSeq(p, 1, k)) = k
          /\ \A i \in 1..k : SubSeq(p, 1, k)[i] = p[i]
      BY <1>0, <2>4, PrefixFacts
    <3>2. /\ parentPath(q) \in Paths /\ Len(parentPath(q)) = k
          /\ \A i \in 1..k : parentPath(q)[i] = q[i]
      <4>1. Len(q) - 1 = k
        BY <2>4, <2>5
      <4> HIDE DEF k, q
      <4>2. QED
        BY <2>5, <2>6, <4>1, ParentFacts
    <3>3. \A i \in 1..k : i \in 1..(k + 1) /\ q[i] = p[i]
      BY <2>4, <2>5
    <3> DEFINE x == parentPath(q)
               y == SubSeq(p, 1, k)
    <3>4. x \in Paths /\ y \in Paths /\ Len(x) = Len(y) /\ Len(x) = k /\ \A i \in 1..k : x[i] = y[i]
      BY <3>1, <3>2, <3>3
    <3> HIDE DEF x, y
    <3>5. x = y
      BY <3>4, PathEqual
    <3>6. QED
      BY <3>5 DEF x, y
  <2>10. QED
    BY <2>3, <2>8, <2>9
<1>2. ASSUME NEW k \in 0..(Len(p) - 1)
      PROVE  IsDirectory(r, SubSeq(p, 1, k))
  <2>1. Len(p) - k \in 1..Len(p) /\ Len(p) - (Len(p) - k) = k
    BY <1>0
  <2>2. Len(p) - k \notin Gaps
    BY <1>1
  <2>3. QED
    BY <2>1, <2>2
<1>3. IsDirectory(r, Root)
  <2>1. 0 \in 0..(Len(p) - 1) /\ SubSeq(p, 1, 0) = Root
    BY <1>0 DEF Root, Paths
  <2>2. QED
    BY <1>2, <2>1
<1>4. QED
  BY <1>2, <1>3 DEF Above

-------------------------------------------------------------------------------
(* The statements of a call.  *)

LEMMA InsertDirectoryType ==
    ASSUME NEW q \in Paths
    PROVE  /\ InsertDirectory(q) \in StatementSet
           /\ InsertDirectory(q) = [do |-> "insert", path |-> q, row |-> NewDirectory(q)]
           /\ NewDirectory(q) \in RowSet /\ NewDirectory(q).type = "directory"
           /\ q # Root => NewDirectory(q).parent = parentPath(q)
<1>1. parentPath(q) \in Paths
  BY ParentFacts DEF parentPath
<1>2. /\ InsertDirectory(q) = [do |-> "insert", path |-> q, row |-> NewDirectory(q)]
      /\ NewDirectory(q) = [type |-> "directory", parent |-> IF q = Root THEN None ELSE parentPath(q),
                            content |-> None, target |-> None]
  BY DEF NewDirectory, InsertDirectory, Insert, Row
<1>3. NewDirectory(q) \in RowSet
  BY <1>1, <1>2 DEF RowSet
<1>4. QED
  BY <1>2, <1>3 DEF StatementSet

LEMMA EnsureFacts ==
    ASSUME DOMAIN rows \in SUBSET Paths, NEW p \in Paths
    PROVE  LET E == EnsureParents(p) IN
           /\ E \in Seq(StatementSet)
           /\ \A i \in DOMAIN E : \E q \in Above(p) : E[i] = InsertDirectory(q)
           /\ Root \in DOMAIN rows \/ \E i \in DOMAIN E : E[i] = InsertDirectory(Root)
           /\ IsTree(rows) => \A q \in Above(p) :
                 q \in DOMAIN rows \/ \E i \in DOMAIN E : E[i] = InsertDirectory(q)
<1> DEFINE missing == {k \in 1..(Len(p) - 1) :
                          \A j \in k..(Len(p) - 1) : SubSeq(p, 1, j) \notin DOMAIN rows}
           count == Cardinality(missing)
           first == Len(p) - count
           E1 == IF Root \in DOMAIN rows THEN <<>> ELSE <<InsertDirectory(Root)>>
           E2 == [i \in 1..count |-> InsertDirectory(SubSeq(p, 1, first + i - 1))]
<1>1. EnsureParents(p) = E1 \o E2
  BY DEF EnsureParents
<1>2. Len(p) \in Nat
  BY DEF Paths
<1>3. /\ count \in Nat
      /\ \A i \in 1..count : first + i - 1 \in missing
      /\ \A k \in missing : k - first + 1 \in 1..count /\ first + (k - first + 1) - 1 = k
  <2>1. CASE missing = {}
    <3>1. count = 0
      BY <2>1, FS_EmptySet
    <3> HIDE DEF missing, count, first
    <3>2. count \in Nat /\ 1..count = {} /\ missing = {}
      BY <2>1, <3>1
    <3>3. QED
      BY <3>2
  <2>2. CASE missing # {}
    <3>1. missing \in SUBSET Nat
      OBVIOUS
    <3>2. PICK m \in missing : \A k \in missing : m <= k
      BY <2>2, <3>1, Least
    <3>3. m \in Nat /\ m >= 1 /\ m <= Len(p) - 1
      BY <1>2
    <3>4. \A j \in m..(Len(p) - 1) : j \in missing
      <4> SUFFICES ASSUME NEW j \in m..(Len(p) - 1) PROVE j \in missing
        OBVIOUS
      <4>1. j \in 1..(Len(p) - 1)
        BY <1>2, <3>3
      <4>2. \A i \in j..(Len(p) - 1) : i \in m..(Len(p) - 1)
        BY <1>2, <3>3
      <4>3. QED
        BY <4>1, <4>2
    <3>9. \A k \in missing : k \in 1..(Len(p) - 1)
      OBVIOUS
    <3>10. \A k \in missing : k \in m..(Len(p) - 1)
      <4> HIDE DEF missing
      <4> SUFFICES ASSUME NEW k \in missing PROVE k \in m..(Len(p) - 1)
        OBVIOUS
      <4>1. k \in 1..(Len(p) - 1) /\ m <= k
        BY <3>2, <3>9
      <4>2. QED
        BY <1>2, <3>3, <4>1
    <3>5. missing = m..(Len(p) - 1)
      <4> HIDE DEF missing
      <4>1. QED
        BY <3>4, <3>10
    <3>6. Cardinality(m..(Len(p) - 1)) = Len(p) - m
      <4>1. m \in Int /\ Len(p) - 1 \in Int
        BY <1>2, <3>3
      <4>2. Cardinality(m..(Len(p) - 1)) =
                IF m > Len(p) - 1 THEN 0 ELSE (Len(p) - 1) - m + 1
        BY <4>1, FS_Interval
      <4>3. QED
        BY <1>2, <3>3, <4>2
    <3>7. count = Len(p) - m /\ first = m
      <4>1. count = Cardinality(m..(Len(p) - 1))
        BY <3>5
      <4>2. first = Len(p) - count
        OBVIOUS
      <4> HIDE DEF missing, count, first
      <4>3. QED
        BY <1>2, <3>3, <3>6, <4>1, <4>2
    <3> HIDE DEF missing, count, first
    <3>8. QED
      BY <1>2, <3>3, <3>5, <3>7
  <2>3. QED
    BY <2>1, <2>2
<1>4. ASSUME NEW k \in missing
      PROVE  SubSeq(p, 1, k) \in Above(p) /\ SubSeq(p, 1, k) \in Paths
  <2>1. k \in 0..(Len(p) - 1) /\ k \in 0..Len(p)
    BY <1>2
  <2>2. QED
    BY <2>1, PrefixFacts DEF Above
<1> DEFINE At(k) == InsertDirectory(SubSeq(p, 1, k))
<1>5. ASSUME NEW k \in 1..(Len(p) - 1), IsTree(rows), SubSeq(p, 1, k) \notin DOMAIN rows
      PROVE  k \in missing
  <2> SUFFICES ASSUME NEW j \in k..(Len(p) - 1), SubSeq(p, 1, j) \in DOMAIN rows
               PROVE  FALSE
    OBVIOUS
  <2>1. j \in 0..Len(p) /\ k \in 0..Len(p) /\ k \in Nat /\ j \in Nat /\ k > 0 /\ j # k
    BY <1>2, <1>5
  <2> DEFINE a == SubSeq(p, 1, k)
             b == SubSeq(p, 1, j)
  <2>2. a \in Paths /\ Len(a) = k /\ \A i \in 1..k : a[i] = p[i]
    BY <2>1, PrefixFacts
  <2>3. b \in Paths /\ Len(b) = j /\ \A i \in 1..j : b[i] = p[i]
    BY <2>1, PrefixFacts
  <2>4. k \in 0..(j - 1) /\ k \in 0..j
    BY <2>1
  <2> HIDE DEF a, b
  <2>5. SubSeq(b, 1, k) = a
    <3>1. /\ SubSeq(b, 1, k) \in Paths /\ Len(SubSeq(b, 1, k)) = k
          /\ \A i \in 1..k : SubSeq(b, 1, k)[i] = b[i]
      BY <2>3, <2>4, PrefixFacts
    <3> DEFINE c == SubSeq(b, 1, k)
    <3>2. \A i \in 1..k : c[i] = a[i]
      BY <2>1, <2>2, <2>3, <3>1
    <3>3. c \in Paths /\ Len(c) = Len(a) /\ Len(a) = k
      BY <2>2, <3>1
    <3> HIDE DEF c
    <3>4. c = a
      BY <2>2, <3>2, <3>3, PathEqual
    <3>5. QED
      BY <3>4 DEF c
  <2>6. a \in Above(b)
    BY <2>3, <2>4, <2>5 DEF Above
  <2>7. b \in DOMAIN rows /\ b # Root
    <3>1. b # Root
      BY <2>1, <2>3, RootFacts
    <3>2. QED
      BY <3>1 DEF b
  <2>8. IsDirectory(rows, a)
    BY <1>5, <2>6, <2>7, TreeAbove
  <2>9. QED
    BY <1>5, <2>8 DEF IsDirectory, a
<1> HIDE DEF missing, count, first
<1>6. ASSUME NEW i \in 1..count
      PROVE  \E k \in missing : E2[i] = At(k)
  BY <1>3
<1>7. ASSUME NEW k \in missing
      PROVE  \E i \in 1..count : E2[i] = At(k)
  BY <1>3
<1>8. /\ E1 \in Seq(StatementSet)
      /\ Root \notin DOMAIN rows => 1 \in DOMAIN E1 /\ E1[1] = InsertDirectory(Root)
      /\ \A i \in DOMAIN E1 : E1[i] = InsertDirectory(Root)
  <2>1. InsertDirectory(Root) \in StatementSet
    BY RootFacts, InsertDirectoryType
  <2> DEFINE x == InsertDirectory(Root)
  <2> HIDE DEF x
  <2>2. x \in StatementSet
    BY <2>1 DEF x
  <2>3. /\ <<x>> \in Seq(StatementSet) /\ 1 \in DOMAIN <<x>> /\ <<x>>[1] = x
        /\ \A i \in DOMAIN <<x>> : <<x>>[i] = x
    BY <2>2
  <2>4. <<>> \in Seq(StatementSet) /\ DOMAIN <<>> = {}
    OBVIOUS
  <2>5. QED
    BY <2>3, <2>4 DEF x
<1>9. E2 \in Seq(StatementSet) /\ DOMAIN E2 = 1..count /\ Len(E2) = count
  <2>1. \A i \in 1..count : E2[i] \in StatementSet
    BY <1>4, <1>6, InsertDirectoryType
  <2>2. E2 = [i \in 1..count |-> E2[i]]
    OBVIOUS
  <2> HIDE DEF E2
  <2>3. E2 \in [1..count -> StatementSet]
    BY <2>1, <2>2
  <2>4. QED
    BY <1>3, <2>3
<1>10. ASSUME NEW k \in missing
       PROVE  \E i \in DOMAIN E2 : E2[i] = At(k)
  BY <1>7, <1>9
<1>11. ASSUME NEW i \in DOMAIN E2
       PROVE  \E k \in missing : E2[i] = At(k)
  BY <1>6, <1>9
<1> HIDE DEF E1, E2
<1>12. /\ E1 \o E2 \in Seq(StatementSet)
       /\ \A i \in DOMAIN E1 : i \in DOMAIN (E1 \o E2) /\ (E1 \o E2)[i] = E1[i]
       /\ \A i \in DOMAIN E2 : Len(E1) + i \in DOMAIN (E1 \o E2) /\ (E1 \o E2)[Len(E1) + i] = E2[i]
       /\ \A i \in DOMAIN (E1 \o E2) :
             \/ i \in DOMAIN E1 /\ (E1 \o E2)[i] = E1[i]
             \/ i - Len(E1) \in DOMAIN E2 /\ (E1 \o E2)[i] = E2[i - Len(E1)]
  <2>1. DOMAIN E1 = 1..Len(E1) /\ DOMAIN E2 = 1..Len(E2) /\ Len(E1) \in Nat /\ Len(E2) \in Nat
    BY <1>8, <1>9
  <2>2. /\ E1 \o E2 \in Seq(StatementSet) /\ Len(E1 \o E2) = Len(E1) + Len(E2)
        /\ DOMAIN (E1 \o E2) = 1..(Len(E1) + Len(E2))
    BY <1>8, <1>9
  <2>3. \A i \in 1..(Len(E1) + Len(E2)) :
            (E1 \o E2)[i] = IF i <= Len(E1) THEN E1[i] ELSE E2[i - Len(E1)]
    BY <1>8, <1>9
  <2>4. QED
    BY <2>1, <2>2, <2>3
<1> DEFINE E == E1 \o E2
<1> HIDE DEF E
<1>13. /\ E \in Seq(StatementSet)
       /\ \A i \in DOMAIN E1 : i \in DOMAIN E /\ E[i] = E1[i]
       /\ \A i \in DOMAIN E2 : Len(E1) + i \in DOMAIN E /\ E[Len(E1) + i] = E2[i]
       /\ \A i \in DOMAIN E : \/ i \in DOMAIN E1 /\ E[i] = E1[i]
                              \/ i - Len(E1) \in DOMAIN E2 /\ E[i] = E2[i - Len(E1)]
  BY <1>12 DEF E
<1>14. Root \in Above(p)
  BY DEF Above
<1>15. \A i \in DOMAIN E : \E q \in Above(p) : E[i] = InsertDirectory(q)
  BY <1>4, <1>8, <1>11, <1>13, <1>14
<1>16. Root \in DOMAIN rows \/ \E i \in DOMAIN E : E[i] = InsertDirectory(Root)
  BY <1>8, <1>13
<1>17. ASSUME IsTree(rows), NEW q \in Above(p), q \notin DOMAIN rows
       PROVE  \E i \in DOMAIN E : E[i] = InsertDirectory(q)
  <2>1. CASE q = Root
    BY <1>16, <1>17, <2>1
  <2>2. CASE q # Root
    <3>1. PICK k \in 1..(Len(p) - 1) : q = SubSeq(p, 1, k)
      BY <2>2, AboveFacts
    <3>2. k \in missing
      BY <1>5, <1>17, <3>1
    <3>3. QED
      BY <1>10, <1>13, <3>1, <3>2
  <2>3. QED
    BY <2>1, <2>2
<1>18. EnsureParents(p) = E
  BY <1>1 DEF E
<1>19. QED
  BY <1>13, <1>15, <1>16, <1>17, <1>18

-------------------------------------------------------------------------------
(* Types.  *)

LEMMA ConcatFacts ==
    ASSUME NEW T, NEW s \in Seq(T), NEW t \in Seq(T)
    PROVE  /\ s \o t \in Seq(T) /\ Len(s \o t) = Len(s) + Len(t) /\ Len(s) \in Nat /\ Len(t) \in Nat
           /\ \A i \in DOMAIN s : i \in DOMAIN (s \o t) /\ (s \o t)[i] = s[i]
           /\ \A i \in DOMAIN t : Len(s) + i \in DOMAIN (s \o t) /\ (s \o t)[Len(s) + i] = t[i]
           /\ \A i \in DOMAIN (s \o t) :
                 \/ i \in DOMAIN s /\ (s \o t)[i] = s[i]
                 \/ i - Len(s) \in DOMAIN t /\ (s \o t)[i] = t[i - Len(s)]
<1>1. DOMAIN s = 1..Len(s) /\ DOMAIN t = 1..Len(t) /\ Len(s) \in Nat /\ Len(t) \in Nat
  OBVIOUS
<1>2. /\ s \o t \in Seq(T) /\ Len(s \o t) = Len(s) + Len(t)
      /\ DOMAIN (s \o t) = 1..(Len(s) + Len(t))
  OBVIOUS
<1>3. \A i \in 1..(Len(s) + Len(t)) :
          (s \o t)[i] = IF i <= Len(s) THEN s[i] ELSE t[i - Len(s)]
  OBVIOUS
<1>4. QED
  BY <1>1, <1>2, <1>3

LEMMA TailFacts ==
    ASSUME NEW T, NEW s \in Seq(T), s # <<>>
    PROVE  /\ Tail(s) \in Seq(T) /\ Len(s) \in Nat /\ Len(s) > 0 /\ Len(Tail(s)) = Len(s) - 1
           /\ Head(s) = s[1] /\ s[1] \in T /\ 1 \in DOMAIN s
           /\ \A i \in DOMAIN Tail(s) : i + 1 \in DOMAIN s /\ Tail(s)[i] = s[i + 1]
           /\ \A i \in DOMAIN s : i # 1 => i - 1 \in DOMAIN Tail(s) /\ s[i] = Tail(s)[i - 1]
<1>1. Len(s) \in Nat /\ Len(s) > 0 /\ DOMAIN s = 1..Len(s)
  OBVIOUS
<1>2. /\ Tail(s) \in Seq(T) /\ Len(Tail(s)) = Len(s) - 1 /\ DOMAIN Tail(s) = 1..(Len(s) - 1)
      /\ \A i \in 1..(Len(s) - 1) : Tail(s)[i] = s[i + 1]
  OBVIOUS
<1>3. Head(s) = s[1] /\ s[1] \in T
  BY <1>1
<1>4. \A i \in 1..Len(s) : i # 1 => i - 1 \in 1..(Len(s) - 1) /\ (i - 1) + 1 = i
  BY <1>1
<1>5. QED
  BY <1>1, <1>2, <1>3, <1>4

LEMMA SingletonFacts ==
    ASSUME NEW T, NEW x \in T
    PROVE  <<x>> \in Seq(T) /\ DOMAIN <<x>> = {1} /\ <<x>>[1] = x /\ Len(<<x>>) = 1
OBVIOUS

\* What each kind of statement has.
LEMMA StatementFacts ==
    ASSUME NEW s \in StatementSet
    PROVE  /\ s.do \in {"insert", "update", "delete", "deleteByPrefix", "rename", "children", "throw"}
           /\ s.do # "throw" => s.path \in Paths
           /\ s.do = "insert" => s.row \in RowSet
           /\ s.do = "update" => s.content \in Content
           /\ s.do \in {"rename", "children"} => s.to \in Paths
BY DEF StatementSet

\* Only a rename of a path that has a row, and an insert, add a path.
LEMMA EffectTypes ==
    ASSUME RowsSet(rows), IsFiniteSet(DOMAIN rows), NEW s \in StatementSet,
           s.do \notin {"children", "throw"}
    PROVE  RowsSet(Effect(s)) /\ IsFiniteSet(DOMAIN Effect(s))
<1>1. DOMAIN rows \in SUBSET Paths /\ rows \in [DOMAIN rows -> RowSet]
  BY DEF RowsSet
<1>2. s.path \in Paths
  BY StatementFacts
<1>3. CASE s.do = "insert"
  <2>1. s.row \in RowSet
    BY <1>3, StatementFacts
  <2>2. Effect(s) = [q \in DOMAIN rows \cup {s.path} |-> IF q = s.path THEN s.row ELSE rows[q]]
    BY <1>3 DEF Effect
  <2>3. IsFiniteSet(DOMAIN rows \cup {s.path})
    BY FS_AddElement
  <2>4. QED
    BY <1>1, <1>2, <2>1, <2>2, <2>3 DEF RowsSet
<1>4. CASE s.do = "update"
  <2>1. s.content \in Content
    BY <1>4, StatementFacts
  <2>2. Effect(s) = [rows EXCEPT ![s.path].content = s.content]
    BY <1>4 DEF Effect
  <2>3. DOMAIN Effect(s) = DOMAIN rows
    BY <2>2
  <2>4. \A r \in RowSet : [r EXCEPT !.content = s.content] \in RowSet
    BY <2>1 DEF RowSet
  <2>5. Effect(s) \in [DOMAIN rows -> RowSet]
    BY <1>1, <2>2, <2>4
  <2>6. QED
    BY <1>1, <2>3, <2>5 DEF RowsSet
<1>5. CASE s.do \in {"delete", "deleteByPrefix"}
  <2>1. PICK D \in SUBSET DOMAIN rows : Effect(s) = Restrict(rows, D)
    BY <1>5 DEF Effect
  <2>2. Effect(s) = [q \in D |-> rows[q]]
    BY <2>1 DEF Restrict
  <2>3. IsFiniteSet(D)
    BY FS_Subset
  <2>4. QED
    BY <1>1, <2>2, <2>3 DEF RowsSet
<1>6. CASE s.do = "rename"
  <2>1. s.to \in Paths
    BY <1>6, StatementFacts
  <2>2. CASE s.path \notin DOMAIN rows
    BY <1>6, <2>2 DEF Effect
  <2>3. CASE s.path \in DOMAIN rows
    <3>1. Effect(s) = [q \in (DOMAIN rows \ {s.path}) \cup {s.to} |->
                          IF q = s.to THEN Moved(rows[s.path], s.to) ELSE rows[q]]
      BY <1>6, <2>3 DEF Effect
    <3>2. parentPath(s.to) \in Paths
      BY <2>1, ParentFacts DEF parentPath
    <3>3. \A r \in RowSet : Moved(r, s.to) \in RowSet
      BY <3>2 DEF Moved, RowSet
    <3>4. IsFiniteSet((DOMAIN rows \ {s.path}) \cup {s.to})
      BY FS_AddElement, FS_RemoveElement
    <3>5. QED
      BY <1>1, <2>1, <2>3, <3>1, <3>3, <3>4 DEF RowsSet
  <2>4. QED
    BY <2>2, <2>3
<1>7. QED
  BY <1>3, <1>4, <1>5, <1>6, StatementFacts

\* The children of a directory, once each.
LEMMA ChildFacts ==
    ASSUME RowsSet(rows), IsFiniteSet(DOMAIN rows), NEW f \in Paths, NEW t \in Paths,
           NEW do, NEW renames \in ChildRenames([do |-> do, path |-> f, to |-> t])
    PROVE  /\ renames \in Seq(StatementSet)
           /\ \A i \in DOMAIN renames : \E q \in DOMAIN rows :
                 LikeUnder(q, f) /\ renames[i] = [do |-> "rename", path |-> q, to |-> NewPath(f, t, q)]
           /\ \A q \in DOMAIN rows : LikeUnder(q, f) =>
                 \E i \in DOMAIN renames :
                    renames[i] = [do |-> "rename", path |-> q, to |-> NewPath(f, t, q)]
<1> DEFINE children == {q \in DOMAIN rows : LikeUnder(q, f)}
           n == Cardinality(children)
           Ren(q) == [do |-> "rename", path |-> q, to |-> NewPath(f, t, q)]
<1>1. PICK order \in SetToSeqs(children) :
          renames = [i \in DOMAIN order |-> Ren(order[i])]
  BY DEF ChildRenames, NewPath
<1>2. IsFiniteSet(children) /\ n \in Nat
  <2>1. IsFiniteSet(children)
    BY FS_Subset
  <2>2. QED
    BY <2>1, FS_CardinalityType
<1>3. order \in [1..n -> children] /\ \A i, j \in 1..n : i # j => order[i] # order[j]
  BY DEF SetToSeqs
<1>4. \A q \in children : \E i \in 1..n : order[i] = q
  <2>1. IsFiniteSet(1..n) /\ Cardinality(1..n) = n
    BY <1>2, FS_Interval
  <2>2. order \in Injection(1..n, children)
    BY <1>3 DEF Injection, IsInjective
  <2>3. order \in Surjection(1..n, children)
    BY <1>2, <2>1, <2>2, FS_Injection
  <2>4. QED
    BY <2>3 DEF Surjection
<1>5. ASSUME NEW q \in children
      PROVE  Ren(q) \in StatementSet
  <2>1. q \in Paths /\ Len(f) + 1 \in Nat /\ Len(f) + 1 >= 1 /\ Len(q) \in Nat
    BY DEF RowsSet, Paths
  <2>2. SubSeq(q, Len(f) + 1, Len(q)) \in Seq(Name)
    BY <2>1 DEF Paths
  <2>3. NewPath(f, t, q) \in Paths
    BY <2>2 DEF NewPath, Paths
  <2>4. QED
    BY <2>1, <2>3 DEF StatementSet
<1>6. DOMAIN renames = 1..n /\ \A i \in 1..n : renames[i] = Ren(order[i]) /\ order[i] \in children
  BY <1>1, <1>3
<1>7. renames \in Seq(StatementSet)
  <2>1. renames \in [1..n -> StatementSet]
    BY <1>1, <1>3, <1>5
  <2> HIDE DEF n
  <2>2. QED
    BY <1>2, <2>1
<1>8. QED
  BY <1>4, <1>6, <1>7

LEMMA StepTypes ==
    ASSUME TypeOK, Step
    PROVE  TypeOK'
<1> DEFINE s == Head(todo)
<1>1. todo # <<>> /\ todo \in Seq(StatementSet) /\ call' = call /\ before' = before /\ call # Idle
  BY DEF TypeOK, Step
<1>2. s \in StatementSet /\ Tail(todo) \in Seq(StatementSet)
  BY <1>1, TailFacts, StatementFacts
<1>3. CASE /\ s.do = "children" /\ \E renames \in ChildRenames(s) : todo' = renames \o Tail(todo)
           /\ UNCHANGED <<rows, broken>>
  <2>1. PICK renames \in ChildRenames(s) : todo' = renames \o Tail(todo)
    BY <1>3
  <2>2. s = [do |-> "children", path |-> s.path, to |-> s.to] /\ s.path \in Paths /\ s.to \in Paths
    BY <1>2, <1>3 DEF StatementSet
  <2>3. renames \in Seq(StatementSet)
    BY <2>1, <2>2, ChildFacts DEF TypeOK
  <2>4. todo' \in Seq(StatementSet)
    BY <1>2, <2>1, <2>3, ConcatFacts
  <2>5. QED
    BY <1>1, <1>3, <2>4 DEF TypeOK
<1>4. CASE /\ s.do # "children" /\ Throws(s) /\ todo' = <<>> /\ broken' = TRUE /\ UNCHANGED rows
  <2>1. <<>> \in Seq(StatementSet)
    OBVIOUS
  <2>2. QED
    BY <1>1, <1>4, <2>1 DEF TypeOK
<1>5. CASE /\ s.do # "children" /\ ~Throws(s) /\ rows' = Effect(s) /\ todo' = Tail(todo)
           /\ UNCHANGED broken
  <2>1. s.do # "throw"
    BY <1>5 DEF Throws
  <2>2. RowsSet(rows') /\ IsFiniteSet(DOMAIN rows')
    BY <1>2, <1>5, <2>1, EffectTypes DEF TypeOK
  <2>3. ~broken
    BY <1>1 DEF TypeOK
  <2>4. QED
    BY <1>1, <1>2, <1>5, <2>2, <2>3 DEF TypeOK
<1>6. QED
  BY <1>3, <1>4, <1>5 DEF Step

-------------------------------------------------------------------------------
(* The beginning and the end of a call.  *)

LEMMA InitInv == Init => IInv
<1> SUFFICES ASSUME Init PROVE IInv
  OBVIOUS
<1>1. rows = <<>> /\ todo = <<>> /\ call = Idle /\ before = <<>> /\ broken = FALSE
  BY DEF Init
<1>2. DOMAIN rows = {} /\ DOMAIN todo = {} /\ IsFiniteSet({})
  BY <1>1, FS_EmptySet
<1>3. rows = [q \in {} |-> {}] /\ todo \in Seq(StatementSet)
  BY <1>1, <1>2
<1>4. RowsSet(rows)
  BY <1>2, <1>3 DEF RowsSet
<1>5. TypeOK
  BY <1>1, <1>2, <1>3, <1>4 DEF TypeOK
<1>6. RootIsDirectory
  BY <1>2 DEF RootIsDirectory
<1>7. call.op = "none"
  BY <1>1 DEF Idle
<1>8. QED
  BY <1>5, <1>6, <1>7 DEF IInv, Adding, Unlinking, Renaming, Writes

LEMMA ReturnInv ==
    ASSUME IInv, Return
    PROVE  IInv'
<1>1. /\ todo = <<>> /\ todo' = <<>> /\ rows' = rows /\ call' = Idle /\ ~broken' /\ before' = <<>>
      /\ broken' \in BOOLEAN
  BY DEF Return
<1>2. DOMAIN before' = {} /\ before' = [q \in {} |-> {}] /\ DOMAIN todo' = {}
  BY <1>1
<1>3. RowsSet(before')
  BY <1>2 DEF RowsSet
<1>4. TypeOK'
  BY <1>1, <1>3 DEF TypeOK, IInv
<1>5. RootIsDirectory'
  BY <1>1, <1>2 DEF RootIsDirectory, IInv
<1>6. call'.op = "none"
  BY <1>1 DEF Idle
<1>7. QED
  BY <1>4, <1>5, <1>6 DEF IInv, Adding, Unlinking, Renaming, Writes

LEMMA BreakOffInv ==
    ASSUME IInv, BreakOff
    PROVE  IInv'
<1>1. /\ todo' = <<>> /\ broken' = TRUE /\ UNCHANGED <<rows, call, before>> /\ todo # <<>>
  BY DEF BreakOff
<1>2. DOMAIN todo' = {} /\ todo' \in Seq(StatementSet) /\ call # Idle
  BY <1>1 DEF IInv, TypeOK
<1>3. TypeOK'
  BY <1>1, <1>2 DEF IInv, TypeOK
<1>4. RootIsDirectory'
  BY <1>1, <1>2 DEF IInv, RootIsDirectory
<1>5. Adding'
  BY <1>1, <1>2 DEF IInv, Adding, Grown, Target
<1>6. Unlinking'
  BY <1>1 DEF IInv, Unlinking
<1>7. Renaming'
  <2> SUFFICES ASSUME (call.op = "rename" /\ ~Under(call.path, call.to))' PROVE Renaming'
    BY DEF Renaming
  <2>1. call.op = "rename" /\ ~Under(call.path, call.to) /\ Renaming
    BY <1>1 DEF IInv
  <2>2. ASSUME Ensuring PROVE Ensuring'
    BY <1>1, <2>2 DEF Ensuring, Grown, Target
  <2>3. ASSUME NEW P, RowsAre(P) PROVE RowsAre(P)'
    BY <1>1, <2>3 DEF RowsAre, Moves, Stays, New
  <2>4. Moves' = Moves
    BY <1>1 DEF Moves, Stays
  <2>5. ASSUME Deleted PROVE Deleted'
    BY <1>1, <2>3, <2>4, <2>5 DEF Deleted
  <2>6. ASSUME Moving PROVE Moving'
    BY <1>1, <2>3, <2>4, <2>6 DEF Moving
  <2>7. QED
    BY <1>1, <2>1, <2>2, <2>5, <2>6 DEF Renaming
<1>8. QED
  BY <1>3, <1>4, <1>5, <1>6, <1>7 DEF IInv

\* Begin remembers the rows and changes none.
LEMMA BeginFacts ==
    ASSUME IInv, call = Idle, NEW c \in CallSet, NEW S \in Seq(StatementSet), Begin(c, S)
    PROVE  /\ TypeOK' /\ rows' = rows /\ before' = rows /\ call' = c /\ todo' = S
           /\ ~broken /\ ~broken'
<1>1. rows' = rows /\ before' = rows /\ call' = c /\ todo' = S /\ broken' = broken
  BY DEF Begin
<1>2. ~broken /\ c # Idle
  BY DEF IInv, TypeOK, CallSet, Writes, Idle
<1>3. QED
  BY <1>1, <1>2 DEF IInv, TypeOK

LEMMA AddingBegins ==
    ASSUME IInv, call = Idle, NEW o \in Writes, NEW p \in Paths, NEW S \in Seq(StatementSet),
           Begin([op |-> o, path |-> p], S),
           \A i \in DOMAIN S :
              \/ \E q \in Above(p) : S[i] = InsertDirectory(q)
              \/ S[i].do = "insert" /\ S[i].path = p /\ S[i].row.parent = parentPath(p)
              \/ S[i].do = "update" /\ S[i].path = p /\ p # Root
              \/ S[i].do = "throw",
           IsTree(rows) => \A q \in Above(p) :
              \/ q \in DOMAIN rows
              \/ \E i \in DOMAIN S : S[i] = InsertDirectory(q)
              \/ q = Root /\ o = "mkdir" /\ rows = <<>>,
           \A i \in DOMAIN S : S[i].do = "insert" /\ S[i].path = Root =>
              \/ S[i].row.type = "directory"
              \/ Root \in DOMAIN rows
              \/ \E j \in 1..(i - 1) : S[j] = InsertDirectory(Root)
    PROVE  IInv'
<1> DEFINE c == [op |-> o, path |-> p]
<1>1. c \in CallSet /\ c.op = o /\ c.path = p
  BY DEF CallSet
<1>2. /\ TypeOK' /\ rows' = rows /\ before' = rows /\ call' = c /\ todo' = S
      /\ ~broken /\ ~broken'
  BY <1>1, BeginFacts
<1>3. call'.op = o /\ o \in {"writeFile", "mkdir", "symlink"}
  BY <1>1, <1>2 DEF Writes
<1>4. Target' = p
  BY <1>1, <1>2, <1>3 DEF Target
<1>5. RootIsDirectory'
  <2>1. \A i \in DOMAIN S : S[i].do \notin {"rename", "children"}
    BY InsertDirectoryType, AboveFacts
  <2>2. QED
    BY <1>2, <1>3, <2>1 DEF IInv, RootIsDirectory, IsDirectory, Writes
<1>6. Grown'
  BY <1>2, <1>3 DEF Grown
<1>7. Coming'
  BY <1>2, <1>3, <1>4 DEF Coming
<1>8. \A i \in DOMAIN todo' : Adds(todo[i])'
  BY <1>2, <1>4 DEF Adds
<1>9. QED
  BY <1>2, <1>3, <1>5, <1>6, <1>7, <1>8 DEF IInv, Adding, Unlinking, Renaming, Writes

\* #ensureParents and the statements behind it.
LEMMA EnsuredBegins ==
    ASSUME IInv, call = Idle, NEW o \in Writes, NEW p \in Paths, NEW L \in Seq(StatementSet),
           Begin([op |-> o, path |-> p], EnsureParents(p) \o L),
           \A i \in DOMAIN L :
              \/ L[i].do = "insert" /\ L[i].path = p /\ L[i].row.parent = parentPath(p)
              \/ L[i] = InsertDirectory(p) /\ p # Root
              \/ L[i].do = "update" /\ L[i].path = p /\ p # Root
              \/ L[i].do = "throw"
    PROVE  IInv'
<1> DEFINE E == EnsureParents(p)
           S == E \o L
<1>1. /\ E \in Seq(StatementSet)
      /\ \A i \in DOMAIN E : \E q \in Above(p) : E[i] = InsertDirectory(q)
      /\ Root \in DOMAIN rows \/ \E i \in DOMAIN E : E[i] = InsertDirectory(Root)
      /\ IsTree(rows) => \A q \in Above(p) :
            q \in DOMAIN rows \/ \E i \in DOMAIN E : E[i] = InsertDirectory(q)
  BY EnsureFacts DEF IInv, TypeOK, RowsSet
<1>2. Begin([op |-> o, path |-> p], S)
  OBVIOUS
<1> HIDE DEF E
<1>3. /\ S \in Seq(StatementSet)
      /\ \A i \in DOMAIN E : i \in DOMAIN S /\ S[i] = E[i]
      /\ \A i \in DOMAIN S : \/ i \in DOMAIN E /\ S[i] = E[i]
                             \/ i - Len(E) \in DOMAIN L /\ S[i] = L[i - Len(E)]
  BY <1>1, ConcatFacts
<1>4. DOMAIN E = 1..Len(E) /\ Len(E) \in Nat /\ DOMAIN L = 1..Len(L) /\ Len(L) \in Nat
      /\ DOMAIN S \subseteq Nat
  BY <1>1, <1>3
<1> HIDE DEF S
<1>5. \A i \in DOMAIN S :
          \/ \E q \in Above(p) : S[i] = InsertDirectory(q)
          \/ S[i].do = "insert" /\ S[i].path = p /\ S[i].row.parent = parentPath(p)
          \/ S[i].do = "update" /\ S[i].path = p /\ p # Root
          \/ S[i].do = "throw"
  <2> SUFFICES ASSUME NEW i \in DOMAIN S
               PROVE  \/ \E q \in Above(p) : S[i] = InsertDirectory(q)
                      \/ S[i].do = "insert" /\ S[i].path = p /\ S[i].row.parent = parentPath(p)
                      \/ S[i].do = "update" /\ S[i].path = p /\ p # Root
                      \/ S[i].do = "throw"
    OBVIOUS
  <2>1. CASE i \in DOMAIN E /\ S[i] = E[i]
    BY <1>1, <2>1
  <2>2. CASE i - Len(E) \in DOMAIN L /\ S[i] = L[i - Len(E)]
    BY <2>2, InsertDirectoryType
  <2>3. QED
    BY <1>3, <2>1, <2>2
<1>6. IsTree(rows) => \A q \in Above(p) :
          q \in DOMAIN rows \/ \E i \in DOMAIN S : S[i] = InsertDirectory(q)
  BY <1>1, <1>3
<1>7. ASSUME NEW i \in DOMAIN S, S[i].do = "insert", S[i].path = Root, Root \notin DOMAIN rows,
             S[i].row.type # "directory"
      PROVE  \E j \in 1..(i - 1) : S[j] = InsertDirectory(Root)
  <2>1. PICK j \in DOMAIN E : E[j] = InsertDirectory(Root)
    BY <1>1, <1>7
  <2>2. CASE i \in DOMAIN E /\ S[i] = E[i]
    BY <1>1, <1>7, <2>2, InsertDirectoryType, AboveFacts
  <2>3. CASE i - Len(E) \in DOMAIN L
    <3>1. j \in 1..(i - 1)
      BY <1>4, <2>3
    <3>2. QED
      BY <1>3, <2>1, <3>1
  <2>4. QED
    BY <1>3, <2>2, <2>3
<1>8. QED
  BY <1>2, <1>3, <1>5, <1>6, <1>7, AddingBegins

LEMMA PathTypes == Path \subseteq Paths
<1> SUFFICES ASSUME NEW p \in Path PROVE p \in Paths
  OBVIOUS
<1>1. PICK m \in 0..MaxDepth : p \in [1..m -> Name]
  BY DEF Path, SeqOf
<1>2. m \in Nat
  BY VfsAssumption
<1>3. QED
  BY <1>1, <1>2 DEF Paths

LEMMA WriteFileBegins ==
    ASSUME IInv, call = Idle, NEW p \in Path, NEW content \in Content, WriteFile(p, content)
    PROVE  IInv'
<1> DEFINE row == Row("file", parentPath(p), content, None)
           L == IF p = Root \/ IsDirectory(rows, p) THEN Throw
                ELSE IF p \in DOMAIN rows
                THEN <<[do |-> "update", path |-> p, content |-> content]>>
                ELSE <<Insert(p, row)>>
<1>1. p \in Paths /\ parentPath(p) \in Paths
  BY PathTypes, ParentFacts DEF parentPath
<1>2. row \in RowSet /\ row.parent = parentPath(p)
  BY <1>1 DEF Row, RowSet
<1>3. PICK x \in StatementSet :
          /\ L = <<x>>
          /\ \/ x.do = "insert" /\ x.path = p /\ x.row.parent = parentPath(p)
             \/ x.do = "update" /\ x.path = p /\ p # Root
             \/ x.do = "throw"
  <2>1. CASE p = Root \/ IsDirectory(rows, p)
    BY <2>1 DEF Throw, StatementSet
  <2>2. CASE ~(p = Root \/ IsDirectory(rows, p)) /\ p \in DOMAIN rows
    BY <1>1, <2>2 DEF StatementSet
  <2>3. CASE ~(p = Root \/ IsDirectory(rows, p)) /\ p \notin DOMAIN rows
    BY <1>1, <1>2, <2>3 DEF Insert, StatementSet
  <2>4. QED
    BY <2>1, <2>2, <2>3
<1>4. L \in Seq(StatementSet) /\ \A i \in DOMAIN L : L[i] = x
  BY <1>3, SingletonFacts
<1>5. Begin([op |-> "writeFile", path |-> p], EnsureParents(p) \o L)
  BY DEF WriteFile
<1> HIDE DEF L
<1>6. \A i \in DOMAIN L :
          \/ L[i].do = "insert" /\ L[i].path = p /\ L[i].row.parent = parentPath(p)
          \/ L[i] = InsertDirectory(p) /\ p # Root
          \/ L[i].do = "update" /\ L[i].path = p /\ p # Root
          \/ L[i].do = "throw"
  BY <1>3, <1>4
<1>7. "writeFile" \in Writes
  BY DEF Writes
<1>8. QED
  BY <1>1, <1>4, <1>5, <1>6, <1>7, EnsuredBegins

LEMMA MkdirRecursiveBegins ==
    ASSUME IInv, call = Idle, NEW p \in Path, MkdirRecursive(p)
    PROVE  IInv'
<1> DEFINE L == IF p = Root \/ IsDirectory(rows, p) THEN <<>>
                ELSE IF p \in DOMAIN rows THEN Throw ELSE <<InsertDirectory(p)>>
<1>1. p \in Paths
  BY PathTypes
<1>2. /\ L \in Seq(StatementSet)
      /\ \A i \in DOMAIN L : (L[i] = InsertDirectory(p) /\ p # Root) \/ L[i].do = "throw"
  <2>1. CASE p = Root \/ IsDirectory(rows, p)
    <3>1. L = <<>>
      BY <2>1
    <3> HIDE DEF L
    <3>2. QED
      BY <3>1
  <2>2. CASE ~(p = Root \/ IsDirectory(rows, p))
    <3>1. PICK x \in StatementSet :
              L = <<x>> /\ ((x = InsertDirectory(p) /\ p # Root) \/ x.do = "throw")
      BY <1>1, <2>2, InsertDirectoryType DEF Throw, StatementSet
    <3> HIDE DEF L
    <3>2. QED
      BY <3>1, SingletonFacts
  <2>3. QED
    BY <2>1, <2>2
<1>3. Begin([op |-> "mkdir", path |-> p], EnsureParents(p) \o L)
  BY DEF MkdirRecursive
<1> HIDE DEF L
<1>4. QED
  BY <1>1, <1>2, <1>3, EnsuredBegins DEF Writes

LEMMA SymlinkBegins ==
    ASSUME IInv, call = Idle, NEW p \in Path, NEW target \in LinkTarget, Symlink(target, p)
    PROVE  IInv'
<1> DEFINE x == Insert(p, Row("link", parentPath(p), None, target))
<1>1. p \in Paths /\ parentPath(p) \in Paths
  BY PathTypes, ParentFacts DEF parentPath
<1>2. x \in StatementSet /\ x.do = "insert" /\ x.path = p /\ x.row.parent = parentPath(p)
  BY <1>1 DEF Insert, Row, RowSet, StatementSet
<1>3. Begin([op |-> "symlink", path |-> p], EnsureParents(p) \o <<x>>)
  BY DEF Symlink
<1> HIDE DEF x
<1>4. <<x>> \in Seq(StatementSet) /\ \A i \in DOMAIN <<x>> : <<x>>[i] = x
  BY <1>2, SingletonFacts
<1> DEFINE L == <<x>>
<1> HIDE DEF L
<1>5. L \in Seq(StatementSet) /\ (\A i \in DOMAIN L : L[i] = x)
      /\ Begin([op |-> "symlink", path |-> p], EnsureParents(p) \o L)
  BY <1>3, <1>4 DEF L
<1>6. QED
  BY <1>1, <1>2, <1>5, EnsuredBegins DEF Writes

LEMMA MkdirBegins ==
    ASSUME IInv, call = Idle, NEW p \in Path, Mkdir(p)
    PROVE  IInv'
<1> DEFINE x == Insert(p, Row("directory", parentPath(p), None, None))
<1>1. p \in Paths /\ parentPath(p) \in Paths /\ DOMAIN rows \in SUBSET Paths
  BY PathTypes, ParentFacts DEF parentPath, IInv, TypeOK, RowsSet
<1>2. /\ x \in StatementSet /\ x.do = "insert" /\ x.path = p /\ x.row.parent = parentPath(p)
      /\ x.row.type = "directory"
  BY <1>1 DEF Insert, Row, RowSet, StatementSet
<1>3. Begin([op |-> "mkdir", path |-> p], <<x>>)
  BY DEF Mkdir
<1>4. ASSUME IsTree(rows), NEW q \in Above(p)
      PROVE  q \in DOMAIN rows \/ (q = Root /\ rows = <<>>)
  <2> DEFINE pp == parentPath(p)
  <2>1. pp # Root => IsDirectory(rows, pp)
    BY DEF Mkdir
  <2>2. CASE q = pp /\ pp # Root
    BY <2>1, <2>2 DEF IsDirectory
  <2>3. CASE pp # Root /\ q # pp
    <3>1. p # Root
      BY <2>3 DEF parentPath
    <3>2. /\ q \in Paths /\ Under(p, q) /\ ~Under(q, p)
          /\ pp \in Paths /\ Under(p, pp) /\ Len(pp) = Len(p) - 1
          /\ Len(q) < Len(p) /\ Len(p) \in Nat /\ Len(q) \in Nat /\ Len(p) > 0
      BY <1>1, <3>1, AboveFacts, ParentFacts DEF Paths
    <3>3. Under(pp, q)
      <4>1. Len(q) <= Len(pp)
        BY <3>2
      <4>2. \A i \in 1..Len(pp) : p[i] = pp[i]
        BY <1>1, <3>2, UnderIff
      <4>3. \A i \in 1..Len(q) : p[i] = q[i] /\ i \in 1..Len(pp)
        BY <1>1, <3>2, <4>1, UnderIff
      <4>4. \A i \in 1..Len(q) : pp[i] = q[i]
        BY <4>2, <4>3
      <4> HIDE DEF pp
      <4>5. QED
        BY <3>2, <4>1, <4>4, UnderIff
    <3>4. q \in Above(pp)
      <4>1. Len(q) <= Len(pp) - 1
        <5>1. Len(q) # Len(pp)
          <6> HIDE DEF pp
          <6>1. QED
            BY <2>3, <3>2, <3>3, UnderIff, PathEqual
        <5>2. QED
          BY <3>2, <5>1
      <4>2. Len(q) \in 0..(Len(pp) - 1) /\ Len(q) \in 0..Len(pp)
        BY <3>2, <4>1
      <4>3. q = SubSeq(pp, 1, Len(q))
        BY <3>2, <3>3, <4>2 DEF Under, IsPrefix, Paths
      <4>4. QED
        BY <4>2, <4>3 DEF Above
    <3>5. IsDirectory(rows, q)
      <4>1. pp \in DOMAIN rows
        BY <2>1, <2>3 DEF IsDirectory
      <4> HIDE DEF pp
      <4>2. QED
        BY <1>1, <1>4, <2>3, <3>4, <4>1, TreeAbove
    <3>6. QED
      BY <3>5 DEF IsDirectory
  <2>4. CASE pp = Root
    <3>1. q = Root
      <4>1. CASE p = Root
        BY <4>1 DEF Above, Root
      <4>2. CASE p # Root
        <5>1. Len(p) = 1
          <6>1. Len(pp) = Len(p) - 1 /\ Len(p) \in Nat
            BY <1>1, <4>2, ParentFacts DEF Paths
          <6>2. Len(pp) = 0
            BY <2>4, RootFacts
          <6>3. QED
            BY <6>1, <6>2
        <5>2. q \in Paths /\ Len(q) < 1 /\ Len(q) \in Nat
          BY <1>1, <4>2, <5>1, AboveFacts DEF Paths
        <5>3. QED
          BY <5>2, RootFacts
      <4>3. QED
        BY <4>1, <4>2
    <3>2. CASE DOMAIN rows = {}
      BY <3>1, <3>2 DEF IInv, TypeOK, RowsSet
    <3>3. CASE DOMAIN rows # {}
      <4>1. PICK r \in DOMAIN rows : TRUE
        BY <3>3
      <4>2. CASE r = Root
        BY <3>1, <4>1, <4>2
      <4>3. CASE r # Root
        <5>1. IsDirectory(rows, Root)
          BY <1>1, <1>4, <4>1, <4>3, TreeAbove DEF Above
        <5>2. QED
          BY <3>1, <5>1 DEF IsDirectory
      <4>4. QED
        BY <4>2, <4>3
    <3>4. QED
      BY <3>2, <3>3
  <2>5. QED
    BY <2>2, <2>3, <2>4
<1> DEFINE S == <<x>>
<1> HIDE DEF x
<1>5. S \in Seq(StatementSet) /\ \A i \in DOMAIN S : S[i] = x
  BY <1>2, SingletonFacts
<1> HIDE DEF S
<1>6. Begin([op |-> "mkdir", path |-> p], S)
  BY <1>3 DEF S
<1>7. QED
  BY <1>1, <1>2, <1>4, <1>5, <1>6, AddingBegins DEF Writes

LEMMA UnlinkBegins ==
    ASSUME IInv, call = Idle, NEW p \in Path, Unlink(p)
    PROVE  IInv'
<1> DEFINE c == [op |-> "unlink", path |-> p]
           x == [do |-> "delete", path |-> p]
<1>1. p \in Paths /\ p \in DOMAIN rows /\ ~IsDirectory(rows, p)
  BY PathTypes DEF Unlink
<1>2. c \in CallSet /\ x \in StatementSet
  BY <1>1 DEF CallSet, StatementSet
<1>3. Begin(c, <<x>>)
  BY DEF Unlink
<1>4. <<x>> \in Seq(StatementSet) /\ \A i \in DOMAIN <<x>> : <<x>>[i] = x
  BY <1>2, SingletonFacts
<1>5. /\ TypeOK' /\ rows' = rows /\ before' = rows /\ call' = c /\ todo' = <<x>>
      /\ ~broken /\ ~broken'
  BY <1>2, <1>3, <1>4, BeginFacts
<1>6. RootIsDirectory'
  <2>1. \A i \in DOMAIN todo' : todo'[i].do = "delete"
    BY <1>4, <1>5
  <2>2. QED
    BY <1>5, <2>1 DEF IInv, RootIsDirectory, IsDirectory
<1>7. Unlinking'
  BY <1>1, <1>5 DEF Unlinking, IsDirectory
<1>8. QED
  BY <1>5, <1>6, <1>7 DEF IInv, Adding, Renaming, Writes

LEMMA PairFacts ==
    ASSUME NEW T, NEW x \in T, NEW y \in T
    PROVE  <<x>> \o <<y>> = <<x, y>> /\ <<x>> \o <<>> = <<x>>
<1>1. <<x>> \o <<y>> = <<x, y>>
  <2> DEFINE s == <<x>> \o <<y>>
             t == <<x, y>>
  <2>1. /\ <<x>> \in Seq(T) /\ <<y>> \in Seq(T) /\ 1 \in DOMAIN <<x>> /\ 1 \in DOMAIN <<y>>
        /\ <<x>>[1] = x /\ <<y>>[1] = y /\ Len(<<x>>) = 1 /\ Len(<<y>>) = 1
    OBVIOUS
  <2>2. s \in Seq(T) /\ Len(s) = 1 + 1 /\ s[1] = x /\ s[1 + 1] = y
    BY <2>1, ConcatFacts
  <2>3. t \in Seq(T) /\ Len(t) = 2 /\ t[1] = x /\ t[2] = y
    OBVIOUS
  <2> HIDE DEF s, t
  <2>4. Len(s) = 2 /\ s[2] = y
    BY <2>2
  <2>5. DOMAIN s = 1..2 /\ DOMAIN t = 1..2 /\ \A i \in 1..2 : s[i] = t[i]
    <3>1. \A i \in 1..2 : i = 1 \/ i = 2
      OBVIOUS
    <3>2. QED
      BY <2>2, <2>3, <2>4, <3>1
  <2>6. s = t
    BY <2>2, <2>3, <2>5
  <2>7. QED
    BY <2>6 DEF s, t
<1>2. <<x>> \o <<>> = <<x>>
  OBVIOUS
<1>3. QED
  BY <1>1, <1>2

LEMMA NewIsNewPath == \A q : New(q) = NewPath(call.path, call.to, q)
BY DEF New, NewPath

\* What remains of a rename once its destination is cleared.
LEMMA RestFacts ==
    ASSUME call.path \in Paths, call.to \in Paths
    PROVE  /\ Rest \in Seq(StatementSet) /\ Len(Rest) \in {1, 2} /\ DOMAIN Rest = 1..Len(Rest)
           /\ Rest[1] = Move(call.path)
           /\ Move(call.path) = [do |-> "rename", path |-> call.path, to |-> call.to]
           /\ IF IsDirectory(before, call.path)
              THEN Len(Rest) = 2 /\ Rest[2] = Children /\ Tail(Rest) = <<Children>>
              ELSE Len(Rest) = 1 /\ Tail(Rest) = <<>>
<1> DEFINE x == Move(call.path)
           y == Children
<1>1. New(call.path) = call.to
  BY NewIsNewPath, NewFacts, UnderOrder
<1>2. x = [do |-> "rename", path |-> call.path, to |-> call.to]
  BY <1>1 DEF Move
<1>3. x \in StatementSet /\ y \in StatementSet
  BY <1>2 DEF StatementSet, Children
<1>4. Rest = IF IsDirectory(before, call.path) THEN <<x, y>> ELSE <<x>>
  <2>1. <<x>> \o <<y>> = <<x, y>> /\ <<x>> \o <<>> = <<x>>
    BY <1>3, PairFacts
  <2>2. QED
    BY <2>1 DEF Rest
<1> HIDE DEF x, y
<1>5. /\ <<x, y>> \in Seq(StatementSet) /\ Len(<<x, y>>) = 2 /\ <<x, y>>[1] = x /\ <<x, y>>[2] = y
      /\ Tail(<<x, y>>) = <<y>> /\ DOMAIN <<x, y>> = 1..2
      /\ <<x>> \in Seq(StatementSet) /\ Len(<<x>>) = 1 /\ <<x>>[1] = x /\ Tail(<<x>>) = <<>>
      /\ DOMAIN <<x>> = 1..1
  BY <1>3
<1>6. QED
  BY <1>2, <1>4, <1>5 DEF x, y

LEMMA RenameBegins ==
    ASSUME IInv, call = Idle, NEW from \in DOMAIN rows, NEW to \in Path, Rename(from, to)
    PROVE  IInv'
<1> DEFINE c == [op |-> "rename", path |-> from, to |-> to]
           E == EnsureParents(to)
           cl == [do |-> "deleteByPrefix", path |-> to]
           mv == [do |-> "rename", path |-> from, to |-> to]
           ch == [do |-> "children", path |-> from, to |-> to]
           tail == IF IsDirectory(rows, from) THEN <<ch>> ELSE <<>>
           S == (E \o <<cl, mv>>) \o tail
<1>1. /\ from \in Paths /\ to \in Paths /\ to # Root /\ from # to
      /\ (from = Root \/ ~Under(to, from))
      /\ DOMAIN rows \in SUBSET Paths
  BY PathTypes DEF IInv, TypeOK, RowsSet, Rename
<1>2. c \in CallSet /\ c.op = "rename" /\ c.path = from /\ c.to = to /\ c # Idle
  BY <1>1 DEF CallSet, Idle
<1>3. cl \in StatementSet /\ mv \in StatementSet /\ ch \in StatementSet
  BY <1>1 DEF StatementSet
<1>4. Begin(c, S)
  BY DEF Rename, RenameStatements
<1>5. /\ E \in Seq(StatementSet)
      /\ \A i \in DOMAIN E : \E q \in Above(to) : E[i] = InsertDirectory(q)
      /\ IsTree(rows) => \A q \in Above(to) :
            q \in DOMAIN rows \/ \E i \in DOMAIN E : E[i] = InsertDirectory(q)
  BY <1>1, EnsureFacts
<1> DEFINE n == Len(E)
           two == <<cl, mv>>
<1>6. two \in Seq(StatementSet) /\ Len(two) = 2 /\ two[1] = cl /\ two[2] = mv
      /\ tail \in Seq(StatementSet) /\ Len(tail) = (IF IsDirectory(rows, from) THEN 1 ELSE 0)
      /\ (IsDirectory(rows, from) => tail[1] = ch)
  <2> HIDE DEF cl, mv, ch
  <2>1. <<ch>> \in Seq(StatementSet) /\ Len(<<ch>>) = 1 /\ <<ch>>[1] = ch
    BY <1>3
  <2>2. <<>> \in Seq(StatementSet) /\ Len(<<>>) = 0
    OBVIOUS
  <2>3. <<cl, mv>> \in Seq(StatementSet) /\ Len(<<cl, mv>>) = 2 /\ <<cl, mv>>[1] = cl
        /\ <<cl, mv>>[2] = mv
    BY <1>3
  <2>4. QED
    BY <2>1, <2>2, <2>3
<1> HIDE DEF E, cl, mv, ch, tail, two
<1>7. /\ S \in Seq(StatementSet) /\ n \in Nat /\ DOMAIN S = 1..Len(S)
      /\ Len(S) = n + 2 + Len(tail)
      /\ \A i \in 1..n : S[i] = E[i]
      /\ S[n + 1] = cl /\ S[n + 2] = mv
      /\ IsDirectory(rows, from) => S[n + 3] = ch
  <2> DEFINE S1 == E \o two
  <2>1. /\ S1 \in Seq(StatementSet) /\ Len(S1) = n + 2 /\ n \in Nat
        /\ \A i \in 1..n : S1[i] = E[i]
        /\ S1[n + 1] = two[1] /\ S1[n + 2] = two[2]
    <3>1. n \in Nat /\ DOMAIN E = 1..n
      BY <1>5
    <3>2. /\ E \o two \in Seq(StatementSet) /\ Len(E \o two) = Len(E) + Len(two)
          /\ \A i \in DOMAIN E : (E \o two)[i] = E[i]
          /\ \A i \in DOMAIN two : (E \o two)[Len(E) + i] = two[i]
      <4>1. E \in Seq(StatementSet) /\ two \in Seq(StatementSet)
        BY <1>5, <1>6
      <4>2. QED
        BY <4>1, ConcatFacts
    <3>3. Len(E) = n /\ Len(two) = 2 /\ 1 \in DOMAIN two /\ 2 \in DOMAIN two
      BY <1>6
    <3>4. S1 \in Seq(StatementSet) /\ Len(S1) = n + 2 /\ \A i \in 1..n : S1[i] = E[i]
      BY <3>1, <3>2, <3>3
    <3>5. S1[n + 1] = two[1] /\ S1[n + 2] = two[2]
      BY <3>2, <3>3
    <3>6. QED
      BY <3>1, <3>4, <3>5
  <2>2. S = S1 \o tail
    BY DEF two
  <2> HIDE DEF S1, S, n
  <2>3. /\ S \in Seq(StatementSet) /\ Len(S) = n + 2 + Len(tail) /\ DOMAIN S1 = 1..(n + 2)
        /\ \A i \in DOMAIN S1 : S[i] = S1[i]
        /\ \A i \in DOMAIN tail : S[n + 2 + i] = tail[i]
    <3>1. DOMAIN S1 = 1..(n + 2)
      BY <2>1
    <3>2. /\ S1 \o tail \in Seq(StatementSet) /\ Len(S1 \o tail) = Len(S1) + Len(tail)
          /\ \A i \in DOMAIN S1 : (S1 \o tail)[i] = S1[i]
          /\ \A i \in DOMAIN tail : (S1 \o tail)[Len(S1) + i] = tail[i]
      <4>1. S1 \in Seq(StatementSet) /\ tail \in Seq(StatementSet)
        BY <1>6, <2>1
      <4>2. QED
        BY <4>1, ConcatFacts
    <3>3. QED
      BY <2>1, <2>2, <3>1, <3>2
  <2>4. \A i \in 1..n : S[i] = E[i]
    BY <2>1, <2>3
  <2>5. S[n + 1] = cl /\ S[n + 2] = mv
    <3>1. n + 1 \in 1..(n + 2) /\ n + 2 \in 1..(n + 2)
      BY <2>1
    <3>2. S[n + 1] = S1[n + 1] /\ S[n + 2] = S1[n + 2]
      BY <2>3, <3>1
    <3>3. QED
      BY <1>6, <2>1, <3>2
  <2>6. ASSUME IsDirectory(rows, from)
        PROVE  S[n + 3] = ch
    <3>1. 1 \in DOMAIN tail /\ n + 2 + 1 = n + 3
      BY <1>6, <2>1, <2>6
    <3>2. QED
      BY <1>6, <2>3, <2>6, <3>1
  <2>7. QED
    BY <2>1, <2>3, <2>4, <2>5, <2>6
<1>8. S = (E \o <<cl, mv>>) \o tail
  OBVIOUS
<1> HIDE DEF S
<1>9. /\ TypeOK' /\ rows' = rows /\ before' = rows /\ call' = c /\ todo' = S
      /\ ~broken /\ ~broken'
  BY <1>2, <1>4, <1>7, BeginFacts
<1> HIDE DEF n, c
<1>10. Len(tail) \in {0, 1} /\ (Len(tail) = 1 <=> IsDirectory(rows, from))
  BY <1>6
<1>11. \A i \in DOMAIN E : E[i].do = "insert" /\ E[i].row.type = "directory"
  BY <1>1, <1>5, InsertDirectoryType, AboveFacts
<1>12. DOMAIN E = 1..n
  BY <1>5 DEF n
<1>13. \A i \in DOMAIN S : \/ i \in 1..n /\ S[i] = E[i]
                           \/ i = n + 1 /\ S[i] = cl
                           \/ i = n + 2 /\ S[i] = mv
                           \/ i = n + 3 /\ S[i] = ch
  <2> SUFFICES ASSUME NEW i \in DOMAIN S
               PROVE  \/ i \in 1..n /\ S[i] = E[i]
                      \/ i = n + 1 /\ S[i] = cl
                      \/ i = n + 2 /\ S[i] = mv
                      \/ i = n + 3 /\ S[i] = ch
    OBVIOUS
  <2>1. i \in Nat /\ i >= 1 /\ i <= n + 2 + Len(tail)
    BY <1>7
  <2>2. i \in 1..n \/ i = n + 1 \/ i = n + 2 \/ (i = n + 3 /\ Len(tail) = 1)
    <3>1. CASE Len(tail) = 1
      BY <1>7, <2>1, <3>1
    <3>2. CASE Len(tail) = 0
      BY <1>7, <2>1, <3>2
    <3>3. QED
      BY <1>10, <3>1, <3>2
  <2>3. QED
    BY <1>7, <1>10, <2>2
<1>14. RootIsDirectory'
  <2>1. \A i \in DOMAIN S : S[i].do = "insert" => S[i].row.type = "directory"
    BY <1>11, <1>12, <1>13 DEF cl, mv, ch
  <2>2. \A i \in DOMAIN S : S[i].do \in {"rename", "children"} => S[i].to # Root
    BY <1>1, <1>11, <1>12, <1>13 DEF cl, mv, ch
  <2>3. QED
    BY <1>9, <2>1, <2>2 DEF IInv, RootIsDirectory, IsDirectory
<1>15. Target' = to
  BY <1>2, <1>9 DEF Target
<1>16. Grown'
  BY <1>9 DEF Grown
<1>17. Coming'
  <2>1. ASSUME IsTree(rows), NEW q \in Above(to), q \notin DOMAIN rows
        PROVE  \E i \in DOMAIN S : S[i] = InsertDirectory(q)
    <3>1. PICK i \in DOMAIN E : E[i] = InsertDirectory(q)
      BY <1>5, <2>1
    <3>2. i \in DOMAIN S /\ S[i] = E[i]
      BY <1>7, <1>10, <1>12, <3>1
    <3>3. QED
      BY <3>1, <3>2
  <2>2. QED
    BY <1>9, <1>15, <2>1 DEF Coming
<1>18. Clear' = cl /\ Children' = ch /\ Above(call.to)' = Above(to)
  BY <1>2, <1>9 DEF Clear, Children, cl, ch
<1>19. Move(call.path)' = mv
  <2>1. NewPath(from, to, from) = to
    BY <1>1, NewFacts, UnderOrder
  <2>2. QED
    BY <1>2, <1>9, <2>1 DEF Move, New, NewPath, mv
<1>20. /\ Len(Rest)' = 1 + Len(tail) /\ Rest[1]' = mv
       /\ IsDirectory(rows, from) => Rest[2]' = ch
  <2>1. Rest' = <<mv>> \o IF IsDirectory(rows, from) THEN <<ch>> ELSE <<>>
    BY <1>2, <1>9, <1>18, <1>19 DEF Rest
  <2>2. <<mv>> \o <<>> = <<mv>> /\ <<mv>> \o <<ch>> = <<mv, ch>>
    BY <1>3, PairFacts
  <2>3. QED
    <3>1. CASE IsDirectory(rows, from)
      <4>1. Rest' = <<mv, ch>> /\ Len(tail) = 1
        BY <1>10, <2>1, <2>2, <3>1
      <4>2. Len(<<mv, ch>>) = 2 /\ <<mv, ch>>[1] = mv /\ <<mv, ch>>[2] = ch
        BY <1>3
      <4>3. QED
        BY <4>1, <4>2
    <3>2. CASE ~IsDirectory(rows, from)
      <4>1. Rest' = <<mv>> /\ Len(tail) = 0
        BY <1>10, <2>1, <2>2, <3>2
      <4>2. Len(<<mv>>) = 1 /\ <<mv>>[1] = mv
        BY <1>3
      <4>3. QED
        BY <3>2, <4>1, <4>2
    <3>3. QED
      BY <3>1, <3>2
<1>21. Ensuring'
  <2>1. n \in 0..Len(S) /\ Len(S) = n + 1 + Len(Rest)'
    BY <1>7, <1>10, <1>20
  <2>2. \A i \in 1..n : \E q \in Above(to) : S[i] = InsertDirectory(q)
    BY <1>5, <1>7, <1>12
  <2>3. \A i \in 1..(1 + Len(tail)) : S[n + 1 + i] = Rest[i]'
    <3>1. S[n + 1 + 1] = mv /\ (IsDirectory(rows, from) => S[n + 1 + 2] = ch)
      BY <1>7
    <3>2. \A i \in 1..(1 + Len(tail)) : i = 1 \/ (i = 2 /\ IsDirectory(rows, from))
      <4>1. CASE Len(tail) = 1
        BY <1>10, <4>1
      <4>2. CASE Len(tail) = 0
        BY <4>2
      <4>3. QED
        BY <1>10, <4>1, <4>2
    <3>3. QED
      BY <1>20, <3>1, <3>2
  <2>4. QED
    BY <1>7, <1>9, <1>16, <1>17, <1>18, <1>20, <2>1, <2>2, <2>3 DEF Ensuring
<1>22. QED
  BY <1>1, <1>2, <1>9, <1>14, <1>21 DEF IInv, Adding, Unlinking, Renaming, Writes

-------------------------------------------------------------------------------
(* The statements of a call that adds an entry.  *)

LEMMA StepFacts ==
    ASSUME TypeOK, Step
    PROVE  /\ todo \in Seq(StatementSet) /\ todo # <<>> /\ todo[1] \in StatementSet
           /\ 1 \in DOMAIN todo /\ ~broken /\ call' = call /\ before' = before
           /\ \/ /\ todo[1].do = "children" /\ UNCHANGED <<rows, broken>>
                 /\ todo[1].path \in Paths /\ todo[1].to \in Paths
                 /\ todo[1] = [do |-> "children", path |-> todo[1].path, to |-> todo[1].to]
                 /\ \E renames \in ChildRenames(todo[1]) : todo' = renames \o Tail(todo)
              \/ /\ todo[1].do # "children" /\ Throws(todo[1])
                 /\ todo' = <<>> /\ broken' /\ rows' = rows
              \/ /\ todo[1].do \notin {"children", "throw"} /\ ~Throws(todo[1])
                 /\ rows' = Effect(todo[1]) /\ todo' = Tail(todo) /\ broken' = broken
<1>1. todo \in Seq(StatementSet) /\ todo # <<>> /\ call' = call /\ before' = before
  BY DEF TypeOK, Step
<1>2. Head(todo) = todo[1] /\ todo[1] \in StatementSet /\ 1 \in DOMAIN todo /\ ~broken
  BY <1>1, TailFacts DEF TypeOK
<1>3. ASSUME todo[1].do = "children"
      PROVE  /\ todo[1].path \in Paths /\ todo[1].to \in Paths
             /\ todo[1] = [do |-> "children", path |-> todo[1].path, to |-> todo[1].to]
  BY <1>2, <1>3 DEF StatementSet
<1>4. ASSUME ~Throws(todo[1])
      PROVE  todo[1].do # "throw"
  BY <1>4 DEF Throws
<1>5. QED
  BY <1>1, <1>2, <1>3, <1>4 DEF Step

\* What each statement does to a path that is not its own.
LEMMA EffectFacts ==
    ASSUME RowsSet(rows), NEW s \in StatementSet, s.do \notin {"children", "throw"},
           ~Throws(s)
    PROVE  /\ s.do = "insert" =>
                 /\ s.path \notin DOMAIN rows
                 /\ DOMAIN Effect(s) = DOMAIN rows \cup {s.path}
                 /\ Effect(s)[s.path] = s.row
                 /\ \A q \in DOMAIN rows : Effect(s)[q] = rows[q]
           /\ s.do = "update" =>
                 /\ DOMAIN Effect(s) = DOMAIN rows
                 /\ \A q \in DOMAIN rows : /\ Effect(s)[q].type = rows[q].type
                                           /\ Effect(s)[q].parent = rows[q].parent
           /\ s.do = "delete" => Effect(s) = Restrict(rows, DOMAIN rows \ {s.path})
           /\ s.do \in {"delete", "deleteByPrefix"} =>
                 /\ DOMAIN Effect(s) \subseteq DOMAIN rows
                 /\ \A q \in DOMAIN Effect(s) : Effect(s)[q] = rows[q]
           /\ s.do = "deleteByPrefix" =>
                 DOMAIN Effect(s) = {q \in DOMAIN rows : q # s.path /\ ~LikeUnder(q, s.path)}
           /\ s.do = "rename" =>
                 /\ s.path \notin DOMAIN rows => Effect(s) = rows
                 /\ s.path \in DOMAIN rows =>
                       /\ s.to \notin DOMAIN rows
                       /\ DOMAIN Effect(s) = (DOMAIN rows \ {s.path}) \cup {s.to}
                       /\ Effect(s)[s.to] = Moved(rows[s.path], s.to)
                       /\ \A q \in DOMAIN rows \ {s.path} : Effect(s)[q] = rows[q]
<1>1. s.path \in Paths /\ rows \in [DOMAIN rows -> RowSet]
  BY StatementFacts DEF RowsSet
<1>2. ASSUME s.do = "insert"
      PROVE  /\ s.path \notin DOMAIN rows
             /\ DOMAIN Effect(s) = DOMAIN rows \cup {s.path}
             /\ Effect(s)[s.path] = s.row
             /\ \A q \in DOMAIN rows : Effect(s)[q] = rows[q]
  <2>1. Effect(s) = [q \in DOMAIN rows \cup {s.path} |-> IF q = s.path THEN s.row ELSE rows[q]]
    BY <1>2 DEF Effect
  <2>2. s.path \notin DOMAIN rows
    BY <1>2 DEF Throws
  <2>3. QED
    BY <2>1, <2>2
<1>3. ASSUME s.do = "update"
      PROVE  /\ DOMAIN Effect(s) = DOMAIN rows
             /\ \A q \in DOMAIN rows : /\ Effect(s)[q].type = rows[q].type
                                       /\ Effect(s)[q].parent = rows[q].parent
  <2>1. Effect(s) = [rows EXCEPT ![s.path].content = s.content]
    BY <1>3 DEF Effect
  <2>2. \A r \in RowSet : /\ [r EXCEPT !.content = s.content].type = r.type
                          /\ [r EXCEPT !.content = s.content].parent = r.parent
    BY DEF RowSet
  <2>3. QED
    BY <1>1, <2>1, <2>2
<1>4. ASSUME s.do = "delete"
      PROVE  Effect(s) = Restrict(rows, DOMAIN rows \ {s.path})
  BY <1>4 DEF Effect
<1>5. ASSUME s.do = "deleteByPrefix"
      PROVE  Effect(s) = Restrict(rows, {q \in DOMAIN rows : q # s.path /\ ~LikeUnder(q, s.path)})
  BY <1>5 DEF Effect
<1>6. ASSUME s.do = "rename"
      PROVE  /\ s.path \notin DOMAIN rows => Effect(s) = rows
             /\ s.path \in DOMAIN rows =>
                   /\ s.to \notin DOMAIN rows
                   /\ DOMAIN Effect(s) = (DOMAIN rows \ {s.path}) \cup {s.to}
                   /\ Effect(s)[s.to] = Moved(rows[s.path], s.to)
                   /\ \A q \in DOMAIN rows \ {s.path} : Effect(s)[q] = rows[q]
  <2>1. Effect(s) = IF s.path \notin DOMAIN rows THEN rows
                    ELSE [q \in (DOMAIN rows \ {s.path}) \cup {s.to} |->
                             IF q = s.to THEN Moved(rows[s.path], s.to) ELSE rows[q]]
    BY <1>6 DEF Effect
  <2>2. s.path \in DOMAIN rows => s.to \notin DOMAIN rows
    BY <1>6 DEF Throws
  <2>3. QED
    BY <2>1, <2>2
<1>7. QED
  BY <1>2, <1>3, <1>4, <1>5, <1>6 DEF Restrict

LEMMA ComingStep ==
    ASSUME TypeOK, Coming, todo # <<>>, todo' = Tail(todo), call' = call, before' = before,
           DOMAIN rows \subseteq DOMAIN rows',
           \A q : todo[1] = InsertDirectory(q) => q \in DOMAIN rows'
    PROVE  Coming'
<1>1. /\ \A i \in DOMAIN todo : i # 1 => i - 1 \in DOMAIN todo' /\ todo[i] = todo'[i - 1]
  BY TailFacts DEF TypeOK
<1>2. ASSUME NEW q, NEW i \in DOMAIN todo, todo[i] = InsertDirectory(q)
      PROVE  q \in DOMAIN rows' \/ \E j \in DOMAIN todo' : todo'[j] = InsertDirectory(q)
  BY <1>1, <1>2
<1>3. QED
  BY <1>2 DEF Coming, Target

LEMMA StepAdding ==
    ASSUME IInv, Step
    PROVE  Adding'
<1>1. call' = call /\ before' = before /\ todo \in Seq(StatementSet) /\ 1 \in DOMAIN todo
      /\ todo # <<>> /\ ~broken /\ todo[1] \in StatementSet
  BY StepFacts DEF IInv
<1> SUFFICES ASSUME call.op \in Writes
             PROVE  Grown' /\ (~broken' => Coming') /\ \A i \in DOMAIN todo' : Adds(todo[i])'
  BY <1>1 DEF Adding
<1>2. Grown /\ Coming /\ \A i \in DOMAIN todo : Adds(todo[i])
  BY <1>1 DEF IInv, Adding
<1>3. Target' = Target /\ Above(Target)' = Above(Target) /\ call.op # "rename" /\ Target = call.path
  BY <1>1 DEF Target, Writes
<1>4. Target \in Paths
  BY <1>3 DEF IInv, TypeOK, CallSet, Writes, Idle
<1> DEFINE s == todo[1]
<1>5. Adds(s) /\ s.do \in {"insert", "update", "throw"}
  <2>1. Adds(s)
    BY <1>1, <1>2
  <2>2. QED
    BY <1>4, <2>1, InsertDirectoryType, AboveFacts DEF Adds
<1>6. ASSUME todo' = <<>> /\ broken' /\ rows' = rows
      PROVE  Grown' /\ (~broken' => Coming') /\ \A i \in DOMAIN todo' : Adds(todo[i])'
  <2>1. DOMAIN todo' = {}
    BY <1>6
  <2>2. Grown'
    BY <1>1, <1>2, <1>3, <1>6 DEF Grown
  <2>3. QED
    BY <1>6, <2>1, <2>2
<1>7. ASSUME s.do \in {"insert", "update"}, ~Throws(s), rows' = Effect(s), todo' = Tail(todo)
      PROVE  Grown' /\ Coming' /\ \A i \in DOMAIN todo' : Adds(todo[i])'
  <2>1. \A i \in DOMAIN todo' : Adds(todo[i])'
    <3>1. \A i \in DOMAIN todo' : i + 1 \in DOMAIN todo /\ todo'[i] = todo[i + 1]
      BY <1>1, <1>7, TailFacts
    <3>2. \A i \in DOMAIN todo' : Adds(todo[i + 1])
      BY <1>2, <3>1
    <3>3. QED
      BY <1>1, <1>3, <3>1, <3>2 DEF Adds
  <2>2. RowsSet(rows)
    BY DEF IInv, TypeOK
  <2>3. /\ DOMAIN rows \subseteq DOMAIN rows'
        /\ \A q \in DOMAIN rows : rows'[q].type = rows[q].type /\ rows'[q].parent = rows[q].parent
        /\ \A q \in DOMAIN rows : s.do = "insert" => rows'[q] = rows[q]
        /\ \A q \in DOMAIN rows' \ DOMAIN rows :
              s.do = "insert" /\ q = s.path /\ rows'[q] = s.row
        /\ s.do = "insert" => s.path \in DOMAIN rows'
    <3>1. s \in StatementSet /\ rows' = Effect(s)
      BY <1>1, <1>7
    <3> HIDE DEF s
    <3>2. CASE s.do = "insert"
      BY <1>7, <2>2, <3>1, <3>2, EffectFacts
    <3>3. CASE s.do = "update"
      BY <1>7, <2>2, <3>1, <3>3, EffectFacts
    <3>4. QED
      BY <1>7, <3>2, <3>3
  <2>4. Coming'
    <3>1. \A q : s = InsertDirectory(q) => s.do = "insert" /\ s.path = q
      BY DEF InsertDirectory, Insert
    <3>2. QED
      BY <1>1, <1>2, <1>7, <2>3, <3>1, ComingStep DEF IInv
  <2>5. Grown'
    <3>1. DOMAIN before \subseteq DOMAIN rows'
      BY <1>2, <2>3 DEF Grown
    <3>2. \A q \in DOMAIN before : rows'[q].type = before[q].type /\ rows'[q].parent = before[q].parent
      BY <1>2, <2>3 DEF Grown
    <3>3. ASSUME NEW q \in DOMAIN rows' \ DOMAIN before
          PROVE  \/ q \in Above(Target) /\ rows'[q] = NewDirectory(q)
                 \/ q = Target /\ rows'[q].parent = parentPath(q)
      <4>1. CASE q \in DOMAIN rows /\ s.do = "insert"
        BY <1>2, <2>3, <3>3, <4>1 DEF Grown
      <4>2. CASE q \in DOMAIN rows /\ s.do = "update"
        <5>1. CASE q = Target
          <6>1. q \notin Above(Target)
            <7>1. Target # Root
              BY <1>4, <1>5, <4>2, InsertDirectoryType, AboveFacts DEF Adds
            <7>2. QED
              BY <1>4, <5>1, <7>1, AboveFacts, UnderOrder
          <6>2. rows[q].parent = parentPath(q)
            BY <1>2, <3>3, <4>2, <6>1 DEF Grown
          <6>3. QED
            BY <2>3, <4>2, <5>1, <6>2
        <5>2. CASE q # Target
          <6>1. q \in Above(Target) /\ rows[q] = NewDirectory(q)
            BY <1>2, <3>3, <4>2, <5>2 DEF Grown
          <6>2. rows'[q] = rows[q]
            <7>1. s.path = Target
              BY <1>4, <1>5, <4>2, InsertDirectoryType, AboveFacts DEF Adds
            <7>2. rows' = [rows EXCEPT ![s.path].content = s.content]
              BY <1>7, <4>2 DEF Effect
            <7>3. QED
              BY <4>2, <5>2, <7>1, <7>2
          <6>3. QED
            BY <6>1, <6>2
        <5>3. QED
          BY <5>1, <5>2
      <4>3. CASE q \notin DOMAIN rows
        <5>1. s.do = "insert" /\ q = s.path /\ rows'[q] = s.row
          BY <2>3, <3>3, <4>3
        <5>2. CASE \E a \in Above(Target) : s = InsertDirectory(a)
          BY <5>1, <5>2 DEF InsertDirectory, Insert, NewDirectory
        <5>3. CASE s.path = Target /\ s.row.parent = parentPath(Target)
          BY <5>1, <5>3
        <5>4. QED
          BY <1>5, <5>1, <5>2, <5>3 DEF Adds
      <4>4. QED
        BY <1>7, <4>1, <4>2, <4>3
    <3>4. QED
      BY <1>1, <1>3, <3>1, <3>2, <3>3 DEF Grown
  <2>6. QED
    BY <2>1, <2>4, <2>5
<1>8. QED
  BY <1>5, <1>6, <1>7, StepFacts DEF IInv

LEMMA StepRoot ==
    ASSUME IInv, Literal, Step
    PROVE  RootIsDirectory'
<1> DEFINE s == todo[1]
<1>1. call' = call /\ before' = before /\ todo \in Seq(StatementSet) /\ 1 \in DOMAIN todo
      /\ todo # <<>> /\ ~broken /\ s \in StatementSet
  BY StepFacts DEF IInv
<1>2. RootIsDirectory /\ RowsSet(rows) /\ IsFiniteSet(DOMAIN rows)
  BY DEF IInv, TypeOK
<1>3. \A i \in DOMAIN Tail(todo) : i + 1 \in DOMAIN todo /\ Tail(todo)[i] = todo[i + 1]
  BY <1>1, TailFacts
<1>4. Tail(todo) \in Seq(StatementSet)
  BY <1>1, TailFacts
<1>5. ASSUME todo' = <<>> /\ broken' /\ rows' = rows
      PROVE  RootIsDirectory'
  <2>1. DOMAIN todo' = {}
    BY <1>5
  <2>2. QED
    BY <1>2, <1>5, <2>1 DEF RootIsDirectory, IsDirectory
<1>6. CASE /\ s.do = "children" /\ UNCHANGED <<rows, broken>>
           /\ \E renames \in ChildRenames(s) : todo' = renames \o Tail(todo)
  <2>1. s = [do |-> "children", path |-> s.path, to |-> s.to] /\ s.path \in Paths /\ s.to \in Paths
    BY <1>6, StepFacts DEF IInv
  <2>2. s.to # Root
    BY <1>1, <1>2, <1>6 DEF RootIsDirectory
  <2>3. PICK renames \in ChildRenames(s) : todo' = renames \o Tail(todo)
    BY <1>6
  <2>4. /\ renames \in Seq(StatementSet)
        /\ \A i \in DOMAIN renames : \E q \in DOMAIN rows :
              LikeUnder(q, s.path)
              /\ renames[i] = [do |-> "rename", path |-> q, to |-> NewPath(s.path, s.to, q)]
    BY <1>2, <2>1, <2>3, ChildFacts
  <2>5. ASSUME NEW i \in DOMAIN renames
        PROVE  renames[i].do = "rename" /\ renames[i].to # Root
    <3>1. PICK q \in DOMAIN rows : /\ LikeUnder(q, s.path)
              /\ renames[i] = [do |-> "rename", path |-> q, to |-> NewPath(s.path, s.to, q)]
      BY <2>4
    <3>2. q \in Paths /\ Under(q, s.path) /\ q # s.path
      BY <1>2, <2>1, <3>1, LikeIsUnder DEF RowsSet
    <3>3. NewPath(s.path, s.to, q) # Root
      BY <2>1, <3>2, NewParent
    <3>4. QED
      BY <3>1, <3>3
  <2>6. \A i \in DOMAIN todo' : \/ i \in DOMAIN renames /\ todo'[i] = renames[i]
                                \/ \E j \in DOMAIN todo : todo'[i] = todo[j]
    <3> DEFINE rest == Tail(todo)
    <3>1. \A i \in DOMAIN (renames \o rest) :
              \/ i \in DOMAIN renames /\ (renames \o rest)[i] = renames[i]
              \/ i - Len(renames) \in DOMAIN rest /\ (renames \o rest)[i] = rest[i - Len(renames)]
      BY <1>4, <2>4, ConcatFacts
    <3>2. \A i \in DOMAIN rest : \E j \in DOMAIN todo : rest[i] = todo[j]
      BY <1>3
    <3> HIDE DEF rest
    <3>3. QED
      BY <2>3, <3>1, <3>2 DEF rest
  <2>7. call.op \notin Writes
    <3> SUFFICES ASSUME call.op \in Writes PROVE FALSE
      OBVIOUS
    <3>1. Adds(s)
      BY <1>1 DEF IInv, Adding
    <3>2. Target \in Paths
      BY DEF IInv, TypeOK, CallSet, Writes, Idle, Target
    <3>3. QED
      BY <1>6, <3>1, <3>2, InsertDirectoryType, AboveFacts DEF Adds
  <2>8. \A i \in DOMAIN todo' : todo'[i].do = "insert" /\ todo'[i].path = Root =>
            todo'[i].row.type = "directory"
    BY <1>2, <2>5, <2>6, <2>7 DEF RootIsDirectory
  <2>9. \A i \in DOMAIN todo' : todo'[i].do \in {"rename", "children"} => todo'[i].to # Root
    BY <1>2, <2>5, <2>6 DEF RootIsDirectory
  <2>10. QED
    BY <1>2, <1>6, <2>8, <2>9 DEF RootIsDirectory, IsDirectory
<1>7. CASE /\ s.do \notin {"children", "throw"} /\ ~Throws(s)
           /\ rows' = Effect(s) /\ todo' = Tail(todo) /\ broken' = broken
  <2>1. s.do \in {"insert", "update", "delete", "deleteByPrefix", "rename"}
    BY <1>1, <1>7, StatementFacts
  <2>2. IsDirectory(rows, Root)' \/ Root \notin DOMAIN rows'
    <3>1. CASE s.do = "insert"
      <4>1. /\ DOMAIN rows' = DOMAIN rows \cup {s.path} /\ rows'[s.path] = s.row
            /\ s.path \notin DOMAIN rows /\ \A q \in DOMAIN rows : rows'[q] = rows[q]
        BY <1>1, <1>2, <1>7, <3>1, EffectFacts
      <4>2. s.path = Root => s.row.type = "directory"
        <5>1. \A j \in 1..(1 - 1) : FALSE
          OBVIOUS
        <5>2. QED
          BY <1>1, <1>2, <3>1, <4>1, <5>1 DEF RootIsDirectory
      <4>3. QED
        BY <1>2, <4>1, <4>2 DEF RootIsDirectory, IsDirectory
    <3>2. CASE s.do = "update"
      BY <1>1, <1>2, <1>7, <3>2, EffectFacts DEF RootIsDirectory, IsDirectory
    <3>3. CASE s.do \in {"delete", "deleteByPrefix"}
      BY <1>1, <1>2, <1>7, <3>3, EffectFacts DEF RootIsDirectory, IsDirectory
    <3>4. CASE s.do = "rename"
      <4>1. s.to # Root
        BY <1>1, <1>2, <3>4 DEF RootIsDirectory
      <4>2. rows' = rows \/ /\ DOMAIN rows' = (DOMAIN rows \ {s.path}) \cup {s.to}
                            /\ \A q \in DOMAIN rows \ {s.path} : rows'[q] = rows[q]
        BY <1>1, <1>2, <1>7, <3>4, EffectFacts
      <4>3. QED
        BY <1>2, <4>1, <4>2 DEF RootIsDirectory, IsDirectory
    <3>5. QED
      BY <2>1, <3>1, <3>2, <3>3, <3>4
  <2>3. \A i \in DOMAIN todo' : todo'[i].do \in {"rename", "children"} => todo'[i].to # Root
    BY <1>2, <1>3, <1>7 DEF RootIsDirectory
  <2>4. ASSUME NEW i \in DOMAIN todo', todo'[i].do = "insert", todo'[i].path = Root,
               todo'[i].row.type # "directory"
        PROVE  /\ call'.op \in Writes
               /\ \/ Root \in DOMAIN rows'
                  \/ \E j \in 1..(i - 1) : todo'[j] = InsertDirectory(Root)
    <3>1. i + 1 \in DOMAIN todo /\ todo'[i] = todo[i + 1] /\ i \in Nat
      BY <1>3, <1>4, <1>7
    <3>2. /\ call.op \in Writes
          /\ \/ Root \in DOMAIN rows
             \/ \E j \in 1..((i + 1) - 1) : todo[j] = InsertDirectory(Root)
      BY <1>2, <2>4, <3>1 DEF RootIsDirectory
    <3>3. s.do \in {"insert", "update"}
      <4>1. Adds(s)
        BY <1>1, <3>2 DEF IInv, Adding
      <4>2. Target \in Paths
        BY <3>2 DEF IInv, TypeOK, CallSet, Writes, Idle, Target
      <4>3. QED
        BY <1>7, <4>1, <4>2, InsertDirectoryType, AboveFacts DEF Adds
    <3>4. DOMAIN rows \subseteq DOMAIN rows'
      BY <1>1, <1>2, <1>7, <3>3, EffectFacts
    <3>5. ASSUME NEW j \in 1..i, todo[j] = InsertDirectory(Root)
          PROVE  Root \in DOMAIN rows' \/ \E k \in 1..(i - 1) : todo'[k] = InsertDirectory(Root)
      <4>1. CASE j = 1
        <5>1. s.do = "insert" /\ s.path = Root
          BY <3>5, <4>1, InsertDirectoryType, RootFacts
        <5>2. QED
          BY <1>1, <1>2, <1>7, <5>1, EffectFacts
      <4>2. CASE j # 1
        <5>1. j - 1 \in 1..(i - 1) /\ j \in 1..Len(todo) /\ DOMAIN todo = 1..Len(todo)
          BY <1>1, <3>1, <4>2
        <5>2. j - 1 \in DOMAIN todo' /\ todo[j] = todo'[j - 1]
          BY <1>1, <1>7, <4>2, <5>1, TailFacts
        <5>3. QED
          BY <3>5, <5>1, <5>2
      <4>3. QED
        BY <4>1, <4>2
    <3>6. (i + 1) - 1 = i
      BY <3>1
    <3>7. QED
      BY <1>1, <3>2, <3>4, <3>5, <3>6
  <2>5. QED
    BY <2>2, <2>3, <2>4 DEF RootIsDirectory
<1>8. QED
  BY <1>5, <1>6, <1>7, StepFacts DEF IInv

LEMMA StepUnlinking ==
    ASSUME IInv, Step
    PROVE  Unlinking'
<1>1. call' = call /\ before' = before /\ todo # <<>> /\ ~broken
  BY StepFacts DEF IInv
<1> SUFFICES ASSUME call.op = "unlink" PROVE Unlinking'
  BY <1>1 DEF Unlinking
<1> DEFINE x == [do |-> "delete", path |-> call.path]
<1>2. /\ call.path \in DOMAIN before /\ ~IsDirectory(before, call.path)
      /\ rows = before /\ todo = <<x>>
  BY <1>1 DEF IInv, Unlinking
<1>3. todo[1] = x /\ Tail(todo) = <<>> /\ x.do = "delete"
  BY <1>2
<1>4. ~Throws(todo[1])
  BY <1>3 DEF Throws
<1>5. rows' = Effect(x) /\ todo' = <<>>
  BY <1>3, <1>4, StepFacts DEF IInv
<1>6. Effect(x) = Restrict(rows, DOMAIN rows \ {call.path})
  BY DEF Effect
<1>7. QED
  BY <1>1, <1>2, <1>5, <1>6 DEF Unlinking, IsDirectory

-------------------------------------------------------------------------------
(* The statements of a rename.  *)

\* A rename that RenameMoves does not except.
RenameUnderWay ==
    /\ call.op = "rename" /\ ~Under(call.path, call.to)
    /\ call.path \in DOMAIN before /\ call.to # Root
    /\ call.path = Root \/ ~Under(call.to, call.path)

LEMMA RenameFacts ==
    ASSUME TypeOK, RenameUnderWay
    PROVE  /\ call.path \in Paths /\ call.to \in Paths /\ Target = call.to
           /\ DOMAIN before \in SUBSET Paths /\ call.path \in Moves
           /\ Moves \subseteq Stays /\ Stays \subseteq DOMAIN before
           /\ \A q \in Moves : New(q) \in Paths /\ Under(New(q), call.to)
           /\ \A q \in Above(call.to) : /\ q \in Paths /\ ~Under(q, call.to)
                                        /\ call.path # Root => ~Under(q, call.path)
<1>1. call.path \in Paths /\ call.to \in Paths /\ Target = call.to
  BY DEF TypeOK, RenameUnderWay, CallSet, Writes, Idle, Target
<1>2. DOMAIN before \in SUBSET Paths
  BY DEF TypeOK, RowsSet
<1>3. Moves \subseteq Stays /\ Stays \subseteq DOMAIN before
  BY DEF Moves, Stays
<1>4. call.path \in Moves
  BY <1>1, UnderOrder DEF Moves, Stays, RenameUnderWay
<1>5. ASSUME NEW q \in Moves
      PROVE  New(q) \in Paths /\ Under(New(q), call.to)
  <2>1. q \in Paths /\ Under(q, call.path)
    BY <1>2 DEF Moves, Stays
  <2>2. QED
    BY <1>1, <2>1, NewFacts, NewIsNewPath
<1>6. ASSUME NEW q \in Above(call.to)
      PROVE  /\ q \in Paths /\ ~Under(q, call.to)
             /\ call.path # Root => ~Under(q, call.path)
  <2>1. q \in Paths /\ Under(call.to, q) /\ ~Under(q, call.to)
    BY <1>1, AboveFacts DEF RenameUnderWay
  <2>2. QED
    BY <1>1, <2>1, UnderOrder DEF RenameUnderWay
<1>7. QED
  BY <1>1, <1>2, <1>3, <1>4, <1>5, <1>6

\* The entries at or below the destination are deleted.
LEMMA ClearStep ==
    ASSUME TypeOK, Literal, RenameUnderWay, Grown, Coming, ~broken, ~broken',
           \A i \in DOMAIN todo : todo[i].do # "insert",
           rows' = Effect(Clear), call' = call, before' = before
    PROVE  RowsAre(Moves)'
<1>1. /\ call.path \in Paths /\ call.to \in Paths /\ Target = call.to /\ call.to # Root
      /\ DOMAIN before \in SUBSET Paths /\ DOMAIN rows \in SUBSET Paths /\ call.op = "rename"
      /\ \A q \in Above(call.to) : q \in Paths /\ ~Under(q, call.to)
  BY RenameFacts DEF TypeOK, RowsSet, RenameUnderWay
<1>2. Clear \in StatementSet /\ Clear.do = "deleteByPrefix" /\ Clear.path = call.to /\ ~Throws(Clear)
  BY <1>1 DEF Clear, StatementSet, Throws
<1>3. /\ DOMAIN rows' = {q \in DOMAIN rows : ~Under(q, call.to)}
      /\ \A q \in DOMAIN rows' : rows'[q] = rows[q]
  <2>1. DOMAIN rows' = {q \in DOMAIN rows : q # call.to /\ ~LikeUnder(q, call.to)}
    BY <1>2, EffectFacts DEF TypeOK
  <2>2. \A q \in DOMAIN rows : Under(q, call.to) <=> ~(q # call.to /\ ~LikeUnder(q, call.to))
    BY <1>1, LikeIsUnder, UnderOrder
  <2>3. \A q \in DOMAIN rows' : rows'[q] = rows[q]
    BY <1>2, EffectFacts DEF TypeOK
  <2>4. QED
    BY <2>1, <2>2, <2>3
<1>4. Moves' = Moves /\ Stays' = Stays /\ Moves \subseteq Stays
  BY DEF Moves, Stays
<1>5. ASSUME NEW q \in Stays
      PROVE  q \in DOMAIN rows' /\ rows'[q] = before[q]
  BY <1>1, <1>3 DEF Stays, Grown
<1>6. ASSUME NEW q \in DOMAIN rows'
      PROVE  \/ q \in Stays
             \/ q \notin DOMAIN before /\ q \in Above(call.to) /\ rows'[q] = NewDirectory(q)
  BY <1>1, <1>3 DEF Stays, Grown
<1>7. ASSUME IsTree(before)
      PROVE  Above(call.to) \subseteq DOMAIN rows'
  <2> SUFFICES ASSUME NEW q \in Above(call.to) PROVE q \in DOMAIN rows'
    OBVIOUS
  <2>1. \A i \in DOMAIN todo : todo[i] # InsertDirectory(q)
    BY <1>1, InsertDirectoryType
  <2>2. q \in DOMAIN rows
    BY <1>1, <1>7, <2>1 DEF Coming
  <2>3. QED
    BY <1>1, <1>3, <2>2
<1>8. QED
  BY <1>4, <1>5, <1>6, <1>7 DEF RowsAre

\* One entry moves.
LEMMA MoveStep ==
    ASSUME TypeOK, RenameUnderWay, NEW P, RowsAre(P), NEW r \in Moves, ~broken,
           ~Throws(Move(r)), rows' = Effect(Move(r)), call' = call, before' = before
    PROVE  RowsAre(P \ {r})'
<1>1. /\ call.path \in Paths /\ call.to \in Paths /\ DOMAIN before \in SUBSET Paths
      /\ Moves \subseteq Stays /\ Stays \subseteq DOMAIN before /\ r \in Paths
      /\ \A q \in Moves : New(q) \in Paths /\ Under(New(q), call.to)
      /\ \A q \in Above(call.to) : /\ q \in Paths /\ ~Under(q, call.to)
                                   /\ call.path # Root => ~Under(q, call.path)
  BY RenameFacts
<1>2. \A q \in Stays : ~Under(q, call.to)
  BY DEF Stays
<1>3. Under(r, call.path)
  BY DEF Moves
<1>4. Moves' = Moves /\ Stays' = Stays /\ (\A q : New(q)' = New(q))
  BY DEF Moves, Stays, New
<1>5. /\ Move(r) \in StatementSet /\ Move(r).do = "rename" /\ Move(r).path = r
      /\ Move(r).to = New(r)
  BY <1>1 DEF Move, StatementSet
<1>6. CASE r \in P
  <2>1. r \in DOMAIN rows /\ rows[r] = before[r]
    BY <1>6 DEF RowsAre
  <2>2. /\ New(r) \notin DOMAIN rows
        /\ DOMAIN rows' = (DOMAIN rows \ {r}) \cup {New(r)}
        /\ rows'[New(r)] = Moved(before[r], New(r))
        /\ \A q \in DOMAIN rows \ {r} : rows'[q] = rows[q]
    BY <1>5, <2>1, EffectFacts DEF TypeOK
  <2>3. ASSUME NEW q \in (Stays \ Moves) \cup (P \ {r})
        PROVE  q \in DOMAIN rows' /\ rows'[q] = before[q]
    BY <2>2, <2>3 DEF RowsAre
  <2>4. ASSUME NEW q \in Moves \ (P \ {r})
        PROVE  New(q) \in DOMAIN rows' /\ rows'[New(q)] = Moved(before[q], New(q))
    <3>1. CASE q = r
      BY <2>2, <3>1
    <3>2. CASE q # r
      <4>1. New(q) \in DOMAIN rows /\ rows[New(q)] = Moved(before[q], New(q))
        BY <2>4, <3>2 DEF RowsAre
      <4>2. New(q) # r
        BY <1>1, <1>2
      <4>3. QED
        BY <2>2, <4>1, <4>2
    <3>3. QED
      BY <3>1, <3>2
  <2>5. ASSUME NEW q \in DOMAIN rows'
        PROVE  \/ q \in (Stays \ Moves) \cup (P \ {r})
               \/ \E t \in Moves \ (P \ {r}) : q = New(t)
               \/ q \notin DOMAIN before /\ q \in Above(call.to) /\ rows'[q] = NewDirectory(q)
    BY <2>2 DEF RowsAre
  <2>6. ASSUME IsTree(before), call.path # Root
        PROVE  Above(call.to) \subseteq DOMAIN rows'
    <3>1. Above(call.to) \subseteq DOMAIN rows
      BY <2>6 DEF RowsAre
    <3>2. r \notin Above(call.to)
      BY <1>1, <1>3, <2>6
    <3>3. QED
      BY <2>2, <3>1, <3>2
  <2>7. P \ {r} \subseteq Moves
    BY DEF RowsAre
  <2>8. QED
    BY <1>4, <2>3, <2>4, <2>5, <2>6, <2>7 DEF RowsAre
<1>7. CASE r \notin P
  <2>1. r \notin DOMAIN rows
    BY <1>1, <1>2, <1>7 DEF RowsAre
  <2>2. rows' = rows /\ P \ {r} = P
    BY <1>5, <1>7, <2>1, EffectFacts DEF TypeOK
  <2>3. QED
    BY <1>4, <2>2 DEF RowsAre
<1>8. QED
  BY <1>6, <1>7

LEMMA EnsuringStep ==
    ASSUME IInv, Literal, Step, RenameUnderWay, Ensuring
    PROVE  Ensuring' \/ Deleted'
<1> DEFINE s == todo[1]
<1>1. /\ call' = call /\ before' = before /\ todo \in Seq(StatementSet) /\ todo # <<>>
      /\ ~broken /\ s \in StatementSet /\ 1 \in DOMAIN todo
  BY StepFacts DEF IInv
<1>2. Grown /\ Coming
  BY <1>1 DEF Ensuring
<1>3. PICK n \in 0..Len(todo) :
          /\ Len(todo) = n + 1 + Len(Rest)
          /\ \A i \in 1..n : \E q \in Above(call.to) : todo[i] = InsertDirectory(q)
          /\ todo[n + 1] = Clear
          /\ \A i \in 1..Len(Rest) : todo[n + 1 + i] = Rest[i]
  BY <1>1 DEF Ensuring
<1>4. /\ call.path \in Paths /\ call.to \in Paths /\ Target = call.to /\ call.op = "rename"
      /\ \A q \in Above(call.to) : q \in Paths
  BY RenameFacts DEF IInv, RenameUnderWay
<1>5. /\ Rest \in Seq(StatementSet) /\ Len(Rest) \in {1, 2}
      /\ \A i \in 1..Len(Rest) : Rest[i].do \in {"rename", "children"}
  <2>1. /\ Rest \in Seq(StatementSet) /\ Len(Rest) \in {1, 2}
        /\ Rest[1].do = "rename" /\ (Len(Rest) = 2 => Rest[2] = Children)
    BY <1>4, RestFacts DEF Move
  <2>2. Children.do = "children"
    BY DEF Children
  <2>3. \A i \in 1..Len(Rest) : i = 1 \/ (i = 2 /\ Len(Rest) = 2)
    <3>1. CASE Len(Rest) = 1
      BY <3>1
    <3>2. CASE Len(Rest) = 2
      BY <3>2
    <3>3. QED
      BY <2>1, <3>1, <3>2
  <2>4. QED
    BY <2>1, <2>2, <2>3
<1>6. Rest' = Rest /\ Clear' = Clear /\ Above(call.to)' = Above(call.to) /\ Moves' = Moves
      /\ Target' = Target
  BY <1>1 DEF Rest, Children, Move, New, Clear, Moves, Stays, Target
<1>7. ASSUME todo' = <<>> /\ broken' /\ rows' = rows
      PROVE  Ensuring'
  BY <1>1, <1>2, <1>6, <1>7 DEF Ensuring, Grown
<1>8. n \in Nat /\ Len(Rest) \in Nat
  BY <1>5
<1>9. CASE n > 0
  <2>1. PICK q \in Above(call.to) : s = InsertDirectory(q)
    BY <1>3, <1>8, <1>9
  <2>2. s.do = "insert" /\ s.path = q /\ s.row = NewDirectory(q) /\ q \in Paths
    BY <1>4, <2>1, InsertDirectoryType
  <2>3. ASSUME ~Throws(s), rows' = Effect(s), todo' = Tail(todo), broken' = broken
        PROVE  Ensuring'
    <3>1. /\ DOMAIN rows' = DOMAIN rows \cup {q} /\ rows'[q] = NewDirectory(q)
          /\ q \notin DOMAIN rows /\ \A p \in DOMAIN rows : rows'[p] = rows[p]
      BY <1>1, <2>2, <2>3, EffectFacts DEF IInv, TypeOK
    <3>2. Grown'
      BY <1>1, <1>2, <1>4, <1>6, <3>1 DEF Grown
    <3>3. \A p : s = InsertDirectory(p) => p = q
      BY <2>1 DEF InsertDirectory, Insert
    <3>4. Coming'
      BY <1>1, <1>2, <2>3, <3>1, <3>3, ComingStep DEF IInv
    <3>5. /\ Len(todo') = Len(todo) - 1 /\ todo' \in Seq(StatementSet)
          /\ \A i \in DOMAIN todo' : todo'[i] = todo[i + 1]
      BY <1>1, <2>3, TailFacts
    <3>6. DOMAIN todo' = 1..(n + Len(Rest)) /\ Len(todo') = (n - 1) + 1 + Len(Rest)
      BY <1>3, <1>8, <3>5
    <3>7. n - 1 \in 0..Len(todo')
      BY <1>8, <1>9, <3>6
    <3>8. \A i \in 1..(n - 1) : \E p \in Above(call.to) : todo'[i] = InsertDirectory(p)
      <4> SUFFICES ASSUME NEW i \in 1..(n - 1)
                   PROVE  \E p \in Above(call.to) : todo'[i] = InsertDirectory(p)
        OBVIOUS
      <4>1. i + 1 \in 1..n /\ i \in 1..(n + Len(Rest))
        BY <1>8
      <4>2. QED
        BY <1>3, <3>5, <3>6, <4>1
    <3>9. todo'[(n - 1) + 1] = Clear
      <4>1. n \in 1..(n + Len(Rest)) /\ (n - 1) + 1 = n
        BY <1>8, <1>9
      <4>2. todo'[n] = todo[n + 1]
        BY <3>5, <3>6, <4>1
      <4>3. QED
        BY <1>3, <4>1, <4>2
    <3>10. \A i \in 1..Len(Rest) : todo'[(n - 1) + 1 + i] = Rest[i]
      <4> SUFFICES ASSUME NEW i \in 1..Len(Rest) PROVE todo'[(n - 1) + 1 + i] = Rest[i]
        OBVIOUS
      <4>1. n + i \in 1..(n + Len(Rest)) /\ (n - 1) + 1 + i = n + i /\ (n + i) + 1 = n + 1 + i
        BY <1>8
      <4>2. todo'[n + i] = todo[n + 1 + i]
        BY <3>5, <3>6, <4>1
      <4>3. QED
        BY <1>3, <4>1, <4>2
    <3>11. QED
      BY <1>6, <3>2, <3>4, <3>6, <3>7, <3>8, <3>9, <3>10 DEF Ensuring
  <2>4. QED
    BY <1>7, <2>2, <2>3, StepFacts DEF IInv
<1>10. CASE n = 0
  <2>1. s = Clear /\ Clear.do = "deleteByPrefix"
    BY <1>3, <1>10 DEF Clear
  <2>2. ASSUME rows' = Effect(s), todo' = Tail(todo), broken' = broken
        PROVE  Deleted'
    <3>1. \A i \in DOMAIN todo : i = 1 \/ i - 1 \in 1..Len(Rest)
      BY <1>1, <1>3, <1>8, <1>10
    <3>2. \A i \in DOMAIN todo : todo[i].do # "insert"
      <4> SUFFICES ASSUME NEW i \in DOMAIN todo PROVE todo[i].do # "insert"
        OBVIOUS
      <4>1. CASE i = 1
        BY <2>1, <4>1
      <4>2. CASE i - 1 \in 1..Len(Rest)
        <5>1. 0 + 1 + (i - 1) = i
          BY <1>1
        <5>2. todo[i] = Rest[i - 1]
          BY <1>3, <1>10, <4>2, <5>1
        <5>3. QED
          BY <1>5, <4>2, <5>2
      <4>3. QED
        BY <3>1, <4>1, <4>2
    <3>3. RowsAre(Moves)'
      BY <1>1, <1>2, <2>1, <2>2, <3>2, ClearStep DEF IInv
    <3>4. todo' = Rest
      <4>1. /\ Len(todo') = Len(todo) - 1 /\ todo' \in Seq(StatementSet)
            /\ \A i \in DOMAIN todo' : todo'[i] = todo[i + 1]
        BY <1>1, <2>2, TailFacts
      <4>2. Len(todo') = Len(Rest) /\ DOMAIN todo' = 1..Len(Rest)
        BY <1>3, <1>8, <1>10, <4>1
      <4>3. \A i \in 1..Len(Rest) : 0 + 1 + i = i + 1
        OBVIOUS
      <4>4. \A i \in 1..Len(Rest) : todo'[i] = Rest[i]
        BY <1>3, <1>10, <4>1, <4>2, <4>3
      <4>5. QED
        BY <1>5, <4>1, <4>2, <4>4
    <3>5. QED
      BY <1>6, <3>3, <3>4 DEF Deleted
  <2>3. QED
    BY <1>7, <2>1, <2>2, StepFacts DEF IInv
<1>11. QED
  BY <1>8, <1>9, <1>10

LEMMA RowsBroken ==
    ASSUME NEW P, RowsAre(P), broken', rows' = rows, call' = call, before' = before
    PROVE  RowsAre(P)'
BY DEF RowsAre, Moves, Stays, New

LEMMA DeletedStep ==
    ASSUME IInv, Step, RenameUnderWay, Deleted
    PROVE  Deleted' \/ Moving'
<1> DEFINE s == todo[1]
           f == call.path
<1>1. /\ call' = call /\ before' = before /\ todo # <<>> /\ ~broken
  BY StepFacts DEF IInv
<1>2. f \in Moves /\ f \in Paths /\ call.to \in Paths
  BY RenameFacts DEF IInv
<1>3. /\ todo = Rest /\ s = Move(f)
      /\ IF IsDirectory(before, f) THEN Tail(todo) = <<Children>> ELSE Tail(todo) = <<>>
  BY <1>1, <1>2, RestFacts DEF Deleted
<1>4. Moves' = Moves /\ Children' = Children
  BY <1>1 DEF Moves, Stays, Children
<1>5. PICK P : P = Moves /\ RowsAre(P)
  BY DEF Deleted
<1>6. CASE broken' /\ rows' = rows
  <2>1. RowsAre(P)'
    BY <1>1, <1>5, <1>6, RowsBroken
  <2>2. QED
    BY <1>4, <1>5, <1>6, <2>1 DEF Deleted
<1>7. CASE ~Throws(s) /\ rows' = Effect(s) /\ todo' = Tail(todo) /\ broken' = broken
  <2>1. PICK r \in Moves : r = f
    BY <1>2
  <2>2. RowsAre(P \ {r})'
    BY <1>1, <1>3, <1>5, <1>7, <2>1, MoveStep DEF IInv
  <2>3. P \ {r} = Moves \ {f}
    BY <1>5, <2>1
  <2> DEFINE Q == P \ {r}
  <2>4. Q \in SUBSET (Moves \ {f})' /\ RowsAre(Q)' /\ Q = (Moves \ {f})'
    BY <1>1, <1>4, <2>2, <2>3
  <2> HIDE DEF Q
  <2>5. (todo' = <<>> /\ ~IsDirectory(before, f)') \/ todo' = <<Children>>'
    BY <1>1, <1>3, <1>4, <1>7 DEF IsDirectory
  <2>6. QED
    BY <1>1, <2>4, <2>5 DEF Moving
<1>8. s.do = "rename"
  BY <1>3 DEF Move
<1>9. QED
  BY <1>6, <1>7, <1>8, StepFacts DEF IInv

LEMMA MovingStep ==
    ASSUME IInv, Literal, Step, RenameUnderWay, Moving
    PROVE  Moving'
<1> DEFINE s == todo[1]
           f == call.path
<1>1. /\ call' = call /\ before' = before /\ todo \in Seq(StatementSet) /\ todo # <<>>
      /\ ~broken /\ 1 \in DOMAIN todo /\ s \in StatementSet
  BY StepFacts DEF IInv
<1>2. /\ f \in Moves /\ f \in Paths /\ call.to \in Paths /\ Moves \subseteq Stays
      /\ Stays \subseteq DOMAIN before /\ DOMAIN before \in SUBSET Paths
      /\ DOMAIN rows \in SUBSET Paths
      /\ \A q \in Moves : New(q) \in Paths /\ Under(New(q), call.to)
      /\ \A q \in Above(call.to) : q \in Paths /\ (f # Root => ~Under(q, f))
  BY RenameFacts DEF IInv, TypeOK, RowsSet
<1>3. Moves' = Moves /\ Stays' = Stays /\ Children' = Children /\ (\A q : Move(q)' = Move(q))
      /\ (\A q : New(q)' = New(q))
  BY <1>1 DEF Moves, Stays, Children, Move, New
<1>4. PICK P \in SUBSET (Moves \ {f}) :
          /\ RowsAre(P)
          /\ \/ todo = <<Children>> /\ P = Moves \ {f}
             \/ /\ \A i \in DOMAIN todo : \E q \in Moves \ {f} : todo[i] = Move(q)
                /\ f # Root => \A q \in P : \E i \in DOMAIN todo : todo[i] = Move(q)
  BY <1>1 DEF Moving
<1>5. ASSUME broken' /\ rows' = rows
      PROVE  Moving'
  <2>1. RowsAre(P)'
    BY <1>1, <1>4, <1>5, RowsBroken
  <2>2. P \in SUBSET (Moves \ {f})'
    BY <1>1, <1>3
  <2>3. QED
    BY <1>5, <2>1, <2>2 DEF Moving
<1>6. CASE todo = <<Children>> /\ P = Moves \ {f}
  <2>1. s = Children /\ Tail(todo) = <<>> /\ s.do = "children"
    BY <1>6 DEF Children
  <2>2. PICK renames \in ChildRenames(Children) : todo' = renames \o <<>>
    BY <2>1, StepFacts DEF IInv
  <2>3. rows' = rows /\ broken' = broken
    BY <2>1, StepFacts DEF IInv
  <2>4. /\ renames \in Seq(StatementSet)
        /\ \A i \in DOMAIN renames : \E q \in DOMAIN rows :
              LikeUnder(q, f) /\ renames[i] = Move(q)
        /\ \A q \in DOMAIN rows : LikeUnder(q, f) => \E i \in DOMAIN renames : renames[i] = Move(q)
    <3>1. \A q : Move(q) = [do |-> "rename", path |-> q, to |-> NewPath(f, call.to, q)]
      BY NewIsNewPath DEF Move
    <3>2. Children = [do |-> "children", path |-> f, to |-> call.to]
      BY DEF Children
    <3>3. /\ renames \in Seq(StatementSet)
          /\ \A i \in DOMAIN renames : \E q \in DOMAIN rows :
                LikeUnder(q, f)
                /\ renames[i] = [do |-> "rename", path |-> q, to |-> NewPath(f, call.to, q)]
          /\ \A q \in DOMAIN rows : LikeUnder(q, f) =>
                \E i \in DOMAIN renames :
                   renames[i] = [do |-> "rename", path |-> q, to |-> NewPath(f, call.to, q)]
      BY <1>2, <2>2, <3>2, ChildFacts DEF IInv, TypeOK
    <3>4. QED
      BY <3>1, <3>3
  <2>5. todo' = renames
    BY <2>2, <2>4
  <2>6. ASSUME NEW q \in DOMAIN rows, LikeUnder(q, f)
        PROVE  q \in P
    <3>1. f # Root /\ Under(q, f) /\ q # f /\ q \in Paths
      BY <1>2, <2>6, LikeIsUnder
    <3>2. q \notin Stays \ Moves
      BY <3>1 DEF Moves
    <3>3. ASSUME NEW r \in Moves, q = New(r)
          PROVE  FALSE
      BY <1>2, <3>1, <3>3, UnderOrder DEF RenameUnderWay
    <3>4. QED
      BY <1>2, <1>4, <3>1, <3>2, <3>3 DEF RowsAre
  <2>7. \A i \in DOMAIN todo' : \E q \in Moves \ {f} : todo'[i] = Move(q)
    BY <2>4, <2>5, <2>6
  <2>8. f # Root => \A q \in P : \E i \in DOMAIN todo' : todo'[i] = Move(q)
    <3> SUFFICES ASSUME f # Root, NEW q \in P
                 PROVE  \E i \in DOMAIN todo' : todo'[i] = Move(q)
      OBVIOUS
    <3>1. q \in DOMAIN rows /\ q # f
      BY <1>4 DEF RowsAre
    <3>2. LikeUnder(q, f)
      BY <1>2, <3>1, LikeIsUnder DEF Moves
    <3>3. QED
      BY <2>4, <2>5, <3>1, <3>2
  <2>9. RowsAre(P)'
    BY <1>1, <1>3, <1>4, <2>3 DEF RowsAre
  <2>10. P \in SUBSET (Moves \ {f})'
    BY <1>1, <1>3
  <2>11. QED
    BY <1>1, <1>3, <2>7, <2>8, <2>9, <2>10 DEF Moving
<1>7. CASE /\ \A i \in DOMAIN todo : \E q \in Moves \ {f} : todo[i] = Move(q)
           /\ f # Root => \A q \in P : \E i \in DOMAIN todo : todo[i] = Move(q)
  <2>1. PICK r \in Moves : s = Move(r) /\ r # f
    BY <1>1, <1>7
  <2>2. ASSUME ~Throws(s), rows' = Effect(s), todo' = Tail(todo), broken' = broken
        PROVE  Moving'
    <3>1. RowsAre(P \ {r})'
      BY <1>1, <1>4, <2>1, <2>2, MoveStep DEF IInv
    <3>2. /\ \A i \in DOMAIN todo' : i + 1 \in DOMAIN todo /\ todo'[i] = todo[i + 1]
          /\ \A i \in DOMAIN todo : i # 1 => i - 1 \in DOMAIN todo' /\ todo[i] = todo'[i - 1]
      BY <1>1, <2>2, TailFacts
    <3>3. \A i \in DOMAIN todo' : \E q \in Moves \ {f} : todo'[i] = Move(q)
      BY <1>7, <3>2
    <3>4. f # Root => \A q \in P \ {r} : \E i \in DOMAIN todo' : todo'[i] = Move(q)
      <4> SUFFICES ASSUME f # Root, NEW q \in P \ {r}
                   PROVE  \E i \in DOMAIN todo' : todo'[i] = Move(q)
        OBVIOUS
      <4>1. PICK i \in DOMAIN todo : todo[i] = Move(q)
        BY <1>7
      <4>2. i # 1
        BY <2>1, <4>1 DEF Move
      <4>3. QED
        BY <3>2, <4>1, <4>2
    <3> DEFINE Q == P \ {r}
    <3>5. Q \in SUBSET (Moves \ {f})' /\ RowsAre(Q)'
      BY <1>1, <1>3, <3>1
    <3> HIDE DEF Q
    <3>6. f # Root => \A q \in Q : \E i \in DOMAIN todo' : todo'[i] = Move(q)
      BY <3>4 DEF Q
    <3>7. QED
      BY <1>1, <1>3, <3>3, <3>5, <3>6 DEF Moving
  <2>3. s.do = "rename"
    BY <2>1 DEF Move
  <2>4. QED
    BY <1>5, <2>2, <2>3, StepFacts DEF IInv
<1>8. QED
  BY <1>4, <1>6, <1>7

LEMMA StepRenaming ==
    ASSUME IInv, Literal, Step
    PROVE  Renaming'
<1>1. call' = call /\ before' = before
  BY StepFacts DEF IInv
<1> SUFFICES ASSUME call.op = "rename", ~Under(call.path, call.to) PROVE Renaming'
  BY <1>1 DEF Renaming
<1>2. RenameUnderWay /\ (Ensuring \/ Deleted \/ Moving)
  BY DEF IInv, Renaming, RenameUnderWay
<1>3. Ensuring' \/ Deleted' \/ Moving'
  BY <1>2, EnsuringStep, DeletedStep, MovingStep
<1>4. QED
  BY <1>1, <1>2, <1>3 DEF Renaming, RenameUnderWay

-------------------------------------------------------------------------------
(* The theorems.  *)

LEMMA Invariance == Literal => (Spec => []IInv)
<1> SUFFICES ASSUME Literal PROVE Spec => []IInv
  OBVIOUS
<1>1. IInv /\ [Next]_vars => IInv'
  <2> SUFFICES ASSUME IInv, [Next]_vars PROVE IInv'
    OBVIOUS
  <2>1. ASSUME call = Idle, NEW p \in Path, NEW content \in Content, WriteFile(p, content)
        PROVE  IInv'
    BY <2>1, WriteFileBegins
  <2>2. ASSUME call = Idle, NEW p \in Path, MkdirRecursive(p) \/ Mkdir(p) \/ Unlink(p)
        PROVE  IInv'
    BY <2>2, MkdirRecursiveBegins, MkdirBegins, UnlinkBegins
  <2>3. ASSUME call = Idle, NEW p \in Path, NEW target \in LinkTarget, Symlink(target, p)
        PROVE  IInv'
    BY <2>3, SymlinkBegins
  <2>4. ASSUME call = Idle, NEW from \in DOMAIN rows, NEW to \in Path, Rename(from, to)
        PROVE  IInv'
    BY <2>4, RenameBegins
  <2>5. CASE Step
    <3>1. TypeOK'
      BY <2>5, StepTypes DEF IInv
    <3>2. QED
      BY <2>5, <3>1, StepRoot, StepAdding, StepUnlinking, StepRenaming DEF IInv
  <2>6. CASE BreakOff
    BY <2>6, BreakOffInv
  <2>7. CASE Return
    BY <2>7, ReturnInv
  <2>8. CASE UNCHANGED vars
    <3>1. UNCHANGED <<rows, call, todo, broken, before>>
      BY <2>8 DEF vars
    <3>2. TypeOK' /\ RootIsDirectory' /\ Unlinking'
      BY <3>1 DEF IInv, TypeOK, RootIsDirectory, Unlinking, IsDirectory
    <3>3. Adding'
      BY <3>1 DEF IInv, Adding, Grown, Coming, Adds, Target
    <3>4. Renaming'
      <4>1. /\ Moves' = Moves /\ Rest' = Rest /\ Clear' = Clear /\ Children' = Children
            /\ \A q : Move(q)' = Move(q)
        BY <3>1 DEF Moves, Stays, Rest, Clear, Children, Move, New, IsDirectory
      <4>2. Grown' = Grown /\ Coming' = Coming /\ Above(call.to)' = Above(call.to)
        BY <3>1 DEF Grown, Coming, Target, Above
      <4>3. ASSUME NEW P PROVE RowsAre(P)' = RowsAre(P)
        BY <3>1, <4>1 DEF RowsAre, Stays, New
      <4>4. ASSUME Ensuring PROVE Ensuring'
        BY <3>1, <4>1, <4>2, <4>4 DEF Ensuring
      <4>5. ASSUME Deleted PROVE Deleted'
        BY <3>1, <4>1, <4>3, <4>5 DEF Deleted
      <4>6. ASSUME Moving PROVE Moving'
        BY <3>1, <4>1, <4>3, <4>6 DEF Moving, IsDirectory
      <4>7. QED
        BY <3>1, <4>4, <4>5, <4>6 DEF IInv, Renaming
    <3>5. QED
      BY <3>2, <3>3, <3>4 DEF IInv
  <2>9. QED
    BY <2>1, <2>2, <2>3, <2>4, <2>5, <2>6, <2>7, <2>8 DEF Next
<1>2. QED
  BY <1>1, InitInv, PTL DEF Spec

LEMMA StrictlyAbove ==
    ASSUME NEW p \in Paths, NEW q \in Paths, Under(q, p), q # p
    PROVE  p \in Above(q)
<1>1. Len(p) \in Nat /\ Len(q) \in Nat /\ Len(p) < Len(q)
  BY ParentUnder DEF Paths
<1>2. Len(p) \in 0..(Len(q) - 1) /\ Len(p) \in 0..Len(q)
  BY <1>1
<1>3. p = SubSeq(q, 1, Len(p))
  BY <1>1, <1>2 DEF Under, IsPrefix, Paths
<1>4. QED
  BY <1>2, <1>3 DEF Above

\* A rename that returns has moved everything below its source.
LEMMA AllMoved ==
    ASSUME IInv, RenameUnderWay, Done, IsTree(before), call.path # Root
    PROVE  RowsAre({})
<1>1. todo = <<>> /\ ~broken /\ DOMAIN todo = {} /\ Len(todo) = 0
  BY DEF Done
<1>2. call.path \in Paths /\ call.to \in Paths /\ DOMAIN before \in SUBSET Paths
      /\ Moves \subseteq DOMAIN before
  BY RenameFacts DEF IInv
<1>3. Len(Rest) \in {1, 2} /\ Rest # <<>>
  BY <1>2, RestFacts
<1>4. Moving
  <2>1. Ensuring \/ Deleted \/ Moving
    BY DEF IInv, Renaming, RenameUnderWay
  <2>2. ~Deleted
    BY <1>1, <1>3 DEF Deleted
  <2>3. ~Ensuring
    <3> SUFFICES ASSUME Ensuring PROVE FALSE
      OBVIOUS
    <3>1. PICK n \in 0..Len(todo) : Len(todo) = n + 1 + Len(Rest)
      BY <1>1 DEF Ensuring
    <3>2. QED
      BY <1>1, <1>3, <3>1
  <2>4. QED
    BY <2>1, <2>2, <2>3
<1>5. PICK P \in SUBSET (Moves \ {call.path}) :
          /\ RowsAre(P)
          /\ \/ ~IsDirectory(before, call.path)
             \/ todo = <<Children>>
             \/ \A q \in P : \E i \in DOMAIN todo : todo[i] = Move(q)
  BY <1>1, <1>4 DEF Moving
<1>6. todo # <<Children>>
  BY <1>1
<1>7. ASSUME ~IsDirectory(before, call.path), NEW q \in P
      PROVE  FALSE
  <2>1. q \in DOMAIN before /\ q \in Paths /\ Under(q, call.path) /\ q # call.path
    BY <1>2 DEF Moves
  <2>2. q # Root
    BY <1>2, <2>1, ParentUnder
  <2>3. call.path \in Above(q)
    BY <1>2, <2>1, StrictlyAbove
  <2>4. QED
    BY <1>2, <1>7, <2>1, <2>2, <2>3, TreeAbove
<1>8. P = {}
  BY <1>1, <1>5, <1>6, <1>7
<1>9. QED
  BY <1>5, <1>8

\* rename() moves what is below its source and nothing else, and broken off at
\* any statement it has lost nothing but what was at its destination, where no
\* name is a pattern that matches another.
THEOREM RenamesLoseNothing == Literal => (Spec => []RenameMoves)
<1> SUFFICES ASSUME Literal PROVE Spec => []RenameMoves
  OBVIOUS
<1>1. IInv => RenameMoves
  <2> SUFFICES ASSUME IInv, call.op = "rename", ~Under(call.path, call.to)
               PROVE  /\ \A q \in Stays :
                            \/ q \in DOMAIN rows /\ SameEntry(rows[q], before[q])
                            \/ /\ q \in Moves /\ New(q) \in DOMAIN rows
                               /\ SameEntry(rows[New(q)], before[q])
                      /\ Done /\ IsTree(before) /\ call.path # Root =>
                            DOMAIN rows = (Stays \ Moves) \cup {New(q) : q \in Moves}
                                          \cup {SubSeq(call.to, 1, k) : k \in 0..(Len(call.to) - 1)}
    BY DEF RenameMoves, Stays, Moves, New
  <2>1. RenameUnderWay /\ (Ensuring \/ Deleted \/ Moving)
    BY DEF IInv, Renaming, RenameUnderWay
  <2>2. /\ call.path \in Paths /\ call.to \in Paths /\ Moves \subseteq Stays
        /\ Stays \subseteq DOMAIN before /\ call.to # Root
    BY <2>1, RenameFacts DEF IInv, RenameUnderWay
  <2>3. ASSUME NEW q \in DOMAIN before, NEW p
        PROVE  SameEntry(before[q], before[q]) /\ SameEntry(Moved(before[q], p), before[q])
    <3>1. before[q] \in RowSet
      BY DEF IInv, TypeOK, RowsSet
    <3>2. QED
      BY <3>1 DEF SameEntry, Moved, RowSet
  <2>4. ASSUME Ensuring, NEW q \in Stays
        PROVE  q \in DOMAIN rows /\ SameEntry(rows[q], before[q])
    BY <2>2, <2>3, <2>4 DEF Ensuring, Grown
  <2>5. ASSUME NEW P, RowsAre(P), NEW q \in Stays
        PROVE  \/ q \in DOMAIN rows /\ SameEntry(rows[q], before[q])
               \/ /\ q \in Moves /\ New(q) \in DOMAIN rows
                  /\ SameEntry(rows[New(q)], before[q])
    <3>1. CASE q \in (Stays \ Moves) \cup P
      BY <2>2, <2>3, <2>5, <3>1 DEF RowsAre
    <3>2. CASE q \in Moves \ P
      BY <2>2, <2>3, <2>5, <3>2 DEF RowsAre
    <3>3. QED
      BY <3>1, <3>2
  <2>6. ASSUME NEW q \in Stays
        PROVE  \/ q \in DOMAIN rows /\ SameEntry(rows[q], before[q])
               \/ /\ q \in Moves /\ New(q) \in DOMAIN rows
                  /\ SameEntry(rows[New(q)], before[q])
    <3>1. CASE Ensuring
      BY <2>4, <3>1
    <3>2. CASE Deleted
      <4>1. PICK P : RowsAre(P)
        BY <3>2 DEF Deleted
      <4>2. QED
        BY <2>5, <4>1
    <3>3. CASE Moving
      <4>1. PICK P : RowsAre(P)
        BY <3>3 DEF Moving
      <4>2. QED
        BY <2>5, <4>1
    <3>4. QED
      BY <2>1, <3>1, <3>2, <3>3
  <2>7. ASSUME Done, IsTree(before), call.path # Root
        PROVE  DOMAIN rows = (Stays \ Moves) \cup {New(q) : q \in Moves}
                             \cup {SubSeq(call.to, 1, k) : k \in 0..(Len(call.to) - 1)}
    <3>1. RowsAre({}) /\ ~broken
      BY <2>1, <2>7, AllMoved DEF Done
    <3>2. Above(call.to) = {SubSeq(call.to, 1, k) : k \in 0..(Len(call.to) - 1)}
      <4>1. 0 \in 0..(Len(call.to) - 1) /\ SubSeq(call.to, 1, 0) = Root
        BY <2>2, RootFacts DEF Paths, Root
      <4>2. QED
        BY <4>1 DEF Above
    <3>3. Above(call.to) \subseteq DOMAIN rows
      BY <2>7, <3>1 DEF RowsAre
    <3>4. /\ \A q \in Stays \ Moves : q \in DOMAIN rows
          /\ \A q \in Moves : New(q) \in DOMAIN rows
          /\ \A q \in DOMAIN rows : \/ q \in Stays \ Moves
                                    \/ \E r \in Moves : q = New(r)
                                    \/ q \in Above(call.to)
      BY <3>1 DEF RowsAre
    <3>5. DOMAIN rows = (Stays \ Moves) \cup {New(q) : q \in Moves} \cup Above(call.to)
      BY <3>3, <3>4
    <3>6. QED
      BY <3>2, <3>5
  <2>8. QED
    BY <2>6, <2>7
<1>2. QED
  BY <1>1, Invariance, PTL

\* What is above the target of a call is a directory, so what is added at the
\* target, and above it, hangs in the tree.
LEMMA DirectoriesAbove ==
    ASSUME IInv, Target \in Paths, Above(Target) \subseteq DOMAIN rows, ~ThroughFile(Target),
           \A q \in Above(Target) :
              \/ q \in DOMAIN before /\ rows[q].type = before[q].type
              \/ rows[q] = NewDirectory(q)
              \/ q = Target
    PROVE  \A q \in Above(Target) : IsDirectory(rows, q)
<1> SUFFICES ASSUME NEW q \in Above(Target) PROVE IsDirectory(rows, q)
  OBVIOUS
<1>1. q \in DOMAIN rows /\ q \in Paths
  BY AboveFacts
<1>2. CASE q = Root
  BY <1>1, <1>2 DEF IInv, RootIsDirectory
<1>3. CASE q # Root
  <2>1. PICK k \in 1..(Len(Target) - 1) : q = SubSeq(Target, 1, k)
    BY <1>3, AboveFacts
  <2>2. q \in DOMAIN before => IsDirectory(before, q)
    BY <2>1 DEF ThroughFile
  <2>3. Target # Root
    BY <2>1, RootFacts
  <2>4. q # Target
    BY <2>3, AboveFacts, UnderOrder
  <2>5. NewDirectory(q).type = "directory"
    BY <1>1, InsertDirectoryType
  <2>6. QED
    BY <1>1, <2>2, <2>4, <2>5 DEF IsDirectory
<1>4. QED
  BY <1>2, <1>3

\* A call that returns leaves a tree if it found one: every entry is in the
\* listing of a directory. The names are no patterns for each other.
THEOREM CallsKeepTree == Literal => (Spec => []KeepsTree)
<1> SUFFICES ASSUME Literal PROVE Spec => []KeepsTree
  OBVIOUS
<1>1. IInv => KeepsTree
  <2> SUFFICES ASSUME IInv, Done, IsTree(before), ~ThroughFile(Target),
                      call.op = "mkdir" => before # <<>> \/ Root \in DOMAIN rows,
                      call.op = "rename" => call.path # Root /\ ~Under(call.path, call.to),
                      NEW p \in DOMAIN rows \ {Root}
               PROVE  rows[p].parent = parentPath(p) /\ IsDirectory(rows, parentPath(p))
    BY DEF KeepsTree, IsTree
  <2>1. todo = <<>> /\ ~broken /\ DOMAIN todo = {} /\ call \in CallSet
    BY DEF Done, IInv, TypeOK
  <2>2. p \in Paths /\ Target \in Paths /\ DOMAIN before \in SUBSET Paths /\ p # Root
    BY <2>1 DEF IInv, TypeOK, RowsSet, CallSet, Writes, Target
  <2>3. ASSUME p \in DOMAIN before
        PROVE  before[p].parent = parentPath(p) /\ IsDirectory(before, parentPath(p))
    BY <2>2, <2>3 DEF IsTree
  <2>4. CASE call.op \in Writes
    <3>1. Grown /\ Coming /\ call.op # "rename"
      BY <2>1, <2>4 DEF IInv, Adding, Writes
    <3>2. Above(Target) \subseteq DOMAIN rows
      BY <2>1, <3>1 DEF Coming
    <3>3. \A q \in Above(Target) : IsDirectory(rows, q)
      BY <2>2, <3>1, <3>2, DirectoriesAbove DEF Grown
    <3>4. CASE p \in DOMAIN before
      BY <2>3, <3>1, <3>4 DEF Grown, IsDirectory
    <3>5. CASE p \in Above(Target) /\ rows[p] = NewDirectory(p)
      <4>1. parentPath(p) \in Above(Target)
        BY <2>2, <3>5, AboveFacts
      <4>2. QED
        BY <2>2, <3>3, <3>5, <4>1, InsertDirectoryType
    <3>6. CASE p = Target /\ rows[p].parent = parentPath(p)
      BY <2>2, <3>3, <3>6, ParentAbove
    <3>7. QED
      BY <3>1, <3>4, <3>5, <3>6 DEF Grown
  <2>5. CASE call.op = "unlink"
    <3>1. /\ ~IsDirectory(before, call.path)
          /\ rows = Restrict(before, DOMAIN before \ {call.path})
      BY <2>1, <2>5 DEF IInv, Unlinking
    <3>2. DOMAIN rows = DOMAIN before \ {call.path} /\ \A q \in DOMAIN rows : rows[q] = before[q]
      BY <3>1 DEF Restrict
    <3>3. parentPath(p) # call.path
      BY <2>3, <3>1, <3>2
    <3>4. QED
      BY <2>3, <3>2, <3>3 DEF IsDirectory
  <2>6. CASE call.op = "rename"
    <3>1. RenameUnderWay /\ call.path # Root
      BY <2>6 DEF IInv, Renaming, RenameUnderWay
    <3>2. /\ call.path \in Paths /\ call.to \in Paths /\ Target = call.to
          /\ call.path \in Moves /\ Moves \subseteq Stays /\ Stays \subseteq DOMAIN before
          /\ \A q \in Above(call.to) : ~Under(q, call.to) /\ ~Under(q, call.path)
      BY <3>1, RenameFacts DEF IInv
    <3>3. RowsAre({})
      BY <3>1, AllMoved
    <3>4. Above(call.to) \subseteq DOMAIN rows
      BY <2>1, <3>1, <3>3 DEF RowsAre
    <3>5. \A q \in Moves : Under(New(q), call.to)
      BY <3>1, RenameFacts DEF IInv
    <3>6. \A q \in Above(call.to) : IsDirectory(rows, q)
      <4>1. ASSUME NEW q \in Above(call.to)
            PROVE  \/ q \in DOMAIN before /\ rows[q].type = before[q].type
                   \/ rows[q] = NewDirectory(q)
        BY <3>2, <3>3, <3>4, <3>5 DEF RowsAre
      <4>2. QED
        BY <2>2, <3>2, <3>4, <4>1, DirectoriesAbove
    <3>7. CASE p \in Stays \ Moves
      <4>1. rows[p] = before[p] /\ p \in DOMAIN before
        BY <3>2, <3>3, <3>7 DEF RowsAre
      <4>2. parentPath(p) \in DOMAIN before /\ parentPath(p) \in Paths /\ Under(p, parentPath(p))
        BY <2>2, <2>3, <4>1, ParentFacts DEF IsDirectory
      <4>3. parentPath(p) \in Stays \ Moves
        <5>1. ~Under(parentPath(p), call.to) /\ ~Under(parentPath(p), call.path)
          <6>1. ~Under(p, call.to) /\ ~Under(p, call.path)
            BY <3>7 DEF Stays, Moves
          <6>2. QED
            BY <2>2, <3>2, <4>2, <6>1, UnderOrder
        <5>2. QED
          BY <4>2, <5>1 DEF Stays, Moves
      <4>4. parentPath(p) \in DOMAIN rows /\ rows[parentPath(p)] = before[parentPath(p)]
        BY <3>3, <4>3 DEF RowsAre
      <4>5. QED
        BY <2>3, <4>1, <4>4 DEF IsDirectory
    <3>8. ASSUME NEW r \in Moves, p = New(r)
          PROVE  rows[p].parent = parentPath(p) /\ IsDirectory(rows, parentPath(p))
      <4>1. r \in Paths /\ Under(r, call.path) /\ r \in DOMAIN before /\ ~Under(r, call.to)
        BY <2>2, <3>2 DEF Moves, Stays
      <4>2. rows[p] = Moved(before[r], p)
        BY <3>3, <3>8 DEF RowsAre
      <4>3. before[r] \in RowSet /\ before \in [DOMAIN before -> RowSet]
        BY <4>1 DEF IInv, TypeOK, RowsSet
      <4>4. rows[p].parent = parentPath(p)
        BY <4>2, <4>3 DEF Moved, RowSet
      <4>5. CASE r = call.path
        <5>1. p = call.to
          BY <3>2, <3>8, <4>1, <4>5, NewFacts, NewIsNewPath
        <5>2. QED
          BY <3>2, <3>6, <4>4, <5>1, ParentAbove
      <4>6. CASE r # call.path
        <5>1. r # Root /\ Under(parentPath(r), call.path)
          BY <3>2, <4>1, <4>6, ParentUnder
        <5>2. IsDirectory(before, parentPath(r)) /\ parentPath(r) \in Paths /\ Under(r, parentPath(r))
          BY <4>1, <5>1, ParentFacts DEF IsTree
        <5>3. ~Under(parentPath(r), call.to)
          BY <3>2, <4>1, <5>2, UnderOrder
        <5>4. parentPath(r) \in Moves
          BY <5>1, <5>2, <5>3 DEF Moves, Stays, IsDirectory
        <5>5. /\ New(parentPath(r)) \in DOMAIN rows
              /\ rows[New(parentPath(r))] = Moved(before[parentPath(r)], New(parentPath(r)))
          BY <3>3, <5>4 DEF RowsAre
        <5>6. parentPath(p) = New(parentPath(r))
          BY <3>2, <3>8, <4>1, <4>6, NewParent, NewIsNewPath
        <5>7. before[parentPath(r)] \in RowSet
          BY <4>3, <5>2 DEF IsDirectory
        <5>8. rows[New(parentPath(r))].type = "directory"
          BY <5>2, <5>5, <5>7 DEF Moved, RowSet, IsDirectory
        <5>9. QED
          BY <4>4, <5>5, <5>6, <5>8 DEF IsDirectory
      <4>7. QED
        BY <4>5, <4>6
    <3>9. CASE p \in Above(call.to) /\ rows[p] = NewDirectory(p)
      <4>1. parentPath(p) \in Above(call.to)
        BY <2>2, <3>2, <3>9, AboveFacts
      <4>2. QED
        BY <2>2, <3>6, <3>9, <4>1, InsertDirectoryType
    <3>10. QED
      BY <3>3, <3>7, <3>8, <3>9 DEF RowsAre
  <2>7. QED
    BY <2>1, <2>4, <2>5, <2>6 DEF CallSet, Writes
<1>2. QED
  BY <1>1, Invariance, PTL

=============================================================================
