------------------------------ MODULE VfsProvider ------------------------------
(***************************************************************************)
(* SmolSqliteProvider (vfs/sqlite_provider.js): a file tree kept as the    *)
(* rows of one table, keyed by path, each with the path of its parent.     *)
(* The calls are synchronous, but each is several statements that commit   *)
(* one by one: a crash, or a statement that fails, leaves the rest undone. *)
(***************************************************************************)
EXTENDS Integers, Sequences, FiniteSets, SequencesExt

CONSTANTS
    Name,      \* names of entries
    Content,   \* contents of files
    LinkTarget, \* targets of links
    None,      \* NULL
    Alike,     \* <<n, m>>: a path with n matches, as a LIKE pattern, one with m there
    MaxDepth,  \* bound: names in a path
    MaxRows    \* bound: rows

ASSUME VfsAssumption ==
    /\ \A n \in Name : <<n, n>> \in Alike
    /\ MaxDepth \in Nat /\ MaxRows \in Nat

VARIABLES
    rows,    \* vfs_entries: a function on the paths that have a row
    call,    \* the call under way
    todo,    \* the statements it has still to run
    broken,  \* whether it was broken off or has thrown
    before   \* history: the rows it found

vars == <<rows, call, todo, broken, before>>

Root == <<>>
Path == SeqOf(Name, MaxDepth)

Idle == [op |-> "none"]

parentPath(p) == IF p = Root THEN Root ELSE Front(p)

\* What is at or below p.
Under(q, p) == IsPrefix(p, q)

\* path LIKE p || '/%': the name of the root is empty, so nothing is like it.
LikeUnder(q, p) ==
    /\ p # Root /\ Len(q) > Len(p)
    /\ \A i \in DOMAIN p : <<p[i], q[i]>> \in Alike

Row(type, parent, content, target) ==
    [type |-> type, parent |-> parent, content |-> content, target |-> target]

IsDirectory(r, p) == p \in DOMAIN r /\ r[p].type = "directory"

-------------------------------------------------------------------------------
(* The statements.  *)

Insert(p, row) == [do |-> "insert", path |-> p, row |-> row]

InsertDirectory(p) ==
    Insert(p, Row("directory", IF p = Root THEN None ELSE parentPath(p), None, None))

\* Mutant: the row keeps the parent it had.
Moved_OldParent(row, to) == row

\* renameSingle: the row gets a new path, and the parent that goes with it.
Moved(row, to) == [row EXCEPT !.parent = parentPath(to)]

\* A primary key that is taken.
Throws(s) ==
    \/ s.do = "throw"
    \/ s.do = "insert" /\ s.path \in DOMAIN rows
    \/ s.do = "rename" /\ s.path \in DOMAIN rows /\ s.to \in DOMAIN rows

Effect(s) ==
    CASE s.do = "insert" -> [q \in DOMAIN rows \cup {s.path} |->
                                IF q = s.path THEN s.row ELSE rows[q]]
      [] s.do = "update" -> [rows EXCEPT ![s.path].content = s.content]
      [] s.do = "delete" -> Restrict(rows, DOMAIN rows \ {s.path})
      [] s.do = "deleteByPrefix" ->
            Restrict(rows, {q \in DOMAIN rows : q # s.path /\ ~LikeUnder(q, s.path)})
      [] s.do = "rename" ->
            IF s.path \notin DOMAIN rows THEN rows
            ELSE [q \in (DOMAIN rows \ {s.path}) \cup {s.to} |->
                     IF q = s.to THEN Moved(rows[s.path], s.to) ELSE rows[q]]

\* The rows below a renamed directory, in the order the SELECT returns them.
ChildRenames(s) ==
    LET children == {q \in DOMAIN rows : LikeUnder(q, s.path)}
    IN  {[i \in DOMAIN order |->
            [do |-> "rename", path |-> order[i],
             to |-> s.to \o SubSeq(order[i], Len(s.path) + 1, Len(order[i]))]] :
         order \in SetToSeqs(children)}

-------------------------------------------------------------------------------
(* The calls.  *)

\* #ensureParents: the root, and from the top the ancestors that are missing
\* above p, up to the first that has a row, whatever it is.
EnsureParents(p) ==
    LET missing == {k \in 1..(Len(p) - 1) :
                       \A j \in k..(Len(p) - 1) : SubSeq(p, 1, j) \notin DOMAIN rows}
        first == Len(p) - Cardinality(missing)
    IN  (IF Root \in DOMAIN rows THEN <<>> ELSE <<InsertDirectory(Root)>>)
        \o [i \in 1..Cardinality(missing) |-> InsertDirectory(SubSeq(p, 1, first + i - 1))]

Throw == <<[do |-> "throw"]>>

Begin(c, statements) ==
    /\ LET inserted == {i \in DOMAIN statements : statements[i].do = "insert"}
       IN  Cardinality(DOMAIN rows) + Cardinality(inserted) <= MaxRows
    /\ call' = c
    /\ todo' = statements
    /\ before' = rows
    /\ UNCHANGED <<rows, broken>>

\* A symbolic link at p is written to itself: nothing follows it here.
WriteFile(p, content) ==
    Begin([op |-> "writeFile", path |-> p],
          EnsureParents(p) \o
          IF p = Root \/ IsDirectory(rows, p) THEN Throw
          ELSE IF p \in DOMAIN rows
          THEN <<[do |-> "update", path |-> p, content |-> content]>>
          ELSE <<Insert(p, Row("file", parentPath(p), content, None))>>)

\* #mkdirOne with { recursive: true }: an existing directory is fine.
MkdirRecursive(p) ==
    Begin([op |-> "mkdir", path |-> p],
          EnsureParents(p) \o
          IF p = Root \/ IsDirectory(rows, p) THEN <<>>
          ELSE IF p \in DOMAIN rows THEN Throw ELSE <<InsertDirectory(p)>>)

Mkdir(p) ==
    /\ parentPath(p) # Root => IsDirectory(rows, parentPath(p))
    /\ p \notin DOMAIN rows
    /\ Begin([op |-> "mkdir", path |-> p],
             <<Insert(p, Row("directory", parentPath(p), None, None))>>)

Unlink(p) ==
    /\ p \in DOMAIN rows /\ ~IsDirectory(rows, p)
    /\ Begin([op |-> "unlink", path |-> p], <<[do |-> "delete", path |-> p]>>)

Symlink(target, p) ==
    /\ p \notin DOMAIN rows
    /\ Begin([op |-> "symlink", path |-> p],
             EnsureParents(p) \o <<Insert(p, Row("link", parentPath(p), None, target))>>)

\* Mutant: the destination is cleared after the move.
RenameStatements_ClearLate(from, to) ==
    EnsureParents(to)
    \o <<[do |-> "rename", path |-> from, to |-> to]>>
    \o (IF IsDirectory(rows, from)
        THEN <<[do |-> "children", path |-> from, to |-> to]>> ELSE <<>>)
    \o <<[do |-> "deleteByPrefix", path |-> to]>>

RenameStatements(from, to) ==
    EnsureParents(to)
    \o <<[do |-> "deleteByPrefix", path |-> to],
         [do |-> "rename", path |-> from, to |-> to]>>
    \o (IF IsDirectory(rows, from)
        THEN <<[do |-> "children", path |-> from, to |-> to]>> ELSE <<>>)

\* Not below itself.  That the destination is an ancestor is not looked at.
\* (A path renamed to the root would begin with two slashes: not modelled.)
Rename(from, to) ==
    /\ from # to /\ (from = Root \/ ~Under(to, from))
    /\ to # Root
    /\ \A q \in DOMAIN rows : LikeUnder(q, from) => Len(q) - Len(from) + Len(to) <= MaxDepth
    /\ Begin([op |-> "rename", path |-> from, to |-> to], RenameStatements(from, to))

-------------------------------------------------------------------------------
(* Their statements.  *)

Step ==
    /\ todo # <<>>
    /\ LET s == Head(todo)
       IN  \/ /\ s.do = "children"
              /\ \E renames \in ChildRenames(s) : todo' = renames \o Tail(todo)
              /\ UNCHANGED <<rows, broken>>
           \/ /\ s.do # "children" /\ Throws(s)
              /\ todo' = <<>> /\ broken' = TRUE
              /\ UNCHANGED rows
           \/ /\ s.do # "children" /\ ~Throws(s)
              /\ rows' = Effect(s)
              /\ todo' = Tail(todo)
              /\ UNCHANGED broken
    /\ UNCHANGED <<call, before>>

\* The process dies, and another opens the database; or a statement fails.
BreakOff ==
    /\ todo # <<>>
    /\ todo' = <<>> /\ broken' = TRUE
    /\ UNCHANGED <<rows, call, before>>

Return ==
    /\ call # Idle /\ todo = <<>>
    /\ call' = Idle /\ broken' = FALSE /\ before' = <<>>
    /\ UNCHANGED <<rows, todo>>

Init ==
    /\ rows = <<>>
    /\ call = Idle /\ todo = <<>> /\ broken = FALSE
    /\ before = <<>>

Next ==
    \/ /\ call = Idle
       /\ \/ \E p \in Path, content \in Content : WriteFile(p, content)
          \/ \E p \in Path : MkdirRecursive(p) \/ Mkdir(p) \/ Unlink(p)
          \/ \E p \in Path, target \in LinkTarget : Symlink(target, p)
          \/ \E from \in DOMAIN rows, to \in Path : Rename(from, to)
    \/ Step \/ BreakOff \/ Return

Spec == Init /\ [][Next]_vars

-------------------------------------------------------------------------------
(* Properties.  *)

Done == call # Idle /\ todo = <<>> /\ ~broken

\* Every entry is in the listing of a directory.
IsTree(r) ==
    \A p \in DOMAIN r \ {Root} : r[p].parent = parentPath(p) /\ IsDirectory(r, parentPath(p))

\* An ancestor of p is a file or a link.
ThroughFile(p) ==
    \E k \in 1..(Len(p) - 1) :
        LET q == SubSeq(p, 1, k) IN q \in DOMAIN before /\ ~IsDirectory(before, q)

\* The path under which a call creates something.
Target == IF call.op = "rename" THEN call.to ELSE call.path

\* A call that returns leaves a tree, if it found one: whatever it creates,
\* overwrites or moves, every entry can be reached by readdir from the root.
\* Excepted are paths that lead through a file, which #ensureParents accepts,
\* mkdir without { recursive } while there is no root, and the renames that
\* RenameMoves excepts.
KeepsTree ==
    /\ Done /\ IsTree(before) /\ ~ThroughFile(Target)
    /\ call.op = "mkdir" => before # <<>> \/ Root \in DOMAIN rows
    /\ call.op = "rename" => call.path # Root /\ ~Under(call.path, call.to)
    => IsTree(rows)

SameEntry(r, s) == r.type = s.type /\ r.content = s.content /\ r.target = s.target

\* rename() moves what is below its source and nothing else; broken off at any
\* statement, it has lost nothing but what was at its destination: every other
\* entry is where it was or where it was going.  (The source below the
\* destination is deleted with it.)
RenameMoves ==
    call.op = "rename" /\ ~Under(call.path, call.to) =>
        LET new(q) == call.to \o SubSeq(q, Len(call.path) + 1, Len(q))
            stays == {q \in DOMAIN before : ~Under(q, call.to)}
            moves == {q \in stays : Under(q, call.path)}
        IN  /\ \A q \in stays :
                  \/ q \in DOMAIN rows /\ SameEntry(rows[q], before[q])
                  \/ /\ q \in moves /\ new(q) \in DOMAIN rows
                     /\ SameEntry(rows[new(q)], before[q])
            /\ Done /\ IsTree(before) /\ call.path # Root =>
                  DOMAIN rows = (stays \ moves) \cup {new(q) : q \in moves}
                                \cup {SubSeq(call.to, 1, k) : k \in 0..(Len(call.to) - 1)}

\* A rename() that returns has moved its source.  It has not when the
\* destination was above the source, which is deleted with it.
SourceMoved ==
    Done /\ call.op = "rename" =>
        call.to \in DOMAIN rows /\ SameEntry(rows[call.to], before[call.path])

===============================================================================
