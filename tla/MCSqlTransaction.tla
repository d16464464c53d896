--------------------------- MODULE MCSqlTransaction ---------------------------
(* Small instances of begin() and savepoint() on the shared connection.  *)
EXTENDS SqlTransaction, TLC

\* Calls of the same kind are interchangeable.
Symmetry == Permutations(Begin) \cup Permutations(Savepoint)

\* Atomic with nothing excluded.
AtomicAnyway == \A t \in Begin : AllOrNone(t)
===============================================================================
