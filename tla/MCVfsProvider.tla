----------------------------- MODULE MCVfsProvider -----------------------------
(* Small instances of the SQLite provider: names that LIKE tells apart, and     *)
(* names that differ in case only.                                              *)
EXTENDS VfsProvider, TLC

CONSTANTS a, b

Apart    == {<<n, n>> : n \in Name}
CaseOnly == Name \X Name

Symmetry == Permutations(Name) \cup Permutations(Content)
===============================================================================
