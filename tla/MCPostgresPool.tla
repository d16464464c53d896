---------------------------- MODULE MCPostgresPool ----------------------------
(* Small instances of the native connection pool.  *)
EXTENDS PostgresPool, TLC

\* Addresses and jobs are interchangeable: no definition chooses among them.
Symmetry == Permutations(Addr) \cup Permutations(Worker)
===============================================================================
