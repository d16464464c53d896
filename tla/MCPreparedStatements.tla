------------------------- MODULE MCPreparedStatements -------------------------
(* Small instances of the adapter over the pool: hashes that collide and hashes *)
(* that do not.                                                                *)
EXTENDS PreparedStatements, TLC

CONSTANTS A, B, C

\* A and B collide; every text has a hash of its own.
Colliding == (A :> 1) @@ (B :> 1) @@ (C :> 2)
AllCollide == [t \in {A, B, C} |-> 1]
Distinct   == (A :> 1) @@ (B :> 2) @@ (C :> 3)

\* Connections are interchangeable.
Symmetry == Permutations(Addr)
===============================================================================
