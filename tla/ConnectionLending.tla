-------------------------- MODULE ConnectionLending --------------------------
(***************************************************************************)
(* What the native connection pool promises to those who use it.  Each     *)
(* connection the pool opens is issued a new number; it is either free or  *)
(* lent, never both; it is lent to one user at a time; a number is never   *)
(* issued twice, so that a handle kept after its connection was closed     *)
(* never names another one.                                                *)
(***************************************************************************)
EXTENDS Integers

VARIABLES
    free,    \* open connections nobody is using
    lent,    \* open connections somebody is using
    issued   \* the numbers 1..issued have been given out

vars == <<free, lent, issued>>

Init == free = {} /\ lent = {} /\ issued = 0

\* The pool opens with some new connections.
Open ==
    /\ free = {} /\ lent = {}
    /\ free' = (issued + 1)..issued'
    /\ UNCHANGED lent

\* A free connection is lent; others may have turned out to be dead.
LendFree(k) ==
    /\ k \in free
    /\ lent' = lent \cup {k}
    /\ free' \subseteq free \ {k}
    /\ UNCHANGED issued

\* No free connection works: they are closed and a new one is lent.
LendNew ==
    /\ issued' = issued + 1
    /\ lent' = lent \cup {issued'}
    /\ free' = {}

\* No free connection works, and none can be opened.
Refuse ==
    /\ free' = {}
    /\ UNCHANGED <<lent, issued>>

\* A user gives its connection back; it, and free ones, may be closed.
Return(k) ==
    /\ k \in lent
    /\ lent' = lent \ {k}
    /\ free' \subseteq free \cup {k}
    /\ UNCHANGED issued

\* The pool ends.
Close ==
    /\ free' = {} /\ lent' = {}
    /\ UNCHANGED issued

Next ==
    \/ Open
    \/ \E k \in free : LendFree(k)
    \/ LendNew
    \/ Refuse
    \/ \E k \in lent : Return(k)
    \/ Close

Spec == Init /\ [][Next]_vars
===============================================================================
