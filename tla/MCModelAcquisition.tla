-------------------------- MODULE MCModelAcquisition --------------------------
(* Small instances of acquireModel: two callers in one process, or one in   *)
(* each of two.                                                             *)
EXTENDS ModelAcquisition, TLC

CONSTANTS c1, c2, p1, p2

SameProcess == c1 :> p1 @@ c2 :> p1
TwoProcesses == c1 :> p1 @@ c2 :> p2
===============================================================================
