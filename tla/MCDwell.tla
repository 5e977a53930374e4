------------------------------ MODULE MCDwell ------------------------------
(* Dwell on small instances: a parent and its child, in one process group  *)
(* as fork leaves them.                                                    *)
EXTENDS Dwell, TLC

CONSTANTS p1, p2

SharedGroup  == p1 :> 1 @@ p2 :> 1
ChildOfFirst == p1 :> {} @@ p2 :> {p1}
=============================================================================
