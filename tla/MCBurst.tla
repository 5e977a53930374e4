------------------------------- MODULE MCBurst -------------------------------
(* Burst on small instances: a line of three processes, or of two below EDR  *)
(* itself, with two threads in the last of them or one in each of the last   *)
(* two.                                                                      *)
EXTENDS Burst

CONSTANTS edr, p1, p2, p3, a, b

MCHomes == {[t \in Thread |-> p3], [t \in Thread |-> IF t = a THEN p3 ELSE p2]}

MCLineages == {[p \in Proc |-> CASE p = p3 -> p2 [] p = p2 -> q [] OTHER -> Outside] : q \in {p1, edr}}
=============================================================================
