---------------------------- MODULE MCProcTree ----------------------------
(* Model checking of the process tree; the bounds are in the configurations. *)
EXTENDS ProcTree
====
