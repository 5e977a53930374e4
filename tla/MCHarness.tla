------------------------------ MODULE MCHarness ------------------------------
(* Harness on small instances: the child and two descendants.               *)
EXTENDS Harness
=============================================================================
