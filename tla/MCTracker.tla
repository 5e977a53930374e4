----------------------------- MODULE MCTracker -----------------------------
(* Tracker on small instances; the bounds are in the configurations.       *)
EXTENDS Tracker
=============================================================================
