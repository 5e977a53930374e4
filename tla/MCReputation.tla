---------------------------- MODULE MCReputation ----------------------------
(* Reputation on small instances: the UI thread and the supervise thread.  *)
EXTENDS Reputation, TLC

HashSymmetry == Permutations(Hash)
=============================================================================
