------------------------ MODULE MCSeccompSupervisor ------------------------
(* SeccompSupervisor on small instances.  Tasks are interchangeable.       *)
EXTENDS SeccompSupervisor, TLC

MCToken == 1 .. MaxCalls

TaskSymmetry == Permutations(Task)
=============================================================================
