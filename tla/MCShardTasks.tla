---------------------------- MODULE MCShardTasks ----------------------------
(* Instances of ShardTasks for TLC. *)
EXTENDS ShardTasks, TLC

Immediate == [cat |-> "immediate", due |-> 0]
Timer == [cat |-> "scheduled", due |-> 0]

MCWrites == [immediate |-> {<<Immediate, Timer>>}, scheduled |-> {<<Timer>>}]

MCMaxCalls == [immediate |-> 2, scheduled |-> 1]

Symmetry == Permutations(Contexts)
=============================================================================
