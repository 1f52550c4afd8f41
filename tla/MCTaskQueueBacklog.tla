------------------------ MODULE MCTaskQueueBacklog ------------------------
(* Instances of TaskQueueBacklog for TLC. *)
EXTENDS TaskQueueBacklog, TLC

Symmetry == Permutations(Owners) \cup Permutations(Tasks \ Expirable)

=============================================================================
