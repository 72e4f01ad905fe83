-------------------------- MODULE MCQueueRecovery --------------------------
(* Three contents: one in the primary, an older one in the backup and the  *)
(* one being saved can all differ.                                         *)
EXTENDS QueueRecovery, TLC

Symmetry == Permutations(Snapshots)
=============================================================================
