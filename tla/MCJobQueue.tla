---------------------------- MODULE MCJobQueue ----------------------------
(* Three books, two values of the immutable inputs, one retained stage.    *)
EXTENDS JobQueue

Symmetry == Permutations(JobId) \cup Permutations(Inputs)
=============================================================================
