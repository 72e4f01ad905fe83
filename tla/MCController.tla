---------------------------- MODULE MCController ----------------------------
(* Two books and one retained stage, which may ask for review.              *)
EXTENDS Controller

Symmetry == Permutations(JobId)
=============================================================================
