--------------------------- MODULE MCPublication ---------------------------
(* Two books with the same output path, two different contents.            *)
EXTENDS Publication, TLC

Symmetry == Permutations(Books) \cup Permutations(Contents)
=============================================================================
