--------------------------- MODULE MCAudioReview ----------------------------
(* Three segments, one of them at the edge of the book, and two images.    *)
EXTENDS AudioReview, TLC

Symmetry == Permutations(Images) \cup Permutations(Items \ Edges)
=============================================================================
