---------------------------- MODULE MCChunkPool ----------------------------
(* Three chunks, two threads: one thread can be a chunk ahead, behind or   *)
(* gone while the other works.                                             *)
EXTENDS ChunkPool
=============================================================================
