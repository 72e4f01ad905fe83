-------------------------- MODULE MCReviewSession --------------------------
(* Two books that come to review in turn, each any number of times, with   *)
(* two segments each.  What the screen shows of the report does not depend *)
(* on the evidence, so that no run rebuilds it (MaxRuns = 0).              *)
EXTENDS ReviewSession
=============================================================================
