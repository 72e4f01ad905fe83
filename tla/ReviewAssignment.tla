-------------------------- MODULE ReviewAssignment --------------------------
(***************************************************************************)
(* What may be decided about a segment that has no place in the book, and  *)
(* what the decisions make of the alignment: review_assignment.rs,         *)
(* review_materialize.rs, review_image.rs (core).  How the decisions are   *)
(* stored is in AudioReview.                                               *)
(***************************************************************************)
EXTENDS Alignment

CONSTANTS
  Documents,  (* how many documents the spine of the EPUB has               *)
  DocumentOf, (* the document of each text block, in reading order          *)
  Images,     (* images of the EPUB                                         *)
  ImageIn,    (* the document each is in                                    *)
  Smart,      (* AudioReviewPolicy::Smart, not ReviewAll                    *)
  Pending, Excluded, Page  (* decisions that name no place in the book: a   *)
                           (* Page is the supplemental page of an edge      *)

Blocks == DOMAIN DocumentOf

ASSUME ReviewAssignmentAssumption ==
  /\ Documents \in Nat \ {0} /\ Smart \in BOOLEAN
  /\ DocumentOf \in Seq(1..Documents) /\ ImageIn \in [Images -> 1..Documents]
  /\ \A p \in DOMAIN Book : Book[p].block \in Blocks
  /\ \A b, c \in Blocks : b <= c => DocumentOf[b] <= DocumentOf[c]
  /\ \A image \in Images : image \notin Blocks
  /\ \A place \in Blocks \cup Images : place \notin {Pending, Excluded, Page}
  /\ Pending # Excluded /\ Pending # Page /\ Excluded # Page

VARIABLE
  decisions   (* of the segments that are not matched; a Block or an Image  *)
              (* is the place the segment is assigned to                    *)

-----------------------------------------------------------------------------
Matched   == {k \in DOMAIN aligned : IsMatched(k)}
Reviewed  == DOMAIN aligned \ Matched
Before(k) == {j \in Matched : j < k}
After(k)  == {j \in Matched : j > k}

(* edge_kind: narration before the first or after the last matched segment.*)
IsEdge(k) == Matched # {} /\ (Before(k) = {} \/ After(k) = {})

(* nearest_previous_position, nearest_next_position.                       *)
LowBlock(k)  == IF Before(k) = {} THEN 1 ELSE LastBlock(Max(Before(k)))
HighBlock(k) == IF After(k) = {} THEN Len(DocumentOf) ELSE FirstBlock(Min(After(k)))

(* review_text_candidates: the blocks between the neighbours; the panel    *)
(* offers at most four, those that share the most words.                   *)
TextCandidates(k) == LowBlock(k)..HighBlock(k)

(* review_image_candidates: the documents between the neighbours, those    *)
(* without text too; nearer ones are searched first, up to a limit.        *)
ImageCandidates(k) ==
  LET low  == IF Before(k) = {} THEN 1 ELSE DocumentOf[LastBlock(Max(Before(k)))]
      high == IF After(k) = {} THEN Documents ELSE DocumentOf[FirstBlock(Min(After(k)))]
  IN  {i \in Images : low <= ImageIn[i] /\ ImageIn[i] <= high}

-----------------------------------------------------------------------------
(* create_audio_review_report: Smart keeps the edges as pages.             *)
StartReview ==
  decisions' = [k \in Reviewed |-> IF Smart /\ IsEdge(k) THEN Page ELSE Pending]

Decide(k, decision) ==
  decisions[k] = Pending /\ decisions' = [decisions EXCEPT ![k] = decision]

AssignText(k) == \E block \in TextCandidates(k) : Decide(k, block)

(* By the user (assign_manual_graphic_readout) or automatically, an image  *)
(* of no other segment.                                                    *)
AssignImage(k) ==
  ~IsEdge(k) /\ \E image \in ImageCandidates(k) :
                  (\A j \in Reviewed : decisions[j] # image) /\ Decide(k, image)

KeepEdge(k) == IsEdge(k) /\ Decide(k, Page)

Exclude(k) == Decide(k, Excluded)

-----------------------------------------------------------------------------
(* apply_audio_review_to_alignment, called by materialize_reviewed_        *)
(* alignment, which takes images out first: the block each segment is in   *)
(* and 0 for those in none.                                                *)
Effective ==
  [k \in DOMAIN aligned |->
     IF IsMatched(k) THEN FirstBlock(k) ELSE IF decisions[k] \in Blocks THEN decisions[k] ELSE 0]

(* validate_assignment_window.                                             *)
InWindow(k) == decisions[k] \in Blocks => decisions[k] \in LowBlock(k)..HighBlock(k)

(* validate_effective_monotonicity.                                        *)
IsMonotonic ==
  \A j, k \in DOMAIN aligned : j < k /\ 0 < Effective[k] => Effective[j] <= Effective[k]

Materializes_Unordered == \A k \in Reviewed : decisions[k] # Pending /\ InWindow(k)
Materializes == (\A k \in Reviewed : decisions[k] # Pending /\ InWindow(k)) /\ IsMonotonic
=============================================================================
