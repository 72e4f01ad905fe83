---------------------------- MODULE AudioReview -----------------------------
(***************************************************************************)
(* The review of unmatched audio: the ReviewAudio stage that writes        *)
(* review.json (audio_review.rs, review_graphic.rs, pipeline_backend.rs),  *)
(* the decisions of the user (review_service.rs, review_graphic_manual.rs, *)
(* controller.rs), the draft that keeps them outside the stage directory,  *)
(* and the build that uses them.  Every write may fail, leave the file cut *)
(* off, or be the last thing the process does.                             *)
(***************************************************************************)
EXTENDS FiniteSets

CONSTANTS
  Items,    (* unmatched segments; the alignment gives them the same ids    *)
  Edges,    (* those before the first or after the last match               *)
  Images,   (* image targets near the others                                *)
  Smart,    (* AudioReviewPolicy::Smart, not ReviewAll                      *)
  Absent,   (* no file                                                      *)
  Torn      (* a file that cannot be parsed                                 *)

Pending == <<"nobody", "pending">>
Manual(target) == <<"manual", target>>
Automatic(target) == <<"automatic", target>>

Decisions ==
  {Pending} \cup {Manual(t) : t \in {"text", "excluded", "edge"} \cup Images}
            \cup {Automatic(t) : t \in {"edge"} \cup Images}

ASSUME ReviewAssumption ==
  /\ Edges \subseteq Items /\ Smart \in BOOLEAN
  /\ Images \cap {"text", "excluded", "edge", "pending"} = {}
  /\ Absent # Torn /\ {Absent, Torn} \cap [Items -> Decisions] = {}

VARIABLES
  report,    (* review.json                                                 *)
  draft,     (* review-draft.json                                           *)
  manifest,  (* the report that the stage's manifest names, or Absent       *)
  checked,   (* whether the job has a ReviewAudio checkpoint                *)
  status,    (* of the job; "Running" also while it waits for its turn      *)
  pc,        (* the step the worker or the command is at                    *)
  asking,    (* the decisions the command in progress makes                 *)
  book,      (* the decisions the EPUB was built with, or Absent            *)
  said       (* history: what the user may have made of each item; Pending
                is among them until a decision is acknowledged              *)

vars == <<report, draft, manifest, checked, status, pc, asking, book, said>>
files == <<report, draft, manifest>>

-----------------------------------------------------------------------------
Readable(file) == file \notin {Absent, Torn}

IsComplete(r) == \A i \in Items : r[i] # Pending

(* What fs::write may leave of the old file when it fails.                 *)
Leftovers(old) == {old, Torn}

At(step) == pc' = step /\ UNCHANGED <<checked, status, asking, book, said>>

Nobody == [i \in {} |-> Pending]

Stops(s) == status' = s /\ pc' = "idle" /\ asking' = Nobody /\ UNCHANGED <<checked, book, said>>

-----------------------------------------------------------------------------
(* The ReviewAudio stage.                                                  *)

(* A sealed report is reused; otherwise the stage directory is emptied.    *)
Begin ==
  /\ pc = "idle" /\ status = "Running"
  /\ IF checked /\ Readable(report) /\ manifest = report
        THEN At("build") /\ UNCHANGED files
        ELSE /\ report' = Absent /\ manifest' = Absent /\ checked' = FALSE /\ pc' = "create"
             /\ UNCHANGED <<draft, status, asking, book, said>>

(* review_decision_for_policy: a manual decision of the draft is kept; an  *)
(* automatic one is made anew.                                             *)
Restore_PolicyFirst(i) ==
  IF Smart /\ i \in Edges THEN Automatic("edge")
  ELSE IF Readable(draft) /\ draft[i][1] = "manual" THEN draft[i] ELSE Pending
Restore(i) ==
  IF Readable(draft) /\ draft[i][1] = "manual" THEN draft[i]
  ELSE IF Smart /\ i \in Edges THEN Automatic("edge") ELSE Pending

Create ==
  /\ pc = "create" /\ UNCHANGED <<draft, manifest>>
  /\ \/ draft # Torn /\ report' = [i \in Items |-> Restore(i)] /\ At("write draft")
     \/ report' \in Leftovers(report) /\ Stops("Failed")

WriteDraft ==
  /\ pc = "write draft" /\ UNCHANGED <<report, manifest>>
  /\ \/ draft' = report /\ At("smart")
     \/ draft' \in Leftovers(draft) /\ Stops("Failed")

Used(image, r) == \E i \in Items : r[i][2] = image

(* apply_smart_graphic_readouts: an image nobody uses for a pending item.  *)
AssignGraphic(i, image) ==
  /\ pc = "smart" /\ Smart /\ i \notin Edges /\ report[i] = Pending /\ ~Used(image, report)
  /\ UNCHANGED <<draft, manifest>>
  /\ \/ report' = [report EXCEPT ![i] = Automatic(image)] /\ At("write draft")
     \/ report' \in Leftovers(report) /\ Stops("Failed")

(* The stage is sealed and checkpointed; pending items wait for the user.  *)
Seal ==
  /\ pc = "smart" /\ UNCHANGED <<report, draft>>
  /\ \/ /\ manifest' = report /\ checked' = TRUE /\ UNCHANGED <<asking, book, said>>
        /\ IF IsComplete(report) THEN pc' = "build" /\ UNCHANGED status
                                 ELSE pc' = "idle" /\ status' = "NeedsReview"
     \/ UNCHANGED manifest /\ Stops("Failed")

(* Encode refuses an unfinished report; BuildEpub uses what it says.       *)
Build ==
  /\ pc = "build" /\ UNCHANGED files
  /\ \/ /\ IsComplete(report)
        /\ book' = report /\ status' = "Built" /\ pc' = "idle" /\ UNCHANGED <<checked, asking, said>>
     \/ Stops("Failed")

-----------------------------------------------------------------------------
(* The user.  A command writes the report, then the draft; only then is it *)
(* acknowledged.                                                           *)

Reviewing == pc = "idle" /\ status = "NeedsReview" /\ Readable(report)

Apply(r, decisions) == [i \in Items |-> IF i \in DOMAIN decisions THEN decisions[i] ELSE r[i]]

Doubt(decisions) ==
  said' = [i \in Items |-> IF i \in DOMAIN decisions THEN said[i] \cup {decisions[i]} ELSE said[i]]

Ask(decisions, step) ==
  /\ Doubt(decisions) /\ UNCHANGED <<draft, manifest, checked, status, book>>
  /\ \/ report' = Apply(report, decisions) /\ pc' = step /\ asking' = decisions
     \/ report' \in Leftovers(report) /\ UNCHANGED <<pc, asking>>

(* SaveReviewDecision ("text": a text line or an exclusion), PreserveEdge. *)
SaveDecision(i, target) ==
  /\ Reviewing /\ (target = "edge" => i \in Edges)
  /\ Ask([j \in {i} |-> Manual(target)], "save draft")

(* assign_manual_graphic_readout: an image of no other item.               *)
FreeFor_ManualOnly(i, image) == \A j \in Items \ {i} : report[j] # Manual(image)
FreeFor(i, image) == \A j \in Items \ {i} : report[j][2] # image

AssignManualGraphic(i, image) ==
  /\ Reviewing /\ i \notin Edges /\ FreeFor(i, image)
  /\ Ask([j \in {i} |-> Manual(image)], "save draft")

(* accept_unmatched_audio_exclusion.                                       *)
Exclusion == Manual("excluded")

ContinueWithoutUnmatched ==
  /\ Reviewing
  /\ Ask([j \in {i \in Items : report[i] = Pending} |-> Exclusion], "save exclusion")

Acknowledge ==
  said' = [i \in Items |-> IF i \in DOMAIN asking THEN {asking[i]} ELSE said[i]]

SaveDraft ==
  /\ pc \in {"save draft", "save exclusion"} /\ asking' = Nobody
  /\ UNCHANGED <<report, manifest, checked, status, book>>
  /\ \/ draft' = report /\ Acknowledge /\ pc' = IF pc = "save draft" THEN "idle" ELSE "reseal"
     \/ draft' \in Leftovers(draft) /\ UNCHANGED said /\ pc' = "idle"

FinishReview ==
  Reviewing /\ IsComplete(report) /\ At("reseal") /\ UNCHANGED files

(* seal_review, resume_after_review.                                       *)
Reseal ==
  /\ pc = "reseal" /\ UNCHANGED <<report, draft>>
  /\ \/ manifest' = report /\ Stops("Running")
     \/ UNCHANGED manifest /\ Stops("NeedsReview")

CancelReview == pc = "idle" /\ status = "NeedsReview" /\ Stops("Failed") /\ UNCHANGED files

RetryFromScratch ==
  /\ pc = "idle" /\ status = "Failed" /\ status' = "Running" /\ checked' = FALSE
  /\ UNCHANGED <<files, pc, asking, book, said>>

(* The process ends and is started again.  The snapshot may or may not     *)
(* have the checkpoint, and a book that waited for review has none.        *)
Relaunch ==
  /\ status \in {"Running", "NeedsReview"}
  /\ checked' \in {FALSE, checked /\ status = "Running"}
  /\ status' = "Running" /\ pc' = "idle" /\ asking' = Nobody
  /\ UNCHANGED <<files, book, said>>

-----------------------------------------------------------------------------
Init ==
  /\ report = Absent /\ draft = Absent /\ manifest = Absent /\ checked = FALSE
  /\ status = "Running" /\ pc = "idle" /\ asking = Nobody /\ book = Absent
  /\ said = [i \in Items |-> {Pending}]

Next ==
  \/ Begin \/ Create \/ WriteDraft \/ Seal \/ Build
  \/ (\E i \in Items, image \in Images : AssignGraphic(i, image) \/ AssignManualGraphic(i, image))
  \/ (\E i \in Items, target \in {"text", "edge"} : SaveDecision(i, target))
  \/ ContinueWithoutUnmatched \/ SaveDraft \/ FinishReview \/ Reseal \/ CancelReview
  \/ RetryFromScratch \/ Relaunch

Spec == Init /\ [][Next]_vars

-----------------------------------------------------------------------------
Files == [Items -> Decisions] \cup {Absent, Torn}

(* Every file holds decisions of the forms validate_decision accepts from  *)
(* the provenance that makes them: only the user excludes or uses text.    *)
TypeOK ==
  /\ report \in Files /\ draft \in Files /\ manifest \in Files \ {Torn} /\ book \in Files \ {Torn}
  /\ checked \in BOOLEAN /\ status \in {"Running", "NeedsReview", "Failed", "Built"}
  /\ pc \in {"idle", "create", "write draft", "smart", "build", "save draft", "save exclusion", "reseal"}
  /\ DOMAIN asking \subseteq Items /\ \A i \in DOMAIN asking : asking[i] \in Decisions
  /\ said \in [Items -> SUBSET Decisions]

(* The book is built with what the user decided: every acknowledged        *)
(* decision, or one the user tried to put in its place, whatever writes    *)
(* failed, whatever runs or relaunches came between, and with nothing left *)
(* undecided (apply_audio_review_decision, review_decision_for_policy,     *)
(* seal_review).                                                           *)
BookHonoursDecisions ==
  status = "Built" =>
    \A i \in Items : book[i] # Pending /\ (Pending \notin said[i] => book[i] \in said[i])

(* No image is the target of two segments, chosen by the user or           *)
(* automatically, in this run or an earlier one; BuildEpub would refuse    *)
(* such a book (validate_manual_graphic_target,                            *)
(* apply_automatic_graphic_readout_decision).                              *)
ImagesDistinct ==
  Readable(report) =>
    \A i, j \in Items : i # j /\ report[i][2] \in Images => report[i][2] # report[j][2]
=============================================================================
