------------------------- MODULE AudioReviewProofs --------------------------
(***************************************************************************)
(* What becomes of the user's decisions, for any number of segments and    *)
(* images: none that was acknowledged is lost, and no image is used twice. *)
(***************************************************************************)
EXTENDS AudioReview, TLAPS

-----------------------------------------------------------------------------
(* The inductive invariant.                                                *)

Whole == [Items -> Decisions]

(* A report or a draft has what was acknowledged, or what the user tried   *)
(* to put in its place.                                                    *)
Honest(f) == \A i \in Items : Pending \notin said[i] => f[i] \in said[i]

Distinct(f) == \A i, j \in Items : i # j /\ f[i][2] \in Images => f[i][2] # f[j][2]

Sound(f) == f \in Whole => Honest(f) /\ Distinct(f)

(* The user's decisions are manual; the draft is there once one of them is *)
(* acknowledged.  It is what a new report takes them from.                 *)
Remembered ==
  /\ \A i \in Items : \A d \in said[i] : d = Pending \/ d[1] = "manual"
  /\ (\E i \in Items : Pending \notin said[i]) => draft # Absent

Saving == pc \in {"save draft", "save exclusion"}

(* Which steps have a report, and what it has for a command in progress.   *)
Steps ==
  /\ pc \notin {"idle", "create"} => report \in Whole
  /\ Saving => \A i \in DOMAIN asking : report[i] = asking[i] /\ asking[i][1] = "manual"
  /\ status = "Built" =>
       pc = "idle" /\ book \in Whole /\ Honest(book) /\ \A i \in Items : book[i] # Pending

RInv == TypeOK /\ Sound(report) /\ Sound(draft) /\ Remembered /\ Steps

-----------------------------------------------------------------------------
LEMMA FileFacts ==
  /\ Absent \notin Whole /\ Torn \notin Whole /\ Absent # Torn /\ Files = Whole \cup {Absent, Torn}
  /\ \A f \in Files : Readable(f) <=> f \in Whole
<1>1. Absent \notin Whole /\ Torn \notin Whole /\ Absent # Torn
  BY ReviewAssumption DEF Whole
<1>. QED
  BY <1>1 DEF Files, Whole, Readable

LEMMA DecisionFacts ==
  /\ Pending \in Decisions /\ Pending[2] \notin Images /\ Exclusion \in Decisions
  /\ Exclusion[1] = "manual" /\ Exclusion[2] \notin Images
  /\ Automatic("edge") \in Decisions /\ Automatic("edge")[2] \notin Images
  /\ \A t \in {"text", "edge"} : Manual(t) \in Decisions /\ Manual(t)[1] = "manual" /\ Manual(t)[2] \notin Images
  /\ \A p \in Images : Manual(p) \in Decisions /\ Manual(p)[1] = "manual" /\ Manual(p)[2] = p
  /\ \A p \in Images : Automatic(p) \in Decisions /\ Automatic(p)[2] = p
  BY ReviewAssumption DEF Decisions, Pending, Manual, Automatic, Exclusion

LEMMA InitInv == Init => RInv
<1> SUFFICES ASSUME Init PROVE RInv
  OBVIOUS
<1>1. DOMAIN asking = {}
  BY DEF Init, Nobody
<1>2. TypeOK
  BY <1>1, FileFacts, DecisionFacts DEF Init, TypeOK
<1>3. Sound(report) /\ Sound(draft)
  BY FileFacts DEF Init, Sound
<1>4. \A i \in Items : said[i] = {Pending}
  BY DEF Init
<1>. QED
  BY <1>2, <1>3, <1>4 DEF Init, RInv, Remembered, Steps, Saving

(* A step that writes nothing but what it has, or less.                    *)
LEMMA KeepsFiles ==
  ASSUME RInv, TypeOK', Steps', said' = said,
         report' \in {report, Torn, Absent}, draft' \in {draft, Torn} \/ (report \in Whole /\ draft' = report)
  PROVE  RInv'
<1>1. Sound(report)'
  BY FileFacts DEF RInv, Sound, Honest, Distinct
<1>2. Sound(draft)'
  BY FileFacts DEF RInv, Sound, Honest, Distinct
<1>3. Remembered'
  BY FileFacts DEF RInv, Remembered
<1>. QED
  BY <1>1, <1>2, <1>3 DEF RInv

LEMMA StopsInv ==
  ASSUME RInv, NEW s \in {"Running", "NeedsReview", "Failed"}, Stops(s), manifest' \in Files \ {Torn},
         report' \in {report, Torn}, draft' \in {draft, Torn}
  PROVE  RInv'
<1>1. DOMAIN asking' = {}
  BY DEF Stops, Nobody
<1>2. report' \in Files /\ draft' \in Files
  BY FileFacts DEF RInv, TypeOK
<1>3. TypeOK'
  BY <1>1, <1>2 DEF Stops, RInv, TypeOK
<1>4. Steps'
  BY <1>1 DEF Stops, Steps, Saving
<1>5. said' = said
  BY DEF Stops
<1>. QED
  BY <1>3, <1>4, <1>5, KeepsFiles

(* Steps of the stage from one that is not the last.                       *)
LEMMA AtInv ==
  ASSUME RInv, NEW step \in {"write draft", "smart", "build", "reseal"}, At(step), status # "Built",
         report' \in Whole, manifest' = manifest,
         report' = report, draft' \in {draft, Torn} \/ draft' = report
  PROVE  RInv'
<1>1. report' \in Files /\ draft' \in Files
  BY FileFacts DEF RInv, TypeOK
<1>2. TypeOK'
  BY <1>1 DEF At, RInv, TypeOK
<1>3. Steps'
  BY DEF At, Steps, Saving
<1>4. said' = said
  BY DEF At
<1>. QED
  BY <1>2, <1>3, <1>4, KeepsFiles

-----------------------------------------------------------------------------
(* The ReviewAudio stage.                                                  *)

LEMMA BeginInv == ASSUME RInv, Begin PROVE RInv'
<1>1. CASE At("build") /\ UNCHANGED files /\ Readable(report)
  BY <1>1, FileFacts, AtInv DEF Begin, files, RInv, TypeOK
<1>2. CASE /\ report' = Absent /\ manifest' = Absent /\ checked' = FALSE /\ pc' = "create"
           /\ UNCHANGED <<draft, status, asking, book, said>>
  <2>1. TypeOK'
    BY <1>2, FileFacts DEF RInv, TypeOK
  <2>2. Steps'
    BY <1>2 DEF Begin, Steps, Saving
  <2>. QED
    BY <1>2, <2>1, <2>2, KeepsFiles
<1>. QED
  BY <1>1, <1>2 DEF Begin

(* The report a new run starts with has every acknowledged decision: the   *)
(* draft is there and manual wherever there is one.                        *)
LEMMA RestoreSound ==
  ASSUME RInv, draft # Torn, NEW r, r = [i \in Items |-> Restore(i)]
  PROVE  r \in Whole /\ Honest(r) /\ Distinct(r)
<1>1. Readable(draft) <=> draft \in Whole
  BY FileFacts DEF RInv, TypeOK
<1>2. \A i \in Items : \/ draft \in Whole /\ r[i] = draft[i] /\ draft[i][1] = "manual"
                       \/ r[i] \in {Automatic("edge"), Pending} /\ ~(draft \in Whole /\ draft[i][1] = "manual")
  BY <1>1 DEF Restore
<1>3. r \in Whole
  <2>1. \A i \in Items : r[i] \in Decisions
    BY <1>2, DecisionFacts DEF Whole
  <2>. QED
    BY <2>1 DEF Whole
<1>4. ASSUME NEW i \in Items, Pending \notin said[i] PROVE r[i] \in said[i]
  <2>1. draft \in Whole
    BY <1>4, FileFacts DEF RInv, TypeOK, Remembered
  <2>2. draft[i] \in said[i] /\ draft[i][1] = "manual"
    BY <1>4, <2>1 DEF RInv, Sound, Honest, Remembered
  <2>. QED
    BY <1>2, <2>1, <2>2
<1>5. Distinct(r)
  <2>1. \A i \in Items : r[i][2] \in Images => draft \in Whole /\ r[i] = draft[i]
    BY <1>2, DecisionFacts
  <2>2. draft \in Whole => Distinct(draft)
    BY DEF RInv, Sound
  <2>. QED
    BY <2>1, <2>2 DEF Distinct
<1>. QED
  BY <1>3, <1>4, <1>5 DEF Honest

LEMMA CreateInv == ASSUME RInv, Create PROVE RInv'
<1>1. CASE draft # Torn /\ report' = [i \in Items |-> Restore(i)] /\ At("write draft")
  <2>1. report' \in Whole /\ Honest(report') /\ Distinct(report')
    BY <1>1, RestoreSound
  <2>2. said' = said /\ draft' = draft
    BY <1>1 DEF At, Create
  <2>3. TypeOK'
    BY <1>1, <2>1, <2>2, FileFacts DEF Create, At, RInv, TypeOK
  <2>4. Sound(report)' /\ Sound(draft)' /\ Remembered'
    BY <2>1, <2>2 DEF RInv, Sound, Honest, Remembered
  <2>5. Steps'
    BY <1>1, <2>1 DEF Create, At, RInv, Steps, Saving
  <2>. QED
    BY <2>3, <2>4, <2>5 DEF RInv
<1>2. CASE report' \in Leftovers(report) /\ Stops("Failed")
  BY <1>2, StopsInv DEF Create, Leftovers, RInv, TypeOK
<1>. QED
  BY <1>1, <1>2 DEF Create

LEMMA WriteDraftInv == ASSUME RInv, WriteDraft PROVE RInv'
<1>1. report \in Whole /\ status # "Built"
  BY DEF WriteDraft, RInv, Steps
<1>2. CASE draft' = report /\ At("smart")
  BY <1>1, <1>2, AtInv DEF WriteDraft
<1>3. CASE draft' \in Leftovers(draft) /\ Stops("Failed")
  BY <1>3, StopsInv DEF WriteDraft, Leftovers, RInv, TypeOK
<1>. QED
  BY <1>2, <1>3 DEF WriteDraft

LEMMA AssignGraphicInv ==
  ASSUME RInv, NEW i \in Items, NEW image \in Images, AssignGraphic(i, image) PROVE RInv'
<1>1. report \in Whole /\ status # "Built" /\ report[i] = Pending /\ \A j \in Items : report[j][2] # image
  BY DEF AssignGraphic, RInv, Steps, Used
<1>2. CASE report' = [report EXCEPT ![i] = Automatic(image)] /\ At("write draft")
  <2>1. report' \in Whole /\ \A j \in Items : report'[j] = IF j = i THEN Automatic(image) ELSE report[j]
    BY <1>1, <1>2, DecisionFacts DEF Whole
  <2>2. said' = said /\ draft' = draft
    BY <1>2 DEF At, AssignGraphic
  <2>3. Honest(report')
    <3>1. Pending \in said[i]
      BY <1>1 DEF RInv, Sound, Honest
    <3>. QED
      BY <1>1, <2>1, <3>1 DEF RInv, Sound, Honest
  <2>4. Distinct(report')
    BY <1>1, <2>1, DecisionFacts DEF RInv, Sound, Distinct
  <2>5. TypeOK'
    BY <1>2, <2>1, <2>2, FileFacts DEF AssignGraphic, At, RInv, TypeOK
  <2>6. Sound(report)' /\ Sound(draft)' /\ Remembered'
    BY <2>2, <2>3, <2>4 DEF RInv, Sound, Honest, Remembered
  <2>7. Steps'
    BY <1>1, <1>2, <2>1 DEF At, Steps, Saving
  <2>. QED
    BY <2>5, <2>6, <2>7 DEF RInv
<1>3. CASE report' \in Leftovers(report) /\ Stops("Failed")
  BY <1>3, StopsInv DEF AssignGraphic, Leftovers, RInv, TypeOK
<1>. QED
  BY <1>2, <1>3 DEF AssignGraphic

LEMMA SealInv == ASSUME RInv, Seal PROVE RInv'
<1>1. report \in Whole /\ status # "Built"
  BY DEF Seal, RInv, Steps
<1>2. CASE UNCHANGED manifest /\ Stops("Failed")
  BY <1>2, StopsInv DEF Seal, RInv, TypeOK
<1>3. CASE /\ manifest' = report /\ checked' = TRUE /\ UNCHANGED <<asking, book, said>>
           /\ IF IsComplete(report) THEN pc' = "build" /\ UNCHANGED status
                                    ELSE pc' = "idle" /\ status' = "NeedsReview"
  <2>1. TypeOK'
    BY <1>1, <1>3, FileFacts DEF Seal, RInv, TypeOK
  <2>2. Steps'
    BY <1>1, <1>3 DEF Seal, Steps, Saving
  <2>. QED
    BY <1>3, <2>1, <2>2, KeepsFiles DEF Seal
<1>. QED
  BY <1>2, <1>3 DEF Seal

LEMMA BuildInv == ASSUME RInv, Build PROVE RInv'
<1>1. report \in Whole /\ status # "Built" /\ UNCHANGED <<report, draft, manifest>>
  BY DEF Build, RInv, Steps, files
<1>2. CASE Stops("Failed")
  BY <1>1, <1>2, StopsInv DEF RInv, TypeOK
<1>3. CASE /\ IsComplete(report)
           /\ book' = report /\ status' = "Built" /\ pc' = "idle" /\ UNCHANGED <<checked, asking, said>>
  <2>1. TypeOK'
    BY <1>1, <1>3, FileFacts DEF RInv, TypeOK
  <2>2. Honest(report)' /\ \A i \in Items : report[i] # Pending
    BY <1>1, <1>3 DEF RInv, Sound, Honest, IsComplete
  <2>3. Steps'
    BY <1>1, <1>3, <2>2 DEF Steps, Saving, Honest
  <2>. QED
    BY <1>1, <1>3, <2>1, <2>3, KeepsFiles
<1>. QED
  BY <1>2, <1>3 DEF Build

-----------------------------------------------------------------------------
(* The user.                                                               *)

(* A command that decides some segments: decisions that collide with no    *)
(* other leave a sound report, acknowledged or not.                        *)
LEMMA AskInv ==
  ASSUME RInv, Reviewing, NEW decisions, NEW step \in {"save draft", "save exclusion"},
         DOMAIN decisions \subseteq Items,
         \A i \in DOMAIN decisions : decisions[i] \in Decisions /\ decisions[i][1] = "manual",
         \A i \in DOMAIN decisions : decisions[i][2] \in Images =>
            \A j \in Items \ {i} : report[j][2] # decisions[i][2] /\ j \notin DOMAIN decisions,
         Ask(decisions, step)
  PROVE  RInv'
<1>1. report \in Whole /\ status = "NeedsReview" /\ pc = "idle"
  BY FileFacts DEF Reviewing, RInv, TypeOK
<1>2. /\ UNCHANGED <<draft, manifest, checked, status, book>>
      /\ \A i \in Items : said'[i] = IF i \in DOMAIN decisions THEN said[i] \cup {decisions[i]} ELSE said[i]
      /\ said' \in [Items -> SUBSET Decisions]
  BY DEF Ask, Doubt, RInv, TypeOK
<1>3. \A f : Honest(f) => Honest(f)'
  BY <1>2 DEF Honest
<1>4. Remembered'
  <2>1. ASSUME NEW i \in Items, NEW d \in said'[i] PROVE d = Pending \/ d[1] = "manual"
    <3>1. CASE i \in DOMAIN decisions
      <4>1. said'[i] = said[i] \cup {decisions[i]}
        BY <1>2, <3>1
      <4>. QED
        BY <3>1, <4>1 DEF RInv, Remembered
    <3>2. CASE i \notin DOMAIN decisions
      <4>1. said'[i] = said[i]
        BY <1>2, <3>2
      <4>. QED
        BY <4>1 DEF RInv, Remembered
    <3>. QED
      BY <3>1, <3>2
  <2>2. ASSUME NEW i \in Items, Pending \notin said'[i] PROVE draft' # Absent
    BY <1>2, <2>2 DEF RInv, Remembered
  <2>. QED
    BY <2>1, <2>2 DEF Remembered
<1>5. Sound(draft)'
  <2>1. draft' = draft
    BY <1>2
  <2>. QED
    BY <1>3, <2>1 DEF RInv, Sound, Honest, Distinct
<1>6. CASE report' = Apply(report, decisions) /\ pc' = step /\ asking' = decisions
  <2>1. /\ report' \in Whole
        /\ \A i \in Items : report'[i] = IF i \in DOMAIN decisions THEN decisions[i] ELSE report[i]
    BY <1>1, <1>6 DEF Apply, Whole
  <2>2. Honest(report)'
    BY <1>1, <1>2, <2>1 DEF RInv, Sound, Honest
  <2>3. Distinct(report')
    <3> SUFFICES ASSUME NEW i \in Items, NEW j \in Items, i # j, report'[i][2] \in Images
                 PROVE  report'[i][2] # report'[j][2]
      BY DEF Distinct
    <3>1. CASE i \in DOMAIN decisions
      BY <2>1, <3>1
    <3>2. CASE i \notin DOMAIN decisions /\ j \in DOMAIN decisions
      BY <2>1, <3>2
    <3>3. CASE i \notin DOMAIN decisions /\ j \notin DOMAIN decisions
      BY <1>1, <2>1, <3>3 DEF RInv, Sound, Distinct
    <3>. QED
      BY <3>1, <3>2, <3>3
  <2>4. TypeOK'
    BY <1>2, <1>6, <2>1, FileFacts DEF RInv, TypeOK
  <2>5. Steps'
    BY <1>1, <1>2, <1>6, <2>1 DEF Steps, Saving
  <2>. QED
    BY <1>4, <1>5, <2>2, <2>3, <2>4, <2>5 DEF RInv, Sound
<1>7. CASE report' \in Leftovers(report) /\ UNCHANGED <<pc, asking>>
  <2>1. report' \in Files /\ Sound(report)'
    BY <1>3, <1>7, FileFacts DEF Leftovers, RInv, TypeOK, Sound
  <2>2. TypeOK'
    BY <1>2, <1>7, <2>1 DEF RInv, TypeOK
  <2>3. Steps'
    BY <1>1, <1>2, <1>7 DEF Steps, Saving
  <2>. QED
    BY <1>4, <1>5, <2>1, <2>2, <2>3 DEF RInv
<1>. QED
  BY <1>6, <1>7 DEF Ask

LEMMA DecideInv ==
  ASSUME RInv, NEW i \in Items, NEW target \in {"text", "edge"}, SaveDecision(i, target) PROVE RInv'
  BY AskInv, DecisionFacts DEF SaveDecision

LEMMA AssignManualInv ==
  ASSUME RInv, NEW i \in Items, NEW image \in Images, AssignManualGraphic(i, image) PROVE RInv'
  BY AskInv, DecisionFacts DEF AssignManualGraphic, FreeFor

LEMMA ContinueInv == ASSUME RInv, ContinueWithoutUnmatched PROVE RInv'
  BY AskInv, DecisionFacts DEF ContinueWithoutUnmatched

(* The acknowledgement: the draft is the report, and the report has what   *)
(* the command decided.                                                    *)
LEMMA SaveDraftInv == ASSUME RInv, SaveDraft PROVE RInv'
<1>1. /\ report \in Whole /\ status # "Built" /\ Saving /\ DOMAIN asking' = {}
      /\ UNCHANGED <<report, manifest, checked, status, book>>
  BY DEF SaveDraft, RInv, Steps, Saving, Nobody
<1>2. CASE draft' = report /\ Acknowledge /\ pc' = IF pc = "save draft" THEN "idle" ELSE "reseal"
  <2>1. /\ said' \in [Items -> SUBSET Decisions]
        /\ \A i \in Items : said'[i] = IF i \in DOMAIN asking THEN {report[i]} ELSE said[i]
    BY <1>1, <1>2 DEF Acknowledge, RInv, TypeOK, Steps
  <2>2. Honest(report)'
    BY <1>1, <2>1 DEF RInv, Sound, Honest
  <2>3. Sound(report)' /\ Sound(draft)'
    BY <1>1, <1>2, <2>2 DEF RInv, Sound, Honest, Distinct
  <2>4. Remembered'
    <3>1. ASSUME NEW i \in Items, NEW d \in said'[i] PROVE d = Pending \/ d[1] = "manual"
      <4>1. CASE i \in DOMAIN asking
        <5>1. d = report[i] /\ report[i] = asking[i] /\ asking[i][1] = "manual"
          BY <1>1, <2>1, <4>1 DEF RInv, Steps
        <5>. QED
          BY <5>1
      <4>2. CASE i \notin DOMAIN asking
        <5>1. d \in said[i]
          BY <2>1, <4>2
        <5>. QED
          BY <5>1 DEF RInv, Remembered
      <4>. QED
        BY <4>1, <4>2
    <3>2. draft' # Absent
      BY <1>1, <1>2, FileFacts
    <3>. QED
      BY <3>1, <3>2 DEF Remembered
  <2>5. TypeOK'
    BY <1>1, <1>2, <2>1, FileFacts DEF RInv, TypeOK
  <2>6. Steps'
    BY <1>1, <1>2 DEF Steps, Saving
  <2>. QED
    BY <2>3, <2>4, <2>5, <2>6 DEF RInv
<1>3. CASE draft' \in Leftovers(draft) /\ UNCHANGED said /\ pc' = "idle"
  <2>1. draft' \in Files /\ draft' \in {draft, Torn}
    BY <1>3, FileFacts DEF Leftovers, RInv, TypeOK
  <2>2. TypeOK'
    BY <1>1, <1>3, <2>1 DEF RInv, TypeOK
  <2>3. Steps'
    BY <1>1, <1>3 DEF Steps, Saving
  <2>. QED
    BY <1>1, <1>3, <2>1, <2>2, <2>3, KeepsFiles
<1>. QED
  BY <1>2, <1>3 DEF SaveDraft

LEMMA FinishReviewInv == ASSUME RInv, FinishReview PROVE RInv'
  BY AtInv, FileFacts DEF FinishReview, Reviewing, files, RInv, TypeOK

LEMMA ResealInv == ASSUME RInv, Reseal PROVE RInv'
<1>1. report \in Whole /\ report \in Files \ {Torn}
  BY FileFacts DEF Reseal, RInv, Steps
<1>. QED
  BY <1>1, StopsInv DEF Reseal, RInv, TypeOK

LEMMA CancelReviewInv == ASSUME RInv, CancelReview PROVE RInv'
  BY StopsInv DEF CancelReview, files, RInv, TypeOK

LEMMA RetryInv == ASSUME RInv, RetryFromScratch PROVE RInv'
<1>1. TypeOK'
  BY DEF RetryFromScratch, files, RInv, TypeOK
<1>2. Steps'
  BY DEF RetryFromScratch, files, Steps, Saving
<1>. QED
  BY <1>1, <1>2, KeepsFiles DEF RetryFromScratch, files

LEMMA RelaunchInv == ASSUME RInv, Relaunch PROVE RInv'
<1>1. DOMAIN asking' = {}
  BY DEF Relaunch, Nobody
<1>2. checked' \in BOOLEAN
  BY DEF Relaunch, RInv, TypeOK
<1>3. TypeOK'
  BY <1>1, <1>2 DEF Relaunch, files, RInv, TypeOK
<1>4. Steps'
  BY DEF Relaunch, Steps, Saving
<1>. QED
  BY <1>3, <1>4, KeepsFiles DEF Relaunch, files

LEMMA StutterInv == ASSUME RInv, UNCHANGED vars PROVE RInv'
<1>1. /\ report' = report /\ draft' = draft /\ manifest' = manifest /\ checked' = checked /\ status' = status
      /\ pc' = pc /\ asking' = asking /\ book' = book /\ said' = said
  BY DEF vars
<1>2. TypeOK'
  BY <1>1 DEF RInv, TypeOK
<1>3. Steps'
  BY <1>1 DEF RInv, Steps, Saving, Honest
<1>. QED
  BY <1>1, <1>2, <1>3, KeepsFiles

LEMMA ReviewInvariant == Spec => []RInv
<1>1. ASSUME RInv, [Next]_vars PROVE RInv'
  BY <1>1, StutterInv, BeginInv, CreateInv, WriteDraftInv, AssignGraphicInv, SealInv, BuildInv, DecideInv,
     AssignManualInv, ContinueInv, SaveDraftInv, FinishReviewInv, ResealInv, CancelReviewInv, RetryInv,
     RelaunchInv DEF Next
<1>. QED
  BY <1>1, InitInv, PTL DEF Spec

-----------------------------------------------------------------------------
(* The theorems.                                                           *)

(* Every file is a complete list of decisions of the kinds the program     *)
(* makes, or cannot be read, or is not there.                              *)
THEOREM ReviewTypeCorrect == Spec => []TypeOK
  BY ReviewInvariant, PTL DEF RInv

(* Whatever write fails or is cut off, and however often the stage runs    *)
(* again or the process is started again: a book is built with every       *)
(* decision whose command returned without an error, or with one that the  *)
(* user tried to put in its place later, and with nothing undecided.       *)
THEOREM DecisionsReachTheBook == Spec => []BookHonoursDecisions
<1>1. RInv => BookHonoursDecisions
  BY DEF RInv, Steps, Honest, BookHonoursDecisions
<1>. QED
  BY <1>1, ReviewInvariant, PTL

(* No image stands for two segments, whoever assigned them and when.       *)
THEOREM ImagesUsedOnce == Spec => []ImagesDistinct
<1>1. RInv => ImagesDistinct
  BY FileFacts DEF RInv, TypeOK, Sound, Distinct, ImagesDistinct
<1>. QED
  BY <1>1, ReviewInvariant, PTL
=============================================================================
