--------------------------- MODULE Synchronization ---------------------------
(***************************************************************************)
(* The way of a book's narration into its read-aloud EPUB: the plan of the *)
(* chunks, the transcript merged from them, the alignment, the decisions   *)
(* about what it left unmatched, and the overlays that are built from all  *)
(* of it (merge_chunk_transcripts, epub_build.rs, epub_graphic.rs).  The   *)
(* stages that carry it, their failures, retries and files, are Pipeline,  *)
(* ChunkPool and AudioReview.                                              *)
(***************************************************************************)
EXTENDS ChunkPlan, ReviewAssignment, Ordering

CONSTANTS
  Narrations, (* what may be heard in the audiobook: a word or Quiet in     *)
              (* each unit of time                                          *)
  Quiet

ASSUME SynchronizationAssumption == \A n \in Narrations : DOMAIN n = 1..Duration

VARIABLES
  narration,
  stage,      (* "Analyze", "Align", "ReviewAudio", "BuildEpub" or an end:  *)
              (* "Built", "Failed"                                          *)
  momentary,  (* an engine has reported a word alone in its phrase to start *)
              (* and end at the same time                                   *)
  readaloud   (* the cues of the book, in the order they are read           *)

alone    == <<narration, stage, momentary, readaloud>>
syncVars == <<planVars, alignVars, decisions, alone>>

-----------------------------------------------------------------------------
(* What an engine and its parser (parse_whistle_transcript) make of the    *)
(* chunk from start to end: a phrase for each stretch without a pause,     *)
(* with times of the chunk.                                                *)
Phrases(start, end) ==
  LET Spoken(t) == start < t /\ t <= end /\ narration[t] # Quiet
      runs == {run \in (start..end) \X (start..end) :
                 /\ run[1] < run[2] /\ ~Spoken(run[1]) /\ ~Spoken(run[2] + 1)
                 /\ \A t \in (run[1] + 1)..run[2] : Spoken(t)}
      order == InOrder(runs, [run \in runs |-> run[1]])
      Phrase(run) == [start |-> run[1] - start, end |-> run[2] - start,
                      text |-> [i \in 1..(run[2] - run[1]) |-> narration[run[1] + i]]]
  IN  [i \in DOMAIN order |-> Phrase(order[i])]

Shifted_Planned(phrase, offset) ==
  LET planned == MaxChunk * ((offset + (MaxChunk \div 2)) \div MaxChunk)
  IN  [phrase EXCEPT !.start = planned + @, !.end = planned + @]
Shifted(phrase, offset) ==
  [phrase EXCEPT !.start = offset + @, !.end = offset + @]

(* validate_transcript.                                                    *)
IsTranscript_Gapped(s) ==
  s # << >> /\ \A i \in DOMAIN s : s[i].start < s[i].end /\ (i > 1 => s[i - 1].end < s[i].start)
IsTranscript(s) ==
  s # << >> /\ \A i \in DOMAIN s : s[i].start < s[i].end /\ (i > 1 => s[i - 1].end <= s[i].start)

(* merge_chunk_transcripts.                                                *)
Merged ==
  FlattenSeq([c \in 1..Len(cuts) |->
    LET start  == StartOf(cuts, c)
        spoken == Phrases(start, cuts[c])
    IN  [i \in DOMAIN spoken |-> Shifted(spoken[i], start)]])

(* A word that starts and ends at the same time does no harm beside others *)
(* in its phrase; one that is alone makes a phrase without duration.       *)
Reported(lone) ==
  [i \in DOMAIN Merged |->
    IF i \in lone THEN [Merged[i] EXCEPT !.end = Merged[i].start] ELSE Merged[i]]

Transcribe ==
  /\ stage = "Analyze" /\ plan \in {"ready", "rejected"}
  /\ \E lone \in {{}} \cup {{i} : i \in {j \in DOMAIN Merged : Len(Merged[j].text) = 1}} :
       /\ momentary' = (lone # {})
       /\ IF plan = "ready" /\ IsTranscript(Reported(lone))
             THEN segments' = Reported(lone) /\ stage' = "Align"
             ELSE stage' = "Failed" /\ UNCHANGED segments
  /\ UNCHANGED <<planVars, aligned, cursor, decisions, narration, readaloud>>

-----------------------------------------------------------------------------
PlanChunks == stage = "Analyze" /\ PlanNext /\ UNCHANGED <<alignVars, decisions, alone>>

Align == stage = "Align" /\ AlignSegment /\ UNCHANGED <<planVars, decisions, alone>>

Review ==
  /\ stage = "Align" /\ Len(aligned) = Len(segments) /\ StartReview /\ stage' = "ReviewAudio"
  /\ UNCHANGED <<planVars, alignVars, narration, momentary, readaloud>>

Decision ==
  /\ stage = "ReviewAudio"
  /\ \E k \in Reviewed : AssignText(k) \/ AssignImage(k) \/ KeepEdge(k) \/ Exclude(k)
  /\ UNCHANGED <<planVars, alignVars, alone>>

-----------------------------------------------------------------------------
(* matched_hrefs: no match may cross a block.                              *)
InOneBlock == \A k \in Matched : FirstBlock(k) = LastBlock(k)

(* build_combined_smil: the text and the images of a document by the time  *)
(* they are heard.                                                         *)
Cues(document) ==
  LET text   == {k \in DOMAIN aligned : Effective[k] > 0 /\ DocumentOf[Effective[k]] = document}
      images == {k \in Reviewed : decisions[k] \in Images /\ ImageIn[decisions[k]] = document}
  IN  InOrder(text \cup images, [k \in DOMAIN segments |-> segments[k].start])

Overlaps(cues) == \E i \in 2..Len(cues) : segments[cues[i]].start < segments[cues[i - 1]].end

(* Supplemental pages, in the order of the report, before the document of  *)
(* the first match or after that of the last.                              *)
Pages(document, edge, anchor) ==
  IF Matched # {} /\ anchor = document
     THEN InOrder({k \in Reviewed : decisions[k] = Page /\ k \in edge}, [k \in DOMAIN aligned |-> k])
     ELSE << >>

(* Documents without text of the book (corpus.sections) have overlays for  *)
(* their images.                                                           *)
Synchronized_Corpus == {d \in 1..Documents : Cues(d) # << >> /\ \E b \in Blocks : DocumentOf[b] = d}
Synchronized == {d \in 1..Documents : Cues(d) # << >>}

Reading(document) ==
  Pages(document, {k \in Reviewed : Before(k) = {}}, DocumentOf[FirstBlock(Min(Matched))])
  \o (IF document \in Synchronized THEN Cues(document) ELSE << >>)
  \o Pages(document, {k \in Reviewed : After(k) = {}}, DocumentOf[LastBlock(Max(Matched))])

(* run_build_epub.                                                         *)
Build ==
  /\ stage = "ReviewAudio" /\ \A k \in Reviewed : decisions[k] # Pending
  /\ IF Materializes /\ InOneBlock /\ Synchronized # {} /\ \A d \in Synchronized : ~Overlaps(Cues(d))
        THEN readaloud' = FlattenSeq([d \in 1..Documents |-> Reading(d)]) /\ stage' = "Built"
        ELSE stage' = "Failed" /\ UNCHANGED readaloud
  /\ UNCHANGED <<planVars, alignVars, decisions, narration, momentary>>

-----------------------------------------------------------------------------
SyncInit ==
  /\ PlanInit /\ narration \in Narrations
  /\ segments = << >> /\ aligned = << >> /\ cursor = 0 /\ decisions = << >>
  /\ stage = "Analyze" /\ momentary = FALSE /\ readaloud = << >>

SyncNext == PlanChunks \/ Transcribe \/ Align \/ Review \/ Decision \/ Build

SyncSpec == SyncInit /\ [][SyncNext]_syncVars

-----------------------------------------------------------------------------
(* The times of every segment are those of its words in the audiobook,     *)
(* whatever the chunks were and wherever their cuts were moved to: a cue   *)
(* plays what it shows (merge_chunk_transcripts, build_combined_smil).     *)
ClipsTrue ==
  \A k \in DOMAIN segments :
    LET s == segments[k]
    IN  s.end <= Duration /\ s.text = [i \in 1..(s.end - s.start) |-> narration[s.start + i]]

(* The book accounts for all of the narration: a segment that was matched, *)
(* or was assigned to a text, an image or a page, is read in one place of  *)
(* the book, and one that was excluded in none.                            *)
EverySegmentOnce ==
  stage = "Built" =>
    \A k \in DOMAIN segments :
      Cardinality({i \in DOMAIN readaloud : readaloud[i] = k})
        = IF k \in Reviewed /\ decisions[k] = Excluded THEN 0 ELSE 1

(* The text of a finished book is read in its own order and in that of the *)
(* narration, and an image is read between the documents of the matched    *)
(* segments around it.                                                     *)
NarrationInOrder ==
  stage = "Built" =>
    /\ \A i, j \in DOMAIN readaloud :
         i < j /\ Effective[readaloud[i]] > 0 /\ Effective[readaloud[j]] > 0 =>
           readaloud[i] < readaloud[j] /\ Effective[readaloud[i]] <= Effective[readaloud[j]]
    /\ \A k \in Reviewed, m \in Matched :
         decisions[k] \in Images =>
           IF k < m THEN ImageIn[decisions[k]] <= DocumentOf[FirstBlock(m)]
                    ELSE ImageIn[decisions[k]] >= DocumentOf[FirstBlock(m)]

(* Work is only lost for a reason.  The transcription of a book fails for  *)
(* silence or a word to which the engine gave no time, and for nothing     *)
(* about the plan, the merge or the checks of the merged transcript; after *)
(* it there is text, and the book fails only for a match or a decision     *)
(* that goes back in it, or if decisions leave nothing to synchronise.     *)
FailuresExplained ==
  stage = "Failed" =>
    IF aligned = << >>
      THEN momentary \/ \A t \in 1..Duration : narration[t] = Quiet
      ELSE \/ ~AlignedInOrder
           \/ \E j, k \in DOMAIN aligned :
                j < k /\ (j \in Reviewed \/ k \in Reviewed) /\ Effective[k] \in 1..(Effective[j] - 1)
           \/ \A k \in DOMAIN aligned : k \in Reviewed /\ decisions[k] = Excluded
=============================================================================
