----------------------------- MODULE Finishing -----------------------------
(***************************************************************************)
(* A book from its review to the validated EPUB: the sound the user hears  *)
(* while reviewing (Preview), the audio encoded by an external program     *)
(* (CommandRunner; core/audio_encode.rs), the EPUB built (EpubBuild) and   *)
(* audited (EpubValidate), as the stages Encode, BuildEpub and Validate of *)
(* app/pipeline_backend.rs run them.  Publication goes on from here.       *)
(*                                                                         *)
(* The preview and the stages share nothing, so that the review is left    *)
(* when the preview is quiet.                                              *)
(***************************************************************************)
EXTENDS CommandRunner, Preview, EpubValidate

CONSTANTS
  Books,        (* source EPUBs                                             *)
  Narrations    (* what review and alignment have made of the audiobook     *)

ASSUME BooksAssumption == \A book \in Books : IsBook(book)

ASSUME NarrationsAssumption == \A n \in Narrations : IsNarration(n)

VARIABLES
  stage,      (* "review", a stage, or how the book ended                   *)
  audio,      (* the encoded audiobook: "none", "part" or "whole"           *)
  made        (* the book, its narration and the EPUB, or NoEpub            *)

vars == <<cvars, pvars, stage, audio, made>>

NoEpub == [epub |-> None]
Ended == {"completed", "rejected", "refused", "failed", "cancelled", "closed"}

(* Err(error) if cancellation.is_requested()                               *)
Stopped == IF cancelled THEN "cancelled" ELSE "failed"

-----------------------------------------------------------------------------
(* The review.                                                             *)

PreviewStep ==
  /\ stage = "review" /\ PreviewNext
  /\ stage' = IF task' \in {"closing", "over"} THEN "closed" ELSE stage
  /\ UNCHANGED <<cvars, audio, made>>

CloseStep ==
  stage = "closed" /\ Thread /\ UNCHANGED <<cvars, stage, audio, made>>

(* FinishReview; the session forgets the book and moves the generation on. *)
FinishReview ==
  /\ stage = "review" /\ requests = << >> /\ events = << >> /\ player = "none"
  /\ stage' = "encode" /\ acts' = 0 /\ playing' = FALSE /\ latest' = FALSE
  /\ UNCHANGED <<cvars, task, requests, events, player, audio, made>>

-----------------------------------------------------------------------------
(* run_encode and encode_audiobook.                                        *)

(* AudioCodec::Copy: no program.                                           *)
EncodeCopy ==
  /\ stage = "encode" /\ call = "called"
  /\ \/ audio' = "whole" /\ stage' = "build"
     \/ audio' \in {"none", "part"} /\ stage' = Stopped
  /\ UNCHANGED <<cvars, pvars, made>>

EncodeStep == stage = "encode" /\ CommandNext /\ UNCHANGED <<pvars, stage, audio, made>>

(* What ffmpeg leaves, as far as the code can rely on it.                  *)
Files == IF why = "ok" /\ success THEN {"none", "whole"} ELSE {"none", "part", "whole"}

Encoded(file) == why = "ok" /\ success /\ file # "none"

(* The variables of the call are gone with it; the token is the book's.    *)
EncodeEnds ==
  /\ stage = "encode" /\ call = "returned"
  /\ audio' \in Files
  /\ \/ Encoded(audio') /\ stage' = "build"
     \/ stage' = Stopped     (* or the descriptor cannot be written *)
  /\ call' = "called" /\ why' = "ok" /\ child' = "none" /\ success' = FALSE /\ heir' = FALSE
  /\ written' = NoLines /\ piped' = NoLines /\ sent' = NoLines /\ told' = NoLines
  /\ reader' = [s \in Streams |-> "none"] /\ broken' = {}
  /\ UNCHANGED <<cancelled, pvars, made>>

-----------------------------------------------------------------------------
(* run_build_epub and run_validate.  A request that comes after the last   *)
(* of their many checks comes after the step; files and disks may fail; a  *)
(* candidate that is not complete is removed.                              *)

RequestCancel ==
  /\ stage \in {"build", "validate"} /\ ~cancelled /\ cancelled' = TRUE
  /\ UNCHANGED <<call, why, child, success, heir, lines, reader, broken, pvars, stage, audio, made>>

Breaks ==
  /\ stage \in {"build", "validate"} /\ stage' = Stopped /\ made' = NoEpub
  /\ UNCHANGED <<cvars, pvars, audio>>

BuildEpub ==
  /\ stage = "build" /\ ~cancelled
  /\ \E book \in Books, narration \in Narrations :
       /\ Extractable(book) /\ Narrates(book, narration)
       /\ LET epub == IF Buildable(book, narration) THEN Built(book, narration) ELSE None
          IN  /\ made' = [book |-> book, narration |-> narration, epub |-> epub]
              /\ stage' = IF epub # None THEN "validate" ELSE "refused"
  /\ UNCHANGED <<cvars, pvars, audio>>

Validate ==
  /\ stage = "validate" /\ ~cancelled /\ stage' = IF Valid(made.epub) THEN "completed" ELSE "rejected"
  /\ UNCHANGED <<cvars, pvars, audio, made>>

Done == stage \in Ended /\ task # "closing" /\ UNCHANGED vars

Init == CommandInit /\ PreviewInit /\ stage = "review" /\ audio = "none" /\ made = NoEpub

Next ==
  \/ PreviewStep \/ CloseStep \/ FinishReview
  \/ EncodeCopy \/ EncodeStep \/ EncodeEnds
  \/ RequestCancel \/ Breaks \/ BuildEpub \/ Validate \/ Done

(* The timer polls, and the threads of the program run: those of the       *)
(* preview, of the call and of its two readers.                            *)
Spec ==
  /\ Init /\ [][Next]_vars
  /\ WF_vars(stage = "review" /\ Poll /\ UNCHANGED <<cvars, stage, audio, made>>)
  /\ WF_vars(stage \in {"review", "closed"} /\ Thread /\ UNCHANGED <<cvars, stage, audio, made>>)
  /\ WF_vars(stage = "encode" /\ Caller /\ UNCHANGED <<pvars, stage, audio, made>>)
  /\ \A s \in Streams :
       WF_vars(stage = "encode" /\ Reading(s) /\ UNCHANGED <<pvars, stage, audio, made>>)

-----------------------------------------------------------------------------
(* Properties.                                                             *)

Source(path) == made.book.docs[path]
Candidate(path) == made.epub.docs[path]
Synchronized == Range(SynchronizedDocs(made.book, made.narration))
Anchored(path) ==
  {Owner(Source(path), l) : l \in LinesOf(made.narration, path)}
  \cup {Shown(Source(path), g.image) : g \in GraphicsOf(made.narration, path)}

AfterReference(d, line) ==
  \E i \in LineStarts(d, CorpusText) :
    /\ i <= LineStart(d, CorpusText, line)
    /\ i \notin LineStarts(d, OwnerText)
    /\ \A j \in LineStarts(d, OwnerText) : j > i => \E b \in Boundaries(d) : i < b /\ b < j

(* What the builder refuses: no EPUB 3, an EPUB that is synchronized       *)
(* already or has a document elsewhere, nothing that is narrated, a page   *)
(* at a document the manifest lists twice; and a line behind a block that  *)
(* holds nothing but character references, which the corpus counts as a    *)
(* line and the builder does not, so that the last lines are not found.    *)
Refusable ==
  \/ ~Scanned(made.book) \/ made.narration.text \cup made.narration.graphics = {}
  \/ \E page \in made.narration.pages : Cardinality(XhtmlItems(made.book, page.href)) > 1
  \/ \E t \in made.narration.text : AfterReference(Source(t.href), t.line)

(* An id of the builder's own form outside the text blocks.                *)
Borrowed(path) ==
  \E n \in DOMAIN Source(path).id \ Containers(Source(path)) :
    Source(path).id[n] \notin {None, Blank} /\ Source(path).id[n][1][1] = "stl-mo"

(* What the builder takes and the audit refuses: a package whose path is   *)
(* escaped, an item outside the archive or without id, href or media-type, *)
(* an id or a document listed twice, or in a document that is narrated the *)
(* same id twice, a blank id where an anchor is needed, an id of the       *)
(* builder's own form where it does not look for it.                       *)
Defective ==
  \/ ~made.book.literal \/ \E item \in Range(made.book.items) : ~Admitted(item)
  \/ \E i, j \in DOMAIN made.book.items : i # j /\ made.book.items[i].id = made.book.items[j].id
  \/ \E path \in Synchronized : Cardinality(XhtmlItems(made.book, path)) > 1
  \/ \E path \in Synchronized :
       ~Distinct(Source(path)) \/ Borrowed(path) \/ \E n \in Anchored(path) : Source(path).id[n] = Blank

(* Corpus, builder and audit were written apart: a book whose review is    *)
(* over is built, and what is built passes the audit, whatever ids and     *)
(* files of earlier processing the source has, except for the reasons      *)
(* above.  Otherwise the book fails after all the work is done, and would  *)
(* fail on each retry.                                                     *)
FinishedUnlessDefective ==
  (stage = "refused" => Refusable) /\ (stage = "rejected" => Defective)

(* A reader goes to the first element with the id.                        *)
Leads(path, id, n) ==
  /\ Candidate(path).id[n] = id
  /\ \A m \in DOMAIN Candidate(path).id :
       Candidate(path).id[m] = id => Candidate(path).from[n] <= Candidate(path).from[m]

ParsOf(item) ==
  {par \in UNION {smil.pars : smil \in Range(made.epub.smils)} : par.item = item}

Plays(item, path, n) ==
  \E par \in ParsOf(item) :
    /\ ParsOf(item) = {par} /\ par.from = ClipStart(item) /\ par.to = ClipEnd(item)
    /\ par.text[1] = path /\ Leads(path, par.text[2], n)

(* In an accepted EPUB each narrated line is played once, over the clip of *)
(* its segment ("real audiobook clip times", docs/ROADMAP.md:90), and the  *)
(* fragment leads to the innermost block that holds the line as the corpus *)
(* numbers the lines - except behind a block of references, where the cues *)
(* move on to the next block; and at a block with a blank id, which is     *)
(* accepted only if another element has the id that was made for it.       *)
CuesNameTheirBlocks ==
  stage = "completed" =>
    /\ \A t \in made.narration.text :
         LET block == Innermost(Source(t.href), LineStart(Source(t.href), CorpusText, t.line))
         IN  \/ Plays(t.item, t.href, block)
             \/ AfterReference(Source(t.href), t.line)
             \/ Source(t.href).id[block] = Blank /\ Borrowed(t.href)
    /\ \A g \in made.narration.graphics : Plays(g.item, g.href, Shown(Source(g.href), g.image))
    /\ \A page \in made.narration.pages : Cardinality(ParsOf(page.item)) = 1

OnlyIdsAdded(path) ==
  /\ [Candidate(path) EXCEPT !.id = None] = [Source(path) EXCEPT !.id = None]
  /\ \A n \in DOMAIN Source(path).id : Source(path).id[n] \in {None, Candidate(path).id[n]}

NewRefs == {PageId(made.book, page) : page \in made.narration.pages}
PlaceOf(id) == {i \in DOMAIN made.epub.spine : made.epub.spine[i].idref = id}
AtAnchor(page) ==
  \E i \in PlaceOf(PageId(made.book, page)), j \in PlaceOf(XhtmlId(made.book, page.href)) :
    /\ PlaceOf(PageId(made.book, page)) = {i}
    /\ IF page.before THEN i < j ELSE j < i
    /\ \A k \in DOMAIN made.epub.spine :
         (i < k /\ k < j) \/ (j < k /\ k < i) => made.epub.spine[k].idref \in NewRefs

(* The text of the book is as it was: a document that is not narrated is   *)
(* untouched, and in one that is only ids were added where there were none.*)
DocumentsKept ==
  stage \in {"validate", "completed", "rejected"} =>
    \A path \in DOMAIN made.book.docs :
      IF path \in Synchronized THEN OnlyIdsAdded(path) ELSE Candidate(path) = Source(path)

(* What the book was is still there: its documents, every other file, the  *)
(* manifest items and the spine in their order; and each page of           *)
(* introduction or credits stands in the spine once, next to its anchor on *)
(* the side the user chose.                                                *)
NothingElseTouched ==
  DocumentsKept /\
  (stage \in {"validate", "completed", "rejected"} =>
    /\ Range(made.book.files) \subseteq Range(made.epub.entries)
    /\ \A i \in DOMAIN made.book.items : made.epub.items[i].id = made.book.items[i].id
    /\ Among(made.epub.spine, {r \in Range(made.epub.spine) : r.idref \notin NewRefs}) = made.book.spine
    /\ \A page \in made.narration.pages : AtAnchor(page))
=============================================================================
