# Verification of StoryTeller Lite

StoryTeller Lite turns an EPUB and an audiobook into an EPUB 3 with synchronised
narration. It is a desktop program: one process, a queue of books, one book at a
time, external programs for the heavy work, and files that must survive whatever
ends the process. This directory models that machinery in TLA+, checks the models
with TLC on small instances, and proves the most important facts with TLAPS for
all values of the constants.

Paths below are under `src/crates/`: **core** is `storyteller-core/src`, **app** is
`storyteller-application/src`, **ui** is `storyteller-ui/src`.

## 1. The system

```
 ui/main.rs  --commands-->  app/controller.rs  --owns-->  core/queue.rs, core/job.rs
   timer     --poll----->        |   |   |
                                 |   |   +-- saves/reads -->  core/job_recovery.rs (disk)
                                 |   +-- thread: app/review_session.rs, app/review_preview.rs
                                 +-- thread: core/worker.rs -> core/runner.rs
                                        |  snapshots of the job (channel), cancellation token
                                        +-- stages: app/pipeline_backend.rs
                                             Prepare Analyze Align ReviewAudio Encode BuildEpub Validate
                                             |        +-- threads: app/chunked_transcription.rs
                                             |        +-- core/audio_review.rs   +-- core/publication.rs
                                             +-- results and manifests: core/workspace.rs, core/resume.rs
```

Everything the user does is a call on the UI thread. The controller owns the queue;
the worker thread owns a *copy* of the book it runs and sends a snapshot after every
change, and the controller reconciles the newest snapshot with the queue whenever a
command or the timer lets it. Cancellation is a flag that others look at now and then.
What is to survive the process is in files: the recovery snapshot of the queue, the
stage results of each book with their manifests, the review report and its draft, the
publication intent, and the output.

| component | state it keeps | operations | what is hard | what makes it correct |
|---|---|---|---|---|
| queue, job (core/queue.rs, job.rs) | books in order, queue state, pending pause; per book status and retained results | enqueue, start, pause, resume, finish, snapshot, review, retry, remove, move | any order of calls; late snapshots | one active book; a pause holds; outcomes are final; order changes only among waiting books |
| controller (app/controller.rs) | queue, worker and its book, pending cancel, runtime task, recovery flags | 17 commands, poll, start-up, shutdown | commands against threads that end at any time; chained queue methods; saving that fails | a worker owns the active book; cancel is honoured, and only by the book it was meant for; disk agrees with queue |
| recovery (core/job_recovery.rs, app/recovery_state.rs) | primary, backup, temporary file | save, read, set aside | a crash or error between any two file operations | the last save or the one in progress is read; unreadable files are never destroyed |
| runner, worker, resume, workspace (core) | checkpoints with fingerprints, stage directories with manifests | preflight, stage loop, finalise, truncate, validate | tools and sources change between runs; damaged results; old snapshots; cancellation at every step | only fresh, whole results are reused; checkpoints are a prefix; review and publication are not bypassed |
| publication (core/publication.rs) | candidate, intent, output, staged copy | validate, stage, record intent, commit, verify | other programs; crash around the commit | nothing is overwritten; Completed means published; a commit is recoverable |
| review report (core/audio_review.rs, review_graphic*.rs, app/review_service.rs) | report, draft, manifest | create, merge, decide, assign images, seal | two files, no atomic write; repeated runs | acknowledged decisions reach the book; an image has one place |
| review screen (app/review_session.rs) | view, generation, newest request, loader thread, evidence cache | show, navigate, decide, poll | asynchronous coalesced loads; a thread that dies | what is shown is current; the screen does not stay busy |
| chunked transcription (app/chunked_transcription.rs) | queue of chunks, stop token, collected parts | pop, transcribe, send, collect, join | threads, failures, panics, cancel | the transcript of the whole book in order, or an error; no thread left |
| preview player (app/review_preview.rs) | generation, child process | play, stop, poll, shutdown | end of a replaced preview reported late | only the current preview is reported; one child at a time |
| command runner (core/command.rs) | child, two reader threads | run, cancel | exit, output and cancel race | all output or an error; no child left |
| narration to book (core/transcript.rs, alignment.rs, review_assignment.rs, review_materialize.rs, epub_build.rs, epub_graphic.rs, app/chunked_transcription.rs) | chunk plan, transcript, alignment, decisions, overlays, each made from the ones before | plan, refine, merge, align, assign, materialise, build | boundaries, ties, each stage relying on what the one before promised | a plan is accepted; a cue plays what it shows; every segment has one place, in order; a book fails only for a reason |
| estimates (core/progress.rs, app/worker_recommendation.rs) | none | pure functions | rounding | percentages grow, limits hold |
| finishing (core/audio_encode.rs, epub_corpus.rs, epub_build.rs, epub_overlay.rs, epub_graphic.rs, epub_validate.rs) | the encoded audio, the candidate EPUB | encode, read the documents, write anchors, overlays and package, audit | three readers of the same documents written apart; ids and files that are there already; pages inserted into the spine | a finished book passes the audit; cues name the blocks they play; nothing else of the book changes |
| engines' formats (core/whistle.rs, whisper.rs), images and text recognition (core/review_image*.rs, review_ocr.rs), runtime set-up, paths, widgets | none of their own | parsing, external programs, rendering | formats | not state machines |

The hazards of this code, each at its line, are in `PROJECT.json` under `hazards`, with
the properties that catch them or the reason why none does yet.

## 2. The modules

| module | models | built from |
|---|---|---|
| `JobQueue` | core/queue.rs and the status changes of core/job.rs; every method is a function from queue to queue, and an action | - |
| `Controller` | app/controller.rs with its worker thread, runtime task and snapshot on disk | extends `JobQueue` |
| `ControllerProofs` | theorems about `JobQueue`, `Controller` and `QueueRecovery` | `Controller`, `QueueRecovery` |
| `QueueRecovery` | the file operations of a save, of a start, and of setting a file aside | - |
| `Publication` | core/publication.rs as the Validate stage runs it | - |
| `PublicationProofs` | theorems about `Publication` | `Publication` |
| `Pipeline` | one book through the seven stages, over several runs and relaunches | - |
| `PipelineProofs` | theorems about `Pipeline` | `Pipeline` |
| `AudioReview` | report, draft and manifest of the review, and the book built from them | - |
| `AudioReviewProofs` | theorems about `AudioReview` | `AudioReview` |
| `Transcription` | abstract: what transcription promises the Analyze stage | - |
| `ChunkPool` | the worker pool that does it | implements `Transcription` |
| `ReviewSession` | the review screen and its loader thread | - |
| `ReviewSessionProofs` | theorems about `ReviewSession` | `ReviewSession` |
| `ChunkPlan` | where the audiobook is cut: planner, refinement, validation | - |
| `Alignment` | core/alignment.rs: the match of each segment with the words of the book | - |
| `ReviewAssignment` | what may be decided about unmatched segments and what the decisions make of the alignment | extends `Alignment` |
| `Synchronization` | from the narration to the read-aloud book: transcript, alignment, review and build in a row | extends `ChunkPlan` and `ReviewAssignment` |
| `SynchronizationProofs` | theorems about `ChunkPlan`, `ChunkPool` and `Synchronization`, the refinement of `Transcription` among them | `Synchronization`, `ChunkPool` |
| `CommandRunner` | core/command.rs: one external program, the threads that read its output, the token | - |
| `Preview` | app/review_preview.rs and its use by the review screen | - |
| `Ordering` | lists and sums: a sort by a key, the entries a loop keeps, a total | - |
| `OrderingProofs` | lemmas about them, and about sequences that are joined and flattened | `Ordering` |
| `Xhtml` | a document as the extractor, the writer of anchors and the validator read it; its ids | - |
| `EpubBuild` | which documents are read, and the EPUB that is built from a book and its narration | extends `Xhtml`, `Ordering` |
| `EpubValidate` | core/epub_validate.rs: the audit of that EPUB | extends `EpubBuild` |
| `Finishing` | a book from its review to the validated EPUB, with all of the last six | extends `CommandRunner`, `Preview`, `EpubValidate` |
| `FinishingProofs` | theorems about `CommandRunner` and `Finishing` | `Finishing`, `OrderingProofs` |

Each `MCx.tla` with its `.cfg` files instantiates one of them for TLC. Definitions named
`X_Something` next to `X` are the same definition with a plausible mistake; the
project's mutation runs put them in place of `X` and expect the property to fail.

### How state and actions correspond to the code

**JobQueue.** `queue` is the struct `JobQueue`: `jobs` (the Vec, in order), `state`,
`pauseAfterCurrent`. A job is its identity, its immutable inputs, its status, and `done`,
the number of leading stages whose results it retains. The functions `AddJob`,
`StartNext`, `Finish`, `Reconcile`, ... are the methods; each action applies one with its
guard, so that other modules can chain the functions the way handlers chain the methods.
`WorkerSnapshot` takes any snapshot a worker could send, however late.

**Controller.** Every command first runs `poll_worker`; the definitions `Polled...` are
that prefix as functions of the state, and `Dispatch` adds the queue change, the touch
and the forced save (which may fail). `worker.latest` is the newest snapshot in the
channel: `drain_updates` keeps the last one only. The worker thread is `Preflight`,
`BeginStage`, `EndStage`, `WorkerBreaks` and `WorkerExits`, each able to happen between
any two calls on the UI thread. `Crash` and `Shutdown` end the process, `Damage` makes the
snapshot unreadable, `Startup` reads it. A save is one step here; `QueueRecovery` opens it up.

**QueueRecovery.** One action per file operation of `write_queue_recovery`; `pc` is the
next one. Each may fail, the write may be cut off, and `ProcessEnds` may come between any two.
`acceptable` is a history variable: what a start may bring back. `damaged` says that
something outside has spoilt a file since the last complete save.

**Publication.** One action per boundary of `publish` (the code names them itself in
`PublicationBoundary`): inspect, stage, record, commit, verify, complete. Two books may
name the same output. `Tampers`, `DamagesIntent` and `TouchesOutput` are other programs,
`Crash` also covers an outcome that was reported but never saved. `owner` is a history
variable: the book whose commit made the output.

**Pipeline.** `env` holds the version of each component that can change, `ctx` the
versions the preflight of this run identified; a fingerprint is the versions of the
components it covers (`Uses`, from `ResumeContext::stage_fingerprint`). A stage directory
has `sealed` (the manifest fits the files), `made` (the versions that went into it, through
every stage it rests on) and `pending` (undecided review items). Save and Relaunch may come
at any step or not at all, so the snapshot may be of any age, as in the code, where the worker does not wait for the
UI to save and saves are throttled and may fail. Two history variables keep track of the age: `overtaken` is the part of the
snapshot's list that was made again after it was written, `outdated` what a book has taken from such a list.

**AudioReview.** A decision is who made it and what it is. Every write of a file may leave
the old file, a torn one, or the new one, and the command may end there. `said` is a history
variable: what the user may have made of each segment; a decision is acknowledged when the
command returned Ok.

**ChunkPool.** One action per lock region, send, receive and join; `Panic` may end a thread
while it works. `stop` is `worker_cancellation`, `cancelled` the token of the book.

**ReviewSession.** What matters about a generation number is whether it is the current one,
so requests and events carry `fresh`, and whatever starts a new generation clears it
everywhere. The loader takes the newest request only.

**ChunkPlan.** A plan is `cuts`, the ends of its chunks: `Cut` is a round of the planner's
loop, `Refine` a round of `refine_synthetic_boundaries`, with any silence the search radius
allows, or none. Times are whole units.

**Alignment.** `Book` is the text as `tokenize_corpus` leaves it: words, each with the number
of its block (document and line). `AlignSegment` is a round of the loop of `align_loaded`.
Scores are compared as fractions, which decides every comparison of the code's quotients.
Where the code iterates over a HashMap, equal candidates come in any order (`Kept`,
`BestAround`).

**ReviewAssignment, Synchronization.** Each action is a step of one stage, or a whole stage
where nothing can happen inside it that the next stage could tell: `PlanChunks`, `Transcribe`,
`Align`, `Review`, `Decision`, `Build`. A transcript segment is heard for every stretch of
narration without a pause within a chunk. `readaloud` lists the segments in the order in which
a reader that follows the spine hears them. Each decision is taken once; that it can be changed,
and how it is stored, is `AudioReview`. `InOrder` is the `sort_by` of the builder, which never meets two equal
keys. The specification is `SyncSpec`: `Spec` is that of the plan, which it continues. `momentary` remembers that an engine gave a word that is alone in
its phrase no duration.

**CommandRunner.** The caller is a step counter over the loop of `run_cancellable_command`: `Drain`, `Check`
(the token), `TryWait`, then the two joins and the last drain. Lines are counted where they are: in the pipe
(`piped`), in the channel (`sent`), with the caller (`told`). The program writes, forks, ends and fails as it
likes; an heir is a process it has left behind that holds the pipes. Any system call may fail.

**Preview.** `Play` and `Stop` are what the screen does with a new generation, `Receive` and `Notice` the
rounds of the thread that owns the player, `Poll` the timer. As in `ReviewSession`, a generation is only fresh
or not.

**Xhtml, EpubBuild, EpubValidate.** A document is its elements, in classes that say what the readers do with
them, and the parser events between which each of them stands; lines, owners and ids are computed from that
as the code computes them from the events; `IsDocument` says that the elements are nested. `CorpusText` and `OwnerText` are the two numberings of lines:
`extract_xhtml_text` and `map_line_owners`. An id is a base and the number that `unique_id` has appended to
it. `IsBook` is the shape of a package that reaches the builder, `IsNarration` that of what review and alignment
hand to it. `Built` is the archive, the manifest, the spine and the overlays, `Valid` the audit of it. The operators
are pure; `Finishing` applies them in the steps of the stages.

**Finishing.** `EncodeStep` is a step of the command, `EncodeEnds` what `encode_audiobook` makes of its end
and of the file it finds; `BuildEpub` and `Validate` are whole stages, `Breaks` is any failure inside one.
`made` keeps the book and the narration beside the EPUB, so that the properties can compare them.

## 3. The runs

Bounds are in the `.cfg` files. States are distinct states; times are for two TLC workers.

| run | instance | what it shows |
|---|---|---|
| `JobQueue` | 3 books, 2 inputs, 1 retained result; 11k states | the queue alone under any order of calls: one active book, pause bookkeeping and pause promise, finished books stay finished |
| `Controller` | 2 books, 1 stage that may also ask for review; 320k states, 1-2 min | the handlers: the queue stays sound; a worker owns the active book, a cancel names its worker, installs exclude workers (`WorkerStaysSound`); cancel is honoured; a pause holds in every handler; disk agrees with queue |
| `ControllerLive` | 2 books, 2 stages; 23k states | under fairness every worker is joined, a running book gets its worker, the queue advances |
| `QueueRecovery` | 3 contents; 5.6k states | saved work is never lost, unreadable files are only set aside |
| `Publication` | 2 books, 2 contents; 40k states | no overwrite, Completed means published, commits are recoverable and final |
| `Pipeline` | 1 tool with 2 versions, 2 changes, 1 damage; 6.9M states, 80 s | no stale reuse, prefix of checkpoints, publication and review are not bypassed |
| `AudioReview` | 3 segments (1 at the edge), 1 image; 2.1M states, 40 s | the book honours acknowledged decisions; images have one place |
| `ChunkPool` | 3 chunks, 2 threads; 20k states | the pool implements `Transcription`, returns after a stop whatever hangs, and otherwise unless an engine hangs, whoever panics |
| `ReviewSession` | 2 books, 2 segments, 1 unread event; 1.4M states, 90 s | the screen is current and does not stay busy |
| `Synchronization` | 8 units of narration, 129 narrations, 3 sets of chapters, 6 words in 3 lines of 3 documents, 2 images; 600k states, 20-40 s | plans are accepted, cues play what they show, segments have one place in the right order, failures have a reason |
| `Finishing` | 23 books, 96 narrations, 3 acts on the preview, 2 lines on each stream, heirs; 89k states, 45 s | a call returns clean and returns; the preview settles; a book fails only for the named reasons; cues name their blocks; nothing else of the book is touched |
| `AlignedInOrder` | same as `Synchronization` | *violation*: a later segment is matched with an earlier line |

**Why the bounds suffice.** Three books are the least for which a book can stand before,
between and after others in the queue. Two are enough for the controller: a worker owns one
book, and a mistake is about *another* one. Its single retained result stands for the whole
run: the handlers look at a status and never at which stage it was, so `EndStage` lets the
one stage end in any of the ways the last, the review and the others end. Three snapshot
contents let primary, backup and the one being saved all differ. In `Pipeline` OCR was chosen among the components
because it enters in the middle without being part of Encode's fingerprint; two changes are needed to
change a tool and put it back. Three chunks on two threads let one thread be a chunk ahead,
behind or gone. In `Synchronization` the plan has three chunks, and both cuts may move; `MaxChunk` 3 and `HardCap` 4 leave one unit of slack, like 25 and 30 seconds, so that two
moves by `Radius` 1 in opposite directions would exceed it. The narrations join phrases of two words with
pauses or without, so phrases of one to five words arise, in one chunk or cut in two; the lines of the book
repeat words across their ends, so that windows at a boundary, ties and matches further back occur, which is
what `Backtrack` 4 (12 in the code) and `SearchAhead` 6 (6000) have to reach in a book of six words. The second
document has an image and no text, so it is not in the corpus. With five segments at most, and introduction
and credits among them, every kind of decision meets every other. In `Finishing` the books are one book of four documents in 23 variants: ids of authors, of earlier runs of this
program and of its own form, blank and doubled ids, files where the builder would put its own, items outside the
archive, items without id, href or media-type, a document listed twice, a package whose name container.xml escapes. Its first document has a block in a block, text in the body itself and text
behind inner blocks, which are the cases of `Innermost`; the third has the block of a character reference on which
the two numberings differ. The preview needs three acts for a request, its replacement and a stop to be under way
together; a pipe of one line makes the program wait for its reader, and the second line is the one that comes after
the last round of the caller's loop. The counters bounded in guards are `changes`, `damages` (Pipeline), the runs
and the unread events (ReviewSession), `acts` (Preview) and the lines (CommandRunner); the other state spaces are
finite by themselves.
Symmetry is used for identities only and in no run with a liveness property.

**Deadlock** is checked except where the system may stop: a call of the pool that has
returned, a book that is built, a book that is gone from queue and snapshot.

### Fairness

* `ControllerLive`: the host's timer calls `poll` again and again (ui: the Slint timer), so
  `Poll` is weakly fair, and so are the steps of the worker and of the runtime thread:
  stages and downloads end. The condition for `Poll` is written out (`PollDue`) because
  evaluating ENABLED of so large an action is slow. No fairness is assumed of the user, nor
  that a stage succeeds. The instance lets every save succeed, so that the snapshot follows
  the queue; saving has no influence on progress, in the code or the model.
* `ChunkPool`: the collecting thread and every thread take the steps they can. A running
  engine is *not* assumed to end by itself; once the stop token is set it does, because
  `run_cancellable_command` kills the child.
* `ReviewSession`: the timer polls and the loader thread runs. A load settles unless the user
  asks for another one for ever.
* `Finishing`: the timer polls, and the thread of the preview, the caller of the command and its two reader
  threads run. Nothing is assumed of the program that is run: `CommandEnds` says that a call ends once its
  program has ended *or* the token is set, and that a full pipe is emptied. It does assume that what the
  program leaves behind does not hold the pipes for ever (`<>[]~heir`): the readers are joined without a
  limit (core/command.rs:122), and nothing in the code ends a process that the killed one has started.

### What the violation shows

`AlignedInOrder` is a place where the code does not do what the documents and its own later stages expect of
it; the source and the steps are in `PROJECT.json` under `findings`. In core/alignment.rs:351 the search for a
segment starts 12 words before the end of the last match and ignores where that match began. A segment whose words also end the line before is
matched there, *before* its predecessor. Every build checks the order of the whole alignment
(`validate_effective_monotonicity`), and nothing the user can do changes a match, so such a book
fails in BuildEpub on each attempt. `FailuresExplained` names this as one of the reasons.

Other weaknesses are in the models and limit what the properties promise:

* An empty queue removes its primary before its backup (core/job_recovery.rs:70). If an earlier save could
  not remove its backup and the process ends between the two removals, the next start reads the backup
  and finished books return. `RecoversSavedWork` therefore excepts a queue without open books.
* The draft of the review is overwritten in place (core/audio_review.rs:435). A write that is cut off
  leaves a file that cannot be parsed; the decisions in it are lost, and every further run of the review
  stage fails until the file is removed by hand. `BookHonoursDecisions` shows that at least no book is
  built without them.
* The review screen caches the evidence it ranks candidates with by the identity of the book alone
  (app/review_session.rs:384). After a retry from scratch the same identity has new evidence, and the screen
  goes on with the old one until it shows another book. `ReviewSession` has this (with `MaxRuns` 1); no
  property promises more than evidence of the book that is shown (`ViewIsCurrent`).
* A line whose only content is character references counts for the corpus and not for the builder
  (`map_line_owners` has no case for them, core/epub_overlay.rs:758). Behind such a block the cues of a document
  name the next block, and a cue for its last line fails the build. `CuesNameTheirBlocks` and
  `FinishedUnlessDefective` except these lines by name (`AfterReference`).
* Some books are built and then refused by the audit, each time they are tried: a manifest item outside the
  archive, or one without id, href or media-type, which corpus and builder skip (core/epub_corpus.rs:227,
  epub_overlay.rs:71) and the audit does not (epub_validate.rs:505); a document listed twice; a package whose name is
  percent-encoded in container.xml, which only the audit decodes; in a document that is narrated an id twice or
  a blank id where an anchor is
  needed, an id of the builder's own form outside the text blocks. `Defective` is the list; the run shows that
  there is nothing else in the instance, and `FinishedOrDefective` that there is nothing else in what the model keeps
  of a book. What it does not keep could refuse a book as well: sizes and their limits, encodings and well-formedness of the XML,
  entities in ids, escapes in names, empty hrefs, an overlay that is declared by an item without id.
* A block with a blank id gets no other id (`Pushed`), but its cue names the id that would have been made
  (core/epub_overlay.rs:448). The audit refuses such a book, except where an element that is no block has
  exactly this id: then the book is accepted and the cue leads to that element. `CuesNameTheirBlocks` excepts
  the case by name (`Borrowed`).
* A word to which Whistle gives the same start and end, alone in its phrase, fails the transcription of the
  whole book (core/whistle.rs:95). It never becomes a cue (`ClipsTrue`), and `FailuresExplained` names it.

* A stage may be made again while the snapshot on disk still lists it (`Pipeline`): the worker truncates its own list and goes on, and a
  save is attempted only by the polls that see its snapshots, at most once a second, and may fail
  (core/worker.rs:200, app/controller.rs:497). If the process then ends, the relaunch takes the old record; the
  manifest of the new result (core/workspace.rs:78) holds hashes but no fingerprint, so it passes for the old one. Two
  things follow, and TLC shows both when the exceptions are taken out of the properties. A snapshot lists the review as made by
  OCR version 1, it is made again with version 2, the process ends, the tool is put back: preflight accepts the
  version 2 result, although docs/HANDOFF.md:169 says without condition that nothing stale is reused. And a review that was
  sealed, damaged and made again with undecided items is taken for the reviewed one: the run goes on to Encode. Encode and BuildEpub
  refuse a report with undecided items (core/review_assignment.rs:91), so nothing is built of it, but if their results
  are there and listed as well, the book is validated and completed from the earlier review.
  `NoStaleReuse` and `ReviewResolvedFirst` except these books and no others: the exception is a history of the records
  (`overtaken`, `outdated`), not a condition on when saves happen, and ends when the stage is made again or the book is
  retried from scratch.
* A review command that fails half way (the report is written and the draft or the seal is not) returns early, and the
  screen shows the old report until the next load (app/controller.rs:269-312). `ViewIsCurrent` excepts that screen (`missed`). After a
  `ContinueWithoutUnmatched` that succeeds the book is no longer in review, and its screen is no longer promised anything.

## 4. The proofs

| module | theorems | inductive invariant |
|---|---|---|
| `ControllerProofs`, the queue | `TypeCorrect`, `AtMostOneActive`, `PauseBookkeeping`, `PauseRequestHolds`, `FinishedBooksStayFinished` | `IInv == Good(queue)`: type, unique identities, one active book, pause bookkeeping |
| `ControllerProofs`, the handlers | `ControllerTypeCorrect`, `ControllerQueueSound`, `WorkerOwnsItsBook`, `RecoveryIsFaithful`, `CancellationIsHonoured`, `PauseHoldsInEveryHandler` | `CInv`: the queue is good, the worker owns its book and its snapshots are of that book (`Sound`), the runtime task excludes it, the snapshot on disk can be started from |
| `ControllerProofs`, the files | `SnapshotTypeCorrect`, `SavedWorkRecovered`, `UnreadableKept` | `SnapshotInv`: where the save is and which file holds what at each of its steps |
| `PublicationProofs` | `NoOverwrite`, `CompletedIsPublished`, `CommittedStaysReported`, `CommitAlwaysRecoverable` | types, and that from the record step on the intent names what the attempt validated |
| `PipelineProofs` | `PipelineTypeCorrect`, `CheckpointsArePrefix`, `CompletedMeansPublished`, `NoRunReusesStaleResults`, `ReviewComesFirst` | `PInv`: where the run is and what its checkpoints list (`Control`, `Published`); for the last two also what the checkpoints say of the results (`Evidence`) and of the review (`Reviewed`) |
| `AudioReviewProofs` | `ReviewTypeCorrect`, `DecisionsReachTheBook`, `ImagesUsedOnce` | `RInv`: a file that can be read has every acknowledged decision and no image twice (`Sound`), and the draft is there once there is one (`Remembered`) |
| `ReviewSessionProofs` | `SessionTypeCorrect`, `ScreenIsCurrent` | `SInv`: what carries the current generation is for the book on the screen (`Addressed`) and is still what is on disk (`Loaded`) |
| `SynchronizationProofs`, the plan | `PlansAreAccepted` | `PlanInv`: the cuts are a chain, each after the one before and none further than `HardCap`; the last is the end of the book once it is planned |
| `SynchronizationProofs`, the pool | `PoolTypeCorrect`, `ChunksTranscribedOnce`, `PoolTranscribes` | `PInv`: a chunk is in one place (`Placed`), nowhere only after a failure (`NothingLost`), collected chunks are counted, and whatever stops the pool has a cause (`Reasons`) |
| `SynchronizationProofs`, the book | `CuesPlayWhatTheyShow`, `NoSegmentLostOrReadTwice`, `BookReadInOrder`, `BooksFailForAReason` | `SyncInv`: what each stage hands to the next ones (`Timed`, `Windows`, `Sound`, `Bound`), with `PlanInv` |
| `FinishingProofs`, the command | `CallReturnsClean`, `EncodeReturnsClean` | `CInv`: a line is in the pipe, in the channel or with the caller, and how far the caller is says what there still is of program and threads |
| `FinishingProofs`, the book | `BookIsKept`, `CuesAreNamed`, `FinishedOrDefective` | `BuiltFromBook`: what is built is `Built` of a book and a narration that could be built, and accepted or rejected as `Valid` says; the rest is about the operators |

They hold for any duration and limits, any narrations, texts, books, images, inputs, contents and snapshots, finite
sets or not, any number of components, versions, changes, chunks, threads, lines, segments and loads, and books of any
number of documents, lines, images, pages and manifest items, with any ids.

**Assumptions.** They are the named `ASSUME`s of the modules, and TLC evaluates each of them in a run. Most say that a
limit is a natural number and that the values that stand for "none", "absent", "torn" or "pending" are none of the
others. Those that say more:

* `PipelineAssumption`: what can change between runs is among the components a fingerprint covers. Were it not, no
  fingerprint could notice the change.
* `AlignmentAssumption`: the book has a word. `align_loaded` ends with an error on an empty corpus.
* `ReviewAssignmentAssumption`: blocks are numbered in the order of their documents, as `tokenize_corpus` walks the
  sections in the order of the spine; every word is in a block; an image is not a block.
* `SynchronizationAssumption`: a narration says what is heard at each unit of time of the audiobook.
* `BooksAssumption`: each book is as `IsBook` says. The archive has no name twice (`collect_archive_names` refuses
  it otherwise), the documents are among its files, their elements are nested as in every XML file and all visible text
  is in the body (`finish_line` refuses it elsewhere), and no two
  entries of the spine name the same item or document; an entry outside the linear order names an item. What is
  *not* assumed is anything about ids, blank, doubled or of the builder's own form, about items listed twice or
  outside the archive, or about files that are where the builder would put its own.
* `NarrationsAssumption`: each narration is as `IsNarration` says. It is finite, a passage of the audiobook is read
  out in one place (`EverySegmentOnce` in `Synchronization`), and an image is assigned once
  (`collect_graphic_readouts` refuses it otherwise).

### The arguments

*The queue.* None of the three invariants is inductive alone: that a finish cannot leave a
second active book needs unique identities (`finish(id)` changes the first job of that
identity), and that a pause is consumed needs that the book that ends was the only active one.
`Good` is a predicate on queue values, and each method has a lemma `...Good`: from a good queue
to a good queue. `StepGood` then has one case per action and cites one lemma each; the lemmas are
about the functions and not the actions, so that the proofs about `Controller`, which chains the
functions, can cite them. `SelectionGood` is the common part of removing and moving: a queue whose
jobs are some of the jobs of a good one, in another order, is good. `PauseRequestHolds` is an action
property: `StepHolds` shows, from the same invariant, that no step but Resume starts a book or
forgets the pause. `FinishedBooksStayFinished` is another: `StepReopens` says which jobs a step may bring back from an
end (`Reopened`), and only the two retries have any, each the one it names. That a worker's late snapshot is not among
them needs unique identities again.

*The controller.* A handler is a chain: poll the worker, then one or more methods of the queue. `Sound(q, w, cancel)`
is what holds before and after each link; each link has a lemma from sound to sound, which cites the `...Good` lemma
of its method, and a handler cites its links. The heart is `Owns`: the worker's book is in the queue, started, with
the inputs the worker was given, and no other book is active. That is why a late snapshot can only be about the book
it was taken of, however commands, timer and the end of the thread interleave. `GoodSnapshot` says the same of the
file: a start brings back open books with identities of their own. The two action properties go on from there. For
`CancellationIsHonoured` the two ways in which the poll settles a request (a finished snapshot, the join) are the
only ones (`JoinSettles`); for `PauseHoldsInEveryHandler` every link keeps a pause or starts nothing (`Held`).

*The files.* `RecoversSavedWork` speaks of the two files a start reads. That it survives the next
operation depends on the position in the save: at `publish` the primary is away, so the backup must be
the last complete save and the temporary file must be the new one.

*Publication.* `CommitRecoverable` needs that the output of an `owner` is the content its attempt
validated and that `intent` was written before; only then does the recorded hash name the output.

*The pipeline.* A checkpoint holds the fingerprint of its own stage, but a result rests on everything that
went into the results before it, some of which is not in that fingerprint (OCR has no part in Encode). So that a
checkpoint can vouch for a result, `Vouches` looks at the whole list: each version a listed result was made from stands
in the fingerprint of *some* stage up to it. Preflight accepts a prefix of fingerprints that equal the current ones, so
what it keeps was made of the current versions, and all that was made later goes. That needs that the list is a prefix
without gaps (`Prefix`, the theorem `CheckpointsArePrefix`), that every component of a result is covered by a stage up
to it (`Covers`), and that a list on disk vouches only for what was not made again since: `overtaken` grows by the rest of the
list when a stage begins, a relaunch hands it to the book as `outdated`, a save writes it back. `Reviewed` is the same
for undecided items: who lists the review as done, and not from such a record, has a report without them.

*The review.* `said` grows when a command starts and becomes a single decision when it returns, so `Honest` follows
each file through the commands: the one being written has the decision that is asked for, the other one an older
decision that `said` still has. A new report takes its decisions from the draft, hence `Remembered`: once something is
acknowledged the draft is there, and what can be read of it is honest. An unreadable draft stops
the stage before it could make a report without it. `Distinct` survives an assignment because both of them, the user's and
the automatic one, look at every item of the report (`FreeFor`, `Used`), and a new report takes from a draft that is
itself distinct.

*The screen.* A generation is only fresh or not, so the proof needs no numbers: what carries the current generation,
the newest request, the one the loader works on and each unread event, is for the book on the screen, and whatever
changes the book clears them all. `Loaded` says that a report that is under way is still the one on disk, or that
`missed` remembers why it need not be. The poll takes all unread events in a loop (`Seen`); that its end is a current
view is an induction over the number of events it has taken.

*The plan.* What is checked at the end, `ValidPlan`, is nearly the invariant: while the planner cuts,
only its part about single chunks (`Chained`) holds, because the end of the book is not reached yet. `ChainGrows` is the
lemma about a cut that is appended, `CutMoves` about one that is moved; in the second, the bound on the chunk *after* the
cut needs the next cut as it is now, which is why `Fits` measures both sides.

*The pool.* That the loop's counter equals the number of transcripts (`Counted`) needs that no chunk is ever in two
places; that no error is reported without a cause needs `NothingLost`: if every thread has gone, nothing has failed
and nobody has cancelled, then every chunk was collected and the loop had ended before. `AbstractStep` maps each step
to a step of `Transcription` or a stutter: a received transcript is `Transcribe`, a failing engine, thread or
observer `Break`, the return one of the three ends. It is the one refinement in the project, and it is proved as well
as checked.

*From the narration to the book.* Each stage relies on what the ones before promised, and `SyncInv` is that chain.
Within a chunk the engine hears the stretches without a pause; they do not overlap (`RunsApart`), they are shifted by
the start of the chunk, and the chunks follow each other because the plan is accepted, so the segments are what is
played at their times, in order (`Timed`), which is `ClipsTrue` from the start. A match is a window of the book in one
block (`Windows`: the best of the candidates that were cut out of blocks). A decision is one of those that were offered
(`Sound`, `Allowed`), and what was offered for a segment lies between its matched neighbours, or is an image not
taken yet. From these two every segment has at most one document (`Home`). A document lists
its text and its images without overlap (`Lists`), pages of the edges come before or after it, and the book is the
documents one after the other (`Reads`): the order of the narration inside a document and each segment once over all
follow from facts about sorting and flattening, proved first. `BooksFailForAReason` is the other direction: what the merge gives of an
accepted plan passes `validate_transcript` (`MergedAccepted`) unless nothing is said or a word has no time, and if the
alignment is in order, no assignment crosses another and something is left to read, then every check of `Materializes`
passes. `AlignedInOrder` itself is what TLC refutes (section 3), which is why it appears among the reasons.

*The command.* Ok means that every line was told, because a reader that has ended has emptied
its pipe, one that has failed has left an error that turns Ok into an error, and the last drain comes after both joins.

*The finished book.* The steps of `Finishing` say little: `BuildEpub` sets `made` once, so `BuiltFromBook` is inductive
at sight. What has to be proved is that the *operators* agree, the builder with the corpus, and the audit with the builder.

* What was there stays (`BookIsKept`). Names that `unique_id` and the resource folder invent are new,
  because there is always a least number that is free (`UniqueIdFresh`, `RootIsFree`), and an anchor is only pushed
  where an element has no id (`Keeps`). The new archive is six lists without a common member, so each file is in it once
  (`EntriesFacts`). The new spine is laid out in rows, one for each old entry, with the pages before and after it in
  columns (`Laid`); a page has one row because its document has one entry, and so it stands next to its anchor.
* A cue names its block (`CuesAreNamed`). The two numberings divide the same pieces of text at the same boundaries, except
  for pieces that only the corpus sees (`OwnerPieces`): up to the first line that is made of those only, the n-th
  line of one is in the same block as the n-th line of the other (`SameLines`, which counts the starts of lines by
  their rank). The owner of a line is the block around the first text of it (`OwnerFacts`). An id that is made
  for a block or an image is none of the ids the document has in its blocks, and made ids differ in section,
  ordinal or item (`IdForms`, `IdsFresh`); `IdsFrom` says of each element which of the three ways its id has come.
  The first element with the id is then the block, or the audit has refused the book.
* What is built passes (`FinishedOrDefective`). A refusal is one of the conjuncts of `Buildable`, and each follows from
  what the corpus has read unless the book is `Refusable`; here too the step from the corpus to the owners is
  `SameLines`. `ValidIfSound` goes through the audit check by check: the ids of the manifest
  differ (`ItemIdsDiffer`), each overlay is that of a document or of a page (`OverlayCases`) and its target, sound,
  fragment and duration are there (`Overlaid`), and the total is the sum over the same set, counted once by the
  overlays and once by the metadata (`SumSame`).

### What stays with TLC

* Liveness under fairness, which the prover does not do: `WorkersComeAndGo`, `QueueAdvances`, `StopReturns`, `ReturnsUnlessHung`,
  `LoadSettles`, `CommandEnds`, `PreviewSettles`.

Every other property of a passing run, invariant or action property, is stated by a theorem.

The library's induction theorems take an operator as a parameter, which no installed prover can
instantiate. Where a proof needs induction over data (`FlattenSeq`, the loop of the poll, the times of successive chunks) it
uses a lemma about *sets* of numbers instead: one that has 0 and with each number the next is all of them. A sort is
its ranks and a sum the size of a set of pairs (`Ordering`), which is why that module does not use the operators of the
community modules that take an operator as a parameter.

## 5. What is abstracted, and what is not modelled

* Times, texts, percentages, notices and revision counters: no property is about them.
* Hashes are the contents or versions they are taken of: collisions are left out.
* Sources and tools change between the runs of a book, not during one. The code fingerprints the
  sources before Prepare copies them, and hard-links the audiobook, so an edit in that window goes unseen.
* `retry_with_resume` (core/queue.rs:145) is an action of the queue but not of the controller or the
  pipeline: nothing in the application calls it.
* The scheduler's verdict is a constant of `Controller` (`ProfileFits`). FALSE lets every stage also end
  with "waiting for resources", which the profile built by app/pipeline_backend.rs never produces;
  the check of the handlers covers both.
* What a stage computes is in `Synchronization`, `Finishing` and their parts; in `Pipeline` and `Controller` a stage
  succeeds, fails or is cancelled. Of the texts only equality of words is left, of times only their order and
  distance.
* `Synchronization` takes the times of a phrase from its words; a word without duration matters only alone. That cues
  of one document do not overlap is in `Synchronization`, and `EpubBuild` relies on it.
* XHTML, SMIL and the package are structures and not text: escaping, percent-encoding, path arithmetic and the ids of
  the package's own elements and of its metadata are left out. So are the books that `IsBook` does not describe: a
  spine that names a document twice, or outside the linear order an item the manifest does not have, and an
  archive with a name twice, which is refused.
* In `Preview` the thread does not panic. In `Finishing` the review is left while the preview is quiet: the two share
  nothing. The limit of the text that the command runner keeps of each stream is left out.
* The saved snapshot in `Controller` is made by position (`Saved`): the open books of the queue in their order.
* Not modelled: how a page is rendered and recognised (core/review_image_match.rs, review_ocr.rs), the JSON of the
  engines and of the files, the arithmetic of progress (core/progress.rs) and of the recommended number of workers,
  detection and installation of the runtime, and paths: sequential code around files and external programs, with no
  state that another part could meet half-way.
* The score that orders text candidates, and the limit of candidates on offer: any block of the window may be
  chosen.
* The type invariants are part of the inductive invariants and proved with them.
* The user interface, except its timer.

## 6. Plan

Done, in this order: `JobQueue`, `Controller`, `QueueRecovery`, `Publication`, `Transcription`/`ChunkPool`,
`Pipeline`, `AudioReview`, `ReviewSession`, `ChunkPlan`, `Alignment`, `ReviewAssignment`, `Synchronization`;
`CommandRunner`, `Preview`, `Xhtml`, `EpubBuild`, `EpubValidate`, `Finishing`; and the eight proof modules, the last of them
`SynchronizationProofs`, `OrderingProofs` and `FinishingProofs`.

What would come next:

1. Proofs: that `Synchronization` hands over what `NarrationsAssumption` asks for, as a refinement between the two.
2. The image search (core/review_graphic.rs, review_image_match.rs), as an operator from words to candidates.
3. Pure functions: `progress.rs`, `worker_recommendation.rs`, against reference definitions.
4. A composition of `Controller` with `Pipeline` or `AudioReview` for one book.
