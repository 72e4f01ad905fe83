------------------------------ MODULE Pipeline ------------------------------
(***************************************************************************)
(* One book's way through the seven stages: the worker's preflight         *)
(* (worker.rs), the runner (runner.rs), checkpoints and fingerprints       *)
(* (job.rs, resume.rs), the stage directories with their manifests         *)
(* (workspace.rs, pipeline_backend.rs) and the recovery snapshot a         *)
(* relaunch starts from (job_recovery.rs).  The process may end at any     *)
(* step; between runs the sources or the tools may change and files of a   *)
(* stage directory may be damaged.                                         *)
(***************************************************************************)
EXTENDS Integers, FiniteSets

CONSTANTS
  Changing,         (* components whose version can change                  *)
  Versions,         (* of a component; equal versions have equal identities *)
  None,             (* no snapshot                                          *)
  MaxChanges,       (* bound on version changes                             *)
  MaxDamages        (* bound on damaged stage directories                   *)

(* ResumeContext; a component that never changes is left out of Changing.  *)
Components == {"sources", "transcription", "alignment", "ocr", "audio", "epub"}

ASSUME PipelineAssumption ==
  /\ Changing \subseteq Components /\ None \notin [Changing -> Versions]
  /\ MaxChanges \in Nat /\ MaxDamages \in Nat

Prepare == 1  Analyze == 2  Align == 3  ReviewAudio == 4  Encode == 5  BuildEpub == 6  Validate == 7
Stages == Prepare..Validate

VARIABLES
  env,        (* version of every changing component in the world           *)
  ctx,        (* ... as the preflight of the current run resolved it, None
                 outside a run                                              *)
  status,     (* Job.status; "Gone" when no snapshot survived               *)
  checks,     (* Job.checkpoints: stage |-> fingerprint                     *)
  done,       (* stages that are Completed or Cached in Job.progress; a run
                 recomputes them, and between runs they only say what to show *)
  stage,      (* the stage being run                                        *)
  pc,         (* where the worker is; "idle" when there is none             *)
  arts,       (* the stage directories                                      *)
  published,  (* whether this run has published the book                    *)
  saved,      (* the job's record in the recovery snapshot, or None         *)
  cancel,     (* the cancellation token                                     *)
  changes, damages,
  overtaken,  (* history: the stages the record lists from the first that
                 was begun again after it was written                       *)
  outdated    (* history: checkpoints that were read from such a record     *)

world == <<env, changes, damages>>
history == <<overtaken, outdated>>
vars == <<world, ctx, status, checks, done, stage, pc, arts, published, saved, cancel, history>>

-----------------------------------------------------------------------------
(* What a fingerprint covers: ResumeContext::stage_fingerprint.  Settings  *)
(* never change, and language and model count as the transcription tool.   *)

Uses_ReviewWithoutOcr == <<
  {"sources"}, {"sources", "transcription"}, {"sources", "transcription", "alignment"},
  {"sources", "transcription", "alignment"}, {"sources", "alignment", "audio"},
  {"sources", "alignment", "audio", "ocr", "epub"}, {"sources", "alignment", "audio", "ocr", "epub"}>>
Uses == <<
  {"sources"}, {"sources", "transcription"}, {"sources", "transcription", "alignment"},
  {"sources", "transcription", "alignment", "ocr"}, {"sources", "alignment", "audio"},
  {"sources", "alignment", "audio", "ocr", "epub"}, {"sources", "alignment", "audio", "ocr", "epub"}>>

Fingerprint(s, e) == [c \in Uses[s] \cap Changing |-> e[c]]

(* What each stage's code depends on besides settings: the tool it runs    *)
(* and the stage directories it reads (LitePipelineBackend).               *)
RunPrepare     == [tool |-> "sources",       reads |-> {}]
RunAnalyze     == [tool |-> "transcription", reads |-> {Prepare}]
RunAlign       == [tool |-> "alignment",     reads |-> {Analyze}]
RunReviewAudio == [tool |-> "ocr",           reads |-> {Prepare, Analyze, Align}]
RunEncode      == [tool |-> "audio",         reads |-> {Prepare, ReviewAudio}]
RunBuildEpub   == [tool |-> "epub",          reads |-> {Prepare, Analyze, Align, ReviewAudio, Encode}]
RunValidate    == [tool |-> "none",          reads |-> {BuildEpub}]

Run == <<RunPrepare, RunAnalyze, RunAlign, RunReviewAudio, RunEncode, RunBuildEpub, RunValidate>>

(* The versions a result made now rests on, through the results it reads.  *)
Made(s) ==
  {<<c, env[c]>> : c \in {Run[s].tool} \cap Changing} \cup UNION {arts[r].made : r \in Run[s].reads}

(* A stage directory is sealed when it has a manifest and every file is    *)
(* still what the manifest says; pending says whether the review report in *)
(* it has undecided items.                                                 *)
Unsealed == [sealed |-> FALSE, made |-> {}, pending |-> FALSE]

Put(s, dir) == arts' = [arts EXCEPT ![s] = dir]

Keep(f, S) == [s \in DOMAIN f \cap S |-> f[s]]

-----------------------------------------------------------------------------
(* The ends of a run.                                                      *)

Ends(outcome) ==
  status' = outcome /\ pc' = "idle" /\ cancel' = FALSE /\ ctx' = None /\ done' = {} /\ stage' = Prepare
    /\ UNCHANGED <<world, published, saved>>

(* finish_stage_error: an error after a cancellation is a cancellation.    *)
StageError ==
  Ends(IF cancel THEN "Cancelled" ELSE "Failed") /\ UNCHANGED checks

Running(step) ==
  pc' = step /\ UNCHANGED <<world, ctx, status, published, saved, cancel>>

(* spawn_pipeline_worker_with_runtime_preflight: the environment and the   *)
(* sources are identified; either may fail, and a cancellation is noticed. *)
Launch ==
  /\ pc = "idle" /\ status \in {"Waiting", "Running"}
  /\ status' = "Running" /\ pc' = "preflight" /\ ctx' = env /\ cancel' = FALSE /\ published' = FALSE
  /\ UNCHANGED <<world, checks, done, stage, arts, saved, history>>

(* apply_validated_resume: the longest prefix whose fingerprints and whose *)
(* manifests hold is kept.                                                 *)
ValidArtifacts(s) == s # Validate /\ arts[s].sealed

Reusable_AnyStage(e) ==
  {s \in DOMAIN checks : checks[s] = Fingerprint(s, e) /\ ValidArtifacts(s)}
Reusable_Validate(e) ==
  {s \in DOMAIN checks : \A t \in 1..s :
      t \in DOMAIN checks /\ checks[t] = Fingerprint(t, e) /\ arts[t].sealed}
Reusable(e) ==
  {s \in DOMAIN checks : \A t \in 1..s :
      t \in DOMAIN checks /\ checks[t] = Fingerprint(t, e) /\ ValidArtifacts(t)}

Preflight ==
  /\ pc = "preflight"
  /\ \/ /\ ~cancel
        /\ checks' = Keep(checks, Reusable(ctx)) /\ done' = Reusable(ctx)
        /\ Running("loop") /\ UNCHANGED <<stage, arts>>
     \/ StageError /\ UNCHANGED arts
  /\ outdated' = outdated \cap DOMAIN checks' /\ UNCHANGED overtaken

-----------------------------------------------------------------------------
(* run_pipeline.                                                           *)

NextStage(s) == s \notin done /\ \A t \in 1..(s - 1) : t \in done

Listed(record) == IF record = None THEN {} ELSE DOMAIN record.checks

(* The stage begins by emptying its directory; the removal may fail half-  *)
(* way.  The record in the snapshot may still list the stage: the worker   *)
(* does not wait for the UI to save.                                       *)
StartStage(s) ==
  /\ pc = "loop" /\ ~cancel /\ NextStage(s)
  /\ Put(s, Unsealed)
  /\ overtaken' = overtaken \cup {t \in Listed(saved) : t >= s} /\ UNCHANGED outdated
  /\ \/ stage' = s /\ Running("run") /\ UNCHANGED <<checks, done>>
     \/ StageError

CancelLoop ==
  pc = "loop" /\ cancel /\ done # Stages /\ Ends("Cancelled") /\ UNCHANGED <<checks, arts, history>>

Complete ==
  pc = "loop" /\ done = Stages /\ Ends("Completed") /\ UNCHANGED <<checks, arts, history>>

(* run_stage, then capture_stage_artifacts, whose manifest appears         *)
(* atomically; run_encode and materialize_reviewed_alignment refuse a      *)
(* report with undecided items.                                            *)
RunStage ==
  /\ pc = "run" /\ UNCHANGED history
  /\ \/ /\ ~cancel
        /\ ~(stage \in {Encode, BuildEpub} /\ arts[ReviewAudio].pending)
        /\ \E p \in IF stage = ReviewAudio THEN BOOLEAN ELSE {FALSE} :
              Put(stage, [sealed |-> TRUE, made |-> Made(stage), pending |-> p])
        /\ Running("finalize") /\ UNCHANGED <<checks, done, stage>>
     \/ StageError /\ UNCHANGED arts

(* finalize_stage (Validate publishes), complete_stage and the checkpoint; *)
(* a review with undecided items ends the run.                             *)
Finalize ==
  /\ pc = "finalize" /\ UNCHANGED <<arts, history>>
  /\ \/ /\ ~cancel
        /\ checks' = [t \in DOMAIN checks \cup {stage} |->
                         IF t = stage THEN Fingerprint(stage, ctx) ELSE checks[t]]
        /\ \/ /\ arts[stage].pending /\ Ends("NeedsReview")
           \/ /\ ~arts[stage].pending /\ done' = done \cup {stage}
              /\ published' = (stage = Validate) /\ pc' = "loop"
              /\ UNCHANGED <<world, ctx, status, stage, saved, cancel>>
     \/ (cancel \/ stage = Validate) /\ StageError

RequestCancel ==
  pc # "idle" /\ ~cancel /\ cancel' = TRUE
    /\ UNCHANGED <<world, ctx, status, checks, done, stage, pc, arts, published, saved, history>>

-----------------------------------------------------------------------------
(* The user.                                                               *)

Idly == pc = "idle" /\ UNCHANGED <<world, ctx, done, stage, pc, published, saved, cancel>>

(* A decision rewrites the report but not its manifest.                    *)
EditReview ==
  Idly /\ status = "NeedsReview" /\ UNCHANGED history /\ Put(ReviewAudio, [arts[ReviewAudio] EXCEPT !.sealed = FALSE])
    /\ UNCHANGED <<status, checks>>

(* FinishReview and ContinueWithoutUnmatched: seal_review, then            *)
(* resume_after_review.                                                    *)
FinishReview ==
  Idly /\ status = "NeedsReview" /\ status' = "Running" /\ UNCHANGED <<checks, history>>
    /\ Put(ReviewAudio, [arts[ReviewAudio] EXCEPT !.sealed = TRUE, !.pending = FALSE])

CancelReview ==
  Idly /\ status = "NeedsReview" /\ status' = "Cancelled" /\ UNCHANGED <<checks, arts, history>>

RetryFromScratch ==
  Idly /\ status \in {"Failed", "Cancelled"} /\ status' = "Waiting" /\ checks' = Keep(checks, {})
    /\ outdated' = {} /\ UNCHANGED <<arts, overtaken>>

-----------------------------------------------------------------------------
(* The recovery snapshot, the process and the world.                       *)

Record == [review |-> status = "NeedsReview", checks |-> checks]

Save ==
  /\ status # "Gone"
  /\ saved' = IF status \in {"Waiting", "Running", "NeedsReview"} THEN Record ELSE None
  /\ overtaken' = outdated \cap Listed(saved')
  /\ UNCHANGED <<world, ctx, status, checks, done, stage, pc, arts, published, cancel, outdated>>

(* into_job: a book that waited for its review returns to before it.       *)
Restored_NotRewound(record) == record.checks
Restored(record) ==
  IF record.review THEN Keep(record.checks, 1..(ReviewAudio - 1)) ELSE record.checks

Relaunch ==
  /\ status # "Gone"
  /\ IF saved = None
        THEN status' = "Gone" /\ checks' = Keep(checks, {})
        ELSE status' = "Waiting" /\ checks' = Restored(saved)
  /\ pc' = "idle" /\ cancel' = FALSE /\ ctx' = None /\ done' = {} /\ stage' = Prepare /\ published' = FALSE
  /\ outdated' = overtaken \cap DOMAIN checks'
  /\ UNCHANGED <<world, arts, saved, overtaken>>

Change(c, v) ==
  /\ pc = "idle" /\ changes < MaxChanges /\ v # env[c]
  /\ env' = [env EXCEPT ![c] = v] /\ changes' = changes + 1
  /\ UNCHANGED <<ctx, status, checks, done, stage, pc, arts, published, saved, cancel, damages, history>>

Damage(s) ==
  /\ pc = "idle" /\ damages < MaxDamages /\ arts[s].sealed
  /\ Put(s, [arts[s] EXCEPT !.sealed = FALSE])
  /\ damages' = damages + 1
  /\ UNCHANGED <<ctx, status, checks, done, stage, pc, published, saved, cancel, env, changes, history>>

-----------------------------------------------------------------------------
Init ==
  /\ env \in [Changing -> Versions] /\ ctx = None
  /\ status = "Waiting" /\ checks = [s \in {} |-> << >>] /\ done = {} /\ stage = Prepare
  /\ pc = "idle" /\ arts = [s \in Stages |-> Unsealed] /\ published = FALSE /\ saved = None
  /\ cancel = FALSE /\ changes = 0 /\ damages = 0
  /\ overtaken = {} /\ outdated = {}

Next ==
  \/ Launch \/ Preflight \/ (\E s \in Stages : StartStage(s)) \/ CancelLoop \/ Complete
  \/ RunStage \/ Finalize \/ RequestCancel
  \/ EditReview \/ FinishReview \/ CancelReview \/ RetryFromScratch
  \/ Save \/ Relaunch
  \/ (\E c \in Changing, v \in Versions : Change(c, v)) \/ (\E s \in Stages : Damage(s))

Spec == Init /\ [][Next]_vars

-----------------------------------------------------------------------------
Dirs == [sealed : BOOLEAN, made : SUBSET (Changing \X Versions),
         pending : BOOLEAN]

Checks(f) == DOMAIN f \subseteq Stages /\ \A s \in DOMAIN f : f[s] \in [Uses[s] \cap Changing -> Versions]

(* Every variable keeps its type; a snapshot record carries checkpoints of *)
(* the form that job_recovery.rs writes.                                   *)
TypeOK ==
  /\ env \in [Changing -> Versions] /\ ctx \in [Changing -> Versions] \cup {None}
  /\ status \in {"Waiting", "Running", "NeedsReview", "Completed", "Failed", "Cancelled", "Gone"}
  /\ Checks(checks) /\ done \subseteq Stages /\ stage \in Stages
  /\ pc \in {"idle", "preflight", "loop", "run", "finalize"}
  /\ arts \in [Stages -> Dirs] /\ published \in BOOLEAN /\ cancel \in BOOLEAN
  /\ saved # None => saved.review \in BOOLEAN /\ Checks(saved.checks)
  /\ changes \in 0..MaxChanges /\ damages \in 0..MaxDamages
  /\ overtaken \subseteq Stages /\ outdated \subseteq Stages

InRun == pc \in {"loop", "run", "finalize"}

(* A run builds only on whole results, and on results that were made,      *)
(* through every stage they rest on, from the sources and with the tools   *)
(* this run identified: no missing, modified or semantically stale         *)
(* artifact is reused (apply_validated_resume).  What was made again after *)
(* the record was written, and what rests on it, is excepted for as long   *)
(* as the book goes by that record: a manifest holds no fingerprint, and   *)
(* the worker does not wait for a save.                                    *)
NoStaleReuse ==
  InRun => \A s \in done :
             /\ arts[s].sealed
             /\ (1..s) \cap outdated = {} => \A u \in arts[s].made : u[2] = ctx[u[1]]

(* The checkpoints are a prefix of the pipeline, in memory and in the      *)
(* snapshot, whose reader rejects the whole queue for one gap              *)
(* (ensure_contiguous); while a run goes on they list its finished stages. *)
PrefixOnly ==
  /\ DOMAIN checks = 1..Cardinality(DOMAIN checks)
  /\ saved # None => DOMAIN saved.checks = 1..Cardinality(DOMAIN saved.checks)
  /\ InRun => done = DOMAIN checks

(* A book is Completed only by a run that published it itself: a cached    *)
(* Validate report never stands for the output (validate_resume_plan).     *)
CompletedPublished == status = "Completed" => published

(* No run gets as far as Encode with a review report that has undecided    *)
(* items: the wait for the review survives relaunches and retries          *)
(* (require_review, seal_review, into_job) - unless the review was made    *)
(* again after the record that says it is done; run_encode then refuses.   *)
ReviewResolvedFirst ==
  InRun /\ stage > ReviewAudio /\ pc # "loop" /\ ReviewAudio \notin outdated
    => ~arts[ReviewAudio].pending
=============================================================================
