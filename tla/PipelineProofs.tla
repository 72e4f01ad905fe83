--------------------------- MODULE PipelineProofs ---------------------------
(***************************************************************************)
(* What holds of a book's way through the stages, for any number of        *)
(* changing components, versions, changes and damages: the checkpoints are *)
(* a prefix, and what a run goes on from is what it would make itself.     *)
(***************************************************************************)
EXTENDS Pipeline, FiniteSetTheorems, TLAPS

-----------------------------------------------------------------------------
(* The inductive invariant.                                                *)

Prefix(S) == \E n \in 0..Validate : S = 1..n

(* Where the run is, and what its checkpoints and its progress list.       *)
Control ==
  /\ pc # "idle" => status = "Running" /\ ctx = env
  /\ InRun => done = DOMAIN checks /\ \A s \in DOMAIN checks : checks[s] = Fingerprint(s, ctx)
  /\ pc \in {"run", "finalize"} => NextStage(stage)
  /\ Prefix(DOMAIN checks) /\ (saved # None => Prefix(DOMAIN saved.checks))

(* Only the run that goes on, or the one that has just ended, is done with *)
(* Validate.                                                               *)
Published ==
  /\ status = "Completed" => published
  /\ InRun /\ Validate \in done => published

(* Some stage up to s has component c in its fingerprint.                  *)
Covers(s, c) == c \in Changing /\ \E t \in 1..s : c \in Uses[t]

(* What a list of checkpoints says of the results: every version a listed  *)
(* result rests on stands in the fingerprint of a stage up to it, although *)
(* not always in its own - but for what the list is too old to say of.     *)
Current(s, old) == (1..s) \cap old = {}

Vouches(f, dirs, old) ==
  \A s \in DOMAIN f : Current(s, old) =>
    \A u \in dirs[s].made : \E t \in 1..s : u[1] \in Uses[t] /\ f[t][u[1]] = u[2]

(* A stage that is being made again while the record lists it is overtaken.*)
Evidence ==
  /\ \A s \in Stages : \A u \in arts[s].made : Covers(s, u[1])
  /\ Vouches(checks, arts, outdated) /\ (saved # None => Vouches(saved.checks, arts, overtaken))
  /\ InRun => \A s \in done : arts[s].sealed
  /\ pc \in {"run", "finalize"} /\ stage \in Listed(saved) => stage \in overtaken
  /\ pc = "finalize" => arts[stage].sealed
  /\ pc = "finalize" /\ Current(stage, outdated) => \A u \in arts[stage].made : u[2] = ctx[u[1]]

(* Who lists the review as done, and is not too old to say so, has a       *)
(* report without undecided items.                                         *)
Reviewed ==
  /\ /\ status \in {"Waiting", "Running"} /\ ReviewAudio \in DOMAIN checks /\ ReviewAudio \notin outdated
     => ~arts[ReviewAudio].pending
  /\ /\ saved # None /\ ~saved.review /\ ReviewAudio \in DOMAIN saved.checks /\ ReviewAudio \notin overtaken
     => ~arts[ReviewAudio].pending

PInv == TypeOK /\ Control /\ Published

-----------------------------------------------------------------------------
(* Operators.                                                              *)

LEMMA KeepProperties ==
  ASSUME NEW f, NEW S
  PROVE  /\ DOMAIN Keep(f, S) = DOMAIN f \cap S
         /\ \A s \in DOMAIN f \cap S : Keep(f, S)[s] = f[s]
  BY DEF Keep

LEMMA KeepType ==
  ASSUME NEW f, NEW S, Checks(f)
  PROVE  Checks(Keep(f, S))
<1>1. DOMAIN Keep(f, S) = DOMAIN f \cap S /\ \A s \in DOMAIN f \cap S : Keep(f, S)[s] = f[s]
  BY KeepProperties
<1>. QED
  BY <1>1 DEF Checks

LEMMA DownwardIsPrefix ==
  ASSUME NEW S, S \subseteq Stages, \A s \in S : \A t \in 1..s : t \in S
  PROVE  Prefix(S)
<1>. USE DEF Stages, Prepare, Validate
<1>1. ASSUME NEW n \in 0..7, n + 1 \notin S, n = 0 \/ n \in S PROVE S = 1..n
  <2>1. \A s \in S : s <= n
    BY <1>1
  <2>2. S \subseteq 1..n
    BY <2>1
  <2>3. 1..n \subseteq S
    BY <1>1
  <2>. QED
    BY <2>2, <2>3
<1>2. PICK n \in 0..7 : n + 1 \notin S /\ (n = 0 \/ n \in S)
  <2>1. 8 \notin S
    OBVIOUS
  <2>. QED
    BY <2>1
<1>. QED
  BY <1>1, <1>2 DEF Prefix

LEMMA PrefixIsDownward ==
  ASSUME NEW S, Prefix(S)
  PROVE  S \subseteq Stages /\ \A s \in S : \A t \in 1..s : t \in S
  BY DEF Prefix, Stages, Prepare, Validate

LEMMA PrefixCut ==
  ASSUME NEW S, Prefix(S), NEW n \in 0..Validate
  PROVE  Prefix(S \cap (1..n))
<1>1. S \cap (1..n) \subseteq Stages /\ \A s \in S \cap (1..n) : \A t \in 1..s : t \in S \cap (1..n)
  BY PrefixIsDownward DEF Stages, Prepare, Validate
<1>. QED
  BY <1>1, DownwardIsPrefix

LEMMA EmptyIsPrefix == \A S : Prefix(S \cap {}) /\ Prefix({})
<1>1. Prefix({})
  BY DownwardIsPrefix
<1>2. \A S : S \cap {} = {}
  OBVIOUS
<1>. QED
  BY <1>1, <1>2

LEMMA PrefixCardinality ==
  ASSUME NEW S, Prefix(S)
  PROVE  S = 1..Cardinality(S)
<1>1. PICK n \in 0..Validate : S = 1..n
  BY DEF Prefix
<1>2. n \in Nat /\ 1 \in Int /\ n \in Int
  BY DEF Validate
<1>3. Cardinality(1..n) = IF 1 > n THEN 0 ELSE n - 1 + 1
  BY <1>2, FS_Interval
<1>4. Cardinality(1..n) = n
  BY <1>2, <1>3
<1>. QED
  BY <1>1, <1>4

LEMMA FingerprintType ==
  ASSUME NEW s \in Stages, NEW e \in [Changing -> Versions]
  PROVE  Fingerprint(s, e) \in [Uses[s] \cap Changing -> Versions]
  BY DEF Fingerprint

LEMMA MadeType ==
  ASSUME TypeOK, NEW s \in Stages
  PROVE  Made(s) \in SUBSET (Changing \X Versions)
<1>1. \A r \in Run[s].reads : r \in Stages
  BY DEF Run, RunPrepare, RunAnalyze, RunAlign, RunReviewAudio, RunEncode, RunBuildEpub, RunValidate,
         Stages, Prepare, Analyze, Align, ReviewAudio, Encode, BuildEpub, Validate
<1>2. \A r \in Stages : arts[r].made \in SUBSET (Changing \X Versions)
  BY DEF TypeOK, Dirs
<1>3. \A c \in Changing : env[c] \in Versions
  BY DEF TypeOK
<1>. QED
  BY <1>1, <1>2, <1>3 DEF Made

-----------------------------------------------------------------------------
(* Types.                                                                  *)

LEMMA TypeInit == Init => TypeOK
<1> SUFFICES ASSUME Init PROVE TypeOK
  OBVIOUS
<1>1. DOMAIN checks = {} /\ Checks(checks)
  BY DEF Init, Checks
<1>2. Unsealed \in Dirs
  BY DEF Unsealed, Dirs
<1>3. arts \in [Stages -> Dirs]
  BY <1>2 DEF Init
<1>4. stage \in Stages /\ done \subseteq Stages
  BY DEF Init, Stages, Prepare, Validate
<1>5. changes \in 0..MaxChanges /\ damages \in 0..MaxDamages
  BY PipelineAssumption DEF Init
<1>. QED
  BY <1>1, <1>3, <1>4, <1>5 DEF Init, TypeOK

LEMMA DirsType ==
  ASSUME TypeOK, NEW s \in Stages, NEW dir \in Dirs, Put(s, dir)
  PROVE  arts' \in [Stages -> Dirs]
  BY DEF TypeOK, Put

LEMMA EndsType ==
  ASSUME TypeOK, NEW outcome \in {"NeedsReview", "Completed", "Failed", "Cancelled"}, Ends(outcome),
         Checks(checks'), arts' \in [Stages -> Dirs], overtaken' \subseteq Stages, outdated' \subseteq Stages
  PROVE  TypeOK'
<1>1. stage' \in Stages /\ done' \subseteq Stages
  BY DEF Ends, Stages, Prepare, Validate
<1>2. env' = env /\ changes' = changes /\ damages' = damages /\ published' = published /\ saved' = saved
  BY DEF Ends, world
<1>. QED
  BY <1>1, <1>2 DEF TypeOK, Ends

(* The history never names anything but stages.                            *)
LEMMA HistoryType ==
  ASSUME TypeOK, [Next]_vars
  PROVE  overtaken' \subseteq Stages /\ outdated' \subseteq Stages
<1>1. Listed(saved) \subseteq Stages /\ overtaken \subseteq Stages /\ outdated \subseteq Stages
  BY DEF TypeOK, Listed, Checks
<1>2. CASE UNCHANGED history
  BY <1>1, <1>2 DEF history
<1>3. CASE Preflight \/ RetryFromScratch \/ Save \/ Relaunch
  BY <1>1, <1>3 DEF Preflight, RetryFromScratch, Save, Relaunch
<1>4. CASE \E s \in Stages : StartStage(s)
  BY <1>1, <1>4 DEF StartStage
<1>5. \/ Preflight \/ RetryFromScratch \/ Save \/ Relaunch \/ (\E s \in Stages : StartStage(s))
      \/ UNCHANGED history
  BY DEF Next, Launch, CancelLoop, Complete, RunStage, Finalize, RequestCancel, EditReview, FinishReview,
         CancelReview, Change, Damage, vars
<1>. QED
  BY <1>2, <1>3, <1>4, <1>5

LEMMA TypeNext ==
  ASSUME TypeOK, Control, [Next]_vars
  PROVE  TypeOK'
<1>. USE PipelineAssumption
<1>0. overtaken' \subseteq Stages /\ outdated' \subseteq Stages
  BY HistoryType
<1>1. Checks(checks) /\ arts \in [Stages -> Dirs] /\ stage \in Stages
  BY DEF TypeOK
<1>2. ASSUME NEW S, NEW f, Checks(f) PROVE Checks(Keep(f, S))
  BY <1>2, KeepType
<1>3. CASE UNCHANGED vars
  <2>1. /\ env' = env /\ changes' = changes /\ damages' = damages /\ ctx' = ctx /\ status' = status
        /\ overtaken' = overtaken /\ outdated' = outdated
        /\ checks' = checks /\ done' = done /\ stage' = stage /\ pc' = pc /\ arts' = arts
        /\ published' = published /\ saved' = saved /\ cancel' = cancel
    BY <1>3 DEF vars, world, history
  <2>. QED
    BY <1>0, <2>1 DEF TypeOK
<1>4. CASE Launch
  BY <1>0, <1>4 DEF Launch, TypeOK, world
<1>5. CASE Preflight
  <2>1. CASE /\ checks' = Keep(checks, Reusable(ctx)) /\ done' = Reusable(ctx)
             /\ Running("loop") /\ UNCHANGED <<stage, arts>>
    <3>1. Reusable(ctx) \subseteq Stages
      BY <1>1 DEF Reusable, Checks
    <3>. QED
      BY <1>0, <2>1, <3>1, <1>1, <1>2 DEF Running, TypeOK, world
  <2>2. CASE StageError /\ UNCHANGED arts
    BY <1>0, <2>2, <1>1, EndsType DEF StageError
  <2>. QED
    BY <1>5, <2>1, <2>2 DEF Preflight
<1>6. ASSUME NEW s \in Stages, StartStage(s) PROVE TypeOK'
  <2>1. Unsealed \in Dirs
    BY DEF Unsealed, Dirs
  <2>2. arts' \in [Stages -> Dirs]
    BY <1>6, <2>1, DirsType DEF StartStage
  <2>3. CASE stage' = s /\ Running("run") /\ UNCHANGED <<checks, done>>
    BY <1>0, <2>2, <2>3 DEF Running, TypeOK, world
  <2>4. CASE StageError
    BY <1>0, <2>2, <2>4, <1>1, EndsType DEF StageError
  <2>. QED
    BY <1>6, <2>3, <2>4 DEF StartStage
<1>7. CASE CancelLoop \/ Complete
  BY <1>0, <1>7, <1>1, EndsType DEF CancelLoop, Complete
<1>8. CASE RunStage
  <2>1. ASSUME NEW p \in BOOLEAN, Put(stage, [sealed |-> TRUE, made |-> Made(stage), pending |-> p])
        PROVE  arts' \in [Stages -> Dirs]
    <3>1. [sealed |-> TRUE, made |-> Made(stage), pending |-> p] \in Dirs
      BY <1>1, MadeType DEF Dirs
    <3>. QED
      BY <2>1, <1>1, <3>1, DirsType
  <2>2. CASE Running("finalize") /\ UNCHANGED <<checks, done, stage>> /\ arts' \in [Stages -> Dirs]
    BY <1>0, <2>2 DEF Running, TypeOK, world
  <2>3. CASE StageError /\ UNCHANGED arts
    BY <1>0, <2>3, <1>1, EndsType DEF StageError
  <2>. QED
    BY <1>8, <2>1, <2>2, <2>3 DEF RunStage
<1>9. CASE Finalize
  <2>1. CASE StageError
    BY <1>0, <1>9, <2>1, <1>1, EndsType DEF StageError, Finalize
  <2>2. ASSUME checks' = [t \in DOMAIN checks \cup {stage} |->
                             IF t = stage THEN Fingerprint(stage, ctx) ELSE checks[t]]
        PROVE  Checks(checks')
    <3>1. ctx \in [Changing -> Versions]
      BY <1>9 DEF Finalize, Control, TypeOK
    <3>. QED
      BY <2>2, <3>1, <1>1, FingerprintType DEF Checks
  <2>3. CASE Ends("NeedsReview") /\ Checks(checks')
    BY <1>0, <1>9, <2>3, <1>1, EndsType DEF Finalize
  <2>4. CASE /\ done' = done \cup {stage} /\ published' = (stage = Validate) /\ pc' = "loop"
             /\ UNCHANGED <<world, ctx, status, stage, saved, cancel>> /\ Checks(checks')
    <3>1. done' \subseteq Stages /\ published' \in BOOLEAN
      BY <1>0, <2>4, <1>1 DEF TypeOK
    <3>2. arts' = arts
      BY <1>9 DEF Finalize
    <3>. QED
      BY <1>0, <2>4, <3>1, <3>2 DEF TypeOK, world
  <2>. QED
    BY <1>9, <2>1, <2>2, <2>3, <2>4 DEF Finalize
<1>10. CASE RequestCancel
  BY <1>0, <1>10 DEF RequestCancel, TypeOK, world
<1>11. CASE EditReview \/ FinishReview \/ CancelReview
  <2>1. ReviewAudio \in Stages /\ arts[ReviewAudio] \in Dirs
    BY <1>1 DEF Stages, Prepare, ReviewAudio, Validate
  <2>2. ASSUME NEW b \in BOOLEAN, NEW p \in BOOLEAN
        PROVE  [arts[ReviewAudio] EXCEPT !.sealed = b, !.pending = p] \in Dirs
    BY <2>1 DEF Dirs
  <2>3. [arts[ReviewAudio] EXCEPT !.sealed = FALSE] \in Dirs
    BY <2>1 DEF Dirs
  <2>4. arts' \in [Stages -> Dirs]
    BY <1>11, <1>1, <2>1, <2>2, <2>3, DirsType DEF EditReview, FinishReview, CancelReview
  <2>. QED
    BY <1>0, <1>11, <2>4 DEF EditReview, FinishReview, CancelReview, Idly, TypeOK, world
<1>12. CASE RetryFromScratch
  BY <1>0, <1>12, <1>1, <1>2 DEF RetryFromScratch, Idly, TypeOK, world
<1>13. CASE Save
  <2>1. Record.review \in BOOLEAN /\ Record.checks = checks
    BY DEF Record
  <2>2. saved' # None => saved'.review \in BOOLEAN /\ Checks(saved'.checks)
    BY <1>13, <2>1, <1>1 DEF Save
  <2>. QED
    BY <1>0, <1>13, <2>2 DEF Save, TypeOK, world
<1>14. CASE Relaunch
  <2>1. Checks(checks')
    BY <1>0, <1>14, <1>1, <1>2 DEF Relaunch, Restored, TypeOK
  <2>2. stage' \in Stages /\ done' \subseteq Stages
    BY <1>14 DEF Relaunch, Stages, Prepare, Validate
  <2>. QED
    BY <1>0, <1>14, <2>1, <2>2 DEF Relaunch, TypeOK, world
<1>15. ASSUME NEW c \in Changing, NEW v \in Versions, Change(c, v) PROVE TypeOK'
  <2>1. env' \in [Changing -> Versions] /\ changes' \in 0..MaxChanges
    BY <1>0, <1>15 DEF Change, TypeOK
  <2>. QED
    BY <1>0, <1>15, <2>1 DEF Change, TypeOK
<1>16. ASSUME NEW s \in Stages, Damage(s) PROVE TypeOK'
  <2>1. [arts[s] EXCEPT !.sealed = FALSE] \in Dirs
    BY <1>1 DEF Dirs
  <2>2. arts' \in [Stages -> Dirs]
    BY <1>16, <2>1, DirsType DEF Damage
  <2>3. damages' \in 0..MaxDamages
    BY <1>0, <1>16 DEF Damage, TypeOK
  <2>. QED
    BY <1>0, <1>16, <2>2, <2>3 DEF Damage, TypeOK
<1>. QED
  BY <1>3, <1>4, <1>5, <1>6, <1>7, <1>8, <1>9, <1>10, <1>11, <1>12, <1>13, <1>14, <1>15, <1>16 DEF Next

-----------------------------------------------------------------------------
(* The control of the run.                                                 *)

LEMMA ControlInit == Init => Control /\ Published
<1> SUFFICES ASSUME Init PROVE Control /\ Published
  OBVIOUS
<1>1. DOMAIN checks = {} /\ pc = "idle" /\ saved = None /\ status = "Waiting"
  BY DEF Init
<1>2. Prefix({})
  BY EmptyIsPrefix
<1>. QED
  BY <1>1, <1>2 DEF Control, Published, InRun

(* A run that has ended leaves a prefix.                                   *)
LEMMA EndsControl ==
  ASSUME Control, NEW outcome, Ends(outcome), Prefix(DOMAIN checks')
  PROVE  Control'
  BY DEF Control, Ends, InRun

LEMMA StageErrorControl == Control /\ Published /\ StageError => Control' /\ Published'
  BY EndsControl DEF StageError, Control, Published, Ends, InRun

(* What is left of the checkpoints is a prefix again.                      *)
LEMMA ReusablePrefix ==
  ASSUME TypeOK, NEW e
  PROVE  /\ Reusable(e) \subseteq DOMAIN checks /\ Prefix(Reusable(e))
         /\ DOMAIN Keep(checks, Reusable(e)) = Reusable(e)
<1>1. Reusable(e) \subseteq DOMAIN checks /\ DOMAIN checks \subseteq Stages
  BY DEF Reusable, TypeOK, Checks
<1>2. ASSUME NEW s \in Reusable(e), NEW t \in 1..s PROVE t \in Reusable(e)
  <2>1. s \in Int /\ t \in Int /\ \A u \in 1..t : u \in 1..s
    BY <1>1, <1>2 DEF Stages, Prepare, Validate
  <2>. QED
    BY <1>2, <2>1 DEF Reusable
<1>3. Prefix(Reusable(e))
  BY <1>1, <1>2, DownwardIsPrefix
<1>4. DOMAIN Keep(checks, Reusable(e)) = DOMAIN checks \cap Reusable(e)
  BY KeepProperties
<1>5. DOMAIN checks \cap Reusable(e) = Reusable(e)
  BY <1>1
<1>. QED
  BY <1>1, <1>3, <1>4, <1>5

LEMMA ControlNext ==
  ASSUME TypeOK, Control, Published, [Next]_vars
  PROVE  Control' /\ Published'
<1>1. CASE UNCHANGED vars
  BY <1>1 DEF Control, Published, InRun, NextStage, Prefix, Fingerprint, vars, world
<1>2. CASE Launch
  BY <1>2 DEF Launch, Control, Published, InRun, world
<1>3. CASE Preflight
  <2>1. CASE StageError
    BY <2>1, StageErrorControl
  <2>2. CASE /\ checks' = Keep(checks, Reusable(ctx)) /\ done' = Reusable(ctx)
             /\ Running("loop")
    <3>1. DOMAIN checks' = Reusable(ctx) /\ Prefix(DOMAIN checks')
      BY <2>2, ReusablePrefix
    <3>2. \A s \in Reusable(ctx) : checks'[s] = Fingerprint(s, ctx)
      <4> TAKE s \in Reusable(ctx)
      <4>1. s \in DOMAIN checks /\ s \in 1..s
        BY DEF Reusable, TypeOK, Checks, Stages, Prepare, Validate
      <4>. QED
        BY <4>1, <2>2, KeepProperties DEF Reusable
    <3>3. Validate \notin Reusable(ctx)
      BY DEF Reusable, ValidArtifacts, Validate
    <3>. QED
      BY <1>3, <2>2, <3>1, <3>2, <3>3 DEF Preflight, Running, Control, Published, InRun, world
  <2>. QED
    BY <1>3, <2>1, <2>2 DEF Preflight
<1>4. ASSUME NEW s \in Stages, StartStage(s) PROVE Control' /\ Published'
  <2>1. CASE StageError
    BY <2>1, StageErrorControl
  <2>2. CASE stage' = s /\ Running("run") /\ UNCHANGED <<checks, done>>
    BY <1>4, <2>2 DEF StartStage, Running, Control, Published, InRun, NextStage, world
  <2>. QED
    BY <1>4, <2>1, <2>2 DEF StartStage
<1>5. CASE CancelLoop
  BY <1>5, EndsControl DEF CancelLoop, Control, Published, Ends, InRun
<1>6. CASE Complete
  <2>1. published
    BY <1>6 DEF Complete, Published, InRun, Stages, Validate, Prepare
  <2>. QED
    BY <1>6, <2>1, EndsControl DEF Complete, Control, Published, Ends, InRun
<1>7. CASE RunStage
  <2>1. CASE StageError
    BY <2>1, StageErrorControl
  <2>2. CASE Running("finalize") /\ UNCHANGED <<checks, done, stage>>
    BY <1>7, <2>2 DEF RunStage, Running, Control, Published, InRun, NextStage, world
  <2>. QED
    BY <1>7, <2>1, <2>2 DEF RunStage
<1>8. CASE Finalize
  <2>1. CASE StageError
    BY <2>1, StageErrorControl
  <2>2. ASSUME checks' = [t \in DOMAIN checks \cup {stage} |->
                             IF t = stage THEN Fingerprint(stage, ctx) ELSE checks[t]]
        PROVE  /\ DOMAIN checks' = DOMAIN checks \cup {stage} /\ Prefix(DOMAIN checks')
               /\ \A t \in DOMAIN checks' : checks'[t] = Fingerprint(t, ctx)
    <3>1. /\ done = DOMAIN checks /\ stage \in Stages /\ \A t \in 1..(stage - 1) : t \in done
          /\ \A t \in DOMAIN checks : checks[t] = Fingerprint(t, ctx)
      BY <1>8 DEF Finalize, Control, InRun, NextStage, TypeOK
    <3>2. DOMAIN checks \subseteq Stages /\ \A s \in DOMAIN checks : \A t \in 1..s : t \in DOMAIN checks
      BY PrefixIsDownward DEF Control
    <3>3. \A t \in 1..stage : t \in DOMAIN checks \cup {stage}
      BY <3>1 DEF Stages, Prepare, Validate
    <3>4. Prefix(DOMAIN checks \cup {stage})
      BY <3>1, <3>2, <3>3, DownwardIsPrefix
    <3>. QED
      BY <2>2, <3>1, <3>4
  <2>3. CASE Ends("NeedsReview") /\ Prefix(DOMAIN checks')
    BY <2>3, EndsControl DEF Control, Published, Ends, InRun
  <2>4. CASE /\ done' = done \cup {stage} /\ published' = (stage = Validate) /\ pc' = "loop"
             /\ UNCHANGED <<world, ctx, status, stage, saved, cancel>>
             /\ DOMAIN checks' = DOMAIN checks \cup {stage} /\ Prefix(DOMAIN checks')
             /\ \A t \in DOMAIN checks' : checks'[t] = Fingerprint(t, ctx)
    <3>1. done = DOMAIN checks /\ Validate \in done => stage # Validate
      BY <1>8 DEF Finalize, Control, InRun, NextStage
    <3>2. Validate \notin done
      <4> SUFFICES ASSUME Validate \in done PROVE FALSE
        OBVIOUS
      <4>1. stage \in 1..Validate /\ stage \notin done /\ done = DOMAIN checks
        BY <1>8 DEF Finalize, Control, InRun, NextStage, TypeOK, Stages, Prepare
      <4>. QED
        BY <4>1, PrefixIsDownward DEF Control
    <3>3. Control'
      BY <1>8, <2>4, <3>1 DEF Finalize, Control, InRun, world
    <3>4. Published'
      BY <1>8, <2>4, <3>2 DEF Finalize, Control, Published, InRun, world
    <3>. QED
      BY <3>3, <3>4
  <2>. QED
    BY <1>8, <2>1, <2>2, <2>3, <2>4 DEF Finalize
<1>9. CASE RequestCancel
  BY <1>9 DEF RequestCancel, Control, Published, InRun, NextStage, world
<1>10. CASE EditReview \/ FinishReview \/ CancelReview
  BY <1>10 DEF EditReview, FinishReview, CancelReview, Idly, Control, Published, InRun, world
<1>11. CASE RetryFromScratch
  <2>1. DOMAIN checks' = DOMAIN checks \cap {}
    BY <1>11, KeepProperties DEF RetryFromScratch
  <2>2. Prefix(DOMAIN checks')
    BY <2>1, EmptyIsPrefix
  <2>. QED
    BY <1>11, <2>2 DEF RetryFromScratch, Idly, Control, Published, InRun, world
<1>12. CASE Save
  <2>1. saved' # None => Prefix(DOMAIN saved'.checks)
    BY <1>12 DEF Save, Record, Control
  <2>. QED
    BY <1>12, <2>1 DEF Save, Control, Published, InRun, NextStage, world
<1>13. CASE Relaunch
  <2>1. Prefix(DOMAIN checks')
    <3>1. CASE saved = None
      <4>1. DOMAIN checks' = DOMAIN checks \cap {}
        BY <1>13, <3>1, KeepProperties DEF Relaunch
      <4>2. DOMAIN checks' = {}
        BY <4>1
      <4>. QED
        BY <4>2, EmptyIsPrefix
    <3>2. CASE saved # None
      <4>1. checks' = Restored(saved) /\ Prefix(DOMAIN saved.checks)
        BY <1>13, <3>2 DEF Relaunch, Control
      <4>2. ReviewAudio - 1 \in 0..Validate
        BY DEF ReviewAudio, Validate
      <4>3. Prefix(DOMAIN saved.checks \cap (1..(ReviewAudio - 1)))
        BY <4>1, <4>2, PrefixCut
      <4>. QED
        BY <4>1, <4>3, KeepProperties DEF Restored
    <3>. QED
      BY <3>1, <3>2
  <2>. QED
    BY <1>13, <2>1 DEF Relaunch, Control, Published, InRun, world
<1>14. ASSUME NEW c \in Changing, NEW v \in Versions, Change(c, v) PROVE Control' /\ Published'
  BY <1>14 DEF Change, Control, Published, InRun
<1>15. ASSUME NEW s \in Stages, Damage(s) PROVE Control' /\ Published'
  BY <1>15 DEF Damage, Control, Published, InRun
<1>. QED
  BY <1>1, <1>2, <1>3, <1>4, <1>5, <1>6, <1>7, <1>8, <1>9, <1>10, <1>11, <1>12, <1>13, <1>14, <1>15 DEF Next

LEMMA PipelineInvariant == Spec => []PInv
<1>1. Init => PInv
  BY TypeInit, ControlInit DEF PInv
<1>2. PInv /\ [Next]_vars => PInv'
  BY TypeNext, ControlNext DEF PInv
<1>. QED
  BY <1>1, <1>2, PTL DEF Spec

-----------------------------------------------------------------------------
(* The evidence.                                                           *)

LEMMA VouchesKept ==
  ASSUME NEW f, NEW a, NEW b, NEW old, NEW older, Vouches(f, a, old), old \subseteq older,
         \A s \in DOMAIN f : Current(s, older) => b[s].made \subseteq a[s].made
  PROVE  Vouches(f, b, older)
<1>1. \A s \in DOMAIN f : Current(s, older) => Current(s, old)
  BY DEF Current
<1>. QED
  BY <1>1 DEF Vouches

LEMMA VouchesCut ==
  ASSUME NEW f, NEW S, NEW a, NEW old, Vouches(f, a, old), Prefix(DOMAIN f \cap S)
  PROVE  Vouches(Keep(f, S), a, old \cap (DOMAIN f \cap S))
<1>1. DOMAIN Keep(f, S) = DOMAIN f \cap S /\ \A s \in DOMAIN f \cap S : Keep(f, S)[s] = f[s]
  BY KeepProperties
<1>2. \A s \in DOMAIN f \cap S : \A t \in 1..s : t \in DOMAIN f \cap S
  BY PrefixIsDownward
<1>3. \A s \in DOMAIN f \cap S : Current(s, old \cap (DOMAIN f \cap S)) => Current(s, old)
  BY <1>2 DEF Current
<1>. QED
  BY <1>1, <1>2, <1>3 DEF Vouches

LEMMA VouchesEmpty == \A f, a, old : Vouches(Keep(f, {}), a, old)
<1> TAKE f, a, old
<1>1. DOMAIN Keep(f, {}) = DOMAIN f \cap {}
  BY KeepProperties
<1>. QED
  BY <1>1 DEF Vouches

LEMMA CoversUp ==
  ASSUME NEW r \in Stages, NEW s \in Stages, r <= s, NEW c, Covers(r, c)
  PROVE  Covers(s, c)
  BY DEF Covers, Stages, Prepare, Validate

(* Every version a result rests on is in a fingerprint at or before it.    *)
LEMMA ToolCovered ==
  ASSUME NEW s \in Stages, Run[s].tool \in Changing
  PROVE  Covers(s, Run[s].tool)
<1>1. s \in {1, 2, 3, 4, 5, 6, 7}
  BY DEF Stages, Prepare, Validate
<1>2. s \in 1..s
  BY <1>1
<1>3. s # 7
  BY PipelineAssumption DEF Run, RunValidate, Components
<1>4. Run[s].tool \in Uses[s]
  BY <1>1, <1>3
     DEF Run, RunPrepare, RunAnalyze, RunAlign, RunReviewAudio, RunEncode, RunBuildEpub, Uses
<1>. QED
  BY <1>2, <1>4 DEF Covers

LEMMA ReadsEarlier ==
  ASSUME NEW s \in Stages, NEW r \in Run[s].reads
  PROVE  r \in 1..(s - 1) /\ r \in Stages /\ r <= s
<1>1. s \in {1, 2, 3, 4, 5, 6, 7}
  BY DEF Stages, Prepare, Validate
<1>2. r \in 1..(s - 1)
  BY <1>1 DEF Run, RunPrepare, RunAnalyze, RunAlign, RunReviewAudio, RunEncode, RunBuildEpub, RunValidate,
              Prepare, Analyze, Align, ReviewAudio, Encode, BuildEpub
<1>. QED
  BY <1>1, <1>2 DEF Stages, Prepare, Validate

LEMMA MadeCovered ==
  ASSUME Evidence, NEW s \in Stages, NEW u \in Made(s)
  PROVE  Covers(s, u[1])
<1>1. CASE \E c \in {Run[s].tool} \cap Changing : u = <<c, env[c]>>
  BY <1>1, ToolCovered
<1>2. CASE \E r \in Run[s].reads : u \in arts[r].made
  BY <1>2, ReadsEarlier, CoversUp DEF Evidence
<1>. QED
  BY <1>1, <1>2 DEF Made

(* What the run goes on from was made from what it identified itself.      *)
LEMMA DoneIsFresh ==
  ASSUME PInv, Evidence, InRun, NEW s \in done, Current(s, outdated), NEW u \in arts[s].made
  PROVE  u[2] = ctx[u[1]]
<1>1. /\ done = DOMAIN checks /\ \A t \in DOMAIN checks : checks[t] = Fingerprint(t, ctx)
      /\ Prefix(DOMAIN checks)
  BY DEF PInv, Control
<1>2. u[1] \in Changing
  BY <1>1, PrefixIsDownward DEF Evidence, Covers
<1>3. PICK t \in 1..s : u[1] \in Uses[t] /\ checks[t][u[1]] = u[2]
  BY <1>1 DEF Evidence, Vouches
<1>4. t \in DOMAIN checks
  BY <1>1, <1>3, PrefixIsDownward
<1>. QED
  BY <1>1, <1>2, <1>3, <1>4 DEF Fingerprint

LEMMA MadeIsFresh ==
  ASSUME PInv, Evidence, pc = "run", Current(stage, outdated), NEW u \in Made(stage)
  PROVE  u[2] = ctx[u[1]]
<1>1. stage \in Stages /\ ctx = env /\ \A t \in 1..(stage - 1) : t \in done
  BY DEF PInv, TypeOK, Control, NextStage
<1>2. CASE \E c \in {Run[stage].tool} \cap Changing : u = <<c, env[c]>>
  BY <1>1, <1>2
<1>3. CASE \E r \in Run[stage].reads : u \in arts[r].made
  <2>1. PICK r \in Run[stage].reads : u \in arts[r].made
    BY <1>3
  <2>2. r \in done /\ r \in 1..(stage - 1) /\ stage \in Int
    BY <1>1, <2>1, ReadsEarlier DEF Stages, Prepare, Validate
  <2>3. Current(r, outdated)
    BY <2>2 DEF Current
  <2>. QED
    BY <2>1, <2>2, <2>3, DoneIsFresh DEF InRun
<1>. QED
  BY <1>2, <1>3 DEF Made

LEMMA EvidenceInit == Init => Evidence
<1> SUFFICES ASSUME Init PROVE Evidence
  OBVIOUS
<1>1. DOMAIN checks = {} /\ pc = "idle" /\ saved = None /\ \A s \in Stages : arts[s].made = {}
  BY DEF Init, Unsealed
<1>. QED
  BY <1>1 DEF Evidence, Vouches, InRun, Listed

(* No result rests on more than before, and the lists are as they were.    *)
LEMMA EvidenceKept ==
  ASSUME TypeOK, Control, Evidence, checks' = checks, saved' = saved, ~InRun',
         outdated' = outdated, overtaken \subseteq overtaken',
         \A s \in Stages : arts'[s].made \subseteq arts[s].made
  PROVE  Evidence'
<1>1. DOMAIN checks \subseteq Stages /\ (saved # None => DOMAIN saved.checks \subseteq Stages)
  BY DEF TypeOK, Checks
<1>2. Vouches(checks', arts', outdated') /\ (saved # None => Vouches(saved.checks, arts', overtaken'))
  BY <1>1, VouchesKept DEF Evidence
<1>3. \A s \in Stages : \A u \in arts'[s].made : Covers(s, u[1])
  BY DEF Evidence
<1>. QED
  BY <1>2, <1>3 DEF Evidence, InRun

LEMMA EvidenceNext ==
  ASSUME PInv, Evidence, [Next]_vars
  PROVE  Evidence'
<1>1. /\ TypeOK /\ Control /\ arts \in [Stages -> Dirs] /\ stage \in Stages
      /\ DOMAIN checks \subseteq Stages /\ (saved # None => DOMAIN saved.checks \subseteq Stages)
  BY DEF PInv, TypeOK, Checks
<1>2. CASE UNCHANGED vars
  BY <1>2 DEF Evidence, Vouches, Current, Covers, InRun, Listed, vars, world, history
<1>3. ASSUME StageError, outdated' = outdated, overtaken \subseteq overtaken',
             \A s \in Stages : arts'[s].made \subseteq arts[s].made
      PROVE  Evidence'
  BY <1>1, <1>3, EvidenceKept DEF StageError, Ends, InRun
<1>4. CASE Launch \/ CancelLoop \/ Complete \/ CancelReview
  BY <1>1, <1>4, EvidenceKept DEF Launch, CancelLoop, Complete, CancelReview, Ends, Idly, InRun, history
<1>5. CASE Preflight
  <2>1. CASE /\ checks' = Keep(checks, Reusable(ctx)) /\ done' = Reusable(ctx)
             /\ Running("loop") /\ UNCHANGED <<stage, arts>>
    <3>1. DOMAIN checks \cap Reusable(ctx) = Reusable(ctx) /\ Prefix(Reusable(ctx))
      BY <1>1, ReusablePrefix
    <3>2. Vouches(checks', arts, outdated')
      <4>1. DOMAIN checks' = Reusable(ctx) /\ outdated' = outdated \cap (DOMAIN checks \cap Reusable(ctx))
        BY <1>1, <1>5, <2>1, <3>1, ReusablePrefix DEF Preflight
      <4>. QED
        BY <2>1, <3>1, <4>1, VouchesCut DEF Evidence
    <3>3. \A s \in Reusable(ctx) : arts[s].sealed
      <4> TAKE s \in Reusable(ctx)
      <4>1. s \in 1..s
        BY <1>1 DEF Reusable, Stages, Prepare, Validate
      <4>. QED
        BY <4>1 DEF Reusable, ValidArtifacts
    <3>. QED
      BY <1>5, <2>1, <3>2, <3>3 DEF Preflight, Evidence, Running, InRun
  <2>2. CASE StageError /\ arts' = arts
    <3>1. checks' = checks /\ saved' = saved /\ pc' = "idle" /\ overtaken' = overtaken
      BY <1>5, <2>2 DEF Preflight, StageError, Ends
    <3>2. outdated' = outdated \cap DOMAIN checks
      BY <1>5, <3>1 DEF Preflight
    <3>3. Vouches(checks, arts, outdated')
      <4>1. \A s \in DOMAIN checks : \A t \in 1..s : t \in DOMAIN checks
        BY <1>1, PrefixIsDownward DEF Control
      <4>2. \A s \in DOMAIN checks : Current(s, outdated') => Current(s, outdated)
        BY <3>2, <4>1 DEF Current
      <4>. QED
        BY <4>2 DEF Evidence, Vouches
    <3>. QED
      BY <2>2, <3>1, <3>3 DEF Evidence, InRun
  <2>. QED
    BY <1>5, <2>1, <2>2 DEF Preflight
<1>6. ASSUME NEW s \in Stages, StartStage(s) PROVE Evidence'
  <2>1. /\ \A t \in Stages : arts'[t].made \subseteq arts[t].made
        /\ \A t \in done : arts'[t] = arts[t]
    BY <1>1, <1>6 DEF StartStage, Put, Unsealed, NextStage
  <2>2. outdated' = outdated /\ overtaken \subseteq overtaken' /\ (s \in Listed(saved) => s \in overtaken')
    BY <1>6 DEF StartStage, Stages, Prepare, Validate
  <2>3. CASE stage' = s /\ Running("run") /\ UNCHANGED <<checks, done>>
    <3>2. Vouches(checks, arts', outdated) /\ (saved # None => Vouches(saved.checks, arts', overtaken'))
      BY <1>1, <2>1, <2>2, VouchesKept DEF Evidence
    <3>3. \A t \in Stages : \A u \in arts'[t].made : Covers(t, u[1])
      BY <2>1 DEF Evidence
    <3>. QED
      BY <1>6, <2>1, <2>2, <2>3, <3>2, <3>3 DEF StartStage, Running, Evidence, InRun
  <2>. QED
    BY <1>3, <1>6, <2>1, <2>2, <2>3 DEF StartStage
<1>7. CASE RunStage
  <2>0. outdated' = outdated /\ overtaken' = overtaken
    BY <1>7 DEF RunStage, history
  <2>1. CASE StageError /\ arts' = arts
    BY <1>3, <2>0, <2>1
  <2>2. ASSUME NEW p \in BOOLEAN, Put(stage, [sealed |-> TRUE, made |-> Made(stage), pending |-> p]),
               Running("finalize"), UNCHANGED <<checks, done, stage>>
        PROVE  Evidence'
    <3>1. /\ arts'[stage].made = Made(stage) /\ arts'[stage].sealed
          /\ \A t \in Stages \ {stage} : arts'[t] = arts[t]
      BY <1>1, <2>2 DEF Put
    <3>2. /\ stage \notin DOMAIN checks /\ done = DOMAIN checks
          /\ stage \in Listed(saved) => stage \in overtaken
      BY <1>1, <1>7 DEF RunStage, Control, NextStage, InRun, Evidence
    <3>7. stage \in overtaken => ~Current(stage, overtaken)
      BY <1>1 DEF Current, Stages, Prepare, Validate
    <3>8. \A s \in Stages \ {stage} : arts'[s].made \subseteq arts[s].made
      BY <3>1
    <3>9. saved # None => Vouches(saved.checks, arts', overtaken)
      <4>1. saved # None => \A s \in DOMAIN saved.checks :
                              Current(s, overtaken) => arts'[s].made \subseteq arts[s].made
        BY <1>1, <3>2, <3>7, <3>8 DEF Listed
      <4>. QED
        BY <4>1, VouchesKept DEF Evidence
    <3>3. Vouches(checks, arts', outdated)
      BY <1>1, <3>2, <3>8, VouchesKept DEF Evidence
    <3>4. \A t \in Stages : \A u \in arts'[t].made : Covers(t, u[1])
      BY <1>1, <3>1, MadeCovered DEF Evidence
    <3>5. Current(stage, outdated) => \A u \in arts'[stage].made : u[2] = ctx[u[1]]
      BY <1>7, <3>1, MadeIsFresh DEF RunStage
    <3>6. \A t \in done : arts'[t].sealed
      BY <1>1, <1>7, <3>1, <3>2 DEF RunStage, Evidence, InRun
    <3>. QED
      BY <2>0, <2>2, <3>1, <3>2, <3>3, <3>4, <3>5, <3>6, <3>9 DEF Running, Evidence, InRun
  <2>. QED
    BY <1>7, <2>1, <2>2 DEF RunStage
<1>8. CASE Finalize
  <2>0. arts' = arts /\ outdated' = outdated /\ overtaken' = overtaken
    BY <1>8 DEF Finalize, history
  <2>1. CASE StageError
    BY <1>3, <2>0, <2>1
  <2>2. ASSUME checks' = [t \in DOMAIN checks \cup {stage} |->
                             IF t = stage THEN Fingerprint(stage, ctx) ELSE checks[t]]
        PROVE  Vouches(checks', arts, outdated)
    <3>1. /\ done = DOMAIN checks /\ stage \notin DOMAIN checks /\ \A t \in 1..(stage - 1) : t \in DOMAIN checks
          /\ Prefix(DOMAIN checks) /\ \A t \in DOMAIN checks : checks[t] = Fingerprint(t, ctx)
      BY <1>1, <1>8 DEF Finalize, Control, InRun, NextStage
    <3>2. ASSUME NEW s \in DOMAIN checks, Current(s, outdated), NEW u \in arts[s].made
          PROVE  \E t \in 1..s : u[1] \in Uses[t] /\ checks'[t][u[1]] = u[2]
      <4>1. PICK t \in 1..s : u[1] \in Uses[t] /\ checks[t][u[1]] = u[2]
        BY <3>2 DEF Evidence, Vouches
      <4>2. t \in DOMAIN checks /\ t # stage
        BY <3>1, <4>1, PrefixIsDownward
      <4>. QED
        BY <2>2, <4>1, <4>2
    <3>3. ASSUME Current(stage, outdated), NEW u \in arts[stage].made
          PROVE  \E t \in 1..stage : u[1] \in Uses[t] /\ checks'[t][u[1]] = u[2]
      <4>1. PICK t \in 1..stage : u[1] \in Uses[t] /\ u[1] \in Changing
        BY <1>1 DEF Evidence, Covers
      <4>2. t = stage \/ t \in DOMAIN checks
        BY <1>1, <3>1 DEF Stages, Prepare, Validate
      <4>3. checks'[t] = Fingerprint(t, ctx)
        BY <2>2, <3>1, <4>2
      <4>4. u[2] = ctx[u[1]]
        BY <1>8, <3>3 DEF Finalize, Evidence
      <4>. QED
        BY <4>1, <4>3, <4>4 DEF Fingerprint
    <3>. QED
      BY <2>2, <3>2, <3>3 DEF Vouches
  <2>3. CASE Ends("NeedsReview") /\ Vouches(checks', arts, outdated)
    BY <2>0, <2>3 DEF Evidence, Ends, InRun
  <2>4. CASE /\ done' = done \cup {stage} /\ pc' = "loop"
             /\ UNCHANGED <<world, ctx, status, stage, saved, cancel>> /\ Vouches(checks', arts, outdated)
    <3>1. \A s \in done' : arts[s].sealed
      BY <1>8, <2>4 DEF Finalize, Evidence, InRun
    <3>. QED
      BY <2>0, <2>4, <3>1 DEF Evidence, InRun
  <2>. QED
    BY <1>8, <2>1, <2>2, <2>3, <2>4 DEF Finalize
<1>9. CASE RequestCancel
  BY <1>9 DEF RequestCancel, Evidence, InRun, world, history
<1>10. CASE EditReview \/ FinishReview
  <2>1. \A s \in Stages : arts'[s].made = arts[s].made
    <3>1. ReviewAudio \in Stages /\ \A s \in Stages : arts[s] \in Dirs
      BY <1>1 DEF Stages, Prepare, ReviewAudio, Validate
    <3>2. CASE EditReview
      BY <1>1, <3>1, <3>2 DEF EditReview, Put, Dirs
    <3>3. CASE FinishReview
      BY <1>1, <3>1, <3>3 DEF FinishReview, Put, Dirs
    <3>. QED
      BY <1>10, <3>2, <3>3
  <2>2. checks' = checks /\ saved' = saved /\ ~InRun' /\ outdated' = outdated /\ overtaken' = overtaken
    BY <1>10 DEF EditReview, FinishReview, Idly, InRun, history
  <2>. QED
    BY <1>1, <2>1, <2>2, EvidenceKept
<1>11. CASE RetryFromScratch
  BY <1>11, VouchesEmpty DEF RetryFromScratch, Idly, Evidence, InRun
<1>12. CASE Save
  <2>1. saved' # None => saved'.checks = checks
    BY <1>12 DEF Save, Record
  <2>2. pc \in {"run", "finalize"} => stage \notin Listed(saved')
    BY <1>1, <2>1 DEF Control, InRun, NextStage, Listed
  <2>3. saved' # None => Vouches(saved'.checks, arts, overtaken')
    <3> SUFFICES ASSUME saved' # None PROVE Vouches(checks, arts, overtaken')
      BY <2>1
    <3>1. overtaken' = outdated \cap DOMAIN checks
      BY <1>12, <2>1 DEF Save, Listed
    <3>2. \A s \in DOMAIN checks : \A t \in 1..s : t \in DOMAIN checks
      BY <1>1, PrefixIsDownward DEF Control
    <3>3. \A s \in DOMAIN checks : Current(s, overtaken') => Current(s, outdated)
      BY <3>1, <3>2 DEF Current
    <3>. QED
      BY <3>3 DEF Evidence, Vouches
  <2>. QED
    BY <1>12, <2>2, <2>3 DEF Save, Evidence, InRun
<1>13. CASE Relaunch
  <2>1. Vouches(checks', arts, outdated')
    <3>1. CASE saved = None
      BY <1>13, <3>1, VouchesEmpty DEF Relaunch
    <3>2. CASE saved # None
      <4>1. /\ checks' = Restored(saved) /\ Prefix(DOMAIN saved.checks)
            /\ Vouches(saved.checks, arts, overtaken) /\ outdated' = overtaken \cap DOMAIN checks'
        BY <1>1, <1>13, <3>2 DEF Relaunch, Control, Evidence
      <4>2. ReviewAudio - 1 \in 0..Validate
        BY DEF ReviewAudio, Validate
      <4>3. Prefix(DOMAIN saved.checks \cap (1..(ReviewAudio - 1)))
        BY <4>1, <4>2, PrefixCut
      <4>4. CASE saved.review
        <5> DEFINE before == 1..(ReviewAudio - 1)
        <5>1. checks' = Keep(saved.checks, before)
          BY <4>1, <4>4 DEF Restored
        <5>2. DOMAIN checks' = DOMAIN saved.checks \cap before
          BY <5>1, KeepProperties
        <5>3. Prefix(DOMAIN saved.checks \cap before) /\ Vouches(saved.checks, arts, overtaken)
          BY <4>1, <4>3
        <5> HIDE DEF before
        <5>4. Vouches(Keep(saved.checks, before), arts, overtaken \cap (DOMAIN saved.checks \cap before))
          BY <5>3, VouchesCut
        <5>. QED
          BY <4>1, <5>1, <5>2, <5>4
      <4>5. CASE ~saved.review
        <5>1. checks' = saved.checks
          BY <4>1, <4>5 DEF Restored
        <5>2. \A s \in DOMAIN checks' : \A t \in 1..s : t \in DOMAIN checks'
          BY <4>1, <5>1, PrefixIsDownward
        <5>3. \A s \in DOMAIN checks' : Current(s, outdated') => Current(s, overtaken)
          BY <4>1, <5>2 DEF Current
        <5>. QED
          BY <4>1, <5>1, <5>3 DEF Vouches
      <4>. QED
        BY <4>4, <4>5
    <3>. QED
      BY <3>1, <3>2
  <2>. QED
    BY <1>13, <2>1 DEF Relaunch, Evidence, InRun
<1>14. ASSUME NEW c \in Changing, NEW v \in Versions, Change(c, v) PROVE Evidence'
  BY <1>1, <1>14, EvidenceKept DEF Change, InRun, history
<1>15. ASSUME NEW s \in Stages, Damage(s) PROVE Evidence'
  <2>1. \A t \in Stages : arts'[t].made = arts[t].made
    BY <1>1, <1>15 DEF Damage, Put, Dirs
  <2>. QED
    BY <1>1, <1>15, <2>1, EvidenceKept DEF Damage, InRun, history
<1>. QED
  BY <1>2, <1>4, <1>5, <1>6, <1>7, <1>8, <1>9, <1>10, <1>11, <1>12, <1>13, <1>14, <1>15 DEF Next

-----------------------------------------------------------------------------
(* The review.                                                             *)

LEMMA ReviewedInit == Init => Reviewed
  BY DEF Init, Reviewed, ReviewAudio

LEMMA ReviewedKept ==
  ASSUME Reviewed, saved' = saved, arts'[ReviewAudio].pending => arts[ReviewAudio].pending,
         \/ status' \notin {"Waiting", "Running"}
         \/ /\ status \in {"Waiting", "Running"} /\ DOMAIN checks' \subseteq DOMAIN checks
            /\ outdated \cap DOMAIN checks' \subseteq outdated',
         overtaken \subseteq overtaken'
  PROVE  Reviewed'
  BY DEF Reviewed

LEMMA ReviewedNext ==
  ASSUME PInv, Evidence, Reviewed, [Next]_vars
  PROVE  Reviewed'
<1>1. /\ TypeOK /\ Control /\ arts \in [Stages -> Dirs] /\ stage \in Stages /\ ReviewAudio \in Stages
      /\ (pc # "idle" => status = "Running")
  BY DEF PInv, TypeOK, Control, Stages, Prepare, ReviewAudio, Validate
<1>2. CASE UNCHANGED vars
  BY <1>2 DEF Reviewed, vars, history
<1>3. ASSUME StageError, overtaken \subseteq overtaken',
             arts'[ReviewAudio].pending => arts[ReviewAudio].pending
      PROVE  Reviewed'
  BY <1>3, ReviewedKept DEF StageError, Ends
<1>4. CASE Launch \/ RequestCancel \/ CancelLoop \/ Complete \/ CancelReview
  <2>1. saved' = saved /\ arts' = arts /\ outdated' = outdated /\ overtaken' = overtaken
    BY <1>4 DEF Launch, RequestCancel, CancelLoop, Complete, CancelReview, Idly, Ends, history
  <2>2. \/ status' \notin {"Waiting", "Running"}
        \/ status \in {"Waiting", "Running"} /\ checks' = checks
    BY <1>1, <1>4 DEF Launch, RequestCancel, CancelLoop, Complete, CancelReview, Ends
  <2>. QED
    BY <2>1, <2>2, ReviewedKept
<1>5. CASE Preflight
  <2>1. CASE /\ checks' = Keep(checks, Reusable(ctx)) /\ Running("loop") /\ arts' = arts
    <3>1. DOMAIN checks' \subseteq DOMAIN checks /\ outdated \cap DOMAIN checks' \subseteq outdated'
      BY <1>5, <2>1, KeepProperties DEF Preflight
    <3>. QED
      BY <1>1, <1>5, <2>1, <3>1, ReviewedKept DEF Preflight, Running
  <2>. QED
    BY <1>3, <1>5, <2>1 DEF Preflight
<1>6. ASSUME NEW s \in Stages, StartStage(s) PROVE Reviewed'
  <2>1. /\ arts'[ReviewAudio].pending => arts[ReviewAudio].pending
        /\ outdated' = outdated /\ overtaken \subseteq overtaken'
    BY <1>1, <1>6 DEF StartStage, Put, Unsealed
  <2>2. CASE Running("run") /\ UNCHANGED <<checks, done>>
    BY <1>1, <1>6, <2>1, <2>2, ReviewedKept DEF StartStage, Running
  <2>. QED
    BY <1>3, <1>6, <2>1, <2>2 DEF StartStage
<1>7. CASE RunStage
  <2>0. outdated' = outdated /\ overtaken' = overtaken
    BY <1>7 DEF RunStage, history
  <2>1. CASE StageError /\ arts' = arts
    BY <1>3, <2>0, <2>1
  <2>2. ASSUME NEW p \in IF stage = ReviewAudio THEN BOOLEAN ELSE {FALSE},
               Put(stage, [sealed |-> TRUE, made |-> Made(stage), pending |-> p]),
               Running("finalize"), UNCHANGED <<checks, done, stage>>
        PROVE  Reviewed'
    <3>1. CASE stage = ReviewAudio
      <4>1. stage \notin DOMAIN checks /\ (stage \in Listed(saved) => stage \in overtaken)
        BY <1>1, <1>7 DEF RunStage, Control, NextStage, InRun, Evidence
      <4>. QED
        BY <2>0, <2>2, <3>1, <4>1 DEF Reviewed, Running, Listed
    <3>2. CASE stage # ReviewAudio
      <4>1. arts'[ReviewAudio] = arts[ReviewAudio]
        BY <1>1, <2>2, <3>2 DEF Put
      <4>. QED
        BY <1>1, <1>7, <2>0, <2>2, <4>1, ReviewedKept DEF RunStage, Running
    <3>. QED
      BY <3>1, <3>2
  <2>. QED
    BY <1>7, <2>1, <2>2 DEF RunStage
<1>8. CASE Finalize
  <2>0. arts' = arts /\ outdated' = outdated /\ overtaken' = overtaken
    BY <1>8 DEF Finalize, history
  <2>1. CASE StageError
    BY <1>3, <2>0, <2>1
  <2>2. CASE Ends("NeedsReview")
    BY <2>0, <2>2, ReviewedKept DEF Ends
  <2>3. CASE /\ ~arts[stage].pending /\ DOMAIN checks' = DOMAIN checks \cup {stage}
             /\ UNCHANGED <<status, saved>>
    BY <2>0, <2>3 DEF Reviewed
  <2>. QED
    BY <1>8, <2>1, <2>2, <2>3 DEF Finalize
<1>9. CASE EditReview
  <2>1. arts'[ReviewAudio].pending = arts[ReviewAudio].pending
    BY <1>1, <1>9 DEF EditReview, Put, Dirs
  <2>. QED
    BY <1>9, <2>1, ReviewedKept DEF EditReview, Idly, history
<1>10. CASE FinishReview
  <2>1. ~arts'[ReviewAudio].pending
    BY <1>1, <1>10 DEF FinishReview, Put, Dirs
  <2>. QED
    BY <2>1 DEF Reviewed
<1>11. CASE RetryFromScratch
  <2>1. DOMAIN checks' = DOMAIN checks \cap {}
    BY <1>11, KeepProperties DEF RetryFromScratch
  <2>. QED
    BY <1>11, <2>1 DEF RetryFromScratch, Idly, Reviewed, history
<1>12. CASE Save
  <2>1. Record.review = (status = "NeedsReview") /\ Record.checks = checks
    BY DEF Record
  <2>2. CASE saved' = None
    BY <1>12, <2>2 DEF Save, Reviewed
  <2>3. CASE saved' = Record /\ status \in {"Waiting", "Running", "NeedsReview"}
    BY <1>12, <2>1, <2>3 DEF Save, Reviewed, Listed
  <2>. QED
    BY <1>12, <2>2, <2>3 DEF Save
<1>13. CASE Relaunch
  <2>1. CASE saved = None
    BY <1>13, <2>1 DEF Relaunch, Reviewed
  <2>2. CASE saved # None /\ ~saved.review
    BY <1>13, <2>2 DEF Relaunch, Restored, Reviewed
  <2>3. CASE saved # None /\ saved.review
    <3>1. DOMAIN checks' = DOMAIN saved.checks \cap (1..(ReviewAudio - 1))
      BY <1>13, <2>3, KeepProperties DEF Relaunch, Restored
    <3>2. ReviewAudio \notin DOMAIN checks'
      BY <3>1 DEF ReviewAudio
    <3>. QED
      BY <1>13, <2>3, <3>2 DEF Relaunch, Reviewed
  <2>. QED
    BY <2>1, <2>2, <2>3
<1>14. ASSUME NEW c \in Changing, NEW v \in Versions, Change(c, v) PROVE Reviewed'
  BY <1>14 DEF Change, Reviewed, history
<1>15. ASSUME NEW s \in Stages, Damage(s) PROVE Reviewed'
  <2>1. arts'[ReviewAudio].pending = arts[ReviewAudio].pending
    BY <1>1, <1>15 DEF Damage, Put, Dirs
  <2>. QED
    BY <1>15, <2>1 DEF Damage, Reviewed, history
<1>. QED
  BY <1>2, <1>4, <1>5, <1>6, <1>7, <1>8, <1>9, <1>10, <1>11, <1>12, <1>13, <1>14, <1>15 DEF Next

LEMMA EvidenceInvariant == Spec => [](PInv /\ Evidence /\ Reviewed)
<1>1. Init => PInv /\ Evidence /\ Reviewed
  BY TypeInit, ControlInit, EvidenceInit, ReviewedInit DEF PInv
<1>2. (PInv /\ Evidence /\ Reviewed) /\ [Next]_vars => (PInv /\ Evidence /\ Reviewed)'
  BY TypeNext, ControlNext, EvidenceNext, ReviewedNext DEF PInv
<1>. QED
  BY <1>1, <1>2, PTL DEF Spec

-----------------------------------------------------------------------------
(* The theorems.                                                           *)

(* Every variable keeps its type, in memory and in the snapshot.           *)
THEOREM PipelineTypeCorrect == Spec => []TypeOK
  BY PipelineInvariant, PTL DEF PInv

(* Whatever is changed, damaged, cancelled, saved late or cut short by the *)
(* end of the process, the checkpoints of a book and of its record are the *)
(* first stages of the pipeline, so that the reader of the snapshot does   *)
(* not refuse the queue (ensure_contiguous).                               *)
THEOREM CheckpointsArePrefix == Spec => []PrefixOnly
<1>1. PInv => PrefixOnly
  BY PrefixCardinality DEF PInv, Control, PrefixOnly
<1>. QED
  BY <1>1, PipelineInvariant, PTL

(* No book is Completed on the strength of an old report: the run that     *)
(* completes it has published it itself.                                   *)
THEOREM CompletedMeansPublished == Spec => []CompletedPublished
<1>1. PInv => CompletedPublished
  BY DEF PInv, Published, CompletedPublished
<1>. QED
  BY <1>1, PipelineInvariant, PTL

(* No run goes on from a result that is missing or damaged, and only a run *)
(* that goes by a record written before a listed stage was made again can  *)
(* go on from one made from other sources or with other tools than it has  *)
(* identified itself.                                                      *)
THEOREM NoRunReusesStaleResults == Spec => []NoStaleReuse
<1>1. PInv /\ Evidence => NoStaleReuse
  BY DoneIsFresh DEF Evidence, NoStaleReuse, Current
<1>. QED
  BY <1>1, EvidenceInvariant, PTL

(* No run gets past the review while an item is undecided, however often   *)
(* the book is run, retried or brought back, unless it goes by a record    *)
(* that says the review is done and is older than the review.              *)
THEOREM ReviewComesFirst == Spec => []ReviewResolvedFirst
<1>1. ASSUME PInv, Reviewed, InRun, stage > ReviewAudio, pc # "loop", ReviewAudio \notin outdated
      PROVE  ~arts[ReviewAudio].pending
  <2>1. /\ \A t \in 1..(stage - 1) : t \in done
        /\ done = DOMAIN checks /\ status = "Running" /\ stage \in Stages
    BY <1>1 DEF PInv, TypeOK, Control, InRun, NextStage
  <2>2. ReviewAudio \in 1..(stage - 1)
    BY <1>1, <2>1 DEF ReviewAudio, Stages, Prepare, Validate
  <2>. QED
    BY <1>1, <2>1, <2>2 DEF Reviewed
<1>2. PInv /\ Reviewed => ReviewResolvedFirst
  BY <1>1 DEF ReviewResolvedFirst
<1>. QED
  BY <1>2, EvidenceInvariant, PTL
=============================================================================
