------------------------------ MODULE ChunkPlan ------------------------------
(***************************************************************************)
(* How an audiobook is cut into the chunks that are transcribed one by     *)
(* one: plan_transcription_chunks and validate_chunk_plan (core/           *)
(* transcript.rs), refine_synthetic_boundaries (application/               *)
(* chunked_transcription.rs).  Times are natural numbers of one unit.      *)
(***************************************************************************)
EXTENDS Integers, Sequences

CONSTANTS
  Duration,   (* of the audiobook                                           *)
  MaxChunk,   (* DEFAULT_MAX_TRANSCRIPTION_CHUNK_MS                         *)
  HardCap,    (* WHISTLE_MAX_CHUNK_MS                                       *)
  Tolerance,  (* CHAPTER_BOUNDARY_TOLERANCE_MS                              *)
  Radius,     (* SILENCE_SEARCH_RADIUS_MS                                   *)
  Contents    (* the sets of chapter marks an audiobook may have, those     *)
              (* inside it (probe_audio_metadata)                           *)

ASSUME ChunkPlanAssumption ==
  /\ Duration \in Nat \ {0} /\ MaxChunk \in Nat \ {0} /\ HardCap \in Nat
  /\ MaxChunk <= HardCap /\ Tolerance \in Nat /\ Radius \in Nat
  /\ Contents \subseteq SUBSET (1..(Duration - 1))

VARIABLES
  chapters,   (* chapter_boundaries_ms, those inside the book               *)
  cuts,       (* end_ms of the chunks                                       *)
  refined,    (* how many boundaries the refinement has visited             *)
  plan        (* "cutting", "refining", "ready" or "rejected"               *)

planVars == <<chapters, cuts, refined, plan>>

-----------------------------------------------------------------------------
StartOf(c, i) == IF i = 1 THEN 0 ELSE c[i - 1]

(* validate_chunk_plan; the chunks are contiguous by what they are here.   *)
ValidPlan(c) ==
  /\ c # << >> /\ c[Len(c)] = Duration
  /\ \A i \in 1..Len(c) : StartOf(c, i) < c[i] /\ c[i] - StartOf(c, i) <= HardCap

Validated(c, next) == plan' = IF ValidPlan(c) THEN next ELSE "rejected"

Planned == IF cuts = << >> THEN 0 ELSE cuts[Len(cuts)]

(* The chapter marks that may end the chunk which starts at Planned.       *)
Marks ==
  LET target    == Planned + MaxChunk
      tolerance == IF Tolerance <= MaxChunk \div 2 THEN Tolerance ELSE MaxChunk \div 2
  IN  {m \in chapters : target - tolerance <= m /\ m <= target /\ m > Planned}

(* One round of the planner's loop.                                        *)
Cut ==
  /\ plan = "cutting" /\ Planned < Duration
  /\ \/ Duration - Planned <= MaxChunk /\ cuts' = Append(cuts, Duration)
     \/ /\ Duration - Planned > MaxChunk
        /\ \/ Marks = {} /\ cuts' = Append(cuts, Planned + MaxChunk)
           \/ \E m \in Marks : (\A other \in Marks : other <= m) /\ cuts' = Append(cuts, m)
  /\ UNCHANGED <<chapters, refined, plan>>

CheckPlan ==
  /\ plan = "cutting" /\ Planned = Duration /\ Validated(cuts, "refining")
  /\ UNCHANGED <<chapters, cuts, refined>>

(* A cut may move only so far that neither chunk beside it grows too long. *)
Fits_NextOnly(i, cut) == StartOf(cuts, i) < cut /\ cut < cuts[i + 1] /\ cuts[i + 1] - cut <= HardCap
Fits(i, cut) ==
  /\ StartOf(cuts, i) < cut /\ cut < cuts[i + 1]
  /\ cut - StartOf(cuts, i) <= HardCap /\ cuts[i + 1] - cut <= HardCap

(* ffmpeg looks for silence around a cut that is no chapter mark; it may   *)
(* find none, or one whose middle is anywhere in the part it was given.    *)
Refine ==
  /\ plan = "refining" /\ refined < Len(cuts) - 1 /\ refined' = refined + 1
  /\ LET i == refined + 1
     IN  \/ UNCHANGED cuts
         \/ /\ cuts[i] \notin chapters
            /\ \E middle \in (cuts[i] - Radius)..(cuts[i] + Radius) :
                  Fits(i, middle) /\ cuts' = [cuts EXCEPT ![i] = middle]
  /\ UNCHANGED <<chapters, plan>>

CheckRefined ==
  /\ plan = "refining" /\ refined >= Len(cuts) - 1 /\ Validated(cuts, "ready")
  /\ UNCHANGED <<chapters, cuts, refined>>

PlanInit ==
  /\ chapters \in Contents
  /\ cuts = << >> /\ refined = 0 /\ plan = "cutting"

PlanNext == Cut \/ CheckPlan \/ Refine \/ CheckRefined

PlanSpec == PlanInit /\ [][PlanNext]_planVars

-----------------------------------------------------------------------------
(* The planner and the refinement never produce a plan that the program    *)
(* itself refuses (validate_chunk_plan is called after both): the chunks   *)
(* cover the book, none is empty and none is longer than the engine takes, *)
(* although each cut is moved while its neighbours still may.              *)
PlanAccepted == plan # "rejected"
=============================================================================
