---------------------------- MODULE Publication ----------------------------
(***************************************************************************)
(* Publishing the finished EPUB: ValidatedEpub::validate and publish       *)
(* (crates/storyteller-core/src/publication.rs) as the Validate stage of   *)
(* pipeline_backend.rs runs them.  Books that name the same output take    *)
(* turns (one worker at a time), each with a workspace of its own; other   *)
(* programs use the output folder too, and the process may end anywhere.   *)
(***************************************************************************)
EXTENDS Naturals

CONSTANTS
  Books,     (* jobs whose output path is the same file                     *)
  Contents,  (* file contents; equal contents have equal SHA-256            *)
  None,      (* no file, no value                                           *)
  Corrupt    (* an intent that cannot be parsed                             *)

ASSUME PublicationAssumption ==
  None \notin Contents \cup Books /\ Corrupt \notin Contents /\ None # Corrupt

VARIABLES
  candidate,  (* readaloud.epub of each book's BuildEpub stage              *)
  intent,     (* publication.json of each book: the hash it names           *)
  output,     (* the file at the output path                                *)
  book,       (* the book of the running attempt, or None                   *)
  pc,         (* where the attempt is                                       *)
  validated,  (* ValidatedEpub.sha256 of the attempt                        *)
  prior,      (* the intent verify_existing is given                        *)
  staged,     (* the temporary file of the attempt                          *)
  cancel,     (* the cancellation token                                     *)
  ended,      (* how each book's last attempt ended                         *)
  owner       (* history: the book whose commit made the output, or None    *)

vars == <<candidate, intent, output, book, pc, validated, prior, staged, cancel, ended, owner>>

local == <<book, pc, validated, prior, staged, cancel>>

-----------------------------------------------------------------------------
(* How an attempt ends: any error is a cancellation when the token is set. *)

Idle == book' = None /\ pc' = "idle" /\ validated' = None /\ prior' = None /\ staged' = None
          /\ cancel' = FALSE

Ends(outcome) == Idle /\ ended' = [ended EXCEPT ![book] = outcome]

Fails == Ends(IF cancel THEN "Cancelled" ELSE "Failed") /\ UNCHANGED <<candidate, intent, output, owner>>

Goes(step) == pc' = step /\ UNCHANGED <<candidate, output, book, validated, cancel, ended, owner>>

Published ==
  pc' = "published" /\ UNCHANGED <<candidate, intent, book, validated, prior, staged, cancel, ended>>

(* run_validate: the candidate is fingerprinted before and after the audit.*)
Validate(b) ==
  /\ pc = "idle" /\ candidate[b] # None /\ ended[b] # "Completed"
  /\ book' = b /\ pc' = "inspect" /\ validated' = candidate[b]
  /\ UNCHANGED <<candidate, intent, output, prior, staged, cancel, ended, owner>>

(* Cancellation, the prior intent, and whether something is there already. *)
Inspect ==
  /\ pc = "inspect"
  /\ \/ Fails
     \/ /\ ~cancel /\ intent[book] # Corrupt
        /\ prior' = intent[book]
        /\ Goes(IF output = None THEN "stage" ELSE "verify")
        /\ UNCHANGED <<intent, staged>>

(* Copy and hash; a candidate that changed since its validation is refused.*)
Stage ==
  /\ pc = "stage"
  /\ \/ ~cancel /\ candidate[book] = validated
        /\ staged' = validated /\ Goes("record") /\ UNCHANGED <<intent, prior>>
     \/ Fails

RecordIntent_Skipped ==
  /\ pc = "record"
  /\ \/ ~cancel /\ Goes("commit") /\ prior' = validated /\ UNCHANGED <<intent, staged>>
     \/ Fails
RecordIntent ==
  /\ pc = "record"
  /\ \/ /\ ~cancel
        /\ intent' = [intent EXCEPT ![book] = validated] /\ prior' = validated
        /\ Goes("commit") /\ UNCHANGED staged
     \/ Fails

(* commit_without_overwrite: the commit point.                             *)
Commit_Replacing ==
  /\ pc = "commit"
  /\ \/ ~cancel /\ output' = staged /\ owner' = book /\ Published
     \/ Fails
Commit ==
  /\ pc = "commit"
  /\ \/ ~cancel /\ output = None /\ output' = staged /\ owner' = book /\ Published
     \/ ~cancel /\ output # None /\ Goes("verify") /\ UNCHANGED <<intent, prior, staged>>
     \/ Fails

(* verify_existing: the intent must name this very candidate, and the file *)
(* must still have its contents.                                           *)
VerifyExisting_AnyIntent ==
  /\ pc = "verify"
  /\ \/ ~cancel /\ output = validated /\ UNCHANGED <<output, owner>> /\ Published
     \/ Fails
VerifyExisting ==
  /\ pc = "verify"
  /\ \/ ~cancel /\ prior = validated /\ output = validated /\ UNCHANGED <<output, owner>> /\ Published
     \/ Fails

(* Nothing after the commit point looks at the token or can fail.          *)
Complete_ChecksToken ==
  /\ pc = "published"
  /\ \/ Fails
     \/ Ends("Completed") /\ UNCHANGED <<candidate, intent, output, owner>>
Complete ==
  pc = "published" /\ Ends("Completed") /\ UNCHANGED <<candidate, intent, output, owner>>

RequestCancel ==
  /\ book # None /\ ~cancel /\ cancel' = TRUE
  /\ UNCHANGED <<candidate, intent, output, book, pc, validated, prior, staged, ended, owner>>

-----------------------------------------------------------------------------
(* BuildEpub runs again, with the same or with other bytes.                *)
Rebuild(b) ==
  /\ book # b /\ ended[b] # "Completed"
  /\ candidate' \in {[candidate EXCEPT ![b] = c] : c \in Contents}
  /\ UNCHANGED <<intent, output, owner, ended>> /\ UNCHANGED local

(* Outside the program.                                                    *)
Tampers == book # None /\ candidate' \in {[candidate EXCEPT ![book] = c] : c \in Contents}
             /\ UNCHANGED <<intent, output, owner, ended>> /\ UNCHANGED local

DamagesIntent(b) ==
  /\ intent[b] # None /\ intent' = [intent EXCEPT ![b] = Corrupt]
  /\ UNCHANGED <<candidate, output, owner, ended>> /\ UNCHANGED local

TouchesOutput ==
  /\ output' \in Contents \cup {None} /\ output' # output /\ owner' = None
  /\ UNCHANGED <<candidate, intent, ended>> /\ UNCHANGED local

(* The process ends: in an attempt, or after one whose end is not saved.   *)
Crash(b) ==
  /\ book # None \/ ended[b] # "Open"
  /\ Idle /\ ended' = [ended EXCEPT ![b] = "Open"]
  /\ UNCHANGED <<candidate, intent, output, owner>>

Outside == Tampers \/ (\E b \in Books : DamagesIntent(b)) \/ TouchesOutput

Init ==
  /\ candidate = [b \in Books |-> None] /\ intent = [b \in Books |-> None]
  /\ output = None /\ owner = None /\ ended = [b \in Books |-> "Open"]
  /\ book = None /\ pc = "idle" /\ validated = None /\ prior = None /\ staged = None
  /\ cancel = FALSE

Attempt == Inspect \/ Stage \/ RecordIntent \/ Commit \/ VerifyExisting \/ Complete

Next ==
  \/ \E b \in Books : Validate(b) \/ Rebuild(b) \/ Crash(b)
  \/ Attempt \/ RequestCancel \/ Outside

Spec == Init /\ [][Next]_vars

-----------------------------------------------------------------------------
(* Properties.                                                             *)

(* Values have the types of the Rust declarations, and an attempt has a    *)
(* book and a validated candidate.                                         *)
TypeOK ==
  /\ candidate \in [Books -> Contents \cup {None}]
  /\ intent \in [Books -> Contents \cup {None, Corrupt}]
  /\ {output, staged, validated} \subseteq Contents \cup {None}
  /\ prior \in Contents \cup {None, Corrupt}
  /\ {book, owner} \subseteq Books \cup {None}
  /\ pc \in {"idle", "inspect", "stage", "record", "commit", "verify", "published"}
  /\ pc # "idle" => book # None /\ validated # None
  /\ cancel \in BOOLEAN
  /\ ended \in [Books -> {"Open", "Completed", "Cancelled", "Failed"}]

(* "An atomic no-overwrite operation": whatever exists at the output path, *)
(* also when it appears while the copy is staged, is never replaced.       *)
NeverOverwrites == [][output # None /\ output' # output => Outside]_vars

(* A book is reported Completed only when the bytes that passed validation *)
(* were at its output, whatever was tampered with in between, and "without *)
(* accepting an unrelated existing output": unless it has just committed   *)
(* the file itself, its own intent names it.                               *)
CompletedMeansPublished ==
  [][/\ pc # "published" /\ pc' = "published"
          => output' = validated /\ (owner' = book \/ intent[book] \in {validated, Corrupt})
     /\ \A b \in Books : ended[b] # "Completed" /\ ended'[b] = "Completed"
          => pc = "published" /\ b = book]_vars

(* "Makes a crash after the commit recoverable": as long as its output is  *)
(* there, the intent of the book that committed it names it, so the next   *)
(* attempt with the same candidate is not refused.                         *)
CommitRecoverable == owner # None => intent[owner] \in {output, Corrupt}

(* "Cancellation after it must not report an unpublished book": an attempt *)
(* that committed or recognised its output ends as Completed, unless the   *)
(* process ends with it.                                                   *)
CommitIsFinal ==
  [][pc = "published" /\ pc' # "published"
       => ended'[book] = "Completed" \/ \E b \in Books : Crash(b)]_vars
=============================================================================
