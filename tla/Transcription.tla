--------------------------- MODULE Transcription ---------------------------
(***************************************************************************)
(* What transcribe_audiobook_in_chunks promises the Analyze stage          *)
(* (crates/storyteller-application/src/chunked_transcription.rs), without  *)
(* saying how the work is divided: the transcript of the whole book, in    *)
(* the order of its chunks, or an error; after a cancellation, an error;   *)
(* and no error unless something failed or was cancelled.                  *)
(***************************************************************************)
EXTENDS Naturals

CONSTANT NChunks  (* chunks of the plan; the transcript of chunk i is i      *)

VARIABLES
  known,      (* chunks whose transcripts have arrived                      *)
  broken,     (* an engine, a thread or the progress observer has failed    *)
  cancelled,  (* the cancellation token of the book                         *)
  outcome,    (* "none", "ok", "cancelled" or "failed"                      *)
  book        (* the merged transcript                                      *)

vars == <<known, broken, cancelled, outcome, book>>

Chunks == 1..NChunks
NoBook == << >>

Init == known = {} /\ broken = FALSE /\ cancelled = FALSE /\ outcome = "none" /\ book = NoBook

Transcribe(c) ==
  outcome = "none" /\ c \notin known /\ known' = known \cup {c}
    /\ broken' \in {broken, TRUE} /\ UNCHANGED <<cancelled, outcome, book>>

Break == broken' = TRUE /\ UNCHANGED <<known, cancelled, outcome, book>>

Cancel == ~cancelled /\ cancelled' = TRUE /\ UNCHANGED <<known, broken, outcome, book>>

Succeed ==
  /\ outcome = "none" /\ ~cancelled /\ known = Chunks
  /\ outcome' = "ok" /\ book' = [c \in Chunks |-> c]
  /\ UNCHANGED <<known, broken, cancelled>>

EndCancelled ==
  outcome = "none" /\ cancelled /\ outcome' = "cancelled"
    /\ UNCHANGED <<known, broken, cancelled, book>>

Fail ==
  outcome = "none" /\ broken /\ outcome' = "failed" /\ UNCHANGED <<known, broken, cancelled, book>>

Next == (\E c \in Chunks : Transcribe(c)) \/ Break \/ Cancel \/ Succeed \/ EndCancelled \/ Fail

Spec == Init /\ [][Next]_vars
=============================================================================
