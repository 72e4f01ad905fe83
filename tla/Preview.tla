------------------------------ MODULE Preview ------------------------------
(***************************************************************************)
(* The sound of a segment in review                                        *)
(* (crates/storyteller-application/src/review_preview.rs, and its use by   *)
(* review_session.rs): the session sends requests to a thread that owns    *)
(* the player process, and polls the events that come back.                *)
(*                                                                         *)
(* Of a generation only matters whether it is the newest; "fresh" says so. *)
(* The thread ends in one way only, by Shutdown: nothing in it panics.     *)
(***************************************************************************)
EXTENDS Naturals, Sequences

CONSTANT MaxActs   (* bound: what the user does during one review           *)

ASSUME PreviewAssumption == MaxActs \in Nat

VARIABLES
  acts,       (* how often the user has acted                               *)
  playing,    (* ReviewView::playing                                        *)
  task,       (* the thread: "none", "running", "closing" while shutdown    *)
              (* waits for it, "over" from then on                          *)
  requests,   (* to the thread                                              *)
  events,     (* from the thread                                            *)
  player,     (* the process: "none", "sounding" or "over"                  *)
  latest      (* the thread's generation is the newest                      *)

pvars == <<acts, playing, task, requests, events, player, latest>>

(* A new generation: whatever is under way is of an older one.             *)
Outdated(s) == [i \in DOMAIN s |-> [s[i] EXCEPT !.fresh = FALSE]]
NewGeneration == events' = Outdated(events) /\ latest' = FALSE

Request(kind) == [kind |-> kind, fresh |-> kind = "play"]
Event(is) == [playing |-> is, fresh |-> latest']
Open == task \in {"none", "running"}

-----------------------------------------------------------------------------
(* The session, on the UI thread.                                          *)

Play ==
  /\ Open /\ acts < MaxActs /\ acts' = acts + 1 /\ NewGeneration
  /\ \/ (* the thread cannot be started *)
        task = "none" /\ UNCHANGED <<task, playing, requests>>
     \/ /\ task' = "running" /\ playing' = TRUE
        /\ requests' = Append(Outdated(requests), Request("play"))
  /\ UNCHANGED player

(* Stop, Reload, Previous, Next, SeekRelative, a decision, another book.   *)
Stop ==
  /\ Open /\ acts < MaxActs /\ acts' = acts + 1
  /\ NewGeneration /\ playing' = FALSE
  /\ requests' = IF task = "none" THEN requests ELSE Append(Outdated(requests), Request("stop"))
  /\ UNCHANGED <<task, player>>

Reported_Any(e) == TRUE
Reported(e) == e.fresh

Poll ==
  /\ Open /\ events # << >> /\ events' = << >>
  /\ LET seen == SelectSeq(events, Reported)
     IN  playing' = IF seen = << >> THEN playing ELSE seen[Len(seen)].playing
  /\ UNCHANGED <<acts, task, requests, player, latest>>

(* shutdown, when the program ends: the thread is joined.                  *)
Shutdown ==
  /\ Open /\ task' = IF task = "none" THEN "over" ELSE "closing"
  /\ requests' = IF task = "none" THEN requests ELSE Append(requests, Request("shutdown"))
  /\ UNCHANGED <<acts, playing, events, player, latest>>

-----------------------------------------------------------------------------
(* The thread "review-preview".                                            *)

Receive ==
  /\ requests # << >> /\ requests' = Tail(requests)
  /\ LET r == Head(requests)
     IN  \/ /\ r.kind = "play" /\ latest' = r.fresh
            /\ \E starts \in BOOLEAN :
                 /\ player' = IF starts THEN "sounding" ELSE "none"
                 /\ events' = Append(events, Event(starts))
            /\ UNCHANGED task
         \/ r.kind = "stop" /\ player' = "none" /\ UNCHANGED <<task, events, latest>>
         \/ /\ r.kind = "shutdown" /\ player' = "none" /\ task' = "over"
            /\ events' = << >> /\ UNCHANGED latest
  /\ UNCHANGED <<acts, playing>>

(* try_wait, every 50 ms.                                                  *)
Notice ==
  /\ player = "over" /\ player' = "none" /\ UNCHANGED latest
  /\ events' = Append(events, Event(FALSE))
  /\ UNCHANGED <<acts, playing, task, requests>>

(* The player comes to the end of the segment, or breaks.                  *)
SoundEnds ==
  player = "sounding" /\ player' = "over" /\ UNCHANGED <<acts, playing, task, requests, events, latest>>

PreviewInit ==
  /\ acts = 0 /\ playing = FALSE /\ task = "none" /\ requests = << >> /\ events = << >>
  /\ player = "none" /\ latest = FALSE

Thread == Receive \/ Notice
PreviewNext == Play \/ Stop \/ Poll \/ Shutdown \/ Thread \/ SoundEnds

-----------------------------------------------------------------------------
(* Properties.                                                             *)

(* Once the user leaves the preview alone, the screen comes to say that it *)
(* is playing exactly as long as there is something to hear, whatever was  *)
(* still under way when it was stopped, started again or failed; and after *)
(* a shutdown nothing sounds on.                                           *)
PreviewSettles ==
  <>[](IF task = "over" THEN player = "none" ELSE playing = (player = "sounding"))
=============================================================================
