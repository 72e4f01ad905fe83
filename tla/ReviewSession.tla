--------------------------- MODULE ReviewSession ---------------------------
(***************************************************************************)
(* ReviewSession (crates/storyteller-application/src/review_session.rs):   *)
(* what the screen shows of the book that waits for review, the thread     *)
(* that loads its report and the evidence for the selected segment, and    *)
(* what the controller does to the session: decisions, polls, and the runs *)
(* of the pipeline between two reviews.                                    *)
(*                                                                         *)
(* Only whether a request or an event carries the current generation       *)
(* matters; "fresh" says so, and Stale ends it.                            *)
(***************************************************************************)
EXTENDS Naturals, Sequences

CONSTANTS
  Books,      (* job identities                                             *)
  NItems,     (* unmatched segments of a book                               *)
  Nothing,    (* Option::None                                               *)
  MaxRuns,    (* bound: how often a run makes new evidence for a book       *)
  MaxEvents   (* bound: loads that end between two polls                    *)

VARIABLES
  status,   (* of each book: "due" to run, "running" or in "review"         *)
  made,     (* the run that made the alignment and corpus of each book      *)
  report,   (* review.json of each book: its decided items, or Nothing      *)
            (* while there is none that can be read                         *)
  view,     (* ReviewView                                                   *)
  asked,    (* the newest request the thread has not taken; it skips others *)
  loader,   (* the thread: its step, request and what it has loaded         *)
  cache,    (* BookEvidence                                                 *)
  events,   (* loads the session has not seen yet                           *)
  missed    (* history: a command failed half way; nothing was loaded since *)

vars == <<status, made, report, view, asked, loader, cache, events, missed>>
books == <<status, made, report>>
session == <<view, asked, loader, cache, events, missed>>

Items == 1..NItems

Reports == {Nothing} \cup SUBSET Items
Evidence == [book : Books \cup {Nothing}, made : Nat]
Views ==
  [book : Books \cup {Nothing}, report : Reports, index : Items, busy : BOOLEAN,
   evidence : Evidence \cup {Nothing}]
Requests == [book : Books, index : Items, advance : BOOLEAN, fresh : BOOLEAN]
Loaders ==
  [step : {"none", "idle", "read report", "find evidence", "send", "dying", "gone"},
   request : Requests \cup {Nothing}, report : Reports, index : Items,
   evidence : Evidence \cup {Nothing}]
Loads ==
  [fresh : BOOLEAN, book : Books, report : Reports, index : Items,
   evidence : Evidence \cup {Nothing}]

ASSUME SessionAssumption ==
  /\ NItems \in Nat \ {0} /\ MaxRuns \in Nat /\ MaxEvents \in Nat \ {0}
  /\ Nothing \notin Books /\ Nothing \notin Requests /\ Nothing \notin Loads

NoView(b) == [book |-> b, report |-> Nothing, index |-> 1, busy |-> FALSE, evidence |-> Nothing]
NoEvidence == [book |-> Nothing, made |-> 0]
Idle(step) == [step |-> step, request |-> Nothing, report |-> Nothing, index |-> 1, evidence |-> Nothing]

-----------------------------------------------------------------------------
(* The session, on the UI thread.                                          *)

(* The token is cancelled and the generation moves on.                     *)
Old(r) == IF r = Nothing THEN r ELSE [r EXCEPT !.fresh = FALSE]
StaleLoader == [loader EXCEPT !.request = Old(@)]
StaleEvents == [i \in DOMAIN events |-> Old(events[i])]

Failed(v) == [v EXCEPT !.busy = FALSE, !.report = Nothing, !.evidence = Nothing]

(* request_load: a thread that has ended is replaced, with an empty cache; *)
(* one that is just ending, or cannot be started, fails the load.          *)
RequestLoad(v, advance) ==
  LET busy    == [v EXCEPT !.busy = TRUE, !.evidence = Nothing]
      request == [book |-> v.book, index |-> v.index, advance |-> advance, fresh |-> TRUE]
  IN  /\ missed' = FALSE
      /\ \/ /\ loader.step \notin {"none", "dying", "gone"}
            /\ view' = busy /\ asked' = request
            /\ loader' = StaleLoader /\ events' = StaleEvents /\ UNCHANGED cache
         \/ /\ loader.step = "dying"
            /\ view' = Failed(v) /\ asked' = Old(asked)
            /\ loader' = StaleLoader /\ events' = StaleEvents /\ UNCHANGED cache
         \/ /\ loader.step \in {"none", "gone"} /\ cache' = NoEvidence /\ events' = << >>
            /\ \/ view' = busy /\ asked' = request /\ loader' = Idle("idle")
               \/ view' = Failed(v) /\ asked' = Nothing /\ loader' = Idle("none")

(* Which events the screen takes over.                                     *)
Shows_AnyGeneration(e, book) == e.book = book
Shows(e, book) == e.fresh /\ e.book = book

Shown(v, e) ==
  IF e.report = Nothing THEN Failed(v)
  ELSE [v EXCEPT !.busy = FALSE, !.report = e.report, !.index = e.index, !.evidence = e.evidence]

LoaderLost_Never == FALSE
LoaderLost == loader.step = "gone"

(* poll: the loads that ended, in order; then the end of the thread.       *)
Seen[i \in 0..Len(events)] ==
  IF i = 0 THEN view
  ELSE IF Shows(events[i], view.book) THEN Shown(Seen[i - 1], events[i]) ELSE Seen[i - 1]

Drained ==
  LET last == Seen[Len(events)]
  IN  IF last.busy /\ LoaderLost THEN Failed(last) ELSE last

-----------------------------------------------------------------------------
(* The controller, on the UI thread.                                       *)

Active(s) == {b \in Books : s[b] # "due"}
InReview(b) == status[b] = "review"

(* Poll: start the next book, show the one that is in review, drain.       *)
Launched ==
  IF Active(status) # {} THEN {status}
  ELSE {[status EXCEPT ![b] = "running"] : b \in Books}

Poll ==
  /\ status' \in Launched
  /\ UNCHANGED <<made, report>>
  /\ LET shown == IF \E b \in Books : status'[b] = "review"
                    THEN CHOOSE b \in Books : status'[b] = "review" ELSE Nothing
     IN  \/ /\ view.book = shown
            /\ view' = Drained /\ events' = << >> /\ UNCHANGED <<asked, loader, cache, missed>>
         \/ /\ view.book # shown /\ shown = Nothing
            /\ view' = NoView(Nothing) /\ asked' = Old(asked) /\ loader' = StaleLoader
            /\ events' = << >> /\ missed' = FALSE /\ UNCHANGED cache
         \/ view.book # shown /\ shown # Nothing /\ RequestLoad(NoView(shown), FALSE)

(* Reload, Previous, Next.                                                 *)
Navigate(b, index) ==
  /\ InReview(b) /\ view.book = b
  /\ view.report # Nothing \/ index = view.index
  /\ RequestLoad([view EXCEPT !.index = index], FALSE)
  /\ UNCHANGED books

(* SaveReviewDecision, AssignGraphic, PreserveEdge: write the report, then *)
(* the draft, and load again at the next undecided segment.  A write that  *)
(* fails returns early: nothing is loaded again.                           *)
Decide(b) ==
  /\ InReview(b) /\ view.book = b /\ view.report # Nothing /\ report[b] # Nothing
  /\ LET decided == report[b] \cup {view.index}
     IN  \/ report' = [report EXCEPT ![b] = decided] /\ RequestLoad(view, TRUE)
         \/ /\ \E left \in {report[b], decided, Nothing} : report' = [report EXCEPT ![b] = left]
            /\ missed' = TRUE /\ UNCHANGED <<view, asked, loader, cache, events>>
  /\ UNCHANGED <<status, made>>

(* FinishReview, or CancelJob and later RetryFromScratch.                  *)
Leave(b) ==
  InReview(b) /\ status' = [status EXCEPT ![b] = "due"] /\ UNCHANGED <<made, report, session>>

(* ContinueWithoutUnmatched decides what is left, writes report and draft, *)
(* and seals the review.  Nothing is loaded again: when a write or the     *)
(* seal fails, the book stays in review and the screen as it was.          *)
ContinueWithoutUnmatched(b) ==
  /\ InReview(b) /\ view.book = b /\ report[b] # Nothing
  /\ \/ /\ report' = [report EXCEPT ![b] = Items] /\ status' = [status EXCEPT ![b] = "due"]
        /\ UNCHANGED missed
     \/ /\ \E left \in {report[b], Items, Nothing} : report' = [report EXCEPT ![b] = left]
        /\ missed' = TRUE /\ UNCHANGED status
  /\ UNCHANGED <<made, view, asked, loader, cache, events>>

(* The worker: Analyze and Align run again unless their results are        *)
(* reused; ReviewAudio writes a report with the decisions of the draft.    *)
Produce(b) ==
  /\ status[b] = "running" /\ status' = [status EXCEPT ![b] = "review"]
  /\ \E run \in {made[b], made[b] + 1} \cap 0..MaxRuns : made' = [made EXCEPT ![b] = run]
  /\ \E restored \in SUBSET Items : report' = [report EXCEPT ![b] = restored]
  /\ UNCHANGED session

-----------------------------------------------------------------------------
(* The thread "review-evidence".                                           *)

UnchangedUI == UNCHANGED <<books, view, missed>>

(* Coalescing: only the newest request is looked at.                       *)
Take ==
  /\ loader.step = "idle" /\ asked # Nothing /\ asked' = Nothing
  /\ loader' = IF asked.fresh THEN [Idle("read report") EXCEPT !.request = asked] ELSE loader
  /\ UnchangedUI /\ UNCHANGED <<cache, events>>

Pending(r) == Items \ r
FirstOf(S) == CHOOSE i \in S : \A j \in S : i <= j

ReadReport ==
  /\ loader.step = "read report"
  /\ LET r == loader.request
         found == report[r.book]
     IN  loader' \in
           {[loader EXCEPT !.step = "send"]} \cup
           (IF found = Nothing THEN {}
            ELSE {[loader EXCEPT !.step = "find evidence", !.report = found,
                     !.index = IF r.advance /\ Pending(found) # {} THEN FirstOf(Pending(found))
                                                                   ELSE r.index]})
  /\ UnchangedUI /\ UNCHANGED <<asked, cache, events>>

(* candidates: alignment and corpus are read once per book; that a new run *)
(* has replaced them goes unnoticed.  The search in them may fail as well. *)
FindEvidence ==
  /\ loader.step = "find evidence"
  /\ LET b == loader.request.book
     IN  /\ \/ cache' = cache
            \/ cache.book # b /\ cache' = [book |-> b, made |-> made[b]]
         /\ \E found \in {Nothing} \cup {e \in {cache'} : e.book = b} :
              loader' = [loader EXCEPT !.step = "send", !.evidence = found]
  /\ UnchangedUI /\ UNCHANGED <<asked, events>>

Send ==
  /\ loader.step = "send" /\ loader' = Idle("idle")
  /\ \/ ~loader.request.fresh /\ UNCHANGED events
     \/ /\ loader.request.fresh /\ Len(events) < MaxEvents
        /\ events' = Append(events, [fresh    |-> TRUE,
                                     book     |-> loader.request.book,
                                     report   |-> loader.report,
                                     index    |-> loader.index,
                                     evidence |-> loader.evidence])
  /\ UnchangedUI /\ UNCHANGED <<asked, cache>>

(* A panic drops the receiver first; is_finished is true a little later.   *)
Panic ==
  /\ loader.step \in {"read report", "find evidence"} /\ loader' = Idle("dying") /\ asked' = Nothing
  /\ UnchangedUI /\ UNCHANGED <<cache, events>>

End ==
  /\ loader.step = "dying" /\ loader' = Idle("gone")
  /\ UnchangedUI /\ UNCHANGED <<asked, cache, events>>

LoaderSteps == Take \/ ReadReport \/ FindEvidence \/ Send \/ End

-----------------------------------------------------------------------------
Init ==
  /\ status = [b \in Books |-> "due"] /\ made = [b \in Books |-> 0]
  /\ report = [b \in Books |-> Nothing]
  /\ view = NoView(Nothing) /\ asked = Nothing /\ loader = Idle("none")
  /\ cache = NoEvidence /\ events = << >> /\ missed = FALSE

Next ==
  \/ Poll
  \/ \E b \in Books :
       (\E index \in Items : Navigate(b, index)) \/ Decide(b) \/ Leave(b)
         \/ ContinueWithoutUnmatched(b) \/ Produce(b)
  \/ LoaderSteps \/ Panic

Spec == Init /\ [][Next]_vars

(* The host's timer polls, and the thread runs.                            *)
FairSpec == Spec /\ WF_vars(Poll) /\ WF_vars(LoaderSteps)

-----------------------------------------------------------------------------
(* Properties.                                                             *)

(* Every variable keeps its type; the thread has a request while it works  *)
(* on one.                                                                 *)
TypeOK ==
  /\ status \in [Books -> {"due", "running", "review"}] /\ made \in [Books -> Nat]
  /\ report \in [Books -> Reports]
  /\ view \in Views /\ asked \in Requests \cup {Nothing} /\ loader \in Loaders
  /\ loader.step \in {"read report", "find evidence", "send"} <=> loader.request # Nothing
  /\ cache \in Evidence /\ events \in Seq(Loads) /\ missed \in BOOLEAN

(* "Generation and job identity checks discard stale results": whenever    *)
(* the book on the screen waits for its review and the screen is not       *)
(* loading, the report it shows is the one on disk, and its evidence is of *)
(* that book - unless a decision, or Continue without unmatched, has       *)
(* failed half way since.  Navigation, decisions and other books in review *)
(* in between do not bring an older load onto the screen.                  *)
ViewIsCurrent ==
  /\ view.report # Nothing /\ ~view.busy /\ ~missed /\ InReview(view.book)
       => view.report = report[view.book]
  /\ view.evidence # Nothing => view.evidence.book = view.book

(* A load ends: the screen does not stay busy, whatever becomes of the     *)
(* thread, unless the user asks for something else over and over.          *)
LoadSettles ==
  []<>~view.busy \/ []<><<asked' # Nothing /\ asked' # asked>>_vars
=============================================================================
