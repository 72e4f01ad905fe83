------------------------ MODULE ReviewSessionProofs ------------------------
(***************************************************************************)
(* What the review screen shows, for any number of books and segments, any *)
(* number of loads that end between two polls and any number of runs.      *)
(***************************************************************************)
EXTENDS ReviewSession, WellFoundedInduction, TLAPS

-----------------------------------------------------------------------------
(* The inductive invariant.                                                *)

Live(r) == r # Nothing /\ r.fresh

(* One book at a time runs or is in review; the screen is empty during a   *)
(* run, and an empty screen shows nothing.                                 *)
Turn == \A b, c \in Books : status[b] # "due" /\ status[c] # "due" => b = c
Quiet == (\E b \in Books : status[b] = "running") => view.book = Nothing
Blank == view.book = Nothing => view.report = Nothing /\ view.evidence = Nothing

(* What carries the current generation is for the book on the screen.      *)
Addressed ==
  /\ Live(asked) => asked.book = view.book
  /\ Live(loader.request) => loader.request.book = view.book
  /\ \A i \in DOMAIN events : events[i].fresh => events[i].book = view.book

(* A report that was loaded under the current generation is still the one  *)
(* on disk, as long as its book is in review.                              *)
OnDisk(found, book) == found # Nothing /\ InReview(book) => found = report[book]

Loaded ==
  ~missed =>
    /\ Live(loader.request) => OnDisk(loader.report, loader.request.book)
    /\ \A i \in DOMAIN events : events[i].fresh => OnDisk(events[i].report, events[i].book)

(* Evidence is of the book it was looked up for.                           *)
Of(evidence, book) == evidence # Nothing => evidence.book = book

Sourced ==
  /\ loader.evidence # Nothing =>
       loader.request # Nothing /\ loader.evidence.book = loader.request.book
  /\ \A i \in DOMAIN events : Of(events[i].evidence, events[i].book)

SInv == TypeOK /\ Turn /\ Quiet /\ Blank /\ Addressed /\ Loaded /\ Sourced /\ ViewIsCurrent

-----------------------------------------------------------------------------
(* Induction, on a set of numbers instead of a predicate.                  *)

LEMMA LeastNumber ==
  ASSUME NEW S \in SUBSET Nat, S # {}
  PROVE  \E k \in S : \A j \in S : k <= j
<1> DEFINE R == {ss \in Nat \X Nat : ss[1] < ss[2]}
<1>1. IsWellFoundedOn(R, Nat)
  BY NatLessThanWellFounded, Zenon DEF OpToRel
<1>2. PICK x \in S : \A y \in S : ~(<<y, x>> \in R)
  <2> HIDE DEF R
  <2>. QED
    BY <1>1, WFMin
<1>3. ASSUME NEW y \in S, y < x PROVE FALSE
  <2>1. <<y, x>> \in Nat \X Nat /\ <<y, x>>[1] < <<y, x>>[2]
    BY <1>3
  <2>. QED
    BY <1>2, <2>1
<1>. QED
  BY <1>3

LEMMA Induction ==
  ASSUME NEW n \in Nat, NEW S, 0 \in S, \A i \in 1..n : i - 1 \in S => i \in S
  PROVE  0..n \subseteq S
<1> DEFINE Bad == {i \in 0..n : i \notin S}
<1>1. CASE Bad = {}
  BY <1>1
<1>2. CASE Bad # {}
  <2>1. Bad \in SUBSET Nat
    OBVIOUS
  <2>2. PICK k \in Bad : \A j \in Bad : k <= j
    <3> HIDE DEF Bad
    <3>. QED
      BY <1>2, <2>1, LeastNumber
  <2>3. k \in 1..n /\ k - 1 \in 0..n /\ ~(k <= k - 1)
    OBVIOUS
  <2>4. k - 1 \in S
    BY <2>2, <2>3
  <2>. QED
    BY <2>3, <2>4
<1>. QED
  BY <1>1, <1>2

(* The loop over the events is the recursion it looks like.                *)
Step(v, i) == IF Shows(events[i], view.book) THEN Shown(v, events[i]) ELSE v

LEMMA SeenSteps ==
  ASSUME Len(events) \in Nat
  PROVE  \A i \in 0..Len(events) : Seen[i] = IF i = 0 THEN view ELSE Step(Seen[i - 1], i)
<1> DEFINE IsSeen(f, n) == f = [i \in 0..n |-> IF i = 0 THEN view ELSE Step(f[i - 1], i)]
           S == {n \in Nat : \E f : IsSeen(f, n)}
<1>1. 0 \in S
  <2>1. IsSeen([i \in 0..0 |-> view], 0)
    OBVIOUS
  <2>. QED
    BY <2>1
<1>2. ASSUME NEW n \in 1..Len(events), n - 1 \in S PROVE n \in S
  <2>1. PICK f : IsSeen(f, n - 1)
    BY <1>2
  <2> DEFINE g == [i \in 0..n |-> IF i = 0 THEN view ELSE Step(f[i - 1], i)]
  <2>2. \A i \in 0..(n - 1) : g[i] = f[i]
    BY <2>1
  <2>3. \A i \in 0..n : i # 0 => Step(f[i - 1], i) = Step(g[i - 1], i)
    <3>1. \A i \in 0..n : i # 0 => i - 1 \in 0..(n - 1)
      OBVIOUS
    <3>. QED
      BY <2>2, <3>1
  <2>4. IsSeen(g, n)
    BY <2>3
  <2>5. n \in Nat /\ \E h : IsSeen(h, n)
    <3> HIDE DEF IsSeen
    <3>. QED
      BY <2>4
  <2>. QED
    BY <2>5
<1>3. Len(events) \in S
  <2> HIDE DEF S
  <2>1. 0..Len(events) \subseteq S
    BY <1>1, <1>2, Induction
  <2>. QED
    BY <2>1
<1>4. \E f : IsSeen(f, Len(events))
  BY <1>3
<1>5. IsSeen(Seen, Len(events))
  BY <1>4 DEF Seen, Step
<1>. QED
  BY <1>5

-----------------------------------------------------------------------------
(* The two halves of the type invariant: what the runs change, and what    *)
(* the session and its thread change.                                      *)
BooksOK ==
  /\ status \in [Books -> {"due", "running", "review"}] /\ made \in [Books -> Nat]
  /\ report \in [Books -> Reports]

SessionOK ==
  /\ view \in Views /\ asked \in Requests \cup {Nothing} /\ loader \in Loaders
  /\ loader.step \in {"read report", "find evidence", "send"} <=> loader.request # Nothing
  /\ cache \in Evidence /\ events \in Seq(Loads) /\ missed \in BOOLEAN

LEMMA TypeParts == (TypeOK <=> BooksOK /\ SessionOK) /\ (TypeOK' <=> BooksOK' /\ SessionOK')
  BY DEF TypeOK, BooksOK, SessionOK

Rest == Addressed /\ Loaded /\ Sourced /\ ViewIsCurrent /\ Blank

LEMMA OneIsItem == 1 \in Items /\ 1 \in Nat
  BY SessionAssumption DEF Items

LEMMA IdleFacts ==
  ASSUME NEW step \in {"none", "idle", "dying", "gone"}
  PROVE  /\ Idle(step) \in Loaders /\ Idle(step).step = step /\ Idle(step).request = Nothing
         /\ Idle(step).report = Nothing /\ Idle(step).evidence = Nothing
  BY OneIsItem DEF Idle, Loaders, Reports

LEMMA OldRequest ==
  ASSUME NEW r \in Requests \cup {Nothing}
  PROVE  /\ Old(r) \in Requests \cup {Nothing} /\ ~Live(Old(r)) /\ (Old(r) = Nothing <=> r = Nothing)
         /\ r # Nothing => Old(r).book = r.book
<1>1. CASE r = Nothing
  BY <1>1 DEF Old, Live
<1>2. CASE r # Nothing
  <2>1. r \in Requests /\ Old(r) = [r EXCEPT !.fresh = FALSE]
    BY <1>2 DEF Old
  <2>2. Old(r) \in Requests /\ Old(r).fresh = FALSE /\ Old(r).book = r.book
    BY <2>1 DEF Requests
  <2>. QED
    BY <1>2, <2>2, SessionAssumption DEF Live
<1>. QED
  BY <1>1, <1>2

LEMMA OldLoad ==
  ASSUME NEW e \in Loads
  PROVE  /\ Old(e) \in Loads /\ Old(e).fresh = FALSE /\ Old(e).book = e.book
         /\ Old(e).evidence = e.evidence
<1>1. e # Nothing /\ Old(e) = [e EXCEPT !.fresh = FALSE]
  BY SessionAssumption DEF Old
<1>. QED
  BY <1>1 DEF Loads

(* What the end of a generation leaves of the thread's work.               *)
LEMMA StaleFacts ==
  ASSUME SessionOK
  PROVE  /\ StaleLoader \in Loaders /\ StaleLoader.step = loader.step
         /\ StaleLoader.request = Old(loader.request) /\ StaleLoader.evidence = loader.evidence
         /\ StaleEvents \in Seq(Loads) /\ DOMAIN StaleEvents = DOMAIN events
         /\ \A i \in DOMAIN events :
              /\ StaleEvents[i].fresh = FALSE /\ StaleEvents[i].book = events[i].book
              /\ StaleEvents[i].evidence = events[i].evidence
<1>1. loader \in Loaders /\ loader.request \in Requests \cup {Nothing} /\ events \in Seq(Loads)
  BY DEF SessionOK, Loaders
<1>2. Old(loader.request) \in Requests \cup {Nothing}
  BY <1>1, OldRequest
<1>3. /\ StaleLoader \in Loaders /\ StaleLoader.step = loader.step
      /\ StaleLoader.request = Old(loader.request) /\ StaleLoader.evidence = loader.evidence
  BY <1>1, <1>2 DEF StaleLoader, Loaders
<1>4. \A i \in DOMAIN events : events[i] \in Loads
  BY <1>1
<1>5. \A i \in DOMAIN events :
        /\ Old(events[i]) \in Loads /\ Old(events[i]).fresh = FALSE
        /\ Old(events[i]).book = events[i].book /\ Old(events[i]).evidence = events[i].evidence
  BY <1>4, OldLoad
<1>6. Len(events) \in Nat /\ DOMAIN events = 1..Len(events)
  BY <1>1
<1>7. StaleEvents = [i \in 1..Len(events) |-> Old(events[i])]
  BY <1>6 DEF StaleEvents
<1>8. StaleEvents \in Seq(Loads)
  BY <1>5, <1>6, <1>7
<1>. QED
  BY <1>3, <1>5, <1>6, <1>7, <1>8

-----------------------------------------------------------------------------
(* A new request ends every load before it.                                *)
LEMMA RequestKeeps ==
  ASSUME SessionOK, Sourced, NEW v \in Views, v.book \in Books, NEW advance \in BOOLEAN,
         RequestLoad(v, advance)
  PROVE  SessionOK' /\ Rest' /\ view'.book = v.book
<1> DEFINE busy == [v EXCEPT !.busy = TRUE, !.evidence = Nothing]
           request == [book |-> v.book, index |-> v.index, advance |-> advance, fresh |-> TRUE]
<1>1. /\ busy \in Views /\ busy.book = v.book /\ busy.busy /\ busy.evidence = Nothing
  BY DEF Views
<1>2. /\ Failed(v) \in Views /\ Failed(v).book = v.book /\ Failed(v).report = Nothing
      /\ Failed(v).evidence = Nothing
  BY DEF Views, Failed, Reports
<1>3. request \in Requests /\ request.book = v.book /\ request # Nothing
  <2>1. v.index \in Items
    BY DEF Views
  <2>2. request \in Requests /\ request.book = v.book
    BY <2>1 DEF Requests
  <2>. QED
    BY <2>2, SessionAssumption
<1>4. /\ view' \in {busy, Failed(v)} /\ asked' \in {request, Old(asked), Nothing}
      /\ \/ loader' = StaleLoader /\ events' = StaleEvents /\ cache' = cache
         \/ loader' \in {Idle("idle"), Idle("none")} /\ events' = << >> /\ cache' = NoEvidence
      /\ missed' = FALSE
  BY DEF RequestLoad
<1> HIDE DEF busy, request
<1>5. /\ view' \in Views /\ view'.book = v.book /\ view'.evidence = Nothing
      /\ view'.report = Nothing \/ view'.busy
  BY <1>1, <1>2, <1>4
<1>6. asked' \in Requests \cup {Nothing} /\ (Live(asked') => asked'.book = v.book)
  <2>1. Old(asked) \in Requests \cup {Nothing} /\ ~Live(Old(asked))
    BY OldRequest DEF SessionOK
  <2>2. ~Live(Nothing)
    BY DEF Live
  <2>. QED
    BY <1>3, <1>4, <2>1, <2>2
<1>7. /\ loader' \in Loaders /\ ~Live(loader'.request) /\ cache' \in Evidence
      /\ loader'.step \in {"read report", "find evidence", "send"} <=> loader'.request # Nothing
      /\ loader'.evidence # Nothing =>
           loader'.request # Nothing /\ loader'.evidence.book = loader'.request.book
      /\ events' \in Seq(Loads)
      /\ \A i \in DOMAIN events' : events'[i].fresh = FALSE /\ Of(events'[i].evidence, events'[i].book)
  <2>1. CASE loader' = StaleLoader /\ events' = StaleEvents /\ cache' = cache
    <3>1. loader.request \in Requests \cup {Nothing}
      BY DEF SessionOK, Loaders
    <3>2. ~Live(Old(loader.request)) /\ (Old(loader.request) = Nothing <=> loader.request = Nothing)
          /\ (loader.request # Nothing => Old(loader.request).book = loader.request.book)
      BY <3>1, OldRequest
    <3>3. cache \in Evidence
          /\ (loader.step \in {"read report", "find evidence", "send"} <=> loader.request # Nothing)
      BY DEF SessionOK
    <3>4. loader'.evidence # Nothing =>
            loader'.request # Nothing /\ loader'.evidence.book = loader'.request.book
      BY <2>1, <3>2, StaleFacts DEF Sourced
    <3>5. \A i \in DOMAIN events' : events'[i].fresh = FALSE /\ Of(events'[i].evidence, events'[i].book)
      BY <2>1, StaleFacts DEF Sourced, Of
    <3>. QED
      BY <2>1, <3>2, <3>3, <3>4, <3>5, StaleFacts
  <2>2. CASE loader' \in {Idle("idle"), Idle("none")} /\ events' = << >> /\ cache' = NoEvidence
    <3>1. NoEvidence \in Evidence
      BY DEF NoEvidence, Evidence
    <3>2. events' \in Seq(Loads) /\ DOMAIN events' = {}
      BY <2>2
    <3>. QED
      BY <2>2, <3>1, <3>2, IdleFacts DEF Live
  <2>. QED
    BY <1>4, <2>1, <2>2
<1>8. SessionOK'
  BY <1>4, <1>5, <1>6, <1>7 DEF SessionOK
<1>9. Addressed' /\ Loaded'
  BY <1>5, <1>6, <1>7 DEF Addressed, Loaded
<1>10. Sourced'
  BY <1>7 DEF Sourced
<1>11. ViewIsCurrent' /\ Blank'
  BY <1>5, SessionAssumption DEF ViewIsCurrent, Blank
<1>. QED
  BY <1>5, <1>8, <1>9, <1>10, <1>11 DEF Rest

-----------------------------------------------------------------------------
(* A poll shows the loads that ended.                                      *)

Good(v) ==
  /\ v \in Views /\ v.book = view.book /\ Of(v.evidence, v.book)
  /\ v.report # Nothing /\ ~v.busy /\ ~missed /\ InReview(v.book) => v.report = report[v.book]
  /\ v.book = Nothing => v.report = Nothing /\ v.evidence = Nothing

LEMMA FailedFacts ==
  ASSUME NEW v \in Views
  PROVE  /\ Failed(v) \in Views /\ Failed(v).book = v.book /\ Failed(v).report = Nothing
         /\ Failed(v).evidence = Nothing
  BY DEF Views, Failed, Reports

LEMMA EventFacts ==
  ASSUME TypeOK
  PROVE  /\ events \in Seq(Loads) /\ Len(events) \in Nat /\ DOMAIN events = 1..Len(events)
         /\ \A i \in DOMAIN events : events[i] \in Loads
<1>1. events \in Seq(Loads)
  BY DEF TypeOK
<1>. QED
  BY <1>1

LEMMA StepIsGood ==
  ASSUME TypeOK, Addressed, Loaded, Sourced, NEW i \in DOMAIN events, NEW v, Good(v)
  PROVE  Good(Step(v, i))
<1> DEFINE e == events[i]
<1>1. e \in Loads
  BY EventFacts
<1>2. CASE ~Shows(e, view.book)
  BY <1>2 DEF Step
<1>3. CASE Shows(e, view.book) /\ e.report = Nothing
  <2>1. Step(v, i) = Failed(v)
    BY <1>3 DEF Step, Shown
  <2>. QED
    BY <2>1, FailedFacts DEF Good, Of
<1>4. CASE Shows(e, view.book) /\ e.report # Nothing
  <2> DEFINE w == [v EXCEPT !.busy = FALSE, !.report = e.report, !.index = e.index, !.evidence = e.evidence]
  <2>1. Step(v, i) = w
    BY <1>4 DEF Step, Shown
  <2>2. e.fresh /\ e.book = view.book /\ e.book \in Books
    BY <1>1, <1>4 DEF Shows, Loads
  <2>3. /\ w \in Views /\ w.book = v.book /\ w.report = e.report /\ w.evidence = e.evidence
    BY <1>1 DEF Good, Views, Loads
  <2>4. Of(e.evidence, e.book) /\ (~missed /\ InReview(e.book) => e.report = report[e.book])
    BY <1>4, <2>2 DEF Sourced, Loaded, OnDisk
  <2>5. view.book # Nothing /\ v.book = view.book
    BY <2>2, SessionAssumption DEF Good
  <2> HIDE DEF w, e
  <2>. QED
    BY <2>1, <2>2, <2>3, <2>4, <2>5 DEF Good
<1>. QED
  BY <1>2, <1>3, <1>4

LEMMA DrainedIsGood ==
  ASSUME TypeOK, Addressed, Loaded, Sourced, ViewIsCurrent, Blank
  PROVE  Good(Drained)
<1> DEFINE S == {i \in 0..Len(events) : Good(Seen[i])}
<1>1. Len(events) \in Nat /\ DOMAIN events = 1..Len(events)
  BY EventFacts
<1>2. \A i \in 0..Len(events) : Seen[i] = IF i = 0 THEN view ELSE Step(Seen[i - 1], i)
  BY <1>1, SeenSteps
<1>3. Good(view)
  BY DEF TypeOK, ViewIsCurrent, Blank, Good, Of
<1>4. 0 \in S
  BY <1>1, <1>2, <1>3
<1>5. ASSUME NEW i \in 1..Len(events), i - 1 \in S PROVE i \in S
  <2>1. Good(Seen[i - 1]) /\ i \in DOMAIN events
    BY <1>1, <1>5
  <2>2. Good(Step(Seen[i - 1], i))
    BY <2>1, StepIsGood
  <2>. QED
    BY <1>1, <1>2, <2>2
<1>6. Len(events) \in S
  <2> HIDE DEF S
  <2>1. 0..Len(events) \subseteq S
    BY <1>1, <1>4, <1>5, Induction
  <2>. QED
    BY <1>1, <2>1
<1>7. Good(Seen[Len(events)])
  BY <1>6
<1>8. Good(Failed(Seen[Len(events)]))
  BY <1>7, FailedFacts DEF Good, Of
<1>. QED
  BY <1>7, <1>8 DEF Drained

-----------------------------------------------------------------------------
LEMMA PollKeeps ==
  ASSUME SInv, Poll
  PROVE  SInv'
<1> DEFINE shown == IF \E b \in Books : status'[b] = "review"
                      THEN CHOOSE b \in Books : status'[b] = "review" ELSE Nothing
<1>1. TypeOK /\ BooksOK /\ SessionOK /\ Turn /\ Quiet /\ Addressed /\ Loaded /\ Sourced
      /\ ViewIsCurrent /\ Blank
  BY TypeParts DEF SInv
<1>2. \/ status' = status
      \/ /\ \A b \in Books : status[b] = "due"
         /\ \E b \in Books : status' = [status EXCEPT ![b] = "running"]
  BY DEF Poll, Launched, Active
<1>3. status' \in [Books -> {"due", "running", "review"}] /\ BooksOK' /\ Turn'
      /\ ((\E b \in Books : status'[b] = "running") => shown = Nothing)
  <2>1. CASE status' = status
    <3>1. BooksOK' /\ Turn'
      BY <1>1, <2>1 DEF Poll, BooksOK, Turn
    <3>2. ASSUME NEW b \in Books, status'[b] = "running", NEW c \in Books, status'[c] = "review"
          PROVE  FALSE
      BY <1>1, <2>1, <3>2 DEF Turn
    <3>. QED
      BY <3>1, <3>2 DEF BooksOK
  <2>2. ASSUME \A b \in Books : status[b] = "due",
               NEW b \in Books, status' = [status EXCEPT ![b] = "running"]
        PROVE  status' \in [Books -> {"due", "running", "review"}] /\ BooksOK' /\ Turn'
               /\ shown = Nothing
    <3>1. status \in [Books -> {"due", "running", "review"}]
      BY <1>1 DEF BooksOK
    <3>2. \A c \in Books : status'[c] = IF c = b THEN "running" ELSE "due"
      BY <2>2, <3>1
    <3>3. status' \in [Books -> {"due", "running", "review"}]
      BY <2>2, <3>1
    <3>4. BooksOK'
      BY <1>1, <3>3 DEF Poll, BooksOK
    <3>5. Turn'
      BY <3>2 DEF Turn
    <3>. QED
      BY <3>2, <3>3, <3>4, <3>5
  <2>. QED
    BY <1>2, <2>1, <2>2
<1>4. shown \in Books \cup {Nothing}
  OBVIOUS
<1>9. \A b \in Books : status'[b] = "review" => status[b] = "review"
  BY <1>1, <1>2 DEF BooksOK
<1>5. report' = report
  BY DEF Poll
<1>6. \/ /\ view.book = shown /\ view' = Drained /\ events' = << >>
         /\ UNCHANGED <<asked, loader, cache, missed>>
      \/ /\ view.book # shown /\ shown = Nothing
         /\ view' = NoView(Nothing) /\ asked' = Old(asked) /\ loader' = StaleLoader
         /\ events' = << >> /\ missed' = FALSE /\ UNCHANGED cache
      \/ view.book # shown /\ shown # Nothing /\ RequestLoad(NoView(shown), FALSE)
  BY DEF Poll
<1> HIDE DEF shown
<1>7. SessionOK' /\ Rest' /\ view'.book = shown
  <2>1. CASE /\ view.book = shown /\ view' = Drained /\ events' = << >>
             /\ UNCHANGED <<asked, loader, cache, missed>>
    <3>1. Good(Drained)
      BY <1>1, DrainedIsGood
    <3>2. /\ view' \in Views /\ view'.book = view.book /\ Of(view'.evidence, view'.book)
          /\ view'.report # Nothing /\ ~view'.busy /\ ~missed' /\ status'[view'.book] = "review" =>
               view'.report = report'[view'.book]
          /\ view'.book = Nothing => view'.report = Nothing /\ view'.evidence = Nothing
      <4>1. view'.report # Nothing => view'.book \in Books
        BY <2>1, <3>1 DEF Good, Views
      <4>. QED
        BY <1>5, <1>9, <2>1, <3>1, <4>1 DEF Good, InReview
    <3>3. events' \in Seq(Loads) /\ DOMAIN events' = {}
      BY <2>1
    <3>4. SessionOK'
      BY <1>1, <2>1, <3>2, <3>3 DEF SessionOK
    <3>5. Addressed' /\ Loaded'
      <4>1. asked' = asked /\ loader' = loader /\ missed' = missed
        BY <2>1
      <4>2. (Live(asked') => asked'.book = view'.book)
            /\ (Live(loader'.request) => loader'.request.book = view'.book)
        BY <1>1, <3>2, <4>1 DEF Addressed
      <4>3. ~missed' /\ Live(loader'.request) /\ loader'.report # Nothing
              /\ status'[loader'.request.book] = "review" =>
              loader'.report = report'[loader'.request.book]
        <5>1. Live(loader.request) => loader.request.book \in Books
          BY <1>1 DEF SessionOK, Loaders, Requests, Live
        <5>. QED
          BY <1>1, <1>5, <1>9, <4>1, <5>1 DEF Loaded, OnDisk, InReview
      <4>. QED
        BY <3>3, <4>2, <4>3 DEF Addressed, Loaded, OnDisk, InReview
    <3>6. Sourced'
      BY <1>1, <2>1, <3>3 DEF Sourced
    <3>7. ViewIsCurrent' /\ Blank'
      BY <3>2 DEF ViewIsCurrent, Blank, Of, InReview
    <3>. QED
      BY <2>1, <3>2, <3>4, <3>5, <3>6, <3>7 DEF Rest
  <2>2. CASE /\ view.book # shown /\ shown = Nothing
             /\ view' = NoView(Nothing) /\ asked' = Old(asked) /\ loader' = StaleLoader
             /\ events' = << >> /\ missed' = FALSE /\ UNCHANGED cache
    <3>1. /\ view' \in Views /\ view'.book = Nothing /\ view'.report = Nothing
          /\ view'.evidence = Nothing
      BY <2>2, OneIsItem DEF NoView, Views, Reports
    <3>2. events' \in Seq(Loads) /\ DOMAIN events' = {}
      BY <2>2
    <3>3. asked' \in Requests \cup {Nothing} /\ ~Live(asked')
      BY <1>1, <2>2, OldRequest DEF SessionOK
    <3>4. /\ loader' \in Loaders /\ ~Live(loader'.request)
          /\ loader'.step \in {"read report", "find evidence", "send"} <=> loader'.request # Nothing
          /\ loader'.evidence # Nothing =>
               loader'.request # Nothing /\ loader'.evidence.book = loader'.request.book
      <4>1. loader.request \in Requests \cup {Nothing}
            /\ (loader.step \in {"read report", "find evidence", "send"} <=> loader.request # Nothing)
        BY <1>1 DEF SessionOK, Loaders
      <4>2. ~Live(Old(loader.request)) /\ (Old(loader.request) = Nothing <=> loader.request = Nothing)
            /\ (loader.request # Nothing => Old(loader.request).book = loader.request.book)
        BY <4>1, OldRequest
      <4>. QED
        BY <1>1, <2>2, <4>1, <4>2, StaleFacts DEF Sourced
    <3>5. SessionOK'
      BY <1>1, <2>2, <3>1, <3>2, <3>3, <3>4 DEF SessionOK
    <3>6. Addressed' /\ Loaded' /\ Sourced'
      BY <3>2, <3>3, <3>4 DEF Addressed, Loaded, Sourced
    <3>7. ViewIsCurrent' /\ Blank'
      BY <3>1 DEF ViewIsCurrent, Blank
    <3>. QED
      BY <2>2, <3>1, <3>5, <3>6, <3>7 DEF Rest
  <2>3. CASE view.book # shown /\ shown # Nothing /\ RequestLoad(NoView(shown), FALSE)
    <3>1. shown \in Books
      BY <1>4, <2>3
    <3>2. NoView(shown) \in Views /\ NoView(shown).book = shown
      BY <3>1, OneIsItem DEF NoView, Views, Reports
    <3>. QED
      BY <1>1, <2>3, <3>1, <3>2, RequestKeeps
  <2>. QED
    BY <1>6, <2>1, <2>2, <2>3
<1>8. Quiet'
  BY <1>3, <1>7 DEF Quiet
<1>. QED
  BY <1>3, <1>7, <1>8, TypeParts DEF SInv, Rest

-----------------------------------------------------------------------------
LEMMA InitInv == Init => SInv
<1> SUFFICES ASSUME Init PROVE SInv
  OBVIOUS
<1>1. BooksOK /\ Turn
  BY DEF Init, BooksOK, Turn, Reports
<1>2. /\ view \in Views /\ view.book = Nothing /\ view.report = Nothing /\ view.evidence = Nothing
  BY OneIsItem DEF Init, NoView, Views, Reports
<1>3. cache \in Evidence /\ events \in Seq(Loads) /\ DOMAIN events = {} /\ missed \in BOOLEAN
  <2>1. cache = NoEvidence /\ events = << >> /\ missed = FALSE
    BY DEF Init
  <2>2. NoEvidence \in Evidence
    BY DEF NoEvidence, Evidence
  <2>3. << >> \in Seq(Loads) /\ DOMAIN << >> = {}
    OBVIOUS
  <2>. QED
    BY <2>1, <2>2, <2>3, Zenon
<1>4. /\ loader \in Loaders /\ loader.step = "none" /\ loader.request = Nothing
      /\ loader.evidence = Nothing /\ asked = Nothing
  BY IdleFacts DEF Init
<1>5. SessionOK
  BY <1>2, <1>3, <1>4 DEF SessionOK
<1>6. Addressed /\ Loaded /\ Sourced
  BY <1>3, <1>4 DEF Addressed, Loaded, Sourced, Live
<1>. QED
  BY <1>1, <1>2, <1>5, <1>6, TypeParts DEF SInv, Quiet, Blank, ViewIsCurrent

LEMMA NavigateKeeps ==
  ASSUME SInv, NEW b \in Books, NEW index \in Items, Navigate(b, index)
  PROVE  SInv'
<1> DEFINE v == [view EXCEPT !.index = index]
<1>1. BooksOK /\ SessionOK /\ Turn /\ Quiet /\ Sourced /\ view \in Views
  BY TypeParts DEF SInv, SessionOK
<1>2. v \in Views /\ v.book = view.book /\ view.book = b
  BY <1>1 DEF Views, Navigate
<1>3. RequestLoad(v, FALSE)
  BY DEF Navigate
<1>4. SessionOK' /\ Rest' /\ view'.book = view.book
  <2> HIDE DEF v
  <2>. QED
    BY <1>1, <1>2, <1>3, RequestKeeps
<1>5. status' = status /\ made' = made /\ report' = report
  BY DEF Navigate, books
<1>6. BooksOK' /\ Turn' /\ Quiet'
  BY <1>1, <1>4, <1>5 DEF BooksOK, Turn, Quiet
<1>. QED
  BY <1>4, <1>6, TypeParts DEF SInv, Rest

LEMMA DecideKeeps ==
  ASSUME SInv, NEW b \in Books, Decide(b)
  PROVE  SInv'
<1> DEFINE decided == report[b] \cup {view.index}
<1>1. BooksOK /\ SessionOK /\ Turn /\ Quiet /\ Addressed /\ Sourced /\ ViewIsCurrent /\ Blank
      /\ view \in Views /\ report \in [Books -> Reports]
  BY TypeParts DEF SInv, SessionOK, BooksOK
<1>2. /\ view.book = b /\ report[b] # Nothing /\ status' = status /\ made' = made
      /\ \/ report' = [report EXCEPT ![b] = decided] /\ RequestLoad(view, TRUE)
         \/ /\ \E left \in {report[b], decided, Nothing} : report' = [report EXCEPT ![b] = left]
            /\ missed' = TRUE /\ UNCHANGED <<view, asked, loader, cache, events>>
  BY DEF Decide
<1>3. decided \in Reports /\ report[b] \in Reports /\ Nothing \in Reports
  <2>1. report[b] \in SUBSET Items /\ view.index \in Items
    BY <1>1, <1>2 DEF Reports, Views
  <2>. QED
    BY <2>1 DEF Reports
<1>4. report' \in [Books -> Reports]
  <2>1. \E left \in {report[b], decided, Nothing} : report' = [report EXCEPT ![b] = left]
    BY <1>2
  <2> HIDE DEF decided
  <2>2. PICK left \in Reports : report' = [report EXCEPT ![b] = left]
    BY <1>3, <2>1
  <2>. QED
    BY <1>1, <2>2
<1>5. BooksOK' /\ Turn'
  BY <1>1, <1>2, <1>4 DEF BooksOK, Turn
<1>6. SessionOK' /\ Rest' /\ view'.book = view.book
  <2>1. CASE RequestLoad(view, TRUE)
    BY <1>1, <1>2, <2>1, RequestKeeps
  <2>2. CASE missed' = TRUE /\ UNCHANGED <<view, asked, loader, cache, events>>
    <3>1. SessionOK'
      BY <1>1, <2>2 DEF SessionOK
    <3>2. Addressed' /\ Loaded' /\ Sourced'
      BY <1>1, <2>2 DEF Addressed, Loaded, Sourced
    <3>3. ViewIsCurrent' /\ Blank'
      BY <1>1, <2>2 DEF ViewIsCurrent, Blank
    <3>. QED
      BY <2>2, <3>1, <3>2, <3>3 DEF Rest
  <2>. QED
    BY <1>2, <2>1, <2>2
<1>7. Quiet'
  BY <1>1, <1>2, <1>6 DEF Quiet
<1>. QED
  BY <1>5, <1>6, <1>7, TypeParts DEF SInv, Rest

(* The steps that change only the books, or one that nothing on the screen *)
(* or on its way there is about.                                           *)
LEMMA SessionStays ==
  ASSUME SInv, UNCHANGED session,
         \A b \in Books : view.book = b /\ status'[b] = "review" =>
                            status[b] = "review" /\ report'[b] = report[b]
  PROVE  SessionOK' /\ Rest'
<1>1. SessionOK /\ Addressed /\ Loaded /\ Sourced /\ ViewIsCurrent /\ Blank
  BY TypeParts DEF SInv
<1>2. /\ view' = view /\ asked' = asked /\ loader' = loader /\ cache' = cache /\ events' = events
      /\ missed' = missed
  BY DEF session
<1>3. SessionOK' /\ Addressed' /\ Sourced' /\ Blank'
  BY <1>1, <1>2 DEF SessionOK, Addressed, Sourced, Blank
<1>4. Loaded'
  <2>1. ASSUME ~missed, Live(loader.request) PROVE OnDisk(loader.report, loader.request.book)'
    <3>1. loader.request \in Requests
      BY <1>1, <2>1 DEF SessionOK, Loaders, Live
    <3>2. loader.request.book \in Books /\ loader.request.book = view.book
      BY <1>1, <2>1, <3>1 DEF Requests, Addressed
    <3>. QED
      BY <1>1, <1>2, <2>1, <3>2 DEF Loaded, OnDisk, InReview
  <2>2. ASSUME ~missed, NEW i \in DOMAIN events, events[i].fresh
        PROVE  OnDisk(events[i].report, events[i].book)'
    <3>1. events[i] \in Loads
      BY EventFacts DEF SInv
    <3>2. events[i].book \in Books /\ events[i].book = view.book
      BY <1>1, <2>2, <3>1 DEF Loads, Addressed
    <3>. QED
      BY <1>1, <1>2, <2>2, <3>2 DEF Loaded, OnDisk, InReview
  <2>. QED
    BY <1>2, <2>1, <2>2 DEF Loaded, OnDisk, InReview
<1>5. ViewIsCurrent'
  <2>1. view.report # Nothing => view.book \in Books
    BY <1>1 DEF SessionOK, Views, Blank
  <2>. QED
    BY <1>1, <1>2, <2>1 DEF ViewIsCurrent, InReview
<1>. QED
  BY <1>3, <1>4, <1>5 DEF Rest

LEMMA LeaveKeeps ==
  ASSUME SInv, NEW b \in Books, Leave(b)
  PROVE  SInv'
<1>1. BooksOK /\ Turn /\ Quiet
  BY TypeParts DEF SInv
<1>2. status' = [status EXCEPT ![b] = "due"] /\ made' = made /\ report' = report /\ UNCHANGED session
  BY DEF Leave
<1>3. \A c \in Books : status'[c] = IF c = b THEN "due" ELSE status[c]
  BY <1>1, <1>2 DEF BooksOK
<1>4. SessionOK' /\ Rest'
  BY <1>2, <1>3, SessionStays
<1>5. BooksOK'
  BY <1>1, <1>2 DEF BooksOK
<1>6. Turn' /\ Quiet'
  BY <1>1, <1>2, <1>3 DEF Turn, Quiet, session
<1>. QED
  BY <1>4, <1>5, <1>6, TypeParts DEF SInv, Rest

(* The report is written and no load follows: either the book leaves the   *)
(* review, or the command has failed half way.                             *)
LEMMA ContinueKeeps ==
  ASSUME SInv, NEW b \in Books, ContinueWithoutUnmatched(b)
  PROVE  SInv'
<1>1. BooksOK /\ SessionOK /\ Turn /\ Quiet /\ Addressed /\ Sourced /\ ViewIsCurrent /\ Blank
      /\ report \in [Books -> Reports] /\ Items \in Reports /\ Nothing \in Reports
  BY TypeParts DEF SInv, BooksOK, Reports
<1>2. /\ view.book = b /\ made' = made /\ UNCHANGED <<view, asked, loader, cache, events>>
      /\ \/ /\ report' = [report EXCEPT ![b] = Items] /\ status' = [status EXCEPT ![b] = "due"]
            /\ missed' = missed
         \/ /\ \E left \in {report[b], Items, Nothing} : report' = [report EXCEPT ![b] = left]
            /\ missed' = TRUE /\ status' = status
  BY DEF ContinueWithoutUnmatched
<1>3. CASE /\ report' = [report EXCEPT ![b] = Items] /\ status' = [status EXCEPT ![b] = "due"]
           /\ missed' = missed
  <2>1. \A c \in Books : status'[c] = IF c = b THEN "due" ELSE status[c]
    BY <1>1, <1>3 DEF BooksOK
  <2>2. SessionOK' /\ Rest'
    BY <1>2, <1>3, <2>1, SessionStays DEF session
  <2>3. BooksOK'
    BY <1>1, <1>2, <1>3 DEF BooksOK
  <2>4. Turn' /\ Quiet'
    BY <1>1, <1>2, <2>1 DEF Turn, Quiet
  <2>. QED
    BY <2>2, <2>3, <2>4, TypeParts DEF SInv, Rest
<1>4. CASE /\ \E left \in {report[b], Items, Nothing} : report' = [report EXCEPT ![b] = left]
           /\ missed' = TRUE /\ status' = status
  <2>1. PICK left \in Reports : report' = [report EXCEPT ![b] = left]
    BY <1>1, <1>4
  <2>2. BooksOK' /\ Turn' /\ Quiet'
    BY <1>1, <1>2, <1>4, <2>1 DEF BooksOK, Turn, Quiet
  <2>3. SessionOK'
    BY <1>1, <1>2, <1>4 DEF SessionOK
  <2>4. Addressed' /\ Loaded' /\ Sourced'
    BY <1>1, <1>2, <1>4 DEF Addressed, Loaded, Sourced
  <2>5. ViewIsCurrent' /\ Blank'
    BY <1>1, <1>2, <1>4 DEF ViewIsCurrent, Blank
  <2>. QED
    BY <2>2, <2>3, <2>4, <2>5, TypeParts DEF SInv
<1>. QED
  BY <1>2, <1>3, <1>4

LEMMA ProduceKeeps ==
  ASSUME SInv, NEW b \in Books, Produce(b)
  PROVE  SInv'
<1>1. BooksOK /\ Turn /\ Quiet
  BY TypeParts DEF SInv
<1>2. /\ status[b] = "running" /\ status' = [status EXCEPT ![b] = "review"] /\ UNCHANGED session
      /\ \E run \in {made[b], made[b] + 1} \cap 0..MaxRuns : made' = [made EXCEPT ![b] = run]
      /\ \E restored \in SUBSET Items : report' = [report EXCEPT ![b] = restored]
  BY DEF Produce
<1>3. view.book = Nothing
  BY <1>1, <1>2 DEF Quiet
<1>4. SessionOK' /\ Rest'
  BY <1>2, <1>3, SessionStays, SessionAssumption
<1>5. \A c \in Books : status'[c] = IF c = b THEN "review" ELSE status[c]
  BY <1>1, <1>2 DEF BooksOK
<1>6. BooksOK'
  <2>1. status' \in [Books -> {"due", "running", "review"}]
    BY <1>1, <1>2 DEF BooksOK
  <2>2. made' \in [Books -> Nat]
    BY <1>1, <1>2 DEF BooksOK
  <2>3. report' \in [Books -> Reports]
    BY <1>1, <1>2 DEF BooksOK, Reports
  <2>. QED
    BY <2>1, <2>2, <2>3 DEF BooksOK
<1>7. Turn' /\ Quiet'
  BY <1>1, <1>2, <1>3, <1>5 DEF Turn, Quiet, session
<1>. QED
  BY <1>4, <1>6, <1>7, TypeParts DEF SInv, Rest

-----------------------------------------------------------------------------
(* The steps of the thread, which finds the books and the screen as they   *)
(* are.                                                                    *)

AskedOK == asked \in Requests \cup {Nothing} /\ (Live(asked) => asked.book = view.book)

LoaderOK ==
  /\ loader \in Loaders
  /\ loader.step \in {"read report", "find evidence", "send"} <=> loader.request # Nothing
  /\ Live(loader.request) =>
       loader.request.book = view.book /\ (~missed => OnDisk(loader.report, loader.request.book))
  /\ loader.evidence # Nothing =>
       loader.request # Nothing /\ loader.evidence.book = loader.request.book

EventsOK ==
  /\ events \in Seq(Loads)
  /\ \A i \in DOMAIN events :
       /\ events[i].fresh =>
            events[i].book = view.book /\ (~missed => OnDisk(events[i].report, events[i].book))
       /\ Of(events[i].evidence, events[i].book)

LEMMA ThreadParts ==
  SInv => AskedOK /\ LoaderOK /\ EventsOK /\ cache \in Evidence
<1> SUFFICES ASSUME SInv PROVE AskedOK /\ LoaderOK /\ EventsOK /\ cache \in Evidence
  OBVIOUS
<1>1. SessionOK /\ Addressed /\ Loaded /\ Sourced
  BY TypeParts DEF SInv
<1>2. AskedOK /\ cache \in Evidence
  BY <1>1 DEF AskedOK, SessionOK, Addressed
<1>3. LoaderOK
  BY <1>1 DEF LoaderOK, SessionOK, Addressed, Loaded, Sourced
<1>4. EventsOK
  BY <1>1 DEF EventsOK, SessionOK, Addressed, Loaded, Sourced
<1>. QED
  BY <1>2, <1>3, <1>4

LEMMA ThreadKeeps ==
  ASSUME SInv, UnchangedUI, AskedOK', LoaderOK', EventsOK', (cache \in Evidence)'
  PROVE  SInv'
<1>1. BooksOK /\ SessionOK /\ Turn /\ Quiet /\ Blank /\ ViewIsCurrent
  BY TypeParts DEF SInv
<1>2. status' = status /\ made' = made /\ report' = report /\ view' = view /\ missed' = missed
  BY DEF UnchangedUI, books
<1>3. BooksOK' /\ Turn' /\ Quiet' /\ Blank' /\ ViewIsCurrent'
  BY <1>1, <1>2 DEF BooksOK, Turn, Quiet, Blank, ViewIsCurrent, InReview
<1>4. SessionOK'
  BY <1>1, <1>2 DEF SessionOK, AskedOK, LoaderOK, EventsOK
<1>5. Addressed' /\ Loaded' /\ Sourced'
  BY DEF Addressed, Loaded, Sourced, AskedOK, LoaderOK, EventsOK
<1>. QED
  BY <1>3, <1>4, <1>5, TypeParts DEF SInv

LEMMA AskedStays == ASSUME AskedOK, UnchangedUI, UNCHANGED asked PROVE AskedOK'
  BY DEF AskedOK, UnchangedUI

LEMMA NothingAsked == ASSUME asked' = Nothing PROVE AskedOK'
  BY DEF AskedOK, Live

LEMMA EventsStay == ASSUME EventsOK, UnchangedUI, UNCHANGED events PROVE EventsOK'
<1>1. view' = view /\ missed' = missed /\ report' = report /\ status' = status /\ events' = events
  BY DEF UnchangedUI, books
<1>. QED
  BY <1>1 DEF EventsOK, OnDisk, InReview

LEMMA IdleIsOK ==
  ASSUME NEW step \in {"none", "idle", "dying", "gone"}, loader' = Idle(step)
  PROVE  LoaderOK'
  BY IdleFacts DEF LoaderOK, Live

LEMMA TakeKeeps ==
  ASSUME SInv, Take
  PROVE  SInv'
<1>1. AskedOK /\ LoaderOK /\ EventsOK /\ cache \in Evidence
  BY ThreadParts
<1>2. /\ loader.step = "idle" /\ asked # Nothing /\ asked' = Nothing /\ UnchangedUI
      /\ cache' = cache /\ events' = events
      /\ loader' = IF asked.fresh THEN [Idle("read report") EXCEPT !.request = asked] ELSE loader
  BY DEF Take
<1>3. view' = view /\ missed' = missed /\ report' = report /\ status' = status
  BY <1>2 DEF UnchangedUI, books
<1>4. LoaderOK'
  <2>1. CASE asked.fresh
    <3>1. asked \in Requests /\ asked.book = view.book
      BY <1>1, <1>2, <2>1 DEF AskedOK, Live
    <3>2. /\ loader' \in Loaders /\ loader'.step = "read report" /\ loader'.request = asked
          /\ loader'.report = Nothing /\ loader'.evidence = Nothing
      BY <1>2, <2>1, <3>1, OneIsItem DEF Idle, Loaders, Reports
    <3>. QED
      BY <1>2, <1>3, <3>1, <3>2 DEF LoaderOK, OnDisk, InReview
  <2>2. CASE ~asked.fresh
    BY <1>1, <1>2, <1>3, <2>2 DEF LoaderOK, OnDisk, InReview
  <2>. QED
    BY <2>1, <2>2
<1>. QED
  BY <1>1, <1>2, <1>4, NothingAsked, EventsStay, ThreadKeeps

LEMMA ReadReportKeeps ==
  ASSUME SInv, ReadReport
  PROVE  SInv'
<1>1. AskedOK /\ LoaderOK /\ EventsOK /\ cache \in Evidence /\ report \in [Books -> Reports]
  BY ThreadParts, TypeParts DEF SInv, BooksOK
<1> DEFINE r == loader.request
           found == report[r.book]
           next == IF r.advance /\ Pending(found) # {} THEN FirstOf(Pending(found)) ELSE r.index
<1>2. /\ loader.step = "read report" /\ UnchangedUI /\ asked' = asked /\ cache' = cache /\ events' = events
      /\ \/ loader' = [loader EXCEPT !.step = "send"]
         \/ /\ found # Nothing
            /\ loader' = [loader EXCEPT !.step = "find evidence", !.report = found, !.index = next]
  BY DEF ReadReport
<1>3. view' = view /\ missed' = missed /\ report' = report /\ status' = status
  BY <1>2 DEF UnchangedUI, books
<1>4. /\ loader \in Loaders /\ r \in Requests /\ r.book \in Books /\ r.index \in Items
      /\ found \in Reports
  <2>1. loader \in Loaders /\ r # Nothing
    BY <1>1, <1>2 DEF LoaderOK
  <2>2. r \in Requests
    BY <2>1 DEF Loaders
  <2>. QED
    BY <1>1, <2>1, <2>2 DEF Requests
<1>5. next \in Items
  <2>1. CASE Pending(found) = {}
    BY <1>4, <2>1
  <2>2. CASE Pending(found) # {}
    <3> DEFINE P == Pending(found)
    <3>1. P \in SUBSET Nat /\ P \subseteq Items /\ P # {}
      BY <2>2, SessionAssumption DEF Pending, Items
    <3>2. \E k \in P : \A j \in P : k <= j
      <4> HIDE DEF P
      <4>. QED
        BY <3>1, LeastNumber
    <3>3. FirstOf(P) \in P
      <4> HIDE DEF P
      <4>. QED
        BY <3>2 DEF FirstOf
    <3>. QED
      BY <1>4, <3>1, <3>3
  <2>. QED
    BY <2>1, <2>2
<1> HIDE DEF r, found, next
<1>6. /\ loader' \in Loaders /\ loader'.request = r /\ loader'.evidence = loader.evidence
      /\ loader'.step \in {"send", "find evidence"}
      /\ loader'.report = loader.report \/ loader'.report = found
  <2>1. CASE loader' = [loader EXCEPT !.step = "send"]
    BY <1>4, <2>1 DEF Loaders, r
  <2>2. CASE loader' = [loader EXCEPT !.step = "find evidence", !.report = found, !.index = next]
    BY <1>4, <1>5, <2>2 DEF Loaders, r
  <2>. QED
    BY <1>2, <2>1, <2>2
<1>7. r # Nothing
  BY <1>4, SessionAssumption
<1>8. Live(r) => r.book = view.book /\ (~missed => OnDisk(loader'.report, r.book))
  BY <1>1, <1>6 DEF LoaderOK, OnDisk, InReview, r, found
<1>9. LoaderOK'
  BY <1>1, <1>3, <1>6, <1>7, <1>8 DEF LoaderOK, OnDisk, InReview, r
<1>. QED
  BY <1>1, <1>2, <1>9, AskedStays, EventsStay, ThreadKeeps

LEMMA FindEvidenceKeeps ==
  ASSUME SInv, FindEvidence
  PROVE  SInv'
<1>1. AskedOK /\ LoaderOK /\ EventsOK /\ cache \in Evidence /\ made \in [Books -> Nat]
  BY ThreadParts, TypeParts DEF SInv, BooksOK
<1> DEFINE r == loader.request
<1>2. /\ loader.step = "find evidence" /\ UnchangedUI /\ asked' = asked /\ events' = events
      /\ \/ cache' = cache
         \/ cache.book # r.book /\ cache' = [book |-> r.book, made |-> made[r.book]]
      /\ \E found \in {Nothing} \cup {e \in {cache'} : e.book = r.book} :
           loader' = [loader EXCEPT !.step = "send", !.evidence = found]
  BY DEF FindEvidence
<1>3. view' = view /\ missed' = missed /\ report' = report /\ status' = status
  BY <1>2 DEF UnchangedUI, books
<1>4. loader \in Loaders /\ r \in Requests /\ r # Nothing /\ r.book \in Books
  <2>1. loader \in Loaders /\ r # Nothing
    BY <1>1, <1>2 DEF LoaderOK
  <2>2. r \in Requests
    BY <2>1 DEF Loaders
  <2>. QED
    BY <2>1, <2>2 DEF Requests
<1>5. cache' \in Evidence
  <2>1. made[r.book] \in Nat
    BY <1>1, <1>4
  <2>2. [book |-> r.book, made |-> made[r.book]] \in Evidence
    BY <1>4, <2>1 DEF Evidence
  <2>. QED
    BY <1>1, <1>2, <2>2
<1>6. PICK found \in Evidence \cup {Nothing} :
        /\ Of(found, r.book) /\ loader' = [loader EXCEPT !.step = "send", !.evidence = found]
  BY <1>2, <1>5 DEF Of
<1> HIDE DEF r
<1>7. /\ loader' \in Loaders /\ loader'.request = r /\ loader'.evidence = found
      /\ loader'.step = "send" /\ loader'.report = loader.report
  BY <1>4, <1>6 DEF Loaders, r
<1>8. LoaderOK'
  BY <1>1, <1>3, <1>4, <1>6, <1>7 DEF LoaderOK, OnDisk, InReview, Of, r
<1>. QED
  BY <1>1, <1>2, <1>5, <1>8, AskedStays, EventsStay, ThreadKeeps

LEMMA SendKeeps ==
  ASSUME SInv, Send
  PROVE  SInv'
<1>1. AskedOK /\ LoaderOK /\ EventsOK /\ cache \in Evidence
  BY ThreadParts
<1> DEFINE e == [fresh    |-> TRUE,
                 book     |-> loader.request.book,
                 report   |-> loader.report,
                 index    |-> loader.index,
                 evidence |-> loader.evidence]
<1>2. /\ loader.step = "send" /\ loader' = Idle("idle") /\ UnchangedUI /\ asked' = asked
      /\ cache' = cache
      /\ events' = events \/ (loader.request.fresh /\ events' = Append(events, e))
  BY DEF Send
<1>3. view' = view /\ missed' = missed /\ report' = report /\ status' = status
  BY <1>2 DEF UnchangedUI, books
<1>4. EventsOK'
  <2>1. CASE events' = events
    BY <1>1, <1>2, <2>1, EventsStay
  <2>2. CASE loader.request.fresh /\ events' = Append(events, e)
    <3>1. loader \in Loaders /\ loader.request # Nothing /\ Live(loader.request)
      BY <1>1, <1>2, <2>2 DEF LoaderOK, Live
    <3>2. loader.request.book \in Books
      BY <3>1 DEF Loaders, Requests
    <3>3. e \in Loads
      BY <3>1, <3>2 DEF Loaders, Loads
    <3>4. /\ e.book = view.book /\ (~missed => OnDisk(e.report, e.book)) /\ Of(e.evidence, e.book)
      BY <1>1, <3>1 DEF LoaderOK, Of
    <3> HIDE DEF e
    <3>5. events \in Seq(Loads)
      BY <1>1 DEF EventsOK
    <3>6. /\ events' \in Seq(Loads) /\ DOMAIN events' = 1..(Len(events) + 1)
          /\ DOMAIN events = 1..Len(events) /\ Len(events) \in Nat
          /\ \A i \in DOMAIN events : events'[i] = events[i]
          /\ events'[Len(events) + 1] = e
      BY <2>2, <3>3, <3>5
    <3>7. ASSUME NEW i \in DOMAIN events'
          PROVE  /\ events'[i].fresh =>
                      /\ events'[i].book = view.book
                      /\ ~missed => OnDisk(events'[i].report, events'[i].book)
                 /\ Of(events'[i].evidence, events'[i].book)
      <4>1. CASE i \in DOMAIN events
        BY <1>1, <3>6, <4>1 DEF EventsOK
      <4>2. CASE i = Len(events) + 1
        BY <3>4, <3>6, <4>2
      <4>. QED
        BY <3>6, <4>1, <4>2
    <3>. QED
      BY <1>3, <3>6, <3>7 DEF EventsOK, OnDisk, InReview
  <2>. QED
    BY <1>2, <2>1, <2>2
<1>. QED
  BY <1>1, <1>2, <1>4, AskedStays, IdleIsOK, ThreadKeeps

LEMMA PanicKeeps ==
  ASSUME SInv, Panic
  PROVE  SInv'
<1>1. EventsOK /\ cache \in Evidence
  BY ThreadParts
<1>2. /\ loader' = Idle("dying") /\ asked' = Nothing /\ UnchangedUI
      /\ cache' = cache /\ events' = events
  BY DEF Panic
<1>. QED
  BY <1>1, <1>2, IdleIsOK, NothingAsked, EventsStay, ThreadKeeps

LEMMA EndKeeps ==
  ASSUME SInv, End
  PROVE  SInv'
<1>1. AskedOK /\ EventsOK /\ cache \in Evidence
  BY ThreadParts
<1>2. loader' = Idle("gone") /\ asked' = asked /\ UnchangedUI /\ cache' = cache /\ events' = events
  BY DEF End
<1>. QED
  BY <1>1, <1>2, IdleIsOK, AskedStays, EventsStay, ThreadKeeps

-----------------------------------------------------------------------------
LEMMA StutterKeeps ==
  ASSUME SInv, UNCHANGED vars
  PROVE  SInv'
<1>1. BooksOK /\ Turn /\ Quiet
  BY TypeParts DEF SInv
<1>2. status' = status /\ made' = made /\ report' = report /\ view' = view /\ UNCHANGED session
  BY DEF vars, session
<1>3. SessionOK' /\ Rest'
  BY <1>2, SessionStays
<1>4. BooksOK' /\ Turn' /\ Quiet'
  BY <1>1, <1>2 DEF BooksOK, Turn, Quiet
<1>. QED
  BY <1>3, <1>4, TypeParts DEF SInv, Rest

LEMMA NextKeeps == SInv /\ [Next]_vars => SInv'
<1> SUFFICES ASSUME SInv, [Next]_vars PROVE SInv'
  OBVIOUS
<1>1. CASE Poll
  BY <1>1, PollKeeps
<1>2. ASSUME NEW b \in Books, NEW index \in Items, Navigate(b, index) PROVE SInv'
  BY <1>2, NavigateKeeps
<1>3. ASSUME NEW b \in Books, Decide(b) PROVE SInv'
  BY <1>3, DecideKeeps
<1>4. ASSUME NEW b \in Books, Leave(b) PROVE SInv'
  BY <1>4, LeaveKeeps
<1>9. ASSUME NEW b \in Books, ContinueWithoutUnmatched(b) PROVE SInv'
  BY <1>9, ContinueKeeps
<1>5. ASSUME NEW b \in Books, Produce(b) PROVE SInv'
  BY <1>5, ProduceKeeps
<1>6. CASE LoaderSteps
  BY <1>6, TakeKeeps, ReadReportKeeps, FindEvidenceKeeps, SendKeeps, EndKeeps DEF LoaderSteps
<1>7. CASE Panic
  BY <1>7, PanicKeeps
<1>8. CASE UNCHANGED vars
  BY <1>8, StutterKeeps
<1>. QED
  BY <1>1, <1>2, <1>3, <1>4, <1>5, <1>6, <1>7, <1>8, <1>9 DEF Next

LEMMA Invariance == Spec => []SInv
  BY InitInv, NextKeeps, PTL DEF Spec

(* Every variable keeps its type, and the thread has a request exactly     *)
(* while it works on one.                                                  *)
THEOREM SessionTypeCorrect == Spec => []TypeOK
<1>1. SInv => TypeOK
  BY DEF SInv
<1>. QED
  BY <1>1, Invariance, PTL

(* The screen never shows a stale report of the book in review, or another *)
(* book's evidence: what ReviewSession::poll takes over is still on disk,  *)
(* however many loads, decisions, runs and other books came in between -   *)
(* unless a command that rewrites the report failed half way since.        *)
THEOREM ScreenIsCurrent == Spec => []ViewIsCurrent
<1>1. SInv => ViewIsCurrent
  BY DEF SInv
<1>. QED
  BY <1>1, Invariance, PTL
=============================================================================
