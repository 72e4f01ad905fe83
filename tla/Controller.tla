----------------------------- MODULE Controller -----------------------------
(***************************************************************************)
(* ApplicationController (crates/storyteller-application/src/controller.rs)*)
(* with the threads it owns: the pipeline worker of the current book       *)
(* (storyteller-core/src/worker.rs), the runtime scan or install task, and *)
(* the recovery snapshot on disk that survives a crash.                    *)
(*                                                                         *)
(* The controller runs on the UI thread: a command or a timer poll is one  *)
(* step.  The worker thread and the runtime thread run beside it.          *)
(***************************************************************************)
EXTENDS JobQueue

CONSTANTS
  ReviewStage,  (* the stage that may ask for human review (ReviewAudio)    *)
  NoJob,        (* Option::None for a job identity                          *)
  ProfileFits   (* every stage plan fits the scheduler's resource profile   *)

ASSUME ControllerAssumption ==
  ReviewStage \in 1..NStages /\ NoJob \notin JobId /\ ProfileFits \in BOOLEAN

VARIABLES
  worker,         (* worker and worker_job_id: set and taken together       *)
  pendingCancel,  (* pending_cancel                                         *)
  runtime,        (* runtime_task: kind, and whether its thread has ended   *)
  disk,           (* the recovery snapshot as the next start will read it   *)
  dirty,          (* recovery_dirty                                         *)
  blocked,        (* recovery_blocked                                       *)
  up              (* the application is running                             *)

vars == <<queue, worker, pendingCancel, runtime, disk, dirty, blocked, up>>

NoWorker   == [phase |-> "none"]
NoUpdate   == [id |-> NoJob]
NoTask     == [kind |-> "none", ended |-> FALSE]
NoBooks    == [readable |-> TRUE, jobs |-> << >>]
Unreadable == [readable |-> FALSE, jobs |-> << >>]

Results == {"Running", "Completed", "Cancelled", "Failed", "NeedsReview",
            "WaitingForResources", "Err", "Panic"}

(* job is the thread's own copy; latest is the newest snapshot in the      *)
(* channel (drain_updates keeps the last one only); cancel is the token.   *)
WorkerType ==
  [phase  : {"preflight", "check", "stage", "ending", "ended"},
   job    : Job,
   latest : Job \cup {NoUpdate},
   cancel : BOOLEAN,
   result : Results]

-----------------------------------------------------------------------------
(* poll_worker, which every command and every poll runs first, as          *)
(* functions of the current state.                                         *)

Joined == worker # NoWorker /\ worker.phase = "ended"

HasUpdate == worker # NoWorker /\ worker.latest # NoUpdate
Rejected  == HasUpdate /\ ~Accepts(queue, worker.latest)

DrainedQueue == IF HasUpdate THEN Reconcile(queue, worker.latest) ELSE queue

(* The join: adopt the final job; an Err result, a rejected final job or a *)
(* panic fails the book if it is still active.                             *)
JoinedQueue(q) ==
  IF worker.result # "Panic" /\ worker.result # "Err" /\ Accepts(q, worker.job)
    THEN Reconcile(q, worker.job)
    ELSE Finish(IF worker.result = "Panic" THEN q ELSE Reconcile(q, worker.job),
                worker.job.id, "Failed")

(* "Keep the user's command through that final handoff."                   *)
CancelledQueue_Lost(q) == q
CancelledQueue(q) ==
  IF pendingCancel = NoJob THEN q ELSE Finish(q, pendingCancel, "Cancelled")

PolledQueue  == IF Joined THEN CancelledQueue(JoinedQueue(DrainedQueue)) ELSE DrainedQueue
PolledCancel == IF Joined THEN NoJob ELSE pendingCancel
PolledDirty  == dirty \/ Joined \/ Rejected \/ PolledQueue # queue
PolledWorker ==
  IF worker = NoWorker \/ Joined THEN NoWorker
  ELSE [worker EXCEPT !.latest = NoUpdate, !.cancel = @ \/ Rejected]

-----------------------------------------------------------------------------
(* Recovery: write_queue_recovery keeps the non-terminal jobs; a book that *)
(* was running or in review comes back Waiting, one in review without the  *)
(* results from ReviewAudio on.  How the files are replaced and what a     *)
(* crash leaves of them is the business of module QueueRecovery.           *)

IsOpen(j) == j.status \notin TerminalStatus
OpenAt(q) == {i \in DOMAIN q.jobs : IsOpen(q.jobs[i])}

(* The k-th of them.  (By position: SelectSeq is out of the proofs' reach.)*)
Rank(S, i) == Cardinality({j \in S : j <= i})
OpenBook(q, k) == q.jobs[CHOOSE i \in OpenAt(q) : Rank(OpenAt(q), i) = k]

Saved(q) ==
  [readable |-> TRUE, jobs |-> [k \in 1..Cardinality(OpenAt(q)) |-> OpenBook(q, k)]]

RecoveredJob(j) ==
  [j EXCEPT !.status = "Waiting",
            !.done = IF j.status = "NeedsReview" THEN Min({j.done, ReviewStage - 1}) ELSE j.done]

RecoveredQueue(d) ==
  IF d = NoBooks THEN EmptyQueue
  ELSE [EmptyQueue EXCEPT !.jobs = [i \in DOMAIN d.jobs |-> RecoveredJob(d.jobs[i])], !.state = "Paused"]

(* persist_recovery: the write may fail, an unforced one may be throttled; *)
(* either way the queue stays dirty and the snapshot as it was, or as the  *)
(* forced save inside poll_worker has left it.                             *)
Unsaved == {disk} \cup (IF Joined THEN {Saved(PolledQueue)} ELSE {})

Persist_AlwaysClean(q, touched) ==
  IF blocked \/ ~touched THEN disk' = disk /\ dirty' = touched
  ELSE disk' \in Unsaved \cup {Saved(q)} /\ dirty' = FALSE
Persist(q, touched) ==
  IF blocked \/ ~touched THEN disk' = disk /\ dirty' = touched
  ELSE \/ disk' = Saved(q) /\ dirty' = FALSE
       \/ disk' \in Unsaved /\ dirty' = TRUE

-----------------------------------------------------------------------------
(* Commands: dispatch polls the worker, checks, acts, touches and saves.   *)

Dispatch(q, w, cancel) ==
  /\ up
  /\ queue' = q /\ worker' = w /\ pendingCancel' = cancel
  /\ Persist(q, TRUE)
  /\ UNCHANGED <<runtime, blocked, up>>

StartNextIfIdle(q, w) ==
  IF w = NoWorker /\ runtime.kind # "install" THEN StartNext(q) ELSE q

WorkerReleased_Always(id) == TRUE
WorkerReleased(id) == PolledWorker # NoWorker => PolledWorker.job.id # id

(* A command that is refused, or is about the review player or the runtime *)
(* only, has still polled the worker; it saves only if the worker ended.   *)
PollsOnly ==
  /\ up
  /\ queue' = PolledQueue /\ worker' = PolledWorker /\ pendingCancel' = PolledCancel
  /\ IF Joined THEN Persist(PolledQueue, TRUE) ELSE disk' = disk /\ dirty' = PolledDirty
  /\ UNCHANGED <<blocked, up>>

RejectedCommand == PollsOnly /\ UNCHANGED runtime

EnqueueCommand(id, in) ==
  /\ id \notin Ids(PolledQueue)
  /\ Dispatch(StartNextIfIdle(AddJob(PolledQueue, NewJob(id, in)), PolledWorker),
              PolledWorker, PolledCancel)

PauseCommand == Dispatch(RequestPause(PolledQueue), PolledWorker, PolledCancel)

ResumeCommand ==
  Dispatch(StartNextIfIdle(ResumeQueue(PolledQueue), PolledWorker), PolledWorker, PolledCancel)

CancelActive ==
  \/ /\ PolledWorker # NoWorker
     /\ Dispatch(PolledQueue, [PolledWorker EXCEPT !.cancel = TRUE], PolledWorker.job.id)
  \/ /\ PolledWorker = NoWorker
     /\ \E i \in ActiveAt(PolledQueue) :
          Dispatch(StartNextIfIdle(Finish(PolledQueue, PolledQueue.jobs[i].id, "Cancelled"),
                                   PolledWorker),
                   PolledWorker, PolledCancel)

CancelJob(id) == Has(PolledQueue, id, ActiveStatus) /\ CancelActive

RetryCommand(id) ==
  /\ WorkerReleased(id)
  /\ Has(PolledQueue, id, {"Failed", "Cancelled"})
  /\ Dispatch(StartNextIfIdle(PutJob(PolledQueue, Scratch(JobOf(PolledQueue, id))), PolledWorker),
              PolledWorker, PolledCancel)

RemoveCommand(id) ==
  /\ WorkerReleased(id)
  /\ id \in Ids(PolledQueue) /\ ~Has(PolledQueue, id, ActiveStatus)
  /\ Dispatch(RemoveJob(PolledQueue, id), PolledWorker, PolledCancel)

MoveCommand(id, dir) ==
  CanMove(PolledQueue, id, dir)
    /\ Dispatch(MoveJob(PolledQueue, id, dir), PolledWorker, PolledCancel)

ReviewJob(id) == WorkerReleased(id) /\ Has(PolledQueue, id, {"NeedsReview"})

(* SaveReviewDecision, AssignGraphic, PreserveEdge: the report changes, the*)
(* queue does not (module AudioReview models the report).                  *)
ReviewDecision(id) == ReviewJob(id) /\ Dispatch(PolledQueue, PolledWorker, PolledCancel)

(* FinishReview on a complete report and ContinueWithoutUnmatched: the     *)
(* report is sealed and the book may run on.                               *)
FinishReview(id) ==
  ReviewJob(id)
    /\ Dispatch(WithStatus(PolledQueue, id, "Running"), PolledWorker, PolledCancel)

(* start_runtime_task returns before the queue is touched.                 *)
StartRuntimeTask(kind) ==
  /\ runtime = NoTask
  /\ kind = "install" => PolledWorker = NoWorker
  /\ runtime' = [kind |-> kind, ended |-> FALSE]
  /\ PollsOnly

-----------------------------------------------------------------------------
(* The host's timer.                                                       *)

Launched(j) ==
  [phase |-> "preflight", job |-> j, latest |-> NoUpdate, cancel |-> FALSE, result |-> "Running"]

ReapedTask == IF runtime.ended THEN NoTask ELSE runtime

MayStart == PolledWorker = NoWorker /\ ReapedTask.kind # "install"

ToLaunch_NewOnly(q) ==
  {i \in DOMAIN q.jobs : MayStart /\ q.jobs[i].status = "Running" /\ q # PolledQueue}
ToLaunch(q) == {i \in DOMAIN q.jobs : MayStart /\ q.jobs[i].status = "Running"}

Poll ==
  LET q == IF MayStart THEN StartNext(PolledQueue) ELSE PolledQueue
      touched == PolledDirty \/ q # PolledQueue
  IN  /\ up
      /\ runtime' = ReapedTask
      /\ pendingCancel' = PolledCancel
      /\ \/ ToLaunch(q) = {} /\ queue' = q /\ worker' = PolledWorker /\ Persist(q, touched)
         \/ \E i \in ToLaunch(q) :
              \/ queue' = q /\ worker' = Launched(q.jobs[i]) /\ Persist(q, touched)
              \/ LET failed == Finish(q, q.jobs[i].id, "Failed")
                 IN  queue' = failed /\ worker' = NoWorker /\ Persist(failed, TRUE)
      /\ UNCHANGED <<blocked, up>>

-----------------------------------------------------------------------------
(* The worker thread.  Every change of its job is sent as a snapshot.      *)

Sends(j, phase, result) ==
  worker' = [worker EXCEPT !.job = j, !.latest = j, !.phase = phase, !.result = result]

Ends(status) == Sends([worker.job EXCEPT !.status = status], "ending", status)

WorkerUnchanged == UNCHANGED <<queue, pendingCancel, runtime, disk, dirty, blocked, up>>

(* Preflight keeps the validated leading results, never Validate's own.    *)
Preflight ==
  /\ worker.phase = "preflight"
  /\ \E kept \in 0..Min({worker.job.done, NStages - 1}) :
       LET job == [worker.job EXCEPT !.done = kept]
       IN  \/ Sends(job, "check", "Running")
           \/ Sends([job EXCEPT !.status = "Failed"], "ending", "Failed")
           \/ worker.cancel /\ Sends([job EXCEPT !.status = "Cancelled"], "ending", "Cancelled")
  /\ WorkerUnchanged

(* The check before a stage: cancellation, plan_stage, resources.          *)
BeginStage ==
  /\ worker.phase = "check"
  /\ \/ worker.cancel /\ Ends("Cancelled")
     \/ /\ ~worker.cancel
        /\ \/ Sends(worker.job, "stage", "Running")
           \/ Ends("Failed")
           \/ ~ProfileFits /\ Sends(worker.job, "ending", "WaitingForResources")
  /\ WorkerUnchanged

(* A stage ends: it completes even when the token was set after the last   *)
(* check; ReviewAudio may ask for review; Validate completes the book.  In  *)
(* the code stages follow ReviewAudio; an instance may let one retained    *)
(* result stand for the whole run, review included.                        *)
EndStage ==
  /\ worker.phase = "stage"
  /\ LET next == [worker.job EXCEPT !.done = @ + 1]
     IN  \/ next.done < NStages /\ Sends(next, "check", "Running")
         \/ next.done = NStages /\ Sends([next EXCEPT !.status = "Completed"], "ending", "Completed")
         \/ /\ next.done = ReviewStage
            /\ Sends([next EXCEPT !.status = "NeedsReview"], "ending", "NeedsReview")
         \/ ~worker.cancel /\ Ends("Failed")
         \/ worker.cancel /\ Ends("Cancelled")
  /\ WorkerUnchanged

(* An internal error or a panic: the job is left as it is.                 *)
WorkerBreaks ==
  /\ worker.phase \in {"preflight", "check", "stage"}
  /\ \/ worker' = [worker EXCEPT !.phase = "ending", !.result = "Err"]
     \/ worker' = [worker EXCEPT !.phase = "ending", !.result = "Panic"]
  /\ WorkerUnchanged

(* The thread has sent its last snapshot; is_finished turns true later.    *)
WorkerExits ==
  /\ worker.phase = "ending"
  /\ worker' = [worker EXCEPT !.phase = "ended"]
  /\ WorkerUnchanged

WorkerRuns == Preflight \/ BeginStage \/ EndStage \/ WorkerExits

RuntimeThreadEnds ==
  /\ runtime # NoTask /\ ~runtime.ended
  /\ runtime' = [runtime EXCEPT !.ended = TRUE]
  /\ UNCHANGED <<queue, worker, pendingCancel, disk, dirty, blocked, up>>

-----------------------------------------------------------------------------
(* The process ends and starts again.                                      *)

Gone ==
  /\ queue' = EmptyQueue /\ worker' = NoWorker /\ pendingCancel' = NoJob
  /\ runtime' = NoTask /\ blocked' = FALSE /\ up' = FALSE

Crash == up /\ Gone /\ disk' = disk /\ dirty' = FALSE

(* shutdown: poll and save first, then cancel and join the worker without  *)
(* looking at what it did.                                                 *)
Shutdown ==
  /\ up /\ Gone /\ dirty' = FALSE
  /\ disk' \in IF blocked \/ ~PolledDirty THEN {disk} ELSE {disk, Saved(PolledQueue)}

(* The file is damaged, or was left by a version this one cannot read.     *)
Damage == ~up /\ disk' = Unreadable /\ UNCHANGED <<queue, worker, pendingCancel, runtime, dirty, blocked, up>>

Startup ==
  /\ ~up /\ up' = TRUE
  /\ \/ /\ disk # Unreadable
        /\ queue' = RecoveredQueue(disk)
        /\ Persist(queue', disk # NoBooks)
        /\ UNCHANGED blocked
     \/ /\ disk = Unreadable   \* preserved aside, or saving is disabled
        /\ \/ disk' = NoBooks /\ UNCHANGED blocked
           \/ disk' = disk /\ blocked' = TRUE
        /\ dirty' = FALSE /\ queue' = EmptyQueue
  /\ UNCHANGED <<worker, pendingCancel, runtime>>

-----------------------------------------------------------------------------
ControllerInit ==
  /\ Init
  /\ worker = NoWorker /\ pendingCancel = NoJob /\ runtime = NoTask
  /\ disk = NoBooks /\ dirty = FALSE /\ blocked = FALSE /\ up = FALSE

Command(id) ==
  \/ \E in \in Inputs : EnqueueCommand(id, in)
  \/ CancelJob(id)
  \/ RetryCommand(id)
  \/ RemoveCommand(id)
  \/ \E dir \in {"Up", "Down"} : MoveCommand(id, dir)
  \/ ReviewDecision(id)
  \/ FinishReview(id)

ControllerNext ==
  \/ \E id \in JobId : Command(id)
  \/ RejectedCommand \/ PauseCommand \/ ResumeCommand \/ CancelActive
  \/ \E kind \in {"scan", "install"} : StartRuntimeTask(kind)
  \/ Poll
  \/ Preflight \/ BeginStage \/ EndStage \/ WorkerBreaks \/ WorkerExits
  \/ RuntimeThreadEnds
  \/ Crash \/ Shutdown \/ Damage \/ Startup

ControllerSpec == ControllerInit /\ [][ControllerNext]_vars

(* What the next poll has to act on.                                       *)
PollDue ==
  /\ up
  /\ \/ Joined \/ HasUpdate \/ runtime.ended
     \/ ToLaunch(queue) # {}
     \/ MayStart /\ StartNext(queue) # queue

(* The host's timer fires (weak fairness of Poll, with its enabling        *)
(* condition written out: TLC evaluates ENABLED Poll too slowly), and      *)
(* threads that can run do run: downloads and stages end.                  *)
Fairness ==
  /\ []<>~PollDue \/ []<><<Poll>>_vars
  /\ WF_vars(WorkerRuns)
  /\ WF_vars(RuntimeThreadEnds)

FairSpec == ControllerSpec /\ Fairness

-----------------------------------------------------------------------------
(* Properties.                                                             *)

(* Every field has the type the Rust declarations give it; what is saved   *)
(* is a list of open books.                                                *)
ControllerTypeOK ==
  /\ TypeOK
  /\ worker \in WorkerType \cup {NoWorker}
  /\ pendingCancel \in JobId \cup {NoJob}
  /\ runtime \in [kind : {"scan", "install"}, ended : BOOLEAN] \cup {NoTask}
  /\ disk.readable \in BOOLEAN
  /\ disk.jobs \in Seq(Job) /\ \A i \in DOMAIN disk.jobs : IsOpen(disk.jobs[i])
  /\ {dirty, blocked, up} \subseteq BOOLEAN

(* The queue's own invariants survive the handlers that chain its methods. *)
QueueStaysSound == UniqueIds /\ OneActive /\ PauseConsistent

(* The thread always works on a book that is in the queue with the same    *)
(* inputs and has been started; no other book is active beside it.  So a   *)
(* late snapshot can neither be lost nor overwrite a retried book.         *)
WorkerOwnsActiveBook ==
  worker # NoWorker =>
    /\ Has(queue, worker.job.id, JobStatus \ {"Waiting"})
    /\ JobOf(queue, worker.job.id).inputs = worker.job.inputs
    /\ \A i \in ActiveAt(queue) : queue.jobs[i].id = worker.job.id

(* A remembered cancellation is about the book of the worker that is still *)
(* there, and that worker's token is set: it can never hit a later book.   *)
CancelNamesWorker ==
  pendingCancel # NoJob => worker # NoWorker /\ worker.job.id = pendingCancel /\ worker.cancel

(* "Finish or cancel the active book before installing runtime tools": an  *)
(* install never replaces tools that a worker is using.                    *)
InstallExcludesWorker == worker # NoWorker => runtime.kind # "install"

(* What the thread works on, uses and may be told belongs to it: its book, *)
(* the installed tools, and the cancellation that is remembered for it.    *)
WorkerStaysSound == WorkerOwnsActiveBook /\ CancelNamesWorker /\ InstallExcludesWorker

(* When nothing is left to save, a restart brings back exactly the books   *)
(* that are not finished, in their order; but a snapshot that could not be *)
(* read or set aside is never overwritten.                                 *)
RecoveryFaithful ==
  /\ up /\ ~dirty /\ ~blocked => disk = Saved(queue)
  /\ blocked => disk = Unreadable

(* After "pause after this book" no handler starts a book, whatever it     *)
(* chains, until the user resumes the queue; nor does a start that brings  *)
(* books back: it leaves them waiting in a paused queue.                   *)
PauseHoldsInHandlers ==
  [][/\ up' /\ IF up THEN Pausing(queue) ELSE disk.readable /\ disk.jobs # << >>
     => \/ /\ Pausing(queue') /\ ~StartsBook(queue, queue')
           /\ up \/ ActiveAt(queue') = {}
        \/ ResumeCommand]_vars

(* A cancellation that was accepted is not lost, even if the worker asks   *)
(* for review or completes meanwhile: when the request is forgotten the    *)
(* book is finished, unless the same command retries or removes it.        *)
CancelHonoured ==
  [][\A id \in JobId :
       pendingCancel = id /\ up' /\ pendingCancel' = NoJob
         => Has(queue', id, TerminalStatus) \/ RetryCommand(id) \/ RemoveCommand(id)]_vars

(* The worker of a book is always joined in the end; the cancellation that *)
(* was accepted for it is settled then (CancelNamesWorker).                *)
WorkerSettles ==
  \A id \in JobId :
    worker # NoWorker /\ worker.job.id = id ~> worker = NoWorker \/ worker.job.id # id

(* A running book is not forgotten: a worker of its own takes it up, also  *)
(* after a review, an install or a failed start.                           *)
RunningBookServed ==
  \A id \in JobId :
    up /\ Has(queue, id, {"Running"})
      ~> ~up \/ ~Has(queue, id, {"Running"}) \/ (worker # NoWorker /\ worker.job.id = id)

(* Threads come and go with the books: every worker is joined in the end,  *)
(* and every running book gets one.                                        *)
WorkersComeAndGo == WorkerSettles /\ RunningBookServed

HeadOfWaiting(id) ==
  WaitingAt(queue) # {} /\ queue.jobs[Min(WaitingAt(queue))].id = id

(* While the queue runs and no book is active, the first waiting book does *)
(* not stay there: it is started, or its start fails, unless the user      *)
(* moves, removes or pauses it first.  An install only delays it.          *)
QueueAdvances ==
  \A id \in JobId :
    up /\ queue.state = "Running" /\ ActiveAt(queue) = {} /\ HeadOfWaiting(id)
      ~> ~up \/ queue.state = "Paused" \/ ActiveAt(queue) # {} \/ ~HeadOfWaiting(id)
=============================================================================
