------------------------------ MODULE JobQueue ------------------------------
(***************************************************************************)
(* The book queue of crates/storyteller-core/src/queue.rs and the job      *)
(* status machine of job.rs.  The queue is a value and every method is an  *)
(* operator from queues to queues, so that the controller, which chains    *)
(* several methods in one handler, uses the same definitions.  A method    *)
(* that returns Err leaves the queue as it was.                            *)
(***************************************************************************)
EXTENDS Naturals, Sequences, SequencesExt

CONSTANTS
  JobId,     (* identities a job can be given (Uuid::new_v4)                *)
  Inputs,    (* the immutable inputs and settings of a job                  *)
  NStages    (* number of pipeline stages whose results a job can retain    *)

ASSUME JobQueueAssumption == NStages \in Nat

ActiveStatus   == {"Running", "NeedsReview"}
TerminalStatus == {"Completed", "Failed", "Cancelled"}
JobStatus      == {"Waiting"} \cup ActiveStatus \cup TerminalStatus

(* A job: identity, immutable inputs, status, and how many leading stages  *)
(* it retains as completed or cached (its progress and checkpoints).       *)
Job == [id : JobId, inputs : Inputs, status : JobStatus, done : 0..NStages]

QueueType == [jobs : Seq(Job), state : {"Running", "Paused"}, pauseAfterCurrent : BOOLEAN]

EmptyQueue == [jobs |-> << >>, state |-> "Running", pauseAfterCurrent |-> FALSE]

NewJob(id, in) == [id |-> id, inputs |-> in, status |-> "Waiting", done |-> 0]

(* Job::retry_from_scratch on a failed or cancelled job.                   *)
Scratch(j) == [j EXCEPT !.status = "Waiting", !.done = 0]

-----------------------------------------------------------------------------
(* Positions in the Vec.                                                   *)

Ids(q)       == {q.jobs[i].id : i \in DOMAIN q.jobs}
IndexOf(q, id) == CHOOSE i \in DOMAIN q.jobs : q.jobs[i].id = id
JobOf(q, id) == q.jobs[IndexOf(q, id)]
ActiveAt(q)  == {i \in DOMAIN q.jobs : q.jobs[i].status \in ActiveStatus}
WaitingAt(q) == {i \in DOMAIN q.jobs : q.jobs[i].status = "Waiting"}
Has(q, id, statuses) == \E i \in DOMAIN q.jobs : q.jobs[i].id = id /\ q.jobs[i].status \in statuses

PutJob(q, j) == [q EXCEPT !.jobs[IndexOf(q, j.id)] = j]
WithStatus(q, id, s) == PutJob(q, [JobOf(q, id) EXCEPT !.status = s])

-----------------------------------------------------------------------------
(* The methods.                                                            *)

AddJob(q, j) == [q EXCEPT !.jobs = Append(@, j)]

StartNext_IgnoresActive(q) ==
  IF q.state = "Paused" \/ WaitingAt(q) = {}
    THEN q ELSE [q EXCEPT !.jobs[Min(WaitingAt(q))].status = "Running"]

StartNext_FrontOnly(q) ==
  IF q.state = "Paused" \/ ActiveAt(q) # {} \/ 1 \notin WaitingAt(q)
    THEN q ELSE [q EXCEPT !.jobs[1].status = "Running"]

StartNext(q) ==
  IF q.state = "Paused" \/ ActiveAt(q) # {} \/ WaitingAt(q) = {}
    THEN q ELSE [q EXCEPT !.jobs[Min(WaitingAt(q))].status = "Running"]

RequestPause_Always(q) == [q EXCEPT !.state = "Paused"]
RequestPause(q) ==
  IF ActiveAt(q) # {} THEN [q EXCEPT !.pauseAfterCurrent = TRUE]
                      ELSE [q EXCEPT !.state = "Paused"]

ResumeQueue(q) == [q EXCEPT !.state = "Running", !.pauseAfterCurrent = FALSE]

AfterTerminal_OnlyClears(q) == [q EXCEPT !.pauseAfterCurrent = FALSE]
AfterTerminal(q) ==
  IF q.pauseAfterCurrent
    THEN [q EXCEPT !.state = "Paused", !.pauseAfterCurrent = FALSE] ELSE q

Finish_NoPause(q, id, outcome) ==
  IF Has(q, id, ActiveStatus) THEN WithStatus(q, id, outcome) ELSE q
Finish(q, id, outcome) ==
  IF Has(q, id, ActiveStatus) THEN AfterTerminal(WithStatus(q, id, outcome)) ELSE q

(* Whether reconcile_worker_snapshot accepts the snapshot s.               *)
Accepts_AnyStatus(q, s) == s.id \in Ids(q) /\ s.inputs = JobOf(q, s.id).inputs
Accepts(q, s) ==
  /\ s.id \in Ids(q)
  /\ s.inputs = JobOf(q, s.id).inputs
  /\ JobOf(q, s.id).status \in TerminalStatus => s.status \in TerminalStatus
  /\ JobOf(q, s.id).status \in ActiveStatus => s.status # "Waiting"

Reconcile(q, s) ==
  IF ~Accepts(q, s) THEN q
  ELSE IF JobOf(q, s.id).status \in ActiveStatus /\ s.status \in TerminalStatus
    THEN AfterTerminal(PutJob(q, s))
    ELSE PutJob(q, s)

RemoveJob(q, id) == [q EXCEPT !.jobs = RemoveAt(@, IndexOf(q, id))]

(* move_waiting: exchange with the neighbour in the whole Vec.             *)
Neighbour(q, id, dir) == IF dir = "Up" THEN IndexOf(q, id) - 1 ELSE IndexOf(q, id) + 1
CanMove(q, id, dir) ==
  Has(q, id, {"Waiting"}) /\ Neighbour(q, id, dir) \in WaitingAt(q)
MoveJob(q, id, dir) ==
  LET i == IndexOf(q, id)
      k == Neighbour(q, id, dir)
  IN  [q EXCEPT !.jobs = [@ EXCEPT ![i] = q.jobs[k], ![k] = q.jobs[i]]]

-----------------------------------------------------------------------------
(* The queue on its own, driven by any caller.                             *)

VARIABLE queue

Init == queue = EmptyQueue

Enqueue(id, in) == id \notin Ids(queue) /\ queue' = AddJob(queue, NewJob(id, in))

Start == queue' = StartNext(queue)

PauseAfterCurrent == queue' = RequestPause(queue)

Resume == queue' = ResumeQueue(queue)

RequireReview(id) == Has(queue, id, {"Running"}) /\ queue' = WithStatus(queue, id, "NeedsReview")

ResumeAfterReview(id) == Has(queue, id, {"NeedsReview"}) /\ queue' = WithStatus(queue, id, "Running")

FinishJob(id) == \E outcome \in TerminalStatus : queue' = Finish(queue, id, outcome)

(* The caller's obligation: a worker only ever holds a copy of a job that  *)
(* start_next started and that has not been retried since, so the queue's  *)
(* entry is not Waiting when one of its snapshots arrives.  Controller     *)
(* checks that it meets this (WorkerOwnsActiveBook).                       *)
WorkerSnapshot(s) ==
  /\ s.id \in Ids(queue)
  /\ JobOf(queue, s.id).status # "Waiting"
  /\ queue' = Reconcile(queue, s)

Retry(id) == Has(queue, id, TerminalStatus) /\ queue' = WithStatus(queue, id, "Waiting")

(* retry_with_resume keeps the validated leading stages only.              *)
RetryWithResume(id) ==
  /\ Has(queue, id, TerminalStatus)
  /\ \E kept \in 0..JobOf(queue, id).done :
       queue' = PutJob(queue, [JobOf(queue, id) EXCEPT !.status = "Waiting", !.done = kept])

RetryFromScratch(id) ==
  Has(queue, id, {"Failed", "Cancelled"}) /\ queue' = PutJob(queue, Scratch(JobOf(queue, id)))

RemoveBook(id) ==
  id \in Ids(queue) /\ ~Has(queue, id, ActiveStatus) /\ queue' = RemoveJob(queue, id)

MoveWaiting(id, dir) == CanMove(queue, id, dir) /\ queue' = MoveJob(queue, id, dir)

Next ==
  \/ Start \/ PauseAfterCurrent \/ Resume
  \/ \E s \in Job : WorkerSnapshot(s)
  \/ \E id \in JobId :
       \/ \E in \in Inputs : Enqueue(id, in)
       \/ RequireReview(id)
       \/ ResumeAfterReview(id)
       \/ FinishJob(id)
       \/ Retry(id)
       \/ RetryWithResume(id)
       \/ RetryFromScratch(id)
       \/ RemoveBook(id)
       \/ \E dir \in {"Up", "Down"} : MoveWaiting(id, dir)

Spec == Init /\ [][Next]_queue

-----------------------------------------------------------------------------
(* Properties.                                                             *)

(* Every value has the type the Rust declarations give it.                 *)
TypeOK == queue \in QueueType

UniqueIdsIn(q) ==
  \A i, k \in DOMAIN q.jobs : q.jobs[i].id = q.jobs[k].id => i = k
OneActiveIn(q) == \A i, k \in ActiveAt(q) : i = k
PauseConsistentIn(q) ==
  /\ q.pauseAfterCurrent => ActiveAt(q) # {}
  /\ q.state = "Paused" => ActiveAt(q) = {}

(* A job is addressed by its identity: job(id), finish(id) and remove(id)  *)
(* can only mean one entry of the Vec.                                     *)
UniqueIds == UniqueIdsIn(queue)

(* At most one book is Running or NeedsReview, whatever commands and       *)
(* worker snapshots are interleaved; active_job() can return "the" one.    *)
OneActive == OneActiveIn(queue)

(* A pending "pause after this book" never outlives its book, and a paused *)
(* queue has no active book: every way a book can end applies the pause.   *)
PauseConsistent == PauseConsistentIn(queue)

Pausing(q) == q.state = "Paused" \/ q.pauseAfterCurrent
StartsBook(q, r) ==
  \E i \in DOMAIN q.jobs, k \in DOMAIN r.jobs :
    /\ q.jobs[i].id = r.jobs[k].id
    /\ q.jobs[i].status = "Waiting" /\ r.jobs[k].status # "Waiting"

(* Once the user asked for a pause, no book is started and the request is  *)
(* not forgotten until the user resumes the queue.                         *)
PauseHolds == [][Pausing(queue) => Resume \/ (Pausing(queue') /\ ~StartsBook(queue, queue'))]_queue

Reopens(id) == Retry(id) \/ RetryWithResume(id) \/ RetryFromScratch(id)

(* A finished book is only reopened as Waiting, by a retry: a late worker  *)
(* snapshot never brings it back to Running or NeedsReview.                *)
FinishedStaysFinished ==
  [][\A id \in JobId :
       Has(queue, id, TerminalStatus) /\ Has(queue', id, JobStatus \ TerminalStatus)
         => Reopens(id)]_queue
=============================================================================
