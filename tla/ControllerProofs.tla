-------------------------- MODULE ControllerProofs --------------------------
(***************************************************************************)
(* The queue's invariants, and that the controller keeps its queue, its    *)
(* worker and its recovery snapshot in agreement, for every set of books,  *)
(* inputs and stages.                                                      *)
(*                                                                         *)
(* Each method of the queue is shown to map a good queue to a good queue;  *)
(* these lemmas are about the operators, so they serve the queue alone and *)
(* the controller, which first polls the worker and then chains methods.   *)
(* What holds before and after each link is Sound: the queue is good, and  *)
(* the worker owns the book it works on.  Last, the snapshot that is one   *)
(* step for the controller, written file by file: saved work survives any  *)
(* failure and any crash, for any contents.                                *)
(***************************************************************************)
EXTENDS Controller, QueueRecovery, TLAPS, SequenceTheorems, FiniteSetTheorems, WellFoundedInduction

-----------------------------------------------------------------------------
(* The queue.                                                              *)

Good(q) ==
  /\ q \in QueueType
  /\ UniqueIdsIn(q)
  /\ OneActiveIn(q)
  /\ PauseConsistentIn(q)

IInv == Good(queue)

-----------------------------------------------------------------------------
(* A nonempty set of natural numbers contains its Min.                     *)
LEMMA MinInSet ==
  ASSUME NEW S \in SUBSET Nat, S # {}
  PROVE  Min(S) \in S
<1> DEFINE R == {ss \in Nat \X Nat : ss[1] < ss[2]}
<1>1. IsWellFoundedOn(R, Nat)
  BY NatLessThanWellFounded, Zenon DEF OpToRel
<1>2. PICK x \in S : \A y \in S : ~(<<y, x>> \in R)
  <2> HIDE DEF R
  <2>. QED
    BY <1>1, WFMin
<1>3. ASSUME NEW y \in S, y < x PROVE FALSE
  <2>1. <<y, x>> \in Nat \X Nat /\ <<y, x>>[1] < <<y, x>>[2]
    BY <1>3
  <2>2. <<y, x>> \in R
    BY <2>1
  <2>. QED
    BY <1>2, <2>2
<1>4. \A y \in S : x <= y
  BY <1>3
<1>. QED
  BY <1>4 DEF Min

LEMMA MinWaiting ==
  ASSUME NEW q \in QueueType, WaitingAt(q) # {}
  PROVE  Min(WaitingAt(q)) \in WaitingAt(q)
<1>1. WaitingAt(q) \in SUBSET Nat
  BY DEF WaitingAt, QueueType
<1>. QED
  BY <1>1, MinInSet

(* IndexOf finds an entry of that identity when there is one.              *)
LEMMA IndexFound ==
  ASSUME NEW q \in QueueType, NEW id, id \in Ids(q)
  PROVE  /\ IndexOf(q, id) \in DOMAIN q.jobs
         /\ q.jobs[IndexOf(q, id)].id = id
         /\ JobOf(q, id) \in Job
         /\ JobOf(q, id).id = id
<1>1. \E i \in DOMAIN q.jobs : q.jobs[i].id = id
  BY DEF Ids
<1>2. IndexOf(q, id) \in DOMAIN q.jobs /\ q.jobs[IndexOf(q, id)].id = id
  BY <1>1 DEF IndexOf
<1>3. q.jobs \in Seq(Job)
  BY DEF QueueType
<1>. QED
  BY <1>2, <1>3 DEF JobOf

LEMMA HasIsId ==
  ASSUME NEW q \in QueueType, NEW id, NEW S, Has(q, id, S)
  PROVE  id \in Ids(q)
BY DEF Has, Ids

(* Replacing an entry by a job of the same identity.                       *)
LEMMA PutJobFacts ==
  ASSUME NEW q \in QueueType, NEW j \in Job, j.id \in Ids(q)
  PROVE  /\ PutJob(q, j) \in QueueType
         /\ PutJob(q, j).state = q.state
         /\ PutJob(q, j).pauseAfterCurrent = q.pauseAfterCurrent
         /\ DOMAIN PutJob(q, j).jobs = DOMAIN q.jobs
         /\ \A i \in DOMAIN q.jobs :
              PutJob(q, j).jobs[i] = IF i = IndexOf(q, j.id) THEN j ELSE q.jobs[i]
<1> DEFINE n == IndexOf(q, j.id)
<1>1. n \in DOMAIN q.jobs
  BY IndexFound
<1>2. q.jobs \in Seq(Job) /\ q = [jobs |-> q.jobs, state |-> q.state, pauseAfterCurrent |-> q.pauseAfterCurrent]
  BY DEF QueueType
<1>3. PutJob(q, j) = [jobs |-> [q.jobs EXCEPT ![n] = j], state |-> q.state,
                      pauseAfterCurrent |-> q.pauseAfterCurrent]
  BY <1>2 DEF PutJob, QueueType
<1>4. [q.jobs EXCEPT ![n] = j] \in Seq(Job)
  BY <1>1, <1>2, ExceptSeq
<1>. QED
  BY <1>1, <1>2, <1>3, <1>4 DEF QueueType
LEMMA PutJobUnique ==
  ASSUME NEW q \in QueueType, UniqueIdsIn(q), NEW j \in Job, j.id \in Ids(q)
  PROVE  UniqueIdsIn(PutJob(q, j))
BY PutJobFacts, IndexFound DEF UniqueIdsIn

(* Where the active positions are after an entry is replaced.              *)
LEMMA PutJobActive ==
  ASSUME NEW q \in QueueType, NEW j \in Job, j.id \in Ids(q)
  PROVE  \A i : i \in ActiveAt(PutJob(q, j)) <=>
           IF i = IndexOf(q, j.id) THEN j.status \in ActiveStatus ELSE i \in ActiveAt(q)
BY PutJobFacts, IndexFound DEF ActiveAt

LEMMA ActiveHas ==
  ASSUME NEW q \in QueueType, UniqueIdsIn(q), NEW id, NEW S, Has(q, id, S)
  PROVE  /\ id \in Ids(q)
         /\ JobOf(q, id).status \in S
<1>1. id \in Ids(q)
  BY HasIsId
<1>2. PICK i \in DOMAIN q.jobs : q.jobs[i].id = id /\ q.jobs[i].status \in S
  BY DEF Has
<1>3. i = IndexOf(q, id)
  BY <1>1, <1>2, IndexFound DEF UniqueIdsIn
<1>. QED
  BY <1>1, <1>2, <1>3 DEF JobOf

-----------------------------------------------------------------------------
(* One lemma per method: a good queue stays good.                          *)

LEMMA AddJobGood ==
  ASSUME NEW q, Good(q), NEW id \in JobId, NEW in \in Inputs, id \notin Ids(q)
  PROVE  Good(AddJob(q, NewJob(id, in)))
<1> DEFINE j == NewJob(id, in)
           r == AddJob(q, j)
<1>1. j \in Job
  BY JobQueueAssumption DEF NewJob, Job, JobStatus
<1>2. q.jobs \in Seq(Job) /\ q \in QueueType
  BY DEF Good, QueueType
<1>3. r \in QueueType /\ r.jobs = Append(q.jobs, j) /\ r.state = q.state
        /\ r.pauseAfterCurrent = q.pauseAfterCurrent
  BY <1>1, <1>2 DEF AddJob, QueueType
<1>4. /\ DOMAIN r.jobs = 1..(Len(q.jobs) + 1) /\ DOMAIN q.jobs = 1..Len(q.jobs)
      /\ \A i \in DOMAIN q.jobs : r.jobs[i] = q.jobs[i]
      /\ r.jobs[Len(q.jobs) + 1] = j
  BY <1>1, <1>2, <1>3
<1>5. ActiveAt(r) = ActiveAt(q)
  BY <1>2, <1>4 DEF ActiveAt, NewJob, ActiveStatus
<1>6. UniqueIdsIn(r)
  <2>1. \A i \in DOMAIN q.jobs : q.jobs[i].id # id
    BY DEF Ids
  <2>2. j.id = id
    BY DEF NewJob
  <2>3. UniqueIdsIn(q)
    BY DEF Good
  <2>4. Len(q.jobs) \in Nat
    BY <1>2
  <2> HIDE DEF j, r
  <2>5. SUFFICES ASSUME NEW i \in DOMAIN r.jobs, NEW k \in DOMAIN r.jobs,
                        r.jobs[i].id = r.jobs[k].id
                 PROVE  i = k
    BY DEF UniqueIdsIn
  <2>6. /\ i \in DOMAIN q.jobs \/ i = Len(q.jobs) + 1
        /\ k \in DOMAIN q.jobs \/ k = Len(q.jobs) + 1
    BY <1>4, <2>4
  <2>7. CASE i \in DOMAIN q.jobs /\ k \in DOMAIN q.jobs
    BY <1>4, <2>3, <2>5, <2>7 DEF UniqueIdsIn
  <2>8. CASE i = Len(q.jobs) + 1 \/ k = Len(q.jobs) + 1
    BY <1>4, <2>1, <2>2, <2>5, <2>6, <2>8
  <2>. QED
    BY <2>6, <2>7, <2>8
<1>. QED
  BY <1>3, <1>5, <1>6 DEF Good, OneActiveIn, PauseConsistentIn

LEMMA StartNextGood ==
  ASSUME NEW q, Good(q)
  PROVE  Good(StartNext(q))
<1>1. CASE q.state = "Paused" \/ ActiveAt(q) # {} \/ WaitingAt(q) = {}
  BY <1>1 DEF StartNext
<1>2. CASE ~(q.state = "Paused" \/ ActiveAt(q) # {} \/ WaitingAt(q) = {})
  <2> DEFINE n == Min(WaitingAt(q))
             r == StartNext(q)
             j == [q.jobs[n] EXCEPT !.status = "Running"]
  <2>1. q \in QueueType /\ q.jobs \in Seq(Job)
    BY DEF Good, QueueType
  <2>2. n \in DOMAIN q.jobs
    BY <1>2, <2>1, MinWaiting DEF WaitingAt
  <2> HIDE DEF n
  <2>3. j \in Job /\ j.id = q.jobs[n].id
    <3>1. q.jobs[n] \in Job
      BY <2>1, <2>2
    <3>. QED
      BY <3>1 DEF Job, JobStatus, ActiveStatus
  <2>4. r = [jobs |-> [q.jobs EXCEPT ![n] = j], state |-> q.state,
             pauseAfterCurrent |-> q.pauseAfterCurrent]
    BY <1>2, <2>1, <2>2 DEF StartNext, QueueType, n
  <2> HIDE DEF j, r
  <2>5. [q.jobs EXCEPT ![n] = j] \in Seq(Job)
    BY <2>1, <2>2, <2>3, ExceptSeq
  <2>6. r \in QueueType
    BY <2>1, <2>4, <2>5 DEF QueueType
  <2>7. /\ DOMAIN r.jobs = DOMAIN q.jobs
        /\ \A i \in DOMAIN q.jobs : r.jobs[i] = IF i = n THEN j ELSE q.jobs[i]
    BY <2>1, <2>2, <2>4
  <2>8. UniqueIdsIn(r)
    BY <2>2, <2>3, <2>7 DEF UniqueIdsIn, Good
  <2>9. \A i \in ActiveAt(r) : i = n
    BY <1>2, <2>7 DEF ActiveAt
  <2>10. q.pauseAfterCurrent = FALSE /\ q.state # "Paused"
    BY <1>2, <2>1 DEF Good, PauseConsistentIn, QueueType
  <2>11. PauseConsistentIn(r) /\ OneActiveIn(r)
    BY <2>4, <2>9, <2>10 DEF PauseConsistentIn, OneActiveIn
  <2>. QED
    BY <2>6, <2>8, <2>11 DEF Good, r
<1>. QED
  BY <1>1, <1>2

LEMMA RequestPauseGood ==
  ASSUME NEW q, Good(q)
  PROVE  Good(RequestPause(q))
<1> DEFINE r == RequestPause(q)
<1>1. r.jobs = q.jobs /\ r \in QueueType
  BY DEF Good, RequestPause, QueueType
<1>2. ActiveAt(r) = ActiveAt(q)
  BY <1>1 DEF ActiveAt
<1>3. UniqueIdsIn(r) /\ OneActiveIn(r)
  BY <1>1, <1>2 DEF Good, UniqueIdsIn, OneActiveIn
<1>4. CASE ActiveAt(q) # {}
  <2>1. r.state = q.state
    BY <1>4 DEF Good, RequestPause, QueueType
  <2>. QED
    BY <1>1, <1>2, <1>3, <1>4, <2>1 DEF Good, PauseConsistentIn
<1>5. CASE ActiveAt(q) = {}
  <2>1. r.pauseAfterCurrent = q.pauseAfterCurrent
    BY <1>5 DEF Good, RequestPause, QueueType
  <2>. QED
    BY <1>1, <1>2, <1>3, <1>5, <2>1 DEF Good, PauseConsistentIn
<1>. QED
  BY <1>4, <1>5

LEMMA ResumeQueueGood ==
  ASSUME NEW q, Good(q)
  PROVE  Good(ResumeQueue(q))
BY DEF Good, ResumeQueue, QueueType, UniqueIdsIn, OneActiveIn, PauseConsistentIn, ActiveAt
(* Applying the pause when the queue has just lost its active book.        *)
LEMMA AfterTerminalGood ==
  ASSUME NEW q \in QueueType, UniqueIdsIn(q), ActiveAt(q) = {}
  PROVE  Good(AfterTerminal(q))
<1>1. ActiveAt(AfterTerminal(q)) = {}
  BY DEF ActiveAt, AfterTerminal, QueueType
<1>. QED
  BY <1>1 DEF Good, AfterTerminal, QueueType, UniqueIdsIn, OneActiveIn, PauseConsistentIn

(* Replacing the active job by an active one, or a finished one by a       *)
(* waiting or finished one, leaves the active positions as they were.      *)
LEMMA SameActivityGood ==
  ASSUME NEW q, Good(q), NEW j \in Job, j.id \in Ids(q),
         JobOf(q, j.id).status \in ActiveStatus <=> j.status \in ActiveStatus
  PROVE  Good(PutJob(q, j))
<1>1. q \in QueueType /\ UniqueIdsIn(q)
  BY DEF Good
<1>2. ActiveAt(PutJob(q, j)) = ActiveAt(q)
  BY <1>1, PutJobActive, PutJobFacts, IndexFound DEF ActiveAt, JobOf
<1>. QED
  BY <1>1, <1>2, PutJobFacts, PutJobUnique DEF Good, OneActiveIn, PauseConsistentIn

(* Replacing the active job by a finished one, then applying the pause.    *)
LEMMA EndActiveGood ==
  ASSUME NEW q, Good(q), NEW j \in Job, j.id \in Ids(q),
         JobOf(q, j.id).status \in ActiveStatus, j.status \in TerminalStatus
  PROVE  Good(AfterTerminal(PutJob(q, j)))
<1>1. q \in QueueType /\ UniqueIdsIn(q) /\ OneActiveIn(q)
  BY DEF Good
<1>2. IndexOf(q, j.id) \in ActiveAt(q)
  BY <1>1, IndexFound DEF ActiveAt, JobOf
<1>3. ActiveAt(PutJob(q, j)) = {}
  BY <1>1, <1>2, PutJobActive DEF OneActiveIn, ActiveStatus, TerminalStatus
<1>. QED
  BY <1>1, <1>3, PutJobFacts, PutJobUnique, AfterTerminalGood

LEMMA RestatusJob ==
  ASSUME NEW q \in QueueType, NEW id \in Ids(q), NEW s \in JobStatus
  PROVE  LET j == [JobOf(q, id) EXCEPT !.status = s]
         IN  j \in Job /\ j.id = id /\ j.status = s
BY IndexFound DEF Job

LEMMA FinishGood ==
  ASSUME NEW q, Good(q), NEW id, NEW outcome \in TerminalStatus
  PROVE  Good(Finish(q, id, outcome))
<1>1. CASE Has(q, id, ActiveStatus)
  <2>1. q \in QueueType /\ UniqueIdsIn(q) /\ outcome \in JobStatus
    BY DEF Good, JobStatus
  <2>2. id \in Ids(q) /\ JobOf(q, id).status \in ActiveStatus
    BY <1>1, <2>1, ActiveHas
  <2> DEFINE j == [JobOf(q, id) EXCEPT !.status = outcome]
  <2>3. j \in Job /\ j.id = id /\ j.status = outcome
    BY <2>1, <2>2, RestatusJob
  <2>4. Finish(q, id, outcome) = AfterTerminal(PutJob(q, j))
    BY <1>1 DEF Finish, WithStatus
  <2> HIDE DEF j
  <2>. QED
    BY <2>2, <2>3, <2>4, EndActiveGood
<1>2. CASE ~Has(q, id, ActiveStatus)
  BY <1>2 DEF Finish
<1>. QED
  BY <1>1, <1>2

LEMMA ReconcileGood ==
  ASSUME NEW q, Good(q), NEW s \in Job, s.id \in Ids(q),
         JobOf(q, s.id).status # "Waiting"
  PROVE  Good(Reconcile(q, s))
<1>1. q \in QueueType /\ JobOf(q, s.id) \in Job
  BY IndexFound DEF Good
<1>2. JobOf(q, s.id).status \in ActiveStatus \cup TerminalStatus
  BY <1>1 DEF Job, JobStatus
<1>3. s.status \in JobStatus
  BY DEF Job
<1>4. CASE ~Accepts(q, s)
  BY <1>4 DEF Reconcile
<1>5. CASE Accepts(q, s) /\ JobOf(q, s.id).status \in ActiveStatus
           /\ s.status \in TerminalStatus
  BY <1>5, EndActiveGood DEF Reconcile
<1>6. CASE Accepts(q, s) /\ ~(JobOf(q, s.id).status \in ActiveStatus
                             /\ s.status \in TerminalStatus)
  <2>1. JobOf(q, s.id).status \in ActiveStatus <=> s.status \in ActiveStatus
    BY <1>2, <1>3, <1>6 DEF Accepts, JobStatus, ActiveStatus, TerminalStatus
  <2>. QED
    BY <1>6, <2>1, SameActivityGood DEF Reconcile
<1>. QED
  BY <1>4, <1>5, <1>6
LEMMA RestatusGood ==
  ASSUME NEW q, Good(q), NEW id \in Ids(q), NEW s \in JobStatus, NEW d \in 0..NStages,
         JobOf(q, id).status \in ActiveStatus <=> s \in ActiveStatus
  PROVE  /\ Good(WithStatus(q, id, s))
         /\ Good(PutJob(q, [JobOf(q, id) EXCEPT !.status = s, !.done = d]))
<1> DEFINE j == [JobOf(q, id) EXCEPT !.status = s]
           k == [JobOf(q, id) EXCEPT !.status = s, !.done = d]
<1>1. JobOf(q, id) \in Job /\ JobOf(q, id).id = id
  BY IndexFound DEF Good
<1>2. j \in Job /\ j.id = id /\ j.status = s /\ k \in Job /\ k.id = id /\ k.status = s
  BY <1>1 DEF Job
<1>3. WithStatus(q, id, s) = PutJob(q, j)
  BY DEF WithStatus
<1> HIDE DEF j, k
<1>4. Good(PutJob(q, j)) /\ Good(PutJob(q, k))
  BY <1>2, SameActivityGood
<1>. QED
  BY <1>3, <1>4 DEF k

(* r is a rearrangement or a selection of q's entries that keeps every     *)
(* active one: its positions map injectively to positions of q.            *)
SelectionBy(f, q, r) ==
  /\ f \in [DOMAIN r.jobs -> DOMAIN q.jobs]
  /\ \A i, k \in DOMAIN r.jobs : f[i] = f[k] => i = k
  /\ \A i \in DOMAIN r.jobs : r.jobs[i] = q.jobs[f[i]]
  /\ \A n \in ActiveAt(q) : \E i \in DOMAIN r.jobs : f[i] = n

IsSelection(q, r) ==
  /\ r \in QueueType
  /\ r.state = q.state /\ r.pauseAfterCurrent = q.pauseAfterCurrent
  /\ \E f : SelectionBy(f, q, r)

LEMMA SelectionGood ==
  ASSUME NEW q, Good(q), NEW r, IsSelection(q, r)
  PROVE  Good(r)
<1>0. PICK f : SelectionBy(f, q, r)
  BY DEF IsSelection
<1>1. UniqueIdsIn(r)
  BY <1>0 DEF UniqueIdsIn, Good, SelectionBy
<1>2. \A i \in ActiveAt(r) : f[i] \in ActiveAt(q)
  BY <1>0 DEF ActiveAt, SelectionBy
<1>3. OneActiveIn(r)
  BY <1>0, <1>2 DEF OneActiveIn, Good, ActiveAt, SelectionBy
<1>4. ActiveAt(q) = {} <=> ActiveAt(r) = {}
  <2>1. ASSUME NEW n \in ActiveAt(q) PROVE ActiveAt(r) # {}
    BY <1>0, <2>1 DEF ActiveAt, SelectionBy
  <2>. QED
    BY <1>2, <2>1
<1>. QED
  BY <1>1, <1>3, <1>4 DEF Good, PauseConsistentIn, IsSelection

HasEntry(r, j) == \E i \in DOMAIN r.jobs : r.jobs[i] = j

LEMMA RemoveIsSelection ==
  ASSUME NEW q, Good(q), NEW id, id \in Ids(q), ~Has(q, id, ActiveStatus)
  PROVE  /\ IsSelection(q, RemoveJob(q, id))
         /\ \A a \in DOMAIN q.jobs : q.jobs[a].id # id => HasEntry(RemoveJob(q, id), q.jobs[a])
<1> DEFINE n == IndexOf(q, id)
           m == Len(q.jobs)
           r == RemoveJob(q, id)
           f == [i \in 1..(m - 1) |-> IF i < n THEN i ELSE i + 1]
<1>1. q \in QueueType /\ q.jobs \in Seq(Job) /\ DOMAIN q.jobs = 1..m /\ m \in Nat
  BY DEF Good, QueueType
<1>2. n \in 1..m /\ q.jobs[n].id = id
  BY <1>1, IndexFound
<1>3. n \notin ActiveAt(q)
  BY <1>1, <1>2 DEF ActiveAt, Has
<1>4. r = [jobs |-> RemoveAt(q.jobs, n), state |-> q.state,
           pauseAfterCurrent |-> q.pauseAfterCurrent]
  BY <1>1 DEF RemoveJob, QueueType
<1> HIDE DEF n, r
<1>5. /\ RemoveAt(q.jobs, n) \in Seq(Job)
      /\ Len(RemoveAt(q.jobs, n)) = m - 1
      /\ \A i \in 1..(m - 1) : RemoveAt(q.jobs, n)[i] = q.jobs[IF i < n THEN i ELSE i + 1]
  <2> DEFINE s1 == SubSeq(q.jobs, 1, n - 1)
             s2 == SubSeq(q.jobs, n + 1, m)
  <2>1. /\ s1 \in Seq(Job) /\ Len(s1) = n - 1
        /\ \A i \in 1..(n - 1) : s1[i] = q.jobs[i]
    BY <1>1, <1>2, SubSeqProperties
  <2>2. /\ s2 \in Seq(Job) /\ Len(s2) = m - n
        /\ \A i \in 1..(m - n) : s2[i] = q.jobs[n + i]
    BY <1>1, <1>2, SubSeqProperties
  <2>3. RemoveAt(q.jobs, n) = s1 \o s2
    BY DEF RemoveAt
  <2> HIDE DEF s1, s2
  <2>4. /\ s1 \o s2 \in Seq(Job) /\ Len(s1 \o s2) = Len(s1) + Len(s2)
        /\ \A i \in 1..(Len(s1) + Len(s2)) :
             (s1 \o s2)[i] = IF i <= Len(s1) THEN s1[i] ELSE s2[i - Len(s1)]
    BY <2>1, <2>2, ConcatProperties
  <2>5. n \in 1..m /\ m \in Nat /\ Len(s1) + Len(s2) = m - 1
    BY <1>1, <1>2, <2>1, <2>2
  <2>6. \A i \in 1..(m - 1) : (s1 \o s2)[i] = q.jobs[IF i < n THEN i ELSE i + 1]
    <3>1. ASSUME NEW i \in 1..(m - 1), i < n PROVE (s1 \o s2)[i] = q.jobs[i]
      BY <2>1, <2>4, <2>5, <3>1
    <3>2. ASSUME NEW i \in 1..(m - 1), ~(i < n) PROVE (s1 \o s2)[i] = q.jobs[i + 1]
      <4>1. i - (n - 1) \in 1..(m - n) /\ n + (i - (n - 1)) = i + 1 /\ ~(i <= n - 1)
        BY <2>5, <3>2
      <4>2. (s1 \o s2)[i] = s2[i - (n - 1)]
        BY <2>1, <2>4, <2>5, <4>1
      <4>. QED
        BY <2>2, <4>1, <4>2
    <3>. QED
      BY <3>1, <3>2
  <2>. QED
    BY <2>3, <2>4, <2>5, <2>6
<1>6. r \in QueueType /\ DOMAIN r.jobs = 1..(m - 1)
  BY <1>1, <1>4, <1>5 DEF QueueType
<1>7. f \in [DOMAIN r.jobs -> DOMAIN q.jobs] /\ \A i \in DOMAIN r.jobs : r.jobs[i] = q.jobs[f[i]]
  BY <1>1, <1>2, <1>4, <1>5, <1>6
<1>8. \A i, k \in DOMAIN r.jobs : f[i] = f[k] => i = k
  BY <1>1, <1>2, <1>6
<1>9. \A a \in 1..m : a # n => \E i \in DOMAIN r.jobs : f[i] = a
  <2> SUFFICES ASSUME NEW a \in 1..m, a # n PROVE \E i \in DOMAIN r.jobs : f[i] = a
    OBVIOUS
  <2>1. a \in 1..m /\ a # n
    OBVIOUS
  <2>2. CASE a < n
    <3>1. a \in DOMAIN r.jobs /\ f[a] = a
      BY <1>1, <1>2, <1>6, <2>1, <2>2
    <3>. QED
      BY <3>1
  <2>3. CASE a > n
    <3>1. a - 1 \in DOMAIN r.jobs /\ f[a - 1] = a
      BY <1>1, <1>2, <1>6, <2>1, <2>3
    <3>. QED
      BY <3>1
  <2>4. a < n \/ a > n
    BY <1>1, <1>2, <2>1
  <2>. QED
    BY <2>2, <2>3, <2>4
<1>10. r.state = q.state /\ r.pauseAfterCurrent = q.pauseAfterCurrent
  BY <1>4
<1> HIDE DEF f
<1>11. \A a \in ActiveAt(q) : a \in 1..m /\ a # n
  BY <1>1, <1>3 DEF ActiveAt
<1>12. SelectionBy(f, q, r)
  BY <1>7, <1>8, <1>9, <1>11 DEF SelectionBy
<1>13. IsSelection(q, r)
  BY <1>6, <1>10, <1>12 DEF IsSelection
<1>14. \A a \in DOMAIN q.jobs : q.jobs[a].id # id => HasEntry(r, q.jobs[a])
  BY <1>1, <1>2, <1>7, <1>9 DEF HasEntry
<1>. QED
  BY <1>13, <1>14 DEF r

LEMMA MoveIsSelection ==
  ASSUME NEW q, Good(q), NEW id, NEW dir, CanMove(q, id, dir)
  PROVE  /\ IsSelection(q, MoveJob(q, id, dir))
         /\ \A a \in DOMAIN q.jobs : HasEntry(MoveJob(q, id, dir), q.jobs[a])
<1> DEFINE n == IndexOf(q, id)
           k == Neighbour(q, id, dir)
           r == MoveJob(q, id, dir)
           f == [i \in DOMAIN q.jobs |-> IF i = n THEN k ELSE IF i = k THEN n ELSE i]
<1>1. q \in QueueType /\ q.jobs \in Seq(Job)
  BY DEF Good, QueueType
<1>2. n \in DOMAIN q.jobs /\ k \in DOMAIN q.jobs
  BY <1>1, HasIsId, IndexFound DEF CanMove, WaitingAt
<1>3. r = [jobs |-> [q.jobs EXCEPT ![n] = q.jobs[k], ![k] = q.jobs[n]], state |-> q.state,
           pauseAfterCurrent |-> q.pauseAfterCurrent]
  BY <1>1 DEF MoveJob, QueueType
<1> HIDE DEF n, k, r
<1>4. /\ r.jobs \in Seq(Job) /\ DOMAIN r.jobs = DOMAIN q.jobs
      /\ \A i \in DOMAIN q.jobs : r.jobs[i] = q.jobs[f[i]]
  BY <1>1, <1>2, <1>3
<1>5. r \in QueueType /\ r.state = q.state /\ r.pauseAfterCurrent = q.pauseAfterCurrent
  BY <1>1, <1>3, <1>4 DEF QueueType
<1>6. /\ f \in [DOMAIN r.jobs -> DOMAIN q.jobs]
      /\ \A i, l \in DOMAIN r.jobs : f[i] = f[l] => i = l
      /\ \A i \in DOMAIN r.jobs : f[f[i]] = i
  BY <1>2, <1>4
<1>7. \A a \in ActiveAt(q) : \E i \in DOMAIN r.jobs : f[i] = a
  <2>1. \A a \in ActiveAt(q) : a \in DOMAIN q.jobs
    BY DEF ActiveAt
  <2> HIDE DEF f
  <2>. QED
    BY <1>4, <1>6, <2>1
<1> HIDE DEF f
<1>8. SelectionBy(f, q, r)
  BY <1>4, <1>6, <1>7 DEF SelectionBy
<1>9. IsSelection(q, r)
  BY <1>5, <1>8 DEF IsSelection
<1>10. \A a \in DOMAIN q.jobs : HasEntry(r, q.jobs[a])
  <2>1. \A a \in DOMAIN q.jobs : f[a] \in DOMAIN q.jobs /\ f[f[a]] = a
    BY <1>4, <1>6
  <2>. QED
    BY <1>4, <2>1 DEF HasEntry
<1>. QED
  BY <1>9, <1>10 DEF r
-----------------------------------------------------------------------------
(* The invariant.                                                          *)

LEMMA InitGood == Init => IInv
BY DEF Init, IInv, Good, EmptyQueue, QueueType, UniqueIdsIn, OneActiveIn, PauseConsistentIn,
       ActiveAt

LEMMA StepGood == IInv /\ [Next]_queue => IInv'
<1> SUFFICES ASSUME Good(queue), [Next]_queue PROVE Good(queue')
  BY DEF IInv, Good
<1>0. queue \in QueueType /\ UniqueIdsIn(queue)
  BY DEF Good
<1>1. CASE Start \/ PauseAfterCurrent \/ Resume
  BY <1>1, StartNextGood, RequestPauseGood, ResumeQueueGood DEF Start, PauseAfterCurrent, Resume
<1>2. ASSUME NEW s \in Job, WorkerSnapshot(s) PROVE Good(queue')
  BY <1>2, ReconcileGood DEF WorkerSnapshot
<1>3. ASSUME NEW id \in JobId, NEW in \in Inputs, Enqueue(id, in) PROVE Good(queue')
  BY <1>3, AddJobGood DEF Enqueue
<1>4. ASSUME NEW id \in JobId, RequireReview(id) \/ ResumeAfterReview(id) PROVE Good(queue')
  <2>1. id \in Ids(queue) /\ JobOf(queue, id).status \in ActiveStatus
    BY <1>0, <1>4, ActiveHas DEF RequireReview, ResumeAfterReview, ActiveStatus
  <2>2. {"NeedsReview", "Running"} \subseteq JobStatus \cap ActiveStatus /\ 0 \in 0..NStages
    BY JobQueueAssumption DEF JobStatus, ActiveStatus
  <2>. QED
    BY <1>4, <2>1, <2>2, RestatusGood DEF RequireReview, ResumeAfterReview
<1>5. ASSUME NEW id \in JobId, FinishJob(id) PROVE Good(queue')
  BY <1>5, FinishGood DEF FinishJob
<1>6. ASSUME NEW id \in JobId, Reopens(id) PROVE Good(queue')
  <2>1. id \in Ids(queue) /\ JobOf(queue, id).status \in TerminalStatus
    BY <1>0, <1>6, ActiveHas DEF Reopens, Retry, RetryWithResume, RetryFromScratch, TerminalStatus
  <2>2. /\ "Waiting" \in JobStatus /\ "Waiting" \notin ActiveStatus
        /\ JobOf(queue, id).status \notin ActiveStatus
        /\ 0 \in 0..NStages
    BY <2>1, JobQueueAssumption DEF JobStatus, ActiveStatus, TerminalStatus
  <2>3. CASE Retry(id)
    BY <2>1, <2>2, <2>3, RestatusGood DEF Retry
  <2>4. CASE RetryFromScratch(id)
    BY <2>1, <2>2, <2>4, RestatusGood DEF RetryFromScratch, Scratch
  <2>5. CASE RetryWithResume(id)
    <3>1. JobOf(queue, id).done \in 0..NStages
      BY <1>0, <2>1, IndexFound DEF Job
    <3>2. PICK kept \in 0..JobOf(queue, id).done :
            queue' = PutJob(queue, [JobOf(queue, id) EXCEPT !.status = "Waiting", !.done = kept])
      BY <2>5 DEF RetryWithResume
    <3>3. kept \in 0..NStages
      BY <3>1, JobQueueAssumption
    <3>. QED
      BY <2>1, <2>2, <3>2, <3>3, RestatusGood
  <2>. QED
    BY <1>6, <2>3, <2>4, <2>5 DEF Reopens
<1>7. ASSUME NEW id \in JobId, RemoveBook(id) PROVE Good(queue')
  BY <1>7, RemoveIsSelection, SelectionGood DEF RemoveBook
<1>8. ASSUME NEW id \in JobId, NEW dir \in {"Up", "Down"}, MoveWaiting(id, dir) PROVE Good(queue')
  BY <1>8, MoveIsSelection, SelectionGood DEF MoveWaiting
<1>9. CASE UNCHANGED queue
  BY <1>9
<1>. QED
  BY <1>1, <1>2, <1>3, <1>4, <1>5, <1>6, <1>7, <1>8, <1>9 DEF Next, Reopens

(* Type correctness, unique identities, at most one active book and the    *)
(* pause bookkeeping hold in every reachable state, for any number of      *)
(* books, commands and worker snapshots.                                   *)
THEOREM Inductive == Spec => []IInv
BY InitGood, StepGood, PTL DEF Spec

(* The Rust declarations' types are respected.                             *)
THEOREM TypeCorrect == Spec => []TypeOK
<1>1. IInv => TypeOK
  BY DEF IInv, Good, TypeOK
<1>. QED
  BY <1>1, Inductive, PTL

(* active_job() never has a choice: at most one book is active.            *)
THEOREM AtMostOneActive == Spec => []OneActive
<1>1. IInv => OneActive
  BY DEF IInv, Good, OneActive
<1>. QED
  BY <1>1, Inductive, PTL

(* A pending pause belongs to an active book; a paused queue has none.     *)
THEOREM PauseBookkeeping == Spec => []PauseConsistent
<1>1. IInv => PauseConsistent
  BY DEF IInv, Good, PauseConsistent
<1>. QED
  BY <1>1, Inductive, PTL
-----------------------------------------------------------------------------
(* A pause request holds until the user resumes.                           *)

(* Replacing an entry that was not waiting starts no book.                 *)
LEMMA PutJobStartsNone ==
  ASSUME NEW q, Good(q), NEW j \in Job, j.id \in Ids(q), JobOf(q, j.id).status # "Waiting"
  PROVE  ~StartsBook(q, PutJob(q, j))
<1>1. q \in QueueType /\ UniqueIdsIn(q)
  BY DEF Good
<1>. QED
  BY <1>1, PutJobFacts, IndexFound DEF StartsBook, UniqueIdsIn, JobOf

(* Neither does rearranging or dropping entries.                           *)
LEMMA SelectionHolds ==
  ASSUME NEW q, Good(q), Pausing(q), NEW r, IsSelection(q, r)
  PROVE  Pausing(r) /\ ~StartsBook(q, r)
<1>1. PICK f : SelectionBy(f, q, r)
  BY DEF IsSelection
<1>2. ~StartsBook(q, r)
  BY <1>1 DEF StartsBook, UniqueIdsIn, Good, SelectionBy
<1>. QED
  BY <1>2 DEF Pausing, IsSelection

(* A replacement of an entry that was not waiting.                         *)
LEMMA PutJobHolds ==
  ASSUME NEW q, Good(q), Pausing(q), NEW id \in Ids(q), NEW s \in JobStatus, NEW d \in 0..NStages,
         JobOf(q, id).status # "Waiting"
  PROVE  LET r == WithStatus(q, id, s)
             t == PutJob(q, [JobOf(q, id) EXCEPT !.status = s, !.done = d])
         IN  /\ Pausing(r) /\ ~StartsBook(q, r)
             /\ Pausing(t) /\ ~StartsBook(q, t)
<1> DEFINE j == [JobOf(q, id) EXCEPT !.status = s]
           k == [JobOf(q, id) EXCEPT !.status = s, !.done = d]
<1>1. q \in QueueType /\ JobOf(q, id) \in Job /\ JobOf(q, id).id = id
  BY IndexFound DEF Good
<1>2. j \in Job /\ j.id = id /\ k \in Job /\ k.id = id
  BY <1>1 DEF Job
<1>3. WithStatus(q, id, s) = PutJob(q, j)
  BY DEF WithStatus
<1> HIDE DEF j, k
<1>4. /\ Pausing(PutJob(q, j)) /\ ~StartsBook(q, PutJob(q, j))
      /\ Pausing(PutJob(q, k)) /\ ~StartsBook(q, PutJob(q, k))
  BY <1>1, <1>2, PutJobFacts, PutJobStartsNone DEF Pausing
<1>. QED
  BY <1>3, <1>4 DEF k

LEMMA AfterTerminalPauses ==
  ASSUME NEW q \in QueueType, Pausing(q)
  PROVE  /\ Pausing(AfterTerminal(q))
         /\ AfterTerminal(q).jobs = q.jobs
BY DEF AfterTerminal, Pausing, QueueType

LEMMA FinishHolds ==
  ASSUME NEW q, Good(q), Pausing(q), NEW id, NEW outcome \in TerminalStatus
  PROVE  Pausing(Finish(q, id, outcome)) /\ ~StartsBook(q, Finish(q, id, outcome))
<1>1. q \in QueueType /\ UniqueIdsIn(q)
  BY DEF Good
<1>2. CASE Has(q, id, ActiveStatus)
  <2> DEFINE j == [JobOf(q, id) EXCEPT !.status = outcome]
  <2>1. id \in Ids(q) /\ JobOf(q, id).status \in ActiveStatus
    BY <1>1, <1>2, ActiveHas
  <2>2. j \in Job /\ j.id = id
    BY <1>1, <2>1, RestatusJob DEF JobStatus
  <2>3. Finish(q, id, outcome) = AfterTerminal(PutJob(q, j))
    BY <1>2 DEF Finish, WithStatus
  <2> HIDE DEF j
  <2>4. PutJob(q, j) \in QueueType /\ Pausing(PutJob(q, j))
    BY <1>1, <2>1, <2>2, PutJobFacts DEF Pausing
  <2>5. ~StartsBook(q, PutJob(q, j))
    BY <2>1, <2>2, PutJobStartsNone DEF ActiveStatus
  <2>. QED
    BY <2>3, <2>4, <2>5, AfterTerminalPauses DEF StartsBook
<1>3. CASE ~Has(q, id, ActiveStatus)
  BY <1>1, <1>3 DEF Finish, StartsBook, UniqueIdsIn
<1>. QED
  BY <1>2, <1>3

LEMMA ReconcileHolds ==
  ASSUME NEW q, Good(q), Pausing(q), NEW s \in Job, s.id \in Ids(q),
         JobOf(q, s.id).status # "Waiting"
  PROVE  Pausing(Reconcile(q, s)) /\ ~StartsBook(q, Reconcile(q, s))
<1>1. q \in QueueType /\ UniqueIdsIn(q)
  BY DEF Good
<1>2. PutJob(q, s) \in QueueType /\ Pausing(PutJob(q, s)) /\ ~StartsBook(q, PutJob(q, s))
  BY <1>1, PutJobFacts, PutJobStartsNone DEF Pausing
<1>3. Pausing(AfterTerminal(PutJob(q, s))) /\ ~StartsBook(q, AfterTerminal(PutJob(q, s)))
  BY <1>2, AfterTerminalPauses DEF StartsBook
<1>4. ~StartsBook(q, q)
  BY <1>1 DEF StartsBook, UniqueIdsIn
<1>. QED
  BY <1>2, <1>3, <1>4 DEF Reconcile
LEMMA StepHolds == IInv /\ Pausing(queue) /\ [Next]_queue
                     => Resume \/ (Pausing(queue') /\ ~StartsBook(queue, queue')) \/ UNCHANGED queue
<1> SUFFICES ASSUME Good(queue), Pausing(queue), Next, ~Resume
             PROVE  Pausing(queue') /\ ~StartsBook(queue, queue')
  BY DEF IInv
<1>0. queue \in QueueType /\ UniqueIdsIn(queue)
  BY DEF Good
<1>1. CASE Start \/ PauseAfterCurrent
  <2>1. queue'.jobs = queue.jobs /\ Pausing(queue')
    BY <1>0, <1>1 DEF Start, PauseAfterCurrent, StartNext, RequestPause, Pausing, Good,
                      PauseConsistentIn, QueueType
  <2>. QED
    BY <1>0, <2>1 DEF StartsBook, UniqueIdsIn
<1>2. ASSUME NEW s \in Job, WorkerSnapshot(s) PROVE Pausing(queue') /\ ~StartsBook(queue, queue')
  BY <1>2, ReconcileHolds DEF WorkerSnapshot
<1>3. ASSUME NEW id \in JobId, NEW in \in Inputs, Enqueue(id, in)
      PROVE  Pausing(queue') /\ ~StartsBook(queue, queue')
  <2> DEFINE j == NewJob(id, in)
  <2>1. j \in Job /\ j.id = id /\ j.status = "Waiting"
    BY JobQueueAssumption DEF NewJob, Job, JobStatus
  <2>2. queue' = [queue EXCEPT !.jobs = Append(queue.jobs, j)] /\ queue.jobs \in Seq(Job)
    BY <1>0, <1>3 DEF Enqueue, AddJob, QueueType
  <2> HIDE DEF j
  <2>3. /\ queue'.jobs = Append(queue.jobs, j)
        /\ queue'.state = queue.state /\ queue'.pauseAfterCurrent = queue.pauseAfterCurrent
    BY <1>0, <2>2 DEF QueueType
  <2>4. \A k \in DOMAIN queue'.jobs :
          queue'.jobs[k] = j \/ (k \in DOMAIN queue.jobs /\ queue'.jobs[k] = queue.jobs[k])
    BY <2>1, <2>2, <2>3
  <2>. QED
    BY <1>0, <2>1, <2>3, <2>4 DEF StartsBook, UniqueIdsIn, Pausing
<1>4. ASSUME NEW id \in JobId, RequireReview(id) \/ ResumeAfterReview(id)
      PROVE  Pausing(queue') /\ ~StartsBook(queue, queue')
  <2>1. id \in Ids(queue) /\ JobOf(queue, id).status # "Waiting"
    BY <1>0, <1>4, ActiveHas DEF RequireReview, ResumeAfterReview
  <2>2. {"NeedsReview", "Running"} \subseteq JobStatus /\ 0 \in 0..NStages
    BY JobQueueAssumption DEF JobStatus, ActiveStatus
  <2>. QED
    BY <1>4, <2>1, <2>2, PutJobHolds DEF RequireReview, ResumeAfterReview
<1>5. ASSUME NEW id \in JobId, FinishJob(id) PROVE Pausing(queue') /\ ~StartsBook(queue, queue')
  BY <1>5, FinishHolds DEF FinishJob
<1>6. ASSUME NEW id \in JobId, Reopens(id) PROVE Pausing(queue') /\ ~StartsBook(queue, queue')
  <2>1. id \in Ids(queue) /\ JobOf(queue, id).status \in TerminalStatus
    BY <1>0, <1>6, ActiveHas DEF Reopens, Retry, RetryWithResume, RetryFromScratch, TerminalStatus
  <2>2. "Waiting" \in JobStatus /\ JobOf(queue, id).status # "Waiting" /\ 0 \in 0..NStages
    BY <2>1, JobQueueAssumption DEF JobStatus, TerminalStatus
  <2>3. CASE Retry(id)
    BY <2>1, <2>2, <2>3, PutJobHolds DEF Retry
  <2>4. CASE RetryFromScratch(id)
    BY <2>1, <2>2, <2>4, PutJobHolds DEF RetryFromScratch, Scratch
  <2>5. CASE RetryWithResume(id)
    <3>1. JobOf(queue, id).done \in 0..NStages
      BY <1>0, <2>1, IndexFound DEF Job
    <3>2. PICK kept \in 0..JobOf(queue, id).done :
            queue' = PutJob(queue, [JobOf(queue, id) EXCEPT !.status = "Waiting", !.done = kept])
      BY <2>5 DEF RetryWithResume
    <3>3. kept \in 0..NStages
      BY <3>1, JobQueueAssumption
    <3>. QED
      BY <2>1, <2>2, <3>2, <3>3, PutJobHolds
  <2>. QED
    BY <1>6, <2>3, <2>4, <2>5 DEF Reopens
<1>7. ASSUME NEW id \in JobId, RemoveBook(id) PROVE Pausing(queue') /\ ~StartsBook(queue, queue')
  BY <1>7, RemoveIsSelection, SelectionHolds DEF RemoveBook
<1>8. ASSUME NEW id \in JobId, NEW dir \in {"Up", "Down"}, MoveWaiting(id, dir)
      PROVE  Pausing(queue') /\ ~StartsBook(queue, queue')
  BY <1>8, MoveIsSelection, SelectionHolds DEF MoveWaiting
<1>. QED
  BY <1>1, <1>2, <1>3, <1>4, <1>5, <1>6, <1>7, <1>8 DEF Next, Reopens

(* From a pause request on, no method starts a book and none forgets the   *)
(* request, until the user resumes the queue.                              *)
THEOREM PauseRequestHolds == Spec => PauseHolds
<1>1. IInv /\ [Next]_queue
        => [Pausing(queue) => Resume \/ (Pausing(queue') /\ ~StartsBook(queue, queue'))]_queue
  BY StepHolds
<1>. QED
  BY <1>1, Inductive, PTL DEF Spec, PauseHolds

-----------------------------------------------------------------------------
(* A finished book is reopened by a retry only.                            *)

(* The book id has ended in q, and in r it has not.                        *)
Reopened(q, r, id) == Has(q, id, TerminalStatus) /\ Has(r, id, JobStatus \ TerminalStatus)

(* Nothing is reopened while the entries stay as they are.                 *)
LEMMA SameJobsReopenNone ==
  ASSUME NEW q, Good(q), NEW r, r.jobs = q.jobs, NEW id
  PROVE  ~Reopened(q, r, id)
BY DEF Reopened, Has, Good, UniqueIdsIn

(* Rearranging or dropping entries reopens nothing either.                 *)
LEMMA SelectionReopensNone ==
  ASSUME NEW q, Good(q), NEW r, IsSelection(q, r), NEW id
  PROVE  ~Reopened(q, r, id)
<1>1. PICK f : SelectionBy(f, q, r)
  BY DEF IsSelection
<1>. QED
  BY <1>1 DEF SelectionBy, Reopened, Has, Good, UniqueIdsIn

(* Replacing an entry reopens that book at most.                           *)
LEMMA PutJobReopens ==
  ASSUME NEW q, Good(q), NEW j \in Job, j.id \in Ids(q), NEW r, r.jobs = PutJob(q, j).jobs,
         NEW id, Reopened(q, r, id)
  PROVE  id = j.id /\ JobOf(q, id).status \in TerminalStatus /\ j.status \notin TerminalStatus
<1>1. q \in QueueType /\ UniqueIdsIn(q)
  BY DEF Good
<1>2. /\ DOMAIN r.jobs = DOMAIN q.jobs
      /\ \A i \in DOMAIN q.jobs : r.jobs[i] = IF i = IndexOf(q, j.id) THEN j ELSE q.jobs[i]
  BY <1>1, PutJobFacts
<1>3. IndexOf(q, j.id) \in DOMAIN q.jobs /\ q.jobs[IndexOf(q, j.id)].id = j.id
  BY <1>1, IndexFound
<1>4. PICK i \in DOMAIN q.jobs : q.jobs[i].id = id /\ q.jobs[i].status \in TerminalStatus
  BY DEF Reopened, Has
<1>5. PICK k \in DOMAIN q.jobs : r.jobs[k].id = id /\ r.jobs[k].status \notin TerminalStatus
  BY <1>2 DEF Reopened, Has
<1>6. k = IndexOf(q, j.id)
  BY <1>1, <1>2, <1>4, <1>5 DEF UniqueIdsIn
<1>. QED
  BY <1>1, <1>2, <1>3, <1>4, <1>5, <1>6 DEF UniqueIdsIn, JobOf

(* Applying the pause leaves the entries as they are.                      *)
LEMMA AfterTerminalJobs ==
  ASSUME NEW q \in QueueType
  PROVE  AfterTerminal(q).jobs = q.jobs
BY DEF AfterTerminal, QueueType

(* A snapshot that is accepted does not turn back an entry that has ended. *)
LEMMA ReconcileReopensNone ==
  ASSUME NEW q, Good(q), NEW s \in Job, s.id \in Ids(q), NEW id
  PROVE  ~Reopened(q, Reconcile(q, s), id)
<1>1. q \in QueueType
  BY DEF Good
<1>2. CASE ~Accepts(q, s)
  BY <1>2, SameJobsReopenNone DEF Reconcile
<1>3. CASE Accepts(q, s)
  <2>1. Reconcile(q, s).jobs = PutJob(q, s).jobs
    BY <1>1, <1>3, PutJobFacts, AfterTerminalJobs DEF Reconcile
  <2>2. JobOf(q, s.id).status \in TerminalStatus => s.status \in TerminalStatus
    BY <1>3 DEF Accepts
  <2>. QED
    BY <2>1, <2>2, PutJobReopens
<1>. QED
  BY <1>2, <1>3

(* Nor does another end of a book: finish only knows active ones.          *)
LEMMA FinishReopensNone ==
  ASSUME NEW q, Good(q), NEW book, NEW outcome \in TerminalStatus, NEW id
  PROVE  ~Reopened(q, Finish(q, book, outcome), id)
<1>1. q \in QueueType /\ UniqueIdsIn(q)
  BY DEF Good
<1>2. CASE Has(q, book, ActiveStatus)
  <2> DEFINE j == [JobOf(q, book) EXCEPT !.status = outcome]
  <2>1. book \in Ids(q)
    BY <1>1, <1>2, ActiveHas
  <2>2. j \in Job /\ j.id = book /\ j.status = outcome
    BY <1>1, <2>1, RestatusJob DEF JobStatus
  <2>3. Finish(q, book, outcome) = AfterTerminal(PutJob(q, j))
    BY <1>2 DEF Finish, WithStatus
  <2> HIDE DEF j
  <2>4. Finish(q, book, outcome).jobs = PutJob(q, j).jobs
    BY <1>1, <2>1, <2>2, <2>3, PutJobFacts, AfterTerminalJobs
  <2>. QED
    BY <2>1, <2>2, <2>4, PutJobReopens
<1>3. CASE ~Has(q, book, ActiveStatus)
  BY <1>3, SameJobsReopenNone DEF Finish
<1>. QED
  BY <1>2, <1>3

(* A change of status reopens a finished book at most, and that one only.  *)
LEMMA RestatusReopens ==
  ASSUME NEW q, Good(q), NEW book \in Ids(q), NEW s \in JobStatus,
         NEW id, Reopened(q, WithStatus(q, book, s), id)
  PROVE  id = book /\ JobOf(q, book).status \in TerminalStatus
<1> DEFINE j == [JobOf(q, book) EXCEPT !.status = s]
<1>1. j \in Job /\ j.id = book
  BY RestatusJob DEF Good
<1>2. WithStatus(q, book, s) = PutJob(q, j)
  BY DEF WithStatus
<1> HIDE DEF j
<1>. QED
  BY <1>1, <1>2, PutJobReopens

(* So does a retry that keeps some of the stages.                          *)
Retried(q, book, kept) == PutJob(q, [JobOf(q, book) EXCEPT !.status = "Waiting", !.done = kept])

LEMMA RetriedReopens ==
  ASSUME NEW q, Good(q), NEW book \in Ids(q), NEW kept \in 0..NStages,
         NEW id, Reopened(q, Retried(q, book, kept), id)
  PROVE  id = book
<1> DEFINE j == [JobOf(q, book) EXCEPT !.status = "Waiting", !.done = kept]
<1>1. JobOf(q, book) \in Job /\ JobOf(q, book).id = book
  BY IndexFound DEF Good
<1>2. j \in Job /\ j.id = book
  BY <1>1 DEF Job, JobStatus
<1>3. Retried(q, book, kept) = PutJob(q, j)
  BY DEF Retried
<1> HIDE DEF j
<1>. QED
  BY <1>2, <1>3, PutJobReopens

LEMMA StepReopens ==
  ASSUME IInv, Next, NEW id \in JobId, Reopened(queue, queue', id)
  PROVE  Reopens(id)
<1>0. Good(queue) /\ queue \in QueueType /\ UniqueIdsIn(queue)
  BY DEF IInv, Good
<1>1. CASE Start
  <2>1. CASE queue' = queue
    BY <1>0, <2>1, SameJobsReopenNone
  <2>2. CASE queue' # queue
    <3> DEFINE n == Min(WaitingAt(queue))
               j == [queue.jobs[n] EXCEPT !.status = "Running"]
    <3>1. WaitingAt(queue) # {} /\ queue' = [queue EXCEPT !.jobs[n].status = "Running"]
      BY <1>1, <2>2 DEF Start, StartNext
    <3>2. n \in DOMAIN queue.jobs /\ queue.jobs[n].status = "Waiting"
      BY <1>0, <3>1, MinWaiting DEF WaitingAt
    <3> HIDE DEF n
    <3>3. queue.jobs \in Seq(Job) /\ queue.jobs[n] \in Job
      BY <1>0, <3>2 DEF QueueType
    <3>4. j \in Job /\ j.id = queue.jobs[n].id
      BY <3>3 DEF Job, JobStatus, ActiveStatus
    <3>5. queue'.jobs = [queue.jobs EXCEPT ![n] = j]
      BY <1>0, <3>1, <3>2, <3>3 DEF QueueType
    <3> HIDE DEF j
    <3>6. /\ DOMAIN queue'.jobs = DOMAIN queue.jobs /\ queue'.jobs[n] = j
          /\ \A i \in DOMAIN queue.jobs : i # n => queue'.jobs[i] = queue.jobs[i]
      BY <3>2, <3>3, <3>5
    <3>. QED
      BY <1>0, <3>2, <3>4, <3>6 DEF Reopened, Has, UniqueIdsIn, TerminalStatus
  <2>. QED
    BY <2>1, <2>2
<1>2. CASE PauseAfterCurrent \/ Resume
  <2>1. queue'.jobs = queue.jobs
    BY <1>0, <1>2 DEF PauseAfterCurrent, RequestPause, Resume, ResumeQueue, QueueType
  <2>. QED
    BY <1>0, <2>1, SameJobsReopenNone
<1>3. ASSUME NEW s \in Job, WorkerSnapshot(s) PROVE FALSE
  BY <1>0, <1>3, ReconcileReopensNone DEF WorkerSnapshot
<1>4. ASSUME NEW book \in JobId, NEW in \in Inputs, Enqueue(book, in) PROVE FALSE
  <2> DEFINE j == NewJob(book, in)
  <2>1. j.id = book /\ queue'.jobs = Append(queue.jobs, j) /\ queue.jobs \in Seq(Job)
    BY <1>0, <1>4 DEF Enqueue, AddJob, NewJob, QueueType
  <2> HIDE DEF j
  <2>2. \A k \in DOMAIN queue'.jobs :
          queue'.jobs[k] = j \/ (k \in DOMAIN queue.jobs /\ queue'.jobs[k] = queue.jobs[k])
    BY <2>1
  <2>3. \A i \in DOMAIN queue.jobs : queue.jobs[i].id # book
    BY <1>4 DEF Enqueue, Ids
  <2>. QED
    BY <1>0, <2>1, <2>2, <2>3 DEF Reopened, Has, UniqueIdsIn
<1>5. ASSUME NEW book \in JobId, RequireReview(book) \/ ResumeAfterReview(book) PROVE FALSE
  <2>1. book \in Ids(queue) /\ JobOf(queue, book).status \notin TerminalStatus
    BY <1>0, <1>5, ActiveHas DEF RequireReview, ResumeAfterReview, TerminalStatus
  <2>2. PICK s \in JobStatus : queue' = WithStatus(queue, book, s)
    BY <1>5 DEF RequireReview, ResumeAfterReview, JobStatus, ActiveStatus
  <2>3. Reopened(queue, WithStatus(queue, book, s), id)
    BY <2>2
  <2>. QED
    BY <1>0, <2>1, <2>3, RestatusReopens
<1>6. ASSUME NEW book \in JobId, FinishJob(book) PROVE FALSE
  BY <1>0, <1>6, FinishReopensNone DEF FinishJob
<1>7. ASSUME NEW book \in JobId, Reopens(book) PROVE id = book
  <2>1. book \in Ids(queue)
    BY <1>0, <1>7, HasIsId DEF Reopens, Retry, RetryWithResume, RetryFromScratch
  <2>2. CASE Retry(book)
    <3>1. "Waiting" \in JobStatus /\ Reopened(queue, WithStatus(queue, book, "Waiting"), id)
      BY <2>2 DEF Retry, JobStatus
    <3>. QED
      BY <1>0, <2>1, <3>1, RestatusReopens
  <2>3. CASE RetryFromScratch(book)
    <3>1. queue' = Retried(queue, book, 0)
      BY <2>3 DEF RetryFromScratch, Scratch, Retried
    <3>2. 0 \in 0..NStages
      BY JobQueueAssumption
    <3>. QED
      BY <1>0, <2>1, <3>1, <3>2, RetriedReopens
  <2>4. CASE RetryWithResume(book)
    <3>1. JobOf(queue, book).done \in 0..NStages
      BY <1>0, <2>1, IndexFound DEF Job
    <3>2. PICK kept \in 0..JobOf(queue, book).done :
            queue' = PutJob(queue, [JobOf(queue, book) EXCEPT !.status = "Waiting", !.done = kept])
      BY <2>4 DEF RetryWithResume
    <3>3. kept \in 0..NStages
      BY <3>1, JobQueueAssumption
    <3>4. queue' = Retried(queue, book, kept)
      BY <3>2 DEF Retried
    <3>. QED
      BY <1>0, <2>1, <3>3, <3>4, RetriedReopens
  <2>. QED
    BY <1>7, <2>2, <2>3, <2>4 DEF Reopens
<1>8. ASSUME NEW book \in JobId, RemoveBook(book) PROVE FALSE
  BY <1>0, <1>8, RemoveIsSelection, SelectionReopensNone DEF RemoveBook
<1>9. ASSUME NEW book \in JobId, NEW dir \in {"Up", "Down"}, MoveWaiting(book, dir) PROVE FALSE
  BY <1>0, <1>9, MoveIsSelection, SelectionReopensNone DEF MoveWaiting
<1>. QED
  BY <1>1, <1>2, <1>3, <1>4, <1>5, <1>6, <1>7, <1>8, <1>9 DEF Next, Reopens

(* A finished book is only reopened by a retry of that book: no command on *)
(* another book, no end and no worker snapshot, however late, turns        *)
(* Completed, Failed or Cancelled into anything else.                      *)
THEOREM FinishedBooksStayFinished == Spec => FinishedStaysFinished
<1>1. IInv /\ [Next]_queue
        => [\A id \in JobId :
              Has(queue, id, TerminalStatus) /\ Has(queue', id, JobStatus \ TerminalStatus)
                => Reopens(id)]_queue
  BY StepReopens DEF Reopened
<1>. QED
  BY <1>1, Inductive, PTL DEF Spec, FinishedStaysFinished

-----------------------------------------------------------------------------
(* The controller.                                                         *)

(* Id has been started and is the only book that may be active.            *)
Owns(q, job) ==
  /\ job.id \in Ids(q)
  /\ JobOf(q, job.id).status # "Waiting"
  /\ JobOf(q, job.id).inputs = job.inputs
  /\ \A i \in ActiveAt(q) : q.jobs[i].id = job.id

(* The thread's copy and its snapshots are of the same started book.       *)
SameBook(s, job) == s \in Job /\ s.id = job.id /\ s.inputs = job.inputs /\ s.status # "Waiting"

WorkerFits(w) ==
  /\ w \in WorkerType /\ w.job.status # "Waiting"
  /\ w.latest = NoUpdate \/ SameBook(w.latest, w.job)

Sound(q, w, cancel) ==
  /\ Good(q)
  /\ w = NoWorker \/ (WorkerFits(w) /\ Owns(q, w.job))
  /\ cancel = NoJob \/ (w # NoWorker /\ w.job.id = cancel /\ w.cancel)

(* What the next start will read.                                          *)
GoodSnapshot(d) ==
  /\ d.jobs \in Seq(Job) /\ \A i, k \in DOMAIN d.jobs : d.jobs[i].id = d.jobs[k].id => i = k
  /\ \A i \in DOMAIN d.jobs : IsOpen(d.jobs[i])
  /\ d.readable \in BOOLEAN
  /\ d.jobs = << >> => d \in {NoBooks, Unreadable}

CInv ==
  /\ Sound(queue, worker, pendingCancel)
  /\ runtime = NoTask \/ runtime \in [kind : {"scan", "install"}, ended : BOOLEAN]
  /\ worker # NoWorker => runtime.kind # "install"
  /\ ~up => worker = NoWorker /\ pendingCancel = NoJob /\ runtime = NoTask /\ ~blocked /\ ~dirty
  /\ up \in BOOLEAN /\ dirty \in BOOLEAN /\ blocked \in BOOLEAN
  /\ GoodSnapshot(disk)
  /\ RecoveryFaithful

-----------------------------------------------------------------------------
(* Owning a book survives the methods of the queue.                        *)

LEMMA WorkerIsNot == NoWorker \notin WorkerType /\ NoUpdate \notin Job
<1>1. NoWorker \notin WorkerType
  <2>1. NoWorker.phase = "none"
    BY DEF NoWorker
  <2>2. \A w \in WorkerType : w.phase # "none"
    BY DEF WorkerType
  <2>. QED
    BY <2>1, <2>2
<1>2. NoUpdate \notin Job
  <2>1. NoUpdate.id = NoJob
    BY DEF NoUpdate
  <2>2. \A j \in Job : j.id \in JobId
    BY DEF Job
  <2>. QED
    BY <2>1, <2>2, ControllerAssumption
<1>. QED
  BY <1>1, <1>2

(* Of a good queue, an entry with the identity is the job.                 *)
LEMMA EntryIsJob ==
  ASSUME NEW q, Good(q), NEW i \in DOMAIN q.jobs
  PROVE  q.jobs[i].id \in Ids(q) /\ JobOf(q, q.jobs[i].id) = q.jobs[i] /\ q.jobs[i] \in Job
<1>1. q \in QueueType /\ UniqueIdsIn(q) /\ q.jobs \in Seq(Job)
  BY DEF Good, QueueType
<1>2. q.jobs[i].id \in Ids(q)
  BY DEF Ids
<1>3. IndexOf(q, q.jobs[i].id) = i
  BY <1>1, <1>2, IndexFound DEF UniqueIdsIn
<1>. QED
  BY <1>1, <1>2, <1>3 DEF JobOf

(* A queue with the same entries is as good an owner.                      *)
LEMMA OwnsByEntries ==
  ASSUME NEW q, Good(q), NEW r, Good(r), NEW job, Owns(q, job),
         HasEntry(r, JobOf(q, job.id)),
         \A i \in ActiveAt(r) : \E k \in ActiveAt(q) : r.jobs[i].id = q.jobs[k].id
  PROVE  Owns(r, job)
<1>1. q \in QueueType
  BY DEF Good
<1>2. JobOf(q, job.id).id = job.id
  BY <1>1, IndexFound DEF Owns
<1>3. PICK i \in DOMAIN r.jobs : r.jobs[i] = JobOf(q, job.id)
  BY DEF HasEntry
<1>4. job.id \in Ids(r) /\ JobOf(r, job.id) = JobOf(q, job.id)
  BY <1>2, <1>3, EntryIsJob
<1>. QED
  BY <1>4 DEF Owns

LEMMA SameJobsOwns ==
  ASSUME NEW q, NEW r, r.jobs = q.jobs, NEW job, Owns(q, job)
  PROVE  Owns(r, job)
BY DEF Owns, Ids, JobOf, IndexOf, ActiveAt

(* PutJob of another job, or of a later state of the worker's own.         *)
LEMMA PutJobOwns ==
  ASSUME NEW q, Good(q), NEW job, Owns(q, job), NEW j \in Job, j.id \in Ids(q),
         \/ SameBook(j, job)
         \/ j.id # job.id /\ j.status \notin ActiveStatus
  PROVE  Owns(PutJob(q, j), job)
<1> DEFINE r == PutJob(q, j)
           n == IndexOf(q, j.id)
           m == IndexOf(q, job.id)
<1>1. q \in QueueType /\ UniqueIdsIn(q)
  BY DEF Good
<1>2. n \in DOMAIN q.jobs /\ q.jobs[n].id = j.id /\ m \in DOMAIN q.jobs /\ q.jobs[m].id = job.id
  BY <1>1, IndexFound DEF Owns
<1>3. /\ DOMAIN r.jobs = DOMAIN q.jobs
      /\ \A i \in DOMAIN q.jobs : r.jobs[i] = IF i = n THEN j ELSE q.jobs[i]
      /\ \A i : i \in ActiveAt(r) <=> IF i = n THEN j.status \in ActiveStatus ELSE i \in ActiveAt(q)
  BY <1>1, PutJobFacts, PutJobActive
<1>4. r \in QueueType /\ UniqueIdsIn(r)
  BY <1>1, PutJobFacts, PutJobUnique
<1> HIDE DEF r, n, m
<1>5. r.jobs[m].id = job.id
  BY <1>1, <1>2, <1>3 DEF SameBook
<1>6. job.id \in Ids(r) /\ IndexOf(r, job.id) = m
  BY <1>2, <1>3, <1>4, <1>5, IndexFound DEF Ids, UniqueIdsIn
<1>7. JobOf(r, job.id) = IF m = n THEN j ELSE JobOf(q, job.id)
  BY <1>2, <1>3, <1>6 DEF JobOf, m
<1>8. m = n => j.id = job.id
  BY <1>2
<1>9. JobOf(r, job.id).status # "Waiting" /\ JobOf(r, job.id).inputs = job.inputs
  BY <1>7, <1>8 DEF SameBook, Owns
<1>10. ASSUME NEW i \in ActiveAt(r) PROVE r.jobs[i].id = job.id
  <2>1. CASE i = n
    BY <1>2, <1>3, <1>10, <2>1 DEF SameBook
  <2>2. CASE i # n
    <3>1. i \in ActiveAt(q) /\ i \in DOMAIN q.jobs
      BY <1>3, <1>10, <2>2 DEF ActiveAt
    <3>. QED
      BY <1>3, <2>2, <3>1 DEF Owns
  <2>. QED
    BY <2>1, <2>2
<1>11. Owns(r, job)
  BY <1>6, <1>9, <1>10 DEF Owns
<1>. QED
  BY <1>11 DEF r

LEMMA ReconcileOwns ==
  ASSUME NEW q, Good(q), NEW job, Owns(q, job), NEW s, SameBook(s, job)
  PROVE  Good(Reconcile(q, s)) /\ Owns(Reconcile(q, s), job)
<1>1. s \in Job /\ s.id \in Ids(q) /\ JobOf(q, s.id).status # "Waiting"
  BY DEF SameBook, Owns
<1>2. Good(Reconcile(q, s))
  BY <1>1, ReconcileGood
<1>3. Owns(PutJob(q, s), job)
  BY <1>1, PutJobOwns
<1>4. AfterTerminal(PutJob(q, s)).jobs = PutJob(q, s).jobs
  <2>1. PutJob(q, s) \in QueueType
    BY <1>1, PutJobFacts DEF Good
  <2> DEFINE r == PutJob(q, s)
  <2>2. r \in QueueType
    BY <2>1
  <2> HIDE DEF r
  <2>3. AfterTerminal(r).jobs = r.jobs
    BY <2>2 DEF AfterTerminal, QueueType
  <2>. QED
    BY <2>3 DEF r
<1>5. Owns(AfterTerminal(PutJob(q, s)), job)
  BY <1>3, <1>4, SameJobsOwns
<1>. QED
  BY <1>2, <1>3, <1>5 DEF Reconcile

-----------------------------------------------------------------------------
(* poll_worker.                                                            *)

LEMMA PollSound ==
  ASSUME CInv
  PROVE  /\ Sound(PolledQueue, PolledWorker, PolledCancel)
         /\ PolledWorker # NoWorker => worker # NoWorker /\ PolledWorker.job = worker.job
<1>1. CASE worker = NoWorker
  <2>1. ~Joined /\ ~HasUpdate
    BY <1>1 DEF Joined, HasUpdate
  <2>. QED
    BY <1>1, <2>1 DEF CInv, Sound, PolledQueue, PolledWorker, PolledCancel, DrainedQueue
<1>2. CASE worker # NoWorker
  <2>1. WorkerFits(worker) /\ Owns(queue, worker.job) /\ Good(queue) /\ SameBook(worker.job, worker.job)
    BY <1>2 DEF CInv, Sound, WorkerFits, WorkerType, SameBook
  <2>2. Good(DrainedQueue) /\ Owns(DrainedQueue, worker.job)
    BY <1>2, <2>1, ReconcileOwns DEF DrainedQueue, HasUpdate, WorkerFits
  <2>3. CASE Joined
    <3>1. Good(Reconcile(DrainedQueue, worker.job))
      BY <2>1, <2>2, ReconcileOwns
    <3>2. Good(JoinedQueue(DrainedQueue))
      BY <2>2, <3>1, FinishGood DEF JoinedQueue, TerminalStatus
    <3>3. Good(CancelledQueue(JoinedQueue(DrainedQueue)))
      BY <3>2, FinishGood DEF CancelledQueue, TerminalStatus
    <3>. QED
      BY <2>3, <3>3 DEF Sound, PolledQueue, PolledWorker, PolledCancel
  <2>4. CASE ~Joined
    <3>1. PolledWorker = [worker EXCEPT !.latest = NoUpdate, !.cancel = @ \/ Rejected]
      BY <1>2, <2>4 DEF PolledWorker
    <3>2. /\ PolledWorker \in WorkerType /\ PolledWorker.job = worker.job
          /\ PolledWorker.latest = NoUpdate
          /\ worker.cancel => PolledWorker.cancel
      <4>1. Rejected \in BOOLEAN
        BY DEF Rejected, HasUpdate
      <4>. QED
        BY <2>1, <3>1, <4>1 DEF WorkerFits, WorkerType
    <3>3. WorkerFits(PolledWorker) /\ PolledWorker # NoWorker
      BY <2>1, <3>2, WorkerIsNot DEF WorkerFits
    <3>4. PolledQueue = DrainedQueue /\ PolledCancel = pendingCancel
      BY <2>4 DEF PolledQueue, PolledCancel
    <3>. QED
      BY <1>2, <2>2, <3>2, <3>3, <3>4 DEF CInv, Sound
  <2>. QED
    BY <2>3, <2>4
<1>. QED
  BY <1>1, <1>2

-----------------------------------------------------------------------------
(* The recovery snapshot.                                                  *)

(* In a finite set of numbers every rank is taken once.                    *)
LEMMA RankProper ==
  ASSUME NEW S \in SUBSET Nat, IsFiniteSet(S), NEW i \in S, NEW k \in S, i < k
  PROVE  Rank(S, i) < Rank(S, k)
<1> DEFINE A == {j \in S : j <= i}
           B == {j \in S : j <= k}
<1>0. i \in Nat /\ k \in Nat /\ \A j \in S : j \in Nat
  OBVIOUS
<1>1. A \in SUBSET B /\ k \in B /\ k \notin A
  <2>1. \A j \in S : j <= i => j <= k
    BY <1>0
  <2>2. k <= k /\ ~(k <= i)
    BY <1>0
  <2>. QED
    BY <2>1, <2>2
<1>2. IsFiniteSet(B) /\ B \in SUBSET S
  BY FS_Subset
<1>3. IsFiniteSet(A) /\ Cardinality(A) \in Nat /\ Cardinality(B) \in Nat
  BY <1>1, <1>2, FS_Subset, FS_CardinalityType
<1>4. Cardinality(A) <= Cardinality(B) /\ Cardinality(A) # Cardinality(B)
  BY <1>1, <1>2, FS_Subset
<1>. QED
  BY <1>3, <1>4 DEF Rank

LEMMA RankHits ==
  ASSUME NEW S \in SUBSET Nat, IsFiniteSet(S)
  PROVE  \A k \in 1..Cardinality(S) : \E i \in S : Rank(S, i) = k
<1> DEFINE n == Cardinality(S)
           f == [i \in S |-> Rank(S, i)]
<1>1. n \in Nat /\ IsFiniteSet(1..n) /\ Cardinality(1..n) = n
  BY FS_CardinalityType, FS_Interval
<1>2. ASSUME NEW i \in S PROVE Rank(S, i) \in 1..n
  <2> DEFINE A == {j \in S : j <= i}
  <2>1. A \in SUBSET S /\ i \in A
    OBVIOUS
  <2>2. IsFiniteSet(A) /\ Cardinality(A) <= n
    BY <2>1, FS_Subset
  <2>3. Cardinality(A) \in Nat /\ Cardinality(A) # 0
    BY <2>1, <2>2, FS_CardinalityType, FS_EmptySet
  <2>. QED
    BY <1>1, <2>2, <2>3 DEF Rank
<1>3. ASSUME NEW i \in S, NEW k \in S, Rank(S, i) = Rank(S, k) PROVE i = k
  <2>1. i \in Nat /\ k \in Nat /\ Rank(S, i) \in Nat
    BY <1>2
  <2>2. ~(i < k) /\ ~(k < i)
    BY <1>2, <1>3, <2>1, RankProper
  <2>. QED
    BY <2>1, <2>2
<1>4. f \in Injection(S, 1..n)
  BY <1>2, <1>3 DEF Injection, IsInjective
<1>5. f \in Surjection(S, 1..n)
  <2> HIDE DEF f
  <2>. QED
    BY <1>1, <1>4, FS_Injection
<1>. QED
  BY <1>5 DEF Surjection

LEMMA OpenBookAt ==
  ASSUME NEW q \in QueueType
  PROVE  /\ Cardinality(OpenAt(q)) \in Nat
         /\ \A k \in 1..Cardinality(OpenAt(q)) : \E i \in OpenAt(q) :
              Rank(OpenAt(q), i) = k /\ OpenBook(q, k) = q.jobs[i]
<1> DEFINE S == OpenAt(q)
<1>1. q.jobs \in Seq(Job)
  BY DEF QueueType
<1>2. S \in SUBSET (1..Len(q.jobs)) /\ Len(q.jobs) \in Nat
  BY <1>1 DEF OpenAt
<1>3. IsFiniteSet(S) /\ S \in SUBSET Nat
  <2>1. IsFiniteSet(1..Len(q.jobs)) /\ 1..Len(q.jobs) \in SUBSET Nat
    BY <1>2, FS_Interval
  <2> HIDE DEF S
  <2>. QED
    BY <1>2, <2>1, FS_Subset
<1>4. Cardinality(S) \in Nat
  BY <1>3, FS_CardinalityType
<1>5. ASSUME NEW k \in 1..Cardinality(S)
      PROVE  \E i \in S : Rank(S, i) = k /\ OpenBook(q, k) = q.jobs[i]
  <2>1. \E i \in S : Rank(S, i) = k
    BY <1>3, RankHits
  <2>. QED
    BY <2>1 DEF OpenBook
<1>. QED
  BY <1>4, <1>5

LEMMA SavedGood ==
  ASSUME NEW q, Good(q)
  PROVE  GoodSnapshot(Saved(q))
<1> DEFINE s == Saved(q).jobs
           n == Cardinality(OpenAt(q))
<1>1. q \in QueueType /\ UniqueIdsIn(q) /\ q.jobs \in Seq(Job)
  BY DEF Good, QueueType
<1>2. n \in Nat /\ \A k \in 1..n : \E i \in OpenAt(q) : Rank(OpenAt(q), i) = k /\ OpenBook(q, k) = q.jobs[i]
  BY <1>1, OpenBookAt
<1>3. \A i \in OpenAt(q) : i \in DOMAIN q.jobs /\ q.jobs[i] \in Job /\ IsOpen(q.jobs[i])
  BY <1>1 DEF OpenAt
<1>4. s = [k \in 1..n |-> OpenBook(q, k)] /\ Saved(q).readable = TRUE
  BY DEF Saved
<1> HIDE DEF s, n
<1>5. s \in Seq(Job) /\ Len(s) = n /\ DOMAIN s = 1..n
  BY <1>2, <1>3, <1>4
<1>6. \A i \in DOMAIN s : IsOpen(s[i])
  BY <1>2, <1>3, <1>4, <1>5
<1>7. ASSUME NEW i \in 1..n, NEW k \in 1..n, s[i].id = s[k].id PROVE i = k
  <2>1. PICK a \in OpenAt(q) : Rank(OpenAt(q), a) = i /\ s[i] = q.jobs[a]
    BY <1>2, <1>4
  <2>2. PICK b \in OpenAt(q) : Rank(OpenAt(q), b) = k /\ s[k] = q.jobs[b]
    BY <1>2, <1>4
  <2>3. a = b
    BY <1>1, <1>3, <1>7, <2>1, <2>2 DEF UniqueIdsIn
  <2>. QED
    BY <2>1, <2>2, <2>3
<1>8. s = << >> => Saved(q) = NoBooks
  BY DEF s, Saved, NoBooks
<1>9. Saved(q).readable \in BOOLEAN /\ Saved(q).jobs = s
  BY <1>4 DEF s
<1>10. \A i, k \in DOMAIN s : s[i].id = s[k].id => i = k
  BY <1>5, <1>7
<1>. QED
  BY <1>5, <1>6, <1>8, <1>9, <1>10 DEF GoodSnapshot

LEMMA EmptySaved == Saved(EmptyQueue) = NoBooks
<1>1. OpenAt(EmptyQueue) = {}
  BY DEF OpenAt, EmptyQueue
<1>2. Cardinality(OpenAt(EmptyQueue)) = 0
  BY <1>1, FS_EmptySet
<1>3. [k \in 1..Cardinality(OpenAt(EmptyQueue)) |-> OpenBook(EmptyQueue, k)] = << >>
  BY <1>2
<1>. QED
  BY <1>3 DEF Saved, NoBooks

LEMMA EmptyGood == Good(EmptyQueue)
BY DEF EmptyQueue, QueueType, Good, UniqueIdsIn, OneActiveIn, ActiveAt, PauseConsistentIn

LEMMA RecoveredGood ==
  ASSUME NEW d, GoodSnapshot(d)
  PROVE  Good(RecoveredQueue(d))
<1>1. ASSUME NEW j \in Job PROVE RecoveredJob(j) \in Job /\ RecoveredJob(j).status = "Waiting" /\ RecoveredJob(j).id = j.id
  <2> DEFINE kept == IF j.status = "NeedsReview" THEN Min({j.done, ReviewStage - 1}) ELSE j.done
  <2>1. j.done \in 0..NStages /\ ReviewStage - 1 \in 0..NStages
    BY JobQueueAssumption, ControllerAssumption DEF Job
  <2>2. Min({j.done, ReviewStage - 1}) \in {j.done, ReviewStage - 1}
    BY <2>1, JobQueueAssumption, MinInSet
  <2>3. kept \in 0..NStages
    BY <2>1, <2>2
  <2>4. RecoveredJob(j) = [j EXCEPT !.status = "Waiting", !.done = kept]
    BY DEF RecoveredJob
  <2> HIDE DEF kept
  <2>. QED
    BY <2>3, <2>4 DEF Job, JobStatus
<1>2. CASE d = NoBooks
  BY <1>2, EmptyGood DEF RecoveredQueue
<1>3. CASE d # NoBooks
  <2> DEFINE s == [i \in DOMAIN d.jobs |-> RecoveredJob(d.jobs[i])]
             q == RecoveredQueue(d)
  <2>1. d.jobs \in Seq(Job) /\ DOMAIN d.jobs = 1..Len(d.jobs) /\ Len(d.jobs) \in Nat
    BY DEF GoodSnapshot
  <2>2. s \in Seq(Job) /\ DOMAIN s = DOMAIN d.jobs
    BY <1>1, <2>1
  <2>3. \A i \in DOMAIN d.jobs : s[i].status = "Waiting" /\ s[i].id = d.jobs[i].id
    BY <1>1, <2>1
  <2>4. q = [jobs |-> s, state |-> "Paused", pauseAfterCurrent |-> FALSE]
    BY <1>3 DEF RecoveredQueue, EmptyQueue
  <2> HIDE DEF s, q
  <2>5. q \in QueueType
    BY <2>2, <2>4 DEF QueueType
  <2>6. UniqueIdsIn(q)
    BY <2>2, <2>3, <2>4 DEF GoodSnapshot, UniqueIdsIn
  <2>7. ActiveAt(q) = {}
    BY <2>2, <2>3, <2>4 DEF ActiveAt, ActiveStatus
  <2>8. Good(q)
    BY <2>4, <2>5, <2>6, <2>7 DEF Good, OneActiveIn, PauseConsistentIn
  <2>. QED
    BY <2>8 DEF q
<1>. QED
  BY <1>2, <1>3

-----------------------------------------------------------------------------
(* The invariant after a step, and what saving makes of the snapshot.      *)

LEMMA InvAfter ==
  ASSUME Sound(queue', worker', pendingCancel'),
         runtime' = NoTask \/ runtime' \in [kind : {"scan", "install"}, ended : BOOLEAN],
         worker' # NoWorker => runtime'.kind # "install",
         up' = TRUE, dirty' \in BOOLEAN, blocked' \in BOOLEAN,
         GoodSnapshot(disk'),
         ~dirty' /\ ~blocked' => disk' = Saved(queue'),
         blocked' => disk' = Unreadable
  PROVE  CInv'
<1>1. RecoveryFaithful'
  BY DEF RecoveryFaithful, Saved, OpenAt, IsOpen, OpenBook, Unreadable
<1>2. Sound(queue, worker, pendingCancel)'
  BY DEF Sound, Good, WorkerFits, Owns
<1>3. GoodSnapshot(disk)'
  BY DEF GoodSnapshot
<1>. QED
  BY <1>1, <1>2, <1>3 DEF CInv

LEMMA PersistInv ==
  ASSUME CInv, NEW q, Good(q), NEW touched \in BOOLEAN, Persist(q, touched),
         ~touched /\ ~blocked => disk = Saved(q)
  PROVE  /\ GoodSnapshot(disk') /\ dirty' \in BOOLEAN
         /\ ~dirty' /\ ~blocked => disk' = Saved(q)
         /\ blocked => disk' = Unreadable
<1>1. GoodSnapshot(disk) /\ GoodSnapshot(Saved(q)) /\ GoodSnapshot(Saved(PolledQueue))
  BY PollSound, SavedGood DEF CInv, Sound
<1>2. disk' \in {disk, Saved(q), Saved(PolledQueue)} /\ dirty' \in BOOLEAN
  BY DEF Persist, Unsaved
<1>3. GoodSnapshot(disk')
  BY <1>1, <1>2
<1>4. ~dirty' /\ ~blocked => disk' = Saved(q)
  BY DEF Persist
<1>5. blocked => disk' = Unreadable
  BY DEF Persist, CInv, RecoveryFaithful
<1>. QED
  BY <1>2, <1>3, <1>4, <1>5

LEMMA DispatchInv ==
  ASSUME CInv, NEW q, NEW w, NEW c, Sound(q, w, c), w # NoWorker => worker # NoWorker,
         Dispatch(q, w, c)
  PROVE  CInv'
<1>1. Good(q) /\ Persist(q, TRUE)
  BY DEF Sound, Dispatch
<1>2. /\ GoodSnapshot(disk') /\ dirty' \in BOOLEAN
      /\ ~dirty' /\ ~blocked => disk' = Saved(q)
      /\ blocked => disk' = Unreadable
  BY <1>1, PersistInv
<1>3. queue' = q /\ worker' = w /\ pendingCancel' = c /\ runtime' = runtime /\ blocked' = blocked /\ up' = TRUE
  BY DEF Dispatch, CInv
<1>. QED
  BY <1>2, <1>3, InvAfter DEF CInv

(* A poll that neither ends the worker nor changes the queue has nothing   *)
(* to save.                                                                *)
LEMMA NothingToSave ==
  ASSUME CInv, up, ~blocked, ~PolledDirty
  PROVE  disk = Saved(PolledQueue) /\ ~Joined
BY DEF CInv, PolledDirty, RecoveryFaithful

LEMMA PollsOnlyInv ==
  ASSUME CInv, PollsOnly,
         runtime' = NoTask \/ runtime' \in [kind : {"scan", "install"}, ended : BOOLEAN],
         PolledWorker # NoWorker => runtime'.kind # "install"
  PROVE  CInv'
<1>1. Sound(PolledQueue, PolledWorker, PolledCancel) /\ Good(PolledQueue)
  BY PollSound DEF Sound
<1>2. PolledDirty \in BOOLEAN /\ Joined \in BOOLEAN
  BY DEF PolledDirty, Joined, Rejected, HasUpdate, CInv
<1>3. CASE Joined
  <2>1. Persist(PolledQueue, TRUE)
    BY <1>3 DEF PollsOnly
  <2>. QED
    BY <1>1, <2>1, PersistInv, InvAfter DEF PollsOnly, CInv
<1>4. CASE ~Joined
  <2>1. disk' = disk /\ dirty' = PolledDirty /\ up
    BY <1>4 DEF PollsOnly
  <2>2. ~dirty' /\ ~blocked => disk = Saved(PolledQueue)
    BY <2>1, NothingToSave
  <2>. QED
    BY <1>1, <1>2, <2>1, <2>2, InvAfter DEF PollsOnly, CInv, RecoveryFaithful
<1>. QED
  BY <1>2, <1>3, <1>4

(* After the queue has changed, the next book is started only by an idle   *)
(* controller.                                                             *)
LEMMA StartIdleSound ==
  ASSUME NEW q, NEW w, NEW c, Sound(q, w, c)
  PROVE  Sound(StartNextIfIdle(q, w), w, c)
BY StartNextGood DEF StartNextIfIdle, Sound

-----------------------------------------------------------------------------
(* The commands.                                                           *)

(* The book of the worker stays its book when another is added.            *)
LEMMA AddJobOwns ==
  ASSUME NEW q, Good(q), NEW job, Owns(q, job), NEW id \in JobId, NEW in \in Inputs, id \notin Ids(q)
  PROVE  Owns(AddJob(q, NewJob(id, in)), job)
<1> DEFINE j == NewJob(id, in)
           r == AddJob(q, j)
<1>1. Good(r)
  BY AddJobGood
<1>2. q.jobs \in Seq(Job) /\ q \in QueueType /\ j \in Job
  BY JobQueueAssumption DEF Good, QueueType, NewJob, Job, JobStatus
<1>3. r.jobs = Append(q.jobs, j)
  BY <1>2 DEF AddJob, QueueType
<1>4. /\ DOMAIN q.jobs \in SUBSET DOMAIN r.jobs
      /\ \A i \in DOMAIN q.jobs : r.jobs[i] = q.jobs[i]
      /\ \A i \in DOMAIN r.jobs : i \in DOMAIN q.jobs \/ r.jobs[i] = j
  BY <1>2, <1>3
<1>5. j.status \notin ActiveStatus
  BY DEF NewJob, ActiveStatus
<1> HIDE DEF j, r
<1>6. HasEntry(r, JobOf(q, job.id))
  BY <1>2, <1>4, IndexFound DEF HasEntry, Owns, JobOf
<1>7. \A i \in ActiveAt(r) : \E k \in ActiveAt(q) : r.jobs[i].id = q.jobs[k].id
  BY <1>4, <1>5 DEF ActiveAt
<1>8. Owns(r, job)
  BY <1>1, <1>6, <1>7, OwnsByEntries
<1>. QED
  BY <1>8 DEF r, j

(* Nor does it matter that others are dropped or rearranged.               *)
LEMMA SelectionOwns ==
  ASSUME NEW q, Good(q), NEW job, Owns(q, job), NEW r, IsSelection(q, r),
         HasEntry(r, JobOf(q, job.id))
  PROVE  Owns(r, job)
<1>1. PICK f : SelectionBy(f, q, r)
  BY DEF IsSelection
<1>2. \A i \in ActiveAt(r) : f[i] \in ActiveAt(q) /\ r.jobs[i].id = q.jobs[f[i]].id
  BY <1>1 DEF SelectionBy, ActiveAt
<1>3. Good(r)
  BY SelectionGood
<1>. QED
  BY <1>2, <1>3, OwnsByEntries

LEMMA EnqueueInv ==
  ASSUME CInv, NEW id \in JobId, NEW in \in Inputs, EnqueueCommand(id, in)
  PROVE  CInv'
<1> DEFINE q == AddJob(PolledQueue, NewJob(id, in))
<1>1. Sound(PolledQueue, PolledWorker, PolledCancel) /\ (PolledWorker # NoWorker => worker # NoWorker)
  BY PollSound
<1>2. id \notin Ids(PolledQueue)
  BY DEF EnqueueCommand
<1>3. Sound(q, PolledWorker, PolledCancel)
  BY <1>1, <1>2, AddJobGood, AddJobOwns DEF Sound
<1>4. Sound(StartNextIfIdle(q, PolledWorker), PolledWorker, PolledCancel)
  BY <1>3, StartIdleSound
<1>. QED
  BY <1>1, <1>4, DispatchInv DEF EnqueueCommand

LEMMA PauseInv ==
  ASSUME CInv, PauseCommand \/ ResumeCommand
  PROVE  CInv'
<1> DEFINE p == RequestPause(PolledQueue)
           r == ResumeQueue(PolledQueue)
<1>1. Sound(PolledQueue, PolledWorker, PolledCancel) /\ (PolledWorker # NoWorker => worker # NoWorker)
  BY PollSound
<1>2. Good(PolledQueue) /\ PolledQueue \in QueueType
  BY <1>1 DEF Sound, Good
<1>3. p.jobs = PolledQueue.jobs /\ r.jobs = PolledQueue.jobs
  BY <1>2 DEF RequestPause, ResumeQueue, QueueType
<1>4. Good(p) /\ Good(r)
  BY <1>2, RequestPauseGood, ResumeQueueGood
<1> HIDE DEF p, r
<1>5. Sound(p, PolledWorker, PolledCancel) /\ Sound(r, PolledWorker, PolledCancel)
  BY <1>1, <1>3, <1>4, SameJobsOwns DEF Sound
<1>6. Sound(StartNextIfIdle(r, PolledWorker), PolledWorker, PolledCancel)
  BY <1>5, StartIdleSound
<1>. QED
  BY <1>1, <1>5, <1>6, DispatchInv DEF PauseCommand, ResumeCommand, p, r

LEMMA CancelInv ==
  ASSUME CInv, CancelActive
  PROVE  CInv'
<1>1. Sound(PolledQueue, PolledWorker, PolledCancel) /\ (PolledWorker # NoWorker => worker # NoWorker)
  BY PollSound
<1>2. CASE PolledWorker # NoWorker
  <2> DEFINE w == [PolledWorker EXCEPT !.cancel = TRUE]
  <2>1. WorkerFits(PolledWorker) /\ Owns(PolledQueue, PolledWorker.job) /\ Good(PolledQueue)
    BY <1>1, <1>2 DEF Sound
  <2>2. w \in WorkerType /\ w.job = PolledWorker.job /\ w.latest = PolledWorker.latest /\ w.cancel
    BY <2>1 DEF WorkerFits, WorkerType
  <2>3. Dispatch(PolledQueue, w, PolledWorker.job.id)
    BY <1>2 DEF CancelActive
  <2> HIDE DEF w
  <2>4. Sound(PolledQueue, w, PolledWorker.job.id)
    BY <2>1, <2>2, WorkerIsNot DEF Sound, WorkerFits
  <2>. QED
    BY <1>1, <1>2, <2>3, <2>4, DispatchInv
<1>3. CASE PolledWorker = NoWorker
  <2>1. PICK i \in ActiveAt(PolledQueue) :
          Dispatch(StartNextIfIdle(Finish(PolledQueue, PolledQueue.jobs[i].id, "Cancelled"),
                                   PolledWorker),
                   PolledWorker, PolledCancel)
    BY <1>3 DEF CancelActive
  <2> DEFINE q == Finish(PolledQueue, PolledQueue.jobs[i].id, "Cancelled")
  <2>2. Good(q)
    BY <1>1, FinishGood DEF Sound, TerminalStatus
  <2> HIDE DEF q
  <2>3. Sound(q, PolledWorker, PolledCancel)
    BY <1>1, <1>3, <2>2 DEF Sound
  <2>4. Sound(StartNextIfIdle(q, PolledWorker), PolledWorker, PolledCancel)
    BY <2>3, StartIdleSound
  <2>. QED
    BY <1>1, <2>1, <2>4, DispatchInv DEF q
<1>. QED
  BY <1>2, <1>3

LEMMA RetryInv ==
  ASSUME CInv, NEW id \in JobId, RetryCommand(id)
  PROVE  CInv'
<1> DEFINE j == Scratch(JobOf(PolledQueue, id))
           q == PutJob(PolledQueue, j)
<1>1. Sound(PolledQueue, PolledWorker, PolledCancel) /\ (PolledWorker # NoWorker => worker # NoWorker)
  BY PollSound
<1>2. Good(PolledQueue) /\ PolledQueue \in QueueType /\ UniqueIdsIn(PolledQueue)
  BY <1>1 DEF Sound, Good
<1>3. id \in Ids(PolledQueue) /\ JobOf(PolledQueue, id).status \in {"Failed", "Cancelled"}
  BY <1>2, ActiveHas DEF RetryCommand
<1>4. /\ "Waiting" \in JobStatus /\ "Waiting" \notin ActiveStatus
      /\ JobOf(PolledQueue, id).status \notin ActiveStatus /\ 0 \in 0..NStages
  BY <1>3, JobQueueAssumption DEF JobStatus, ActiveStatus
<1>5. j \in Job /\ j.id = id /\ j.status = "Waiting"
  <2>1. JobOf(PolledQueue, id) \in Job /\ JobOf(PolledQueue, id).id = id
    BY <1>2, <1>3, IndexFound
  <2>. QED
    BY <1>4, <2>1 DEF Scratch, Job
<1>6. Good(q)
  BY <1>2, <1>3, <1>4, RestatusGood DEF Scratch
<1> HIDE DEF j
<1>7. ASSUME PolledWorker # NoWorker PROVE Owns(q, PolledWorker.job)
  <2>1. PolledWorker.job.id # id /\ Owns(PolledQueue, PolledWorker.job)
    BY <1>1, <1>7 DEF RetryCommand, WorkerReleased, Sound
  <2>. QED
    BY <1>2, <1>3, <1>4, <1>5, <2>1, PutJobOwns
<1> HIDE DEF q
<1>8. Sound(q, PolledWorker, PolledCancel)
  BY <1>1, <1>6, <1>7 DEF Sound
<1>9. Sound(StartNextIfIdle(q, PolledWorker), PolledWorker, PolledCancel)
  BY <1>8, StartIdleSound
<1>. QED
  BY <1>1, <1>9, DispatchInv DEF RetryCommand, q, j

LEMMA RemoveInv ==
  ASSUME CInv, NEW id \in JobId, RemoveCommand(id)
  PROVE  CInv'
<1> DEFINE q == RemoveJob(PolledQueue, id)
<1>1. Sound(PolledQueue, PolledWorker, PolledCancel) /\ (PolledWorker # NoWorker => worker # NoWorker)
  BY PollSound
<1>2. Good(PolledQueue) /\ PolledQueue \in QueueType
  BY <1>1 DEF Sound, Good
<1>3. IsSelection(PolledQueue, q)
      /\ \A a \in DOMAIN PolledQueue.jobs :
           PolledQueue.jobs[a].id # id => HasEntry(q, PolledQueue.jobs[a])
  BY <1>2, RemoveIsSelection DEF RemoveCommand
<1> HIDE DEF q
<1>4. ASSUME PolledWorker # NoWorker PROVE Owns(q, PolledWorker.job)
  <2>1. PolledWorker.job.id # id /\ Owns(PolledQueue, PolledWorker.job)
    BY <1>1, <1>4 DEF RemoveCommand, WorkerReleased, Sound
  <2>2. HasEntry(q, JobOf(PolledQueue, PolledWorker.job.id))
    BY <1>2, <1>3, <2>1, IndexFound DEF Owns, JobOf
  <2>. QED
    BY <1>2, <1>3, <2>1, <2>2, SelectionOwns
<1>5. Good(q)
  BY <1>2, <1>3, SelectionGood
<1>6. Sound(q, PolledWorker, PolledCancel)
  BY <1>1, <1>4, <1>5 DEF Sound
<1>. QED
  BY <1>1, <1>6, DispatchInv DEF RemoveCommand, q

LEMMA MoveInv ==
  ASSUME CInv, NEW id \in JobId, NEW dir, MoveCommand(id, dir)
  PROVE  CInv'
<1> DEFINE q == MoveJob(PolledQueue, id, dir)
<1>1. Sound(PolledQueue, PolledWorker, PolledCancel) /\ (PolledWorker # NoWorker => worker # NoWorker)
  BY PollSound
<1>2. Good(PolledQueue) /\ PolledQueue \in QueueType
  BY <1>1 DEF Sound, Good
<1>3. IsSelection(PolledQueue, q)
      /\ \A a \in DOMAIN PolledQueue.jobs : HasEntry(q, PolledQueue.jobs[a])
  BY <1>2, MoveIsSelection DEF MoveCommand
<1> HIDE DEF q
<1>4. ASSUME PolledWorker # NoWorker PROVE Owns(q, PolledWorker.job)
  <2>1. Owns(PolledQueue, PolledWorker.job)
    BY <1>1, <1>4 DEF Sound
  <2>2. HasEntry(q, JobOf(PolledQueue, PolledWorker.job.id))
    BY <1>2, <1>3, <2>1, IndexFound DEF Owns, JobOf
  <2>. QED
    BY <1>2, <1>3, <2>1, <2>2, SelectionOwns
<1>5. Good(q)
  BY <1>2, <1>3, SelectionGood
<1>6. Sound(q, PolledWorker, PolledCancel)
  BY <1>1, <1>4, <1>5 DEF Sound
<1>. QED
  BY <1>1, <1>6, DispatchInv DEF MoveCommand, q

(* A book in review that no worker holds: then there is no worker at all.  *)
LEMMA ReviewInv ==
  ASSUME CInv, NEW id \in JobId, ReviewDecision(id) \/ FinishReview(id)
  PROVE  CInv'
<1> DEFINE q == WithStatus(PolledQueue, id, "Running")
<1>1. Sound(PolledQueue, PolledWorker, PolledCancel) /\ (PolledWorker # NoWorker => worker # NoWorker)
  BY PollSound
<1>2. Good(PolledQueue) /\ PolledQueue \in QueueType /\ UniqueIdsIn(PolledQueue)
  BY <1>1 DEF Sound, Good
<1>3. Has(PolledQueue, id, {"NeedsReview"}) /\ WorkerReleased(id)
  BY DEF ReviewDecision, FinishReview, ReviewJob
<1>4. id \in Ids(PolledQueue) /\ JobOf(PolledQueue, id).status = "NeedsReview"
  BY <1>2, <1>3, ActiveHas
<1>5. PolledWorker = NoWorker
  <2>1. PICK i \in DOMAIN PolledQueue.jobs :
          PolledQueue.jobs[i].id = id /\ PolledQueue.jobs[i].status = "NeedsReview"
    BY <1>3 DEF Has
  <2>2. i \in ActiveAt(PolledQueue)
    BY <2>1 DEF ActiveAt, ActiveStatus
  <2>. QED
    BY <1>1, <1>3, <2>1, <2>2 DEF Sound, Owns, WorkerReleased
<1>6. Good(q)
  <2>1. /\ "Running" \in JobStatus /\ "Running" \in ActiveStatus /\ 0 \in 0..NStages
        /\ JobOf(PolledQueue, id).status \in ActiveStatus
    BY <1>4, JobQueueAssumption DEF ActiveStatus, JobStatus
  <2>. QED
    BY <1>2, <1>4, <2>1, RestatusGood
<1> HIDE DEF q
<1>7. Sound(q, PolledWorker, PolledCancel)
  BY <1>1, <1>5, <1>6 DEF Sound
<1>8. CASE ReviewDecision(id)
  BY <1>1, <1>8, DispatchInv DEF ReviewDecision
<1>9. CASE FinishReview(id)
  BY <1>1, <1>7, <1>9, DispatchInv DEF FinishReview, q
<1>. QED
  BY <1>8, <1>9

LEMMA RuntimeInv ==
  ASSUME CInv, RejectedCommand \/ (\E kind \in {"scan", "install"} : StartRuntimeTask(kind))
  PROVE  CInv'
<1>1. PolledWorker # NoWorker => worker # NoWorker
  BY PollSound
<1>2. CASE RejectedCommand
  BY <1>1, <1>2, PollsOnlyInv DEF RejectedCommand, CInv
<1>3. ASSUME NEW kind \in {"scan", "install"}, StartRuntimeTask(kind) PROVE CInv'
  <2>1. runtime' = [kind |-> kind, ended |-> FALSE] /\ PollsOnly /\ (kind = "install" => PolledWorker = NoWorker)
    BY <1>3 DEF StartRuntimeTask
  <2>2. runtime' \in [kind : {"scan", "install"}, ended : BOOLEAN] /\ runtime'.kind = kind
    BY <2>1
  <2>. QED
    BY <2>1, <2>2, PollsOnlyInv
<1>. QED
  BY <1>2, <1>3

-----------------------------------------------------------------------------
(* The threads.                                                            *)

(* Whatever the worker thread does, it goes on with its own book.          *)
LEMMA WorkerStepInv ==
  ASSUME CInv, WorkerUnchanged, WorkerFits(worker), WorkerFits(worker'), worker # NoWorker,
         worker'.job.id = worker.job.id, worker'.job.inputs = worker.job.inputs,
         worker'.cancel = worker.cancel
  PROVE  CInv'
<1>1. Owns(queue, worker.job) /\ Good(queue)
  BY DEF CInv, Sound
<1>2. Owns(queue, worker'.job)
  BY <1>1 DEF Owns
<1>3. Sound(queue, worker', pendingCancel)
  BY <1>1, <1>2, WorkerIsNot DEF CInv, Sound, WorkerFits
<1>4. up
  BY DEF CInv
<1>. QED
  BY <1>3, <1>4, InvAfter DEF CInv, WorkerUnchanged, RecoveryFaithful

(* A snapshot that is sent carries the thread's copy.                      *)
LEMMA SendsInv ==
  ASSUME CInv, WorkerUnchanged, WorkerFits(worker), NEW d \in 0..NStages,
         NEW s \in JobStatus \ {"Waiting"},
         NEW phase \in {"preflight", "check", "stage", "ending", "ended"}, NEW result \in Results,
         Sends([worker.job EXCEPT !.done = d, !.status = s], phase, result)
  PROVE  CInv'
<1> DEFINE j == [worker.job EXCEPT !.done = d, !.status = s]
<1>1. worker \in WorkerType /\ worker.job \in Job /\ worker # NoWorker
  BY WorkerIsNot DEF WorkerFits, WorkerType
<1>2. /\ j \in Job /\ j.id = worker.job.id /\ j.inputs = worker.job.inputs
      /\ j.status # "Waiting"
  BY <1>1 DEF Job
<1>3. worker' = [worker EXCEPT !.job = j, !.latest = j, !.phase = phase, !.result = result]
  BY DEF Sends
<1> HIDE DEF j
<1>4. /\ worker' \in WorkerType /\ worker'.job = j /\ worker'.latest = j
      /\ worker'.cancel = worker.cancel
  BY <1>1, <1>2, <1>3 DEF WorkerType
<1>5. WorkerFits(worker')
  BY <1>2, <1>4 DEF WorkerFits, SameBook
<1>. QED
  BY <1>1, <1>2, <1>4, <1>5, WorkerStepInv

LEMMA PreflightInv ==
  ASSUME CInv, WorkerFits(worker), Preflight
  PROVE  CInv'
<1>1. worker \in WorkerType /\ worker.job \in Job /\ worker.job.status \in JobStatus \ {"Waiting"}
      /\ worker.job.done \in 0..NStages
  BY DEF WorkerFits, WorkerType, Job
<1>2. PICK kept \in 0..Min({worker.job.done, NStages - 1}) :
        \/ Sends([worker.job EXCEPT !.done = kept], "check", "Running")
        \/ Sends([[worker.job EXCEPT !.done = kept] EXCEPT !.status = "Failed"], "ending", "Failed")
        \/ Sends([[worker.job EXCEPT !.done = kept] EXCEPT !.status = "Cancelled"], "ending", "Cancelled")
  BY DEF Preflight
<1>3. kept \in 0..NStages
  <2>1. NStages \in Nat /\ NStages >= 1 /\ {worker.job.done, NStages - 1} \in SUBSET Nat
    BY <1>1, JobQueueAssumption, ControllerAssumption
  <2>2. Min({worker.job.done, NStages - 1}) \in {worker.job.done, NStages - 1}
    BY <2>1, MinInSet
  <2>. QED
    BY <1>1, <2>1, <2>2
<1>4. /\ [worker.job EXCEPT !.done = kept] = [worker.job EXCEPT !.done = kept, !.status = worker.job.status]
      /\ [[worker.job EXCEPT !.done = kept] EXCEPT !.status = "Failed"]
           = [worker.job EXCEPT !.done = kept, !.status = "Failed"]
      /\ [[worker.job EXCEPT !.done = kept] EXCEPT !.status = "Cancelled"]
           = [worker.job EXCEPT !.done = kept, !.status = "Cancelled"]
  BY <1>1 DEF Job
<1>5. {"Failed", "Cancelled"} \subseteq (JobStatus \ {"Waiting"}) \cap Results /\ "Running" \in Results
  BY DEF JobStatus, TerminalStatus, Results
<1>6. WorkerUnchanged
  BY DEF Preflight
<1>. QED
  BY <1>1, <1>2, <1>3, <1>4, <1>5, <1>6, SendsInv

LEMMA StageInv ==
  ASSUME CInv, WorkerFits(worker), BeginStage \/ EndStage
  PROVE  CInv'
<1> DEFINE n == worker.job.done + 1
           next == [worker.job EXCEPT !.done = n]
<1>1. worker \in WorkerType /\ worker.job \in Job /\ worker.job.status \in JobStatus \ {"Waiting"}
      /\ worker.job.done \in 0..NStages
  BY DEF WorkerFits, WorkerType, Job
<1>2. {"Failed", "Cancelled", "Completed", "NeedsReview"} \subseteq (JobStatus \ {"Waiting"}) \cap Results
      /\ {"Running", "WaitingForResources"} \subseteq Results
  BY DEF JobStatus, TerminalStatus, ActiveStatus, Results
<1>3. WorkerUnchanged
  BY DEF BeginStage, EndStage
<1>4. ASSUME NEW s \in {"Failed", "Cancelled"}, Ends(s) PROVE CInv'
  <2>1. [worker.job EXCEPT !.status = s] = [worker.job EXCEPT !.done = worker.job.done, !.status = s]
    BY <1>1 DEF Job
  <2>. QED
    BY ZenonT(30), <1>1, <1>2, <1>3, <1>4, <2>1, SendsInv DEF Ends
<1>5. ASSUME NEW phase \in {"stage", "ending"}, NEW result \in {"Running", "WaitingForResources"},
             Sends(worker.job, phase, result)
      PROVE  CInv'
  <2> DEFINE j == [worker.job EXCEPT !.done = worker.job.done, !.status = worker.job.status]
  <2>1. j = worker.job
    BY <1>1 DEF Job
  <2> HIDE DEF j
  <2>2. Sends(j, phase, result)
    BY <1>5, <2>1
  <2>3. phase \in {"preflight", "check", "stage", "ending", "ended"} /\ result \in Results
    BY <1>2
  <2>. QED
    BY <1>1, <1>3, <2>2, <2>3, SendsInv DEF j
<1>6. CASE BeginStage
  BY <1>4, <1>5, <1>6 DEF BeginStage
<1>7. CASE EndStage
  <2>1. next = [worker.job EXCEPT !.done = n, !.status = worker.job.status] /\ next.done = n
    BY <1>1 DEF Job
  <2>2. \A s : [next EXCEPT !.status = s] = [worker.job EXCEPT !.done = n, !.status = s]
    BY <1>1 DEF Job
  <2>3. /\ n < NStages => n \in 0..NStages
        /\ n = NStages => n \in 0..NStages
        /\ n = ReviewStage => n \in 0..NStages
    BY <1>1, JobQueueAssumption, ControllerAssumption
  <2>4. \/ n < NStages /\ Sends(next, "check", "Running")
        \/ n = NStages /\ Sends([next EXCEPT !.status = "Completed"], "ending", "Completed")
        \/ n = ReviewStage /\ Sends([next EXCEPT !.status = "NeedsReview"], "ending", "NeedsReview")
        \/ Ends("Failed") \/ Ends("Cancelled")
    BY <1>7, <2>1 DEF EndStage
  <2> HIDE DEF n, next
  <2>. QED
    BY <1>1, <1>2, <1>3, <1>4, <2>1, <2>2, <2>3, <2>4, SendsInv
<1>. QED
  BY <1>6, <1>7

LEMMA WorkerEndsInv ==
  ASSUME CInv, WorkerFits(worker), WorkerBreaks \/ WorkerExits
  PROVE  CInv'
<1>1. worker \in WorkerType /\ worker # NoWorker
  BY WorkerIsNot DEF WorkerFits
<1>2. PICK phase \in {"ending", "ended"}, result \in Results :
        worker' = [worker EXCEPT !.phase = phase, !.result = result]
  <2>1. CASE WorkerBreaks
    BY <2>1 DEF WorkerBreaks, Results
  <2>2. CASE WorkerExits
    <3>1. worker' = [worker EXCEPT !.phase = "ended", !.result = worker.result]
      BY <1>1, <2>2 DEF WorkerExits, WorkerType
    <3>2. worker.result \in Results
      BY <1>1 DEF WorkerType
    <3>. QED
      BY <3>1, <3>2
  <2>. QED
    BY <2>1, <2>2
<1>3. /\ worker' \in WorkerType /\ worker'.job = worker.job /\ worker'.latest = worker.latest
      /\ worker'.cancel = worker.cancel
  BY <1>1, <1>2 DEF WorkerType
<1>4. WorkerFits(worker') /\ WorkerUnchanged
  BY <1>3 DEF WorkerFits, WorkerBreaks, WorkerExits
<1>. QED
  BY <1>1, <1>3, <1>4, WorkerStepInv

LEMMA RuntimeEndsInv ==
  ASSUME CInv, RuntimeThreadEnds
  PROVE  CInv'
<1>1. runtime \in [kind : {"scan", "install"}, ended : BOOLEAN] /\ up
  BY DEF RuntimeThreadEnds, CInv
<1>2. runtime' \in [kind : {"scan", "install"}, ended : BOOLEAN] /\ runtime'.kind = runtime.kind
  BY <1>1 DEF RuntimeThreadEnds
<1>. QED
  BY <1>1, <1>2, InvAfter DEF CInv, RuntimeThreadEnds, RecoveryFaithful

-----------------------------------------------------------------------------
(* The timer, and the end and the start of the application.                *)

LEMMA PollInv ==
  ASSUME CInv, Poll
  PROVE  CInv'
<1> DEFINE q == IF MayStart THEN StartNext(PolledQueue) ELSE PolledQueue
           touched == PolledDirty \/ q # PolledQueue
<1>1. Sound(PolledQueue, PolledWorker, PolledCancel) /\ (PolledWorker # NoWorker => worker # NoWorker)
  BY PollSound
<1>2. Good(PolledQueue)
  BY <1>1 DEF Sound
<1>3. Good(q)
  BY <1>2, StartNextGood
<1>4. MayStart => PolledWorker = NoWorker /\ PolledCancel = NoJob
  BY <1>1 DEF MayStart, Sound
<1>5. Sound(q, PolledWorker, PolledCancel)
  BY <1>1, <1>3, <1>4 DEF Sound
<1>6. touched \in BOOLEAN
  BY DEF PolledDirty, Joined, Rejected, HasUpdate, CInv
<1>7. up => (~touched /\ ~blocked => disk = Saved(q))
  BY NothingToSave
<1>8. /\ runtime' = ReapedTask /\ pendingCancel' = PolledCancel
      /\ \/ queue' = q /\ worker' = PolledWorker /\ Persist(q, touched)
         \/ \E i \in ToLaunch(q) :
              \/ queue' = q /\ worker' = Launched(q.jobs[i]) /\ Persist(q, touched)
              \/ LET failed == Finish(q, q.jobs[i].id, "Failed")
                 IN  queue' = failed /\ worker' = NoWorker /\ Persist(failed, TRUE)
      /\ up /\ up' = up /\ blocked' = blocked
  BY DEF Poll
<1>9. /\ runtime' = NoTask \/ runtime' \in [kind : {"scan", "install"}, ended : BOOLEAN]
      /\ PolledWorker # NoWorker => runtime'.kind # "install"
      /\ MayStart => runtime'.kind # "install"
  BY <1>1, <1>8 DEF ReapedTask, NoTask, CInv, MayStart
<1> HIDE DEF q, touched
<1>10. CASE queue' = q /\ worker' = PolledWorker /\ Persist(q, touched)
  BY <1>3, <1>5, <1>6, <1>7, <1>8, <1>9, <1>10, PersistInv, InvAfter DEF CInv
<1>11. ASSUME NEW i \in ToLaunch(q), queue' = q, worker' = Launched(q.jobs[i]), Persist(q, touched)
       PROVE  CInv'
  <2>1. MayStart /\ i \in DOMAIN q.jobs /\ q.jobs[i].status = "Running" /\ i \in ActiveAt(q)
    BY <1>11 DEF ToLaunch, ActiveAt, ActiveStatus
  <2>2. q.jobs[i].id \in Ids(q) /\ JobOf(q, q.jobs[i].id) = q.jobs[i] /\ q.jobs[i] \in Job
    BY <1>3, <2>1, EntryIsJob
  <2>3. Owns(q, q.jobs[i])
    BY <1>3, <2>1, <2>2 DEF Owns, Good, OneActiveIn
  <2>4. /\ worker'.job = q.jobs[i] /\ worker'.latest = NoUpdate
        /\ worker' \in WorkerType
    BY <1>11, <2>2 DEF Launched, WorkerType, Results
  <2>5. WorkerFits(worker')
    BY <2>1, <2>4 DEF WorkerFits
  <2>6. Sound(q, worker', PolledCancel)
    BY <1>3, <1>4, <2>1, <2>3, <2>4, <2>5 DEF Sound
  <2>. QED
    BY <1>3, <1>6, <1>7, <1>8, <1>9, <1>11, <2>1, <2>6, PersistInv, InvAfter DEF CInv
<1>12. ASSUME NEW i \in ToLaunch(q), NEW failed, failed = Finish(q, q.jobs[i].id, "Failed"),
              queue' = failed, worker' = NoWorker, Persist(failed, TRUE)
       PROVE  CInv'
  <2>1. MayStart
    BY <1>12 DEF ToLaunch
  <2>2. Good(failed)
    BY <1>3, <1>12, FinishGood DEF TerminalStatus
  <2>3. Sound(failed, NoWorker, PolledCancel)
    BY <1>4, <2>1, <2>2 DEF Sound
  <2>. QED
    BY <1>8, <1>9, <1>12, <2>2, <2>3, PersistInv, InvAfter DEF CInv
<1>. QED
  BY <1>8, <1>10, <1>11, <1>12

LEMMA GoneInv ==
  ASSUME CInv, Crash \/ Shutdown \/ Damage
  PROVE  CInv'
<1>1. GoodSnapshot(disk) /\ GoodSnapshot(Saved(PolledQueue)) /\ GoodSnapshot(Unreadable)
  BY PollSound, SavedGood DEF CInv, Sound, GoodSnapshot, Unreadable
<1>2. disk' \in {disk, Saved(PolledQueue), Unreadable} /\ dirty' = FALSE /\ blocked' = FALSE /\ up' = FALSE
      /\ worker' = NoWorker /\ pendingCancel' = NoJob /\ runtime' = NoTask
      /\ (queue' = EmptyQueue \/ queue' = queue)
  BY DEF Crash, Shutdown, Damage, Gone, CInv
<1>3. GoodSnapshot(disk') /\ Good(queue')
  BY <1>1, <1>2, EmptyGood DEF CInv, Sound
<1>4. Sound(queue, worker, pendingCancel)'
  BY <1>2, <1>3 DEF Sound, Good
<1>5. GoodSnapshot(disk)'
  BY <1>3 DEF GoodSnapshot
<1>6. RecoveryFaithful'
  BY <1>2 DEF RecoveryFaithful
<1>. QED
  BY <1>2, <1>4, <1>5, <1>6 DEF CInv, NoTask

LEMMA StartupInv ==
  ASSUME CInv, Startup
  PROVE  CInv'
<1>1. /\ worker' = NoWorker /\ pendingCancel' = NoJob /\ runtime' = NoTask /\ up' = TRUE
      /\ ~blocked /\ blocked \in BOOLEAN /\ GoodSnapshot(disk)
  BY DEF Startup, CInv
<1>2. CASE disk # Unreadable /\ queue' = RecoveredQueue(disk) /\ Persist(queue', disk # NoBooks) /\ UNCHANGED blocked
  <2> DEFINE q == RecoveredQueue(disk)
  <2>1. Good(q)
    BY <1>1, RecoveredGood
  <2>2. Persist(q, disk # NoBooks)
    BY <1>2
  <2>3. ~(disk # NoBooks) => disk = Saved(q)
    BY EmptySaved DEF RecoveredQueue
  <2> HIDE DEF q
  <2>4. Sound(q, NoWorker, NoJob)
    BY <2>1 DEF Sound
  <2>. QED
    BY <1>1, <1>2, <2>1, <2>2, <2>3, <2>4, PersistInv, InvAfter DEF q, NoTask
<1>3. CASE /\ \/ disk' = NoBooks /\ UNCHANGED blocked
              \/ disk' = disk /\ blocked' = TRUE
           /\ disk = Unreadable /\ dirty' = FALSE /\ queue' = EmptyQueue
  <2>1. Sound(EmptyQueue, NoWorker, NoJob)
    BY EmptyGood DEF Sound
  <2>2. GoodSnapshot(NoBooks)
    BY DEF GoodSnapshot, NoBooks
  <2>3. CASE disk' = NoBooks /\ UNCHANGED blocked
    BY <1>1, <1>3, <2>1, <2>2, <2>3, EmptySaved, InvAfter DEF NoTask
  <2>4. CASE disk' = disk /\ blocked' = TRUE
    <3>1. disk' = Unreadable /\ GoodSnapshot(disk')
      BY <1>1, <1>3, <2>4
    <3>. QED
      BY <1>1, <1>3, <2>1, <2>4, <3>1, InvAfter DEF NoTask
  <2>. QED
    BY <1>3, <2>3, <2>4
<1>. QED
  BY <1>2, <1>3 DEF Startup

-----------------------------------------------------------------------------
(* The invariant.                                                          *)

LEMMA ControllerInitInv == ControllerInit => CInv
<1> SUFFICES ASSUME ControllerInit PROVE CInv
  OBVIOUS
<1>1. queue = EmptyQueue /\ disk = NoBooks /\ ~up /\ ~blocked
  BY DEF ControllerInit, Init
<1>2. Sound(queue, worker, pendingCancel)
  BY <1>1, EmptyGood DEF Sound, ControllerInit
<1>3. GoodSnapshot(disk)
  BY <1>1 DEF GoodSnapshot, NoBooks
<1>. QED
  BY <1>1, <1>2, <1>3 DEF CInv, ControllerInit, RecoveryFaithful

LEMMA ControllerStep == CInv /\ [ControllerNext]_vars => CInv'
<1> SUFFICES ASSUME CInv, [ControllerNext]_vars PROVE CInv'
  OBVIOUS
<1>1. CASE UNCHANGED vars
  <2>1. Sound(queue, worker, pendingCancel)' /\ GoodSnapshot(disk)' /\ RecoveryFaithful'
    BY <1>1 DEF vars, CInv, RecoveryFaithful
  <2>. QED
    BY <1>1, <2>1 DEF vars, CInv
<1>2. ASSUME NEW id \in JobId, Command(id) PROVE CInv'
  BY <1>2, EnqueueInv, CancelInv, RetryInv, RemoveInv, MoveInv, ReviewInv DEF Command, CancelJob
<1>3. CASE \/ RejectedCommand \/ PauseCommand \/ ResumeCommand \/ CancelActive
           \/ \E kind \in {"scan", "install"} : StartRuntimeTask(kind)
  BY <1>3, RuntimeInv, PauseInv, CancelInv
<1>4. CASE Poll
  BY <1>4, PollInv
<1>5. CASE Preflight \/ BeginStage \/ EndStage \/ WorkerBreaks \/ WorkerExits
  <2>1. worker # NoWorker
    <3>1. worker.phase \in {"preflight", "check", "stage", "ending"}
      BY <1>5 DEF Preflight, BeginStage, EndStage, WorkerBreaks, WorkerExits
    <3>. QED
      BY <3>1 DEF NoWorker
  <2>2. WorkerFits(worker)
    BY <2>1 DEF CInv, Sound
  <2>. QED
    BY <1>5, <2>2, PreflightInv, StageInv, WorkerEndsInv
<1>6. CASE RuntimeThreadEnds
  BY <1>6, RuntimeEndsInv
<1>7. CASE Crash \/ Shutdown \/ Damage \/ Startup
  BY <1>7, GoneInv, StartupInv
<1>. QED
  BY <1>1, <1>2, <1>3, <1>4, <1>5, <1>6, <1>7 DEF ControllerNext

LEMMA ControllerInductive == ControllerSpec => []CInv
BY ControllerInitInv, ControllerStep, PTL DEF ControllerSpec

(* However the handlers chain the methods of the queue, whatever snapshots *)
(* arrive and wherever the application is killed: identities are unique,   *)
(* one book at most is active, and a pending pause belongs to it.          *)
THEOREM ControllerQueueSound == ControllerSpec => []QueueStaysSound
<1>1. CInv => QueueStaysSound
  BY DEF CInv, Sound, Good, QueueStaysSound, UniqueIds, OneActive, PauseConsistent
<1>. QED
  BY <1>1, ControllerInductive, PTL

(* The worker always owns the book it works on, a remembered cancellation  *)
(* is for that worker, and no install runs beside it.                      *)
THEOREM WorkerOwnsItsBook == ControllerSpec => []WorkerStaysSound
<1>1. CInv => WorkerStaysSound
  <2> SUFFICES ASSUME CInv PROVE WorkerStaysSound
    OBVIOUS
  <2>1. worker # NoWorker => WorkerOwnsActiveBook
    <3> SUFFICES ASSUME worker # NoWorker PROVE WorkerOwnsActiveBook
      OBVIOUS
    <3>1. queue \in QueueType /\ Owns(queue, worker.job)
      BY DEF CInv, Sound, Good
    <3>2. /\ IndexOf(queue, worker.job.id) \in DOMAIN queue.jobs
          /\ queue.jobs[IndexOf(queue, worker.job.id)].id = worker.job.id
          /\ JobOf(queue, worker.job.id).status \in JobStatus \ {"Waiting"}
      BY <3>1, IndexFound DEF Owns, Job
    <3>3. Has(queue, worker.job.id, JobStatus \ {"Waiting"})
      BY <3>2 DEF Has, JobOf
    <3>. QED
      BY <3>1, <3>3 DEF WorkerOwnsActiveBook, Owns
  <2>2. WorkerOwnsActiveBook
    BY <2>1 DEF WorkerOwnsActiveBook
  <2>3. CancelNamesWorker /\ InstallExcludesWorker
    BY DEF CInv, Sound, CancelNamesWorker, InstallExcludesWorker
  <2>. QED
    BY <2>2, <2>3 DEF WorkerStaysSound
<1>. QED
  BY <1>1, ControllerInductive, PTL

(* When nothing is left to save, the snapshot holds exactly the open books *)
(* in their order; an unreadable one is never overwritten.                 *)
THEOREM RecoveryIsFaithful == ControllerSpec => []RecoveryFaithful
<1>1. CInv => RecoveryFaithful
  BY DEF CInv
<1>. QED
  BY <1>1, ControllerInductive, PTL

(* Every field of the controller keeps its type, and what is saved is a    *)
(* list of open books.                                                     *)
THEOREM ControllerTypeCorrect == ControllerSpec => []ControllerTypeOK
<1>1. CInv => ControllerTypeOK
  <2> SUFFICES ASSUME CInv PROVE ControllerTypeOK
    OBVIOUS
  <2>1. TypeOK /\ worker \in WorkerType \cup {NoWorker}
    BY DEF CInv, Sound, Good, TypeOK, WorkerFits
  <2>2. pendingCancel \in JobId \cup {NoJob}
    <3>1. worker \in WorkerType => worker.job.id \in JobId
      BY DEF WorkerType, Job
    <3>. QED
      BY <2>1, <3>1 DEF CInv, Sound
  <2>3. disk.readable \in BOOLEAN /\ disk.jobs \in Seq(Job) /\ \A i \in DOMAIN disk.jobs : IsOpen(disk.jobs[i])
    BY DEF CInv, GoodSnapshot
  <2>. QED
    BY <2>1, <2>2, <2>3 DEF CInv, ControllerTypeOK
<1>. QED
  BY <1>1, ControllerInductive, PTL

-----------------------------------------------------------------------------
(* What no step may do: forget a cancellation without finishing the book,  *)
(* or start a book after a pause was asked for.  Both follow each handler  *)
(* through the poll of the worker and the methods that it chains.          *)

(* A finished book stays finished through the methods of the queue.        *)

Finished(q, id) == Has(q, id, TerminalStatus)

LEMMA PutJobFinished ==
  ASSUME NEW q, Good(q), NEW id, Finished(q, id), NEW j \in Job, j.id \in Ids(q),
         j.id = id => j.status \in TerminalStatus
  PROVE  Finished(PutJob(q, j), id)
<1>1. q \in QueueType
  BY DEF Good
<1>2. PICK i \in DOMAIN q.jobs : q.jobs[i].id = id /\ q.jobs[i].status \in TerminalStatus
  BY DEF Finished, Has
<1> DEFINE r == PutJob(q, j)
           n == IndexOf(q, j.id)
<1>3. /\ DOMAIN r.jobs = DOMAIN q.jobs /\ r.jobs[i] = IF i = n THEN j ELSE q.jobs[i]
      /\ q.jobs[n].id = j.id
  BY <1>1, <1>2, PutJobFacts, IndexFound
<1> HIDE DEF r, n
<1>4. r.jobs[i].id = id /\ r.jobs[i].status \in TerminalStatus
  BY <1>2, <1>3
<1>5. Finished(r, id)
  BY <1>2, <1>3, <1>4 DEF Finished, Has
<1>. QED
  BY <1>5 DEF r

LEMMA SameJobsFinished ==
  ASSUME NEW q, NEW r, r.jobs = q.jobs, NEW id, Finished(q, id)
  PROVE  Finished(r, id)
BY DEF Finished, Has

LEMMA FinishFinished ==
  ASSUME NEW q, Good(q), NEW id, Finished(q, id), NEW x, NEW outcome \in TerminalStatus
  PROVE  Finished(Finish(q, x, outcome), id)
<1>1. CASE ~Has(q, x, ActiveStatus)
  BY <1>1 DEF Finish
<1>2. CASE Has(q, x, ActiveStatus)
  <2> DEFINE j == [JobOf(q, x) EXCEPT !.status = outcome]
  <2>1. q \in QueueType /\ UniqueIdsIn(q) /\ outcome \in JobStatus
    BY DEF Good, JobStatus
  <2>2. x \in Ids(q)
    BY <1>2, <2>1, ActiveHas
  <2>3. j \in Job /\ j.id = x /\ j.status = outcome
    BY <2>1, <2>2, RestatusJob
  <2>4. Finish(q, x, outcome) = AfterTerminal(PutJob(q, j))
    BY <1>2 DEF Finish, WithStatus
  <2> HIDE DEF j
  <2>5. Finished(PutJob(q, j), id) /\ PutJob(q, j) \in QueueType
    BY <2>1, <2>2, <2>3, PutJobFinished, PutJobFacts
  <2>. QED
    BY <2>4, <2>5, AfterTerminalJobs, SameJobsFinished
<1>. QED
  BY <1>1, <1>2

LEMMA StartNextFinished ==
  ASSUME NEW q, Good(q), NEW id, Finished(q, id)
  PROVE  Finished(StartNext(q), id)
<1>1. CASE q.state = "Paused" \/ ActiveAt(q) # {} \/ WaitingAt(q) = {}
  BY <1>1 DEF StartNext
<1>2. CASE ~(q.state = "Paused" \/ ActiveAt(q) # {} \/ WaitingAt(q) = {})
  <2> DEFINE n == Min(WaitingAt(q))
             r == StartNext(q)
  <2>1. q \in QueueType /\ q.jobs \in Seq(Job)
    BY DEF Good, QueueType
  <2>2. n \in DOMAIN q.jobs /\ q.jobs[n].status = "Waiting"
    BY <1>2, <2>1, MinWaiting DEF WaitingAt
  <2>3. r = [q EXCEPT !.jobs[n].status = "Running"]
    BY <1>2 DEF StartNext
  <2> HIDE DEF n, r
  <2>4. DOMAIN r.jobs = DOMAIN q.jobs /\ \A i \in DOMAIN q.jobs : i # n => r.jobs[i] = q.jobs[i]
    BY <2>1, <2>2, <2>3 DEF QueueType
  <2>5. PICK i \in DOMAIN q.jobs : q.jobs[i].id = id /\ q.jobs[i].status \in TerminalStatus
    BY DEF Finished, Has
  <2>6. i # n
    BY <2>2, <2>5 DEF TerminalStatus
  <2>7. Finished(r, id)
    BY <2>4, <2>5, <2>6 DEF Finished, Has
  <2>. QED
    BY <2>7 DEF r
<1>. QED
  BY <1>1, <1>2

LEMMA StartIdleFinished ==
  ASSUME NEW q, Good(q), NEW w, NEW id, Finished(q, id)
  PROVE  Finished(StartNextIfIdle(q, w), id)
BY StartNextFinished DEF StartNextIfIdle

(* A started book is finished by finish, whatever its status was.          *)
LEMMA FinishEnds ==
  ASSUME NEW q, Good(q), NEW job, Owns(q, job), NEW outcome \in TerminalStatus
  PROVE  Finished(Finish(q, job.id, outcome), job.id)
<1> DEFINE id == job.id
           n == IndexOf(q, id)
<1>1. q \in QueueType /\ UniqueIdsIn(q) /\ id \in Ids(q) /\ JobOf(q, id).status # "Waiting"
      /\ outcome \in JobStatus
  BY DEF Good, Owns, JobStatus
<1>2. n \in DOMAIN q.jobs /\ q.jobs[n].id = id /\ JobOf(q, id) \in Job
  BY <1>1, IndexFound
<1>3. JobOf(q, id).status \in ActiveStatus \cup TerminalStatus
  BY <1>1, <1>2 DEF Job, JobStatus
<1>4. CASE Has(q, id, ActiveStatus)
  <2> DEFINE j == [JobOf(q, id) EXCEPT !.status = outcome]
             r == PutJob(q, j)
  <2>1. j \in Job /\ j.id = id /\ j.status = outcome
    BY <1>1, RestatusJob
  <2>2. Finish(q, id, outcome) = AfterTerminal(r)
    BY <1>4 DEF Finish, WithStatus
  <2> HIDE DEF j
  <2>3. r \in QueueType /\ n \in DOMAIN r.jobs /\ r.jobs[n] = j
    BY <1>1, <1>2, <2>1, PutJobFacts
  <2> HIDE DEF r
  <2>4. Finished(r, id)
    BY <2>1, <2>3 DEF Finished, Has
  <2>. QED
    BY <2>2, <2>3, <2>4, AfterTerminalJobs, SameJobsFinished
<1>5. CASE ~Has(q, id, ActiveStatus)
  <2>1. q.jobs[n].status \notin ActiveStatus
    BY <1>2, <1>5 DEF Has
  <2>2. q.jobs[n].status \in TerminalStatus
    BY <1>3, <2>1 DEF JobOf
  <2>. QED
    BY <1>2, <1>5, <2>2 DEF Finish, Finished, Has
<1>. QED
  BY <1>4, <1>5

LEMMA FinishOwns ==
  ASSUME NEW q, Good(q), NEW job \in Job, Owns(q, job), NEW outcome \in TerminalStatus
  PROVE  Owns(Finish(q, job.id, outcome), job)
<1>1. CASE ~Has(q, job.id, ActiveStatus)
  BY <1>1 DEF Finish
<1>2. CASE Has(q, job.id, ActiveStatus)
  <2> DEFINE j == [JobOf(q, job.id) EXCEPT !.status = outcome]
  <2>1. q \in QueueType /\ job.id \in Ids(q) /\ outcome \in JobStatus
    BY DEF Good, Owns, JobStatus
  <2>2. j \in Job /\ j.id = job.id /\ j.status = outcome /\ j.inputs = job.inputs
    BY <2>1, IndexFound DEF Job, Owns
  <2>3. Finish(q, job.id, outcome) = AfterTerminal(PutJob(q, j))
    BY <1>2 DEF Finish, WithStatus
  <2> HIDE DEF j
  <2>4. SameBook(j, job)
    BY <2>2 DEF SameBook, TerminalStatus
  <2>5. PutJob(q, j) \in QueueType /\ Owns(PutJob(q, j), job)
    BY <2>1, <2>2, <2>4, PutJobFacts, PutJobOwns
  <2>. QED
    BY <2>3, <2>5, AfterTerminalJobs, SameJobsOwns
<1>. QED
  BY <1>1, <1>2

(* When the worker is joined the cancellation that was remembered for it   *)
(* has finished its book.                                                  *)
LEMMA JoinSettles ==
  ASSUME CInv, pendingCancel # NoJob, PolledCancel = NoJob
  PROVE  Finished(PolledQueue, pendingCancel) /\ PolledWorker = NoWorker
<1>1. Joined /\ PolledWorker = NoWorker
  BY DEF PolledCancel, PolledWorker
<1>2. /\ worker # NoWorker /\ worker.job.id = pendingCancel
      /\ WorkerFits(worker) /\ Owns(queue, worker.job) /\ Good(queue)
  BY DEF CInv, Sound
<1>3. SameBook(worker.job, worker.job) /\ worker.job \in Job
  BY <1>2 DEF WorkerFits, WorkerType, SameBook
<1>4. Good(DrainedQueue) /\ Owns(DrainedQueue, worker.job)
  BY <1>2, ReconcileOwns DEF DrainedQueue, HasUpdate, WorkerFits
<1> DEFINE q == Reconcile(DrainedQueue, worker.job)
<1>5. Good(q) /\ Owns(q, worker.job)
  BY <1>3, <1>4, ReconcileOwns
<1> HIDE DEF q
<1>6. "Failed" \in TerminalStatus /\ "Cancelled" \in TerminalStatus
  BY DEF TerminalStatus
<1>7. Good(JoinedQueue(DrainedQueue)) /\ Owns(JoinedQueue(DrainedQueue), worker.job)
  BY <1>3, <1>4, <1>5, <1>6, FinishGood, FinishOwns DEF JoinedQueue, q
<1>8. PolledQueue = Finish(JoinedQueue(DrainedQueue), worker.job.id, "Cancelled")
  BY <1>1, <1>2 DEF PolledQueue, CancelledQueue
<1>. QED
  BY <1>1, <1>2, <1>6, <1>7, <1>8, FinishEnds

-----------------------------------------------------------------------------
(* Then no handler reopens the book, unless it is the user's retry.        *)

LEMMA HandlersKeepFinished ==
  ASSUME CInv, NEW x, Finished(PolledQueue, x), PolledWorker = NoWorker, NEW id \in JobId,
         Command(id), ~RetryCommand(x), ~RemoveCommand(x)
  PROVE  Finished(queue', x)
<1> DEFINE p == PolledQueue
<1>1. Good(p) /\ p \in QueueType /\ UniqueIdsIn(p) /\ p.jobs \in Seq(Job)
  BY PollSound DEF Sound, Good, QueueType
<1>2. PICK n \in DOMAIN p.jobs : p.jobs[n].id = x /\ p.jobs[n].status \in TerminalStatus
  BY DEF Finished, Has
<1>3. ASSUME NEW in \in Inputs, EnqueueCommand(id, in) PROVE Finished(queue', x)
  <2> DEFINE r == AddJob(p, NewJob(id, in))
  <2>1. Good(r)
    BY <1>1, <1>3, AddJobGood DEF EnqueueCommand
  <2>2. r.jobs = Append(p.jobs, NewJob(id, in)) /\ NewJob(id, in) \in Job
    BY <1>1, JobQueueAssumption DEF AddJob, QueueType, NewJob, Job, JobStatus
  <2>3. n \in DOMAIN r.jobs /\ r.jobs[n] = p.jobs[n]
    BY <1>1, <1>2, <2>2
  <2> HIDE DEF r
  <2>4. Finished(r, x)
    BY <1>2, <2>3 DEF Finished, Has
  <2>5. Finished(StartNextIfIdle(r, PolledWorker), x)
    BY <2>1, <2>4, StartIdleFinished
  <2>. QED
    BY <1>3, <2>5 DEF EnqueueCommand, Dispatch, r
<1>4. CASE CancelJob(id)
  <2>1. PICK i \in ActiveAt(p) :
          queue' = StartNextIfIdle(Finish(p, p.jobs[i].id, "Cancelled"), PolledWorker)
    BY <1>4 DEF CancelJob, CancelActive, Dispatch
  <2> DEFINE r == Finish(p, p.jobs[i].id, "Cancelled")
  <2>2. Good(r) /\ Finished(r, x)
    BY <1>1, FinishGood, FinishFinished DEF TerminalStatus
  <2> HIDE DEF r
  <2>3. Finished(StartNextIfIdle(r, PolledWorker), x)
    BY <2>2, StartIdleFinished
  <2>. QED
    BY <2>1, <2>3 DEF r
<1>5. CASE RetryCommand(id)
  <2> DEFINE j == Scratch(JobOf(p, id))
             r == PutJob(p, j)
  <2>1. id # x
    BY <1>5
  <2>2. id \in Ids(p) /\ JobOf(p, id).status \in {"Failed", "Cancelled"}
    BY <1>1, <1>5, ActiveHas DEF RetryCommand
  <2>3. /\ "Waiting" \in JobStatus /\ "Waiting" \notin ActiveStatus
        /\ JobOf(p, id).status \notin ActiveStatus /\ 0 \in 0..NStages
    BY <2>2, JobQueueAssumption DEF JobStatus, ActiveStatus
  <2>4. j \in Job /\ j.id = id
    <3>1. JobOf(p, id) \in Job /\ JobOf(p, id).id = id
      BY <1>1, <2>2, IndexFound
    <3>. QED
      BY <2>3, <3>1 DEF Scratch, Job
  <2>5. Good(r)
    BY <1>1, <2>2, <2>3, RestatusGood DEF Scratch
  <2>6. Finished(r, x)
    <3> HIDE DEF j
    <3>. QED
      BY <1>1, <2>1, <2>2, <2>4, PutJobFinished
  <2> HIDE DEF r
  <2>7. Finished(StartNextIfIdle(r, PolledWorker), x)
    BY <2>5, <2>6, StartIdleFinished
  <2>. QED
    BY <1>5, <2>7 DEF RetryCommand, Dispatch, r
<1>6. CASE RemoveCommand(id)
  <2>1. id # x
    BY <1>6
  <2>2. HasEntry(RemoveJob(p, id), p.jobs[n])
    BY <1>1, <1>2, <1>6, <2>1, RemoveIsSelection DEF RemoveCommand
  <2>. QED
    BY <1>2, <1>6, <2>2 DEF RemoveCommand, Dispatch, HasEntry, Finished, Has
<1>7. ASSUME NEW dir, MoveCommand(id, dir) PROVE Finished(queue', x)
  <2>1. HasEntry(MoveJob(p, id, dir), p.jobs[n])
    BY <1>1, <1>2, <1>7, MoveIsSelection DEF MoveCommand
  <2>. QED
    BY <1>2, <1>7, <2>1 DEF MoveCommand, Dispatch, HasEntry, Finished, Has
<1>8. CASE ReviewDecision(id)
  BY <1>8 DEF ReviewDecision, Dispatch
<1>9. CASE FinishReview(id)
  <2> DEFINE j == [JobOf(p, id) EXCEPT !.status = "Running"]
  <2>1. id \in Ids(p) /\ JobOf(p, id).status = "NeedsReview"
    BY <1>1, <1>9, ActiveHas DEF FinishReview, ReviewJob
  <2>2. j \in Job /\ j.id = id
    <3>1. "Running" \in JobStatus
      BY DEF JobStatus, ActiveStatus
    <3>. QED
      BY <1>1, <2>1, <3>1, RestatusJob
  <2>3. id # x
    BY <1>1, <1>2, <2>1, IndexFound DEF UniqueIdsIn, JobOf, TerminalStatus
  <2>4. queue' = PutJob(p, j)
    BY <1>9 DEF FinishReview, Dispatch, WithStatus
  <2> HIDE DEF j
  <2>. QED
    BY <1>1, <2>1, <2>2, <2>3, <2>4, PutJobFinished
<1>. QED
  BY <1>3, <1>4, <1>5, <1>6, <1>7, <1>8, <1>9 DEF Command

LEMMA OthersKeepFinished ==
  ASSUME CInv, NEW x, Finished(PolledQueue, x), PolledWorker = NoWorker,
         \/ RejectedCommand \/ PauseCommand \/ ResumeCommand \/ CancelActive
         \/ \E kind \in {"scan", "install"} : StartRuntimeTask(kind)
         \/ Poll
  PROVE  Finished(queue', x)
<1> DEFINE p == PolledQueue
<1>1. Good(p) /\ p \in QueueType
  BY PollSound DEF Sound, Good
<1>2. CASE RejectedCommand \/ \E kind \in {"scan", "install"} : StartRuntimeTask(kind)
  BY <1>2 DEF RejectedCommand, StartRuntimeTask, PollsOnly
<1>3. CASE PauseCommand \/ ResumeCommand
  <2> DEFINE a == RequestPause(p)
             b == ResumeQueue(p)
  <2>1. Good(b)
    BY <1>1, ResumeQueueGood
  <2>2. a.jobs = p.jobs /\ b.jobs = p.jobs
    BY <1>1 DEF RequestPause, ResumeQueue, QueueType
  <2> HIDE DEF a, b
  <2>3. Finished(a, x) /\ Finished(b, x)
    BY <2>2, SameJobsFinished
  <2>4. Finished(StartNextIfIdle(b, PolledWorker), x)
    BY <2>1, <2>3, StartIdleFinished
  <2>. QED
    BY <1>3, <2>3, <2>4 DEF PauseCommand, ResumeCommand, Dispatch, a, b
<1>4. CASE CancelActive
  <2>1. PICK i \in ActiveAt(p) :
          queue' = StartNextIfIdle(Finish(p, p.jobs[i].id, "Cancelled"), PolledWorker)
    BY <1>4 DEF CancelActive, Dispatch
  <2> DEFINE r == Finish(p, p.jobs[i].id, "Cancelled")
  <2>2. Good(r) /\ Finished(r, x)
    BY <1>1, FinishGood, FinishFinished DEF TerminalStatus
  <2> HIDE DEF r
  <2>3. Finished(StartNextIfIdle(r, PolledWorker), x)
    BY <2>2, StartIdleFinished
  <2>. QED
    BY <2>1, <2>3 DEF r
<1>5. CASE Poll
  <2> DEFINE q == IF MayStart THEN StartNext(p) ELSE p
  <2>1. Good(q) /\ Finished(q, x)
    BY <1>1, StartNextGood, StartNextFinished
  <2>2. queue' = q \/ \E i \in DOMAIN q.jobs : queue' = Finish(q, q.jobs[i].id, "Failed")
    BY <1>5 DEF Poll, ToLaunch
  <2> HIDE DEF q
  <2>. QED
    BY <2>1, <2>2, FinishFinished DEF TerminalStatus
<1>. QED
  BY <1>2, <1>3, <1>4, <1>5

(* A cancellation that was accepted for the worker's book is forgotten     *)
(* only when that book is finished, whatever the worker's last snapshot    *)
(* says and whatever command is handled in the same step.                  *)
THEOREM CancellationIsHonoured == ControllerSpec => CancelHonoured
<1> DEFINE Honoured ==
      \A id \in JobId :
        pendingCancel = id /\ up' /\ pendingCancel' = NoJob
          => Has(queue', id, TerminalStatus) \/ RetryCommand(id) \/ RemoveCommand(id)
<1>1. CInv /\ [ControllerNext]_vars => [Honoured]_vars
  <2> SUFFICES ASSUME CInv, ControllerNext, NEW x \in JobId, pendingCancel = x, up', pendingCancel' = NoJob,
                      ~RetryCommand(x), ~RemoveCommand(x)
               PROVE  Finished(queue', x)
    BY DEF Finished
  <2>1. pendingCancel # NoJob /\ worker # NoWorker /\ up
    BY ControllerAssumption DEF CInv, Sound
  <2>2. ASSUME PolledCancel = NoJob PROVE Finished(PolledQueue, x) /\ PolledWorker = NoWorker
    BY <2>1, <2>2, JoinSettles
  <2>3. ASSUME PolledWorker # NoWorker PROVE PolledWorker.job.id # NoJob
    <3>1. WorkerFits(PolledWorker)
      BY <2>3, PollSound DEF Sound
    <3>. QED
      BY <3>1, ControllerAssumption DEF WorkerFits, WorkerType, Job
  <2>4. CASE \E id \in JobId : Command(id)
    <3>1. PICK id \in JobId : Command(id)
      BY <2>4
    <3>2. PolledCancel = NoJob
      BY <2>3, <3>1 DEF Command, EnqueueCommand, CancelJob, CancelActive, RetryCommand, RemoveCommand,
                        MoveCommand, ReviewDecision, FinishReview, Dispatch
    <3>. QED
      BY <2>2, <3>1, <3>2, HandlersKeepFinished
  <2>5. CASE \/ RejectedCommand \/ PauseCommand \/ ResumeCommand \/ CancelActive
             \/ \E kind \in {"scan", "install"} : StartRuntimeTask(kind)
             \/ Poll
    <3>1. PolledCancel = NoJob
      BY <2>3, <2>5 DEF RejectedCommand, PauseCommand, ResumeCommand, CancelActive, StartRuntimeTask,
                        Poll, PollsOnly, Dispatch
    <3>. QED
      BY <2>2, <2>5, <3>1, OthersKeepFinished
  <2>6. CASE Preflight \/ BeginStage \/ EndStage \/ WorkerBreaks \/ WorkerExits \/ RuntimeThreadEnds
    BY <2>1, <2>6 DEF Preflight, BeginStage, EndStage, WorkerBreaks, WorkerExits, RuntimeThreadEnds,
                      WorkerUnchanged
  <2>7. CASE Crash \/ Shutdown \/ Damage \/ Startup
    BY <2>1, <2>7 DEF Crash, Shutdown, Damage, Startup, Gone
  <2>. QED
    BY <2>4, <2>5, <2>6, <2>7 DEF ControllerNext
<1>. QED
  BY <1>1, ControllerInductive, PTL DEF ControllerSpec, CancelHonoured

-----------------------------------------------------------------------------
(* After a pause request the handlers start no book.                       *)

(* r comes after q without a book started in between; the books are still  *)
(* all there, so that this composes.                                       *)
Later(q, r) == Pausing(r) /\ Ids(q) \subseteq Ids(r) /\ ~StartsBook(q, r)

LEMMA LaterRefl ==
  ASSUME NEW q, Good(q), Pausing(q)
  PROVE  Later(q, q)
BY DEF Later, StartsBook, Good, UniqueIdsIn

LEMMA LaterThen ==
  ASSUME NEW q, NEW r, Later(q, r), NEW s, ~StartsBook(r, s)
  PROVE  ~StartsBook(q, s)
<1> SUFFICES ASSUME NEW i \in DOMAIN q.jobs, NEW k \in DOMAIN s.jobs,
                    q.jobs[i].id = s.jobs[k].id, q.jobs[i].status = "Waiting"
             PROVE  s.jobs[k].status = "Waiting"
  BY DEF StartsBook
<1>1. q.jobs[i].id \in Ids(r)
  BY DEF Later, Ids
<1>2. PICK m \in DOMAIN r.jobs : r.jobs[m].id = q.jobs[i].id
  BY <1>1 DEF Ids
<1>3. r.jobs[m].status = "Waiting"
  BY <1>2 DEF Later, StartsBook
<1>. QED
  BY <1>2, <1>3 DEF StartsBook

LEMMA LaterTrans ==
  ASSUME NEW q, NEW r, Later(q, r), NEW s, Later(r, s)
  PROVE  Later(q, s)
BY LaterThen DEF Later

LEMMA PutJobIds ==
  ASSUME NEW q \in QueueType, NEW j \in Job, j.id \in Ids(q)
  PROVE  Ids(PutJob(q, j)) = Ids(q)
BY PutJobFacts, IndexFound DEF Ids

LEMMA FinishIds ==
  ASSUME NEW q, Good(q), NEW id, NEW outcome \in TerminalStatus
  PROVE  Ids(Finish(q, id, outcome)) = Ids(q)
<1>1. CASE ~Has(q, id, ActiveStatus)
  BY <1>1 DEF Finish
<1>2. CASE Has(q, id, ActiveStatus)
  <2> DEFINE j == [JobOf(q, id) EXCEPT !.status = outcome]
  <2>1. q \in QueueType /\ UniqueIdsIn(q) /\ outcome \in JobStatus
    BY DEF Good, JobStatus
  <2>2. id \in Ids(q)
    BY <1>2, <2>1, ActiveHas
  <2>3. j \in Job /\ j.id = id
    BY <2>1, <2>2, RestatusJob
  <2>4. Finish(q, id, outcome) = AfterTerminal(PutJob(q, j))
    BY <1>2 DEF Finish, WithStatus
  <2> HIDE DEF j
  <2>5. PutJob(q, j) \in QueueType /\ Ids(PutJob(q, j)) = Ids(q)
    BY <2>1, <2>2, <2>3, PutJobFacts, PutJobIds
  <2>. QED
    BY <2>4, <2>5, AfterTerminalJobs DEF Ids
<1>. QED
  BY <1>1, <1>2

LEMMA FinishLater ==
  ASSUME NEW q, Good(q), Pausing(q), NEW id, NEW outcome \in TerminalStatus
  PROVE  Later(q, Finish(q, id, outcome))
BY FinishHolds, FinishIds DEF Later

LEMMA ReconcileLater ==
  ASSUME NEW q, Good(q), Pausing(q), NEW job, Owns(q, job), NEW s, SameBook(s, job)
  PROVE  Later(q, Reconcile(q, s))
<1>1. s \in Job /\ s.id \in Ids(q) /\ JobOf(q, s.id).status # "Waiting" /\ q \in QueueType
  BY DEF SameBook, Owns, Good
<1>2. PutJob(q, s) \in QueueType /\ Ids(PutJob(q, s)) = Ids(q)
  BY <1>1, PutJobFacts, PutJobIds
<1>3. Ids(AfterTerminal(PutJob(q, s))) = Ids(q)
  BY <1>2, AfterTerminalJobs DEF Ids
<1>4. Ids(Reconcile(q, s)) = Ids(q)
  BY <1>2, <1>3 DEF Reconcile
<1>. QED
  BY <1>1, <1>4, ReconcileHolds DEF Later

(* poll_worker starts nothing and keeps the request.                       *)
LEMMA PollLater ==
  ASSUME CInv, Pausing(queue)
  PROVE  Later(queue, PolledQueue)
<1>1. CASE worker = NoWorker
  <2>1. PolledQueue = queue /\ Good(queue)
    BY <1>1 DEF PolledQueue, DrainedQueue, Joined, HasUpdate, CInv, Sound
  <2>. QED
    BY <2>1, LaterRefl
<1>2. CASE worker # NoWorker
  <2> DEFINE d == DrainedQueue
             r == Reconcile(d, worker.job)
             j == JoinedQueue(d)
  <2>1. WorkerFits(worker) /\ Owns(queue, worker.job) /\ Good(queue)
    BY <1>2 DEF CInv, Sound
  <2>2. SameBook(worker.job, worker.job)
    BY <2>1 DEF WorkerFits, WorkerType, SameBook
  <2>3. Good(d) /\ Owns(d, worker.job) /\ Later(queue, d)
    BY <2>1, ReconcileOwns, ReconcileLater, LaterRefl DEF DrainedQueue, HasUpdate, WorkerFits
  <2>4. Pausing(d)
    BY <2>3 DEF Later
  <2> HIDE DEF d
  <2>5. Good(r) /\ Later(d, r)
    BY <2>2, <2>3, <2>4, ReconcileOwns, ReconcileLater
  <2>6. Pausing(r) /\ Later(d, d)
    BY <2>3, <2>4, <2>5, LaterRefl DEF Later
  <2>7. /\ Good(Finish(d, worker.job.id, "Failed")) /\ Later(d, Finish(d, worker.job.id, "Failed"))
        /\ Good(Finish(r, worker.job.id, "Failed")) /\ Later(r, Finish(r, worker.job.id, "Failed"))
    BY <2>3, <2>4, <2>5, <2>6, FinishGood, FinishLater DEF TerminalStatus
  <2>8. Good(j) /\ Later(d, j)
    <3> HIDE DEF r
    <3>1. j \in {r, Finish(d, worker.job.id, "Failed"), Finish(r, worker.job.id, "Failed")}
      BY DEF JoinedQueue, r
    <3>. QED
      BY <2>5, <2>7, <3>1, LaterTrans
  <2> HIDE DEF j
  <2>9. Later(queue, j) /\ Pausing(j)
    BY <2>3, <2>8, LaterTrans DEF Later
  <2>10. Later(j, CancelledQueue(j))
    BY <2>8, <2>9, LaterRefl, FinishLater DEF CancelledQueue, TerminalStatus
  <2>11. Later(queue, CancelledQueue(j))
    BY <2>9, <2>10, LaterTrans
  <2>. QED
    BY <2>3, <2>11 DEF PolledQueue, d, j
<1>. QED
  BY <1>1, <1>2

LEMMA StartNextHeld ==
  ASSUME NEW q, Good(q), Pausing(q)
  PROVE  StartNext(q) = q
BY DEF StartNext, Good, PauseConsistentIn, Pausing

LEMMA StartIdleHeld ==
  ASSUME NEW q, Good(q), Pausing(q), NEW w
  PROVE  StartNextIfIdle(q, w) = q
BY StartNextHeld DEF StartNextIfIdle

(* A step of the queue after which the pause still holds.                  *)
Held(q, r) == Pausing(r) /\ ~StartsBook(q, r)

LEMMA HandlersHold ==
  ASSUME NEW p, Good(p), Pausing(p), NEW w, NEW id \in JobId
  PROVE  /\ Held(p, p)
         /\ \A in \in Inputs : id \notin Ids(p) =>
              Held(p, StartNextIfIdle(AddJob(p, NewJob(id, in)), w))
         /\ Held(p, RequestPause(p))
         /\ \A x : Held(p, StartNextIfIdle(Finish(p, x, "Cancelled"), w))
         /\ Has(p, id, {"Failed", "Cancelled"}) =>
              Held(p, StartNextIfIdle(PutJob(p, Scratch(JobOf(p, id))), w))
         /\ id \in Ids(p) /\ ~Has(p, id, ActiveStatus) => Held(p, RemoveJob(p, id))
         /\ \A dir : CanMove(p, id, dir) => Held(p, MoveJob(p, id, dir))
         /\ Has(p, id, {"NeedsReview"}) => Held(p, WithStatus(p, id, "Running"))
<1>1. p \in QueueType /\ UniqueIdsIn(p) /\ p.jobs \in Seq(Job)
  BY DEF Good, QueueType
<1>2. Held(p, p)
  BY LaterRefl DEF Held, Later
<1>3. ASSUME NEW in \in Inputs, id \notin Ids(p)
      PROVE  Held(p, StartNextIfIdle(AddJob(p, NewJob(id, in)), w))
  <2> DEFINE j == NewJob(id, in)
             r == AddJob(p, j)
  <2>1. Good(r)
    BY <1>3, AddJobGood
  <2>2. /\ r.jobs = Append(p.jobs, j) /\ r.state = p.state
        /\ r.pauseAfterCurrent = p.pauseAfterCurrent /\ j.status = "Waiting"
    BY <1>1 DEF AddJob, QueueType, NewJob
  <2> HIDE DEF j, r
  <2>3. \A k \in DOMAIN r.jobs :
          r.jobs[k] = j \/ (k \in DOMAIN p.jobs /\ r.jobs[k] = p.jobs[k])
    BY <1>1, <2>2
  <2>4. Held(p, r)
    BY <1>1, <2>2, <2>3 DEF Held, Pausing, StartsBook, UniqueIdsIn
  <2>. QED
    BY <2>1, <2>4, StartIdleHeld DEF Held, r, j
<1>4. Held(p, RequestPause(p))
  <2>1. RequestPause(p).jobs = p.jobs /\ Pausing(RequestPause(p))
    BY <1>1 DEF RequestPause, Pausing, QueueType
  <2>. QED
    BY <1>1, <2>1 DEF Held, StartsBook, UniqueIdsIn
<1>5. ASSUME NEW x PROVE Held(p, StartNextIfIdle(Finish(p, x, "Cancelled"), w))
  <2>1. Good(Finish(p, x, "Cancelled")) /\ Held(p, Finish(p, x, "Cancelled"))
    BY FinishGood, FinishHolds DEF Held, TerminalStatus
  <2>. QED
    BY <2>1, StartIdleHeld DEF Held
<1>6. ASSUME Has(p, id, {"Failed", "Cancelled"})
      PROVE  Held(p, StartNextIfIdle(PutJob(p, Scratch(JobOf(p, id))), w))
  <2> DEFINE r == PutJob(p, Scratch(JobOf(p, id)))
  <2>1. id \in Ids(p) /\ JobOf(p, id).status \in {"Failed", "Cancelled"}
    BY <1>1, <1>6, ActiveHas
  <2>2. /\ "Waiting" \in JobStatus /\ "Waiting" \notin ActiveStatus
        /\ JobOf(p, id).status \notin ActiveStatus /\ JobOf(p, id).status # "Waiting"
        /\ 0 \in 0..NStages
    BY <2>1, JobQueueAssumption DEF JobStatus, ActiveStatus
  <2>3. Good(r) /\ Held(p, r)
    BY <2>1, <2>2, RestatusGood, PutJobHolds DEF Scratch, Held
  <2> HIDE DEF r
  <2>4. Held(p, StartNextIfIdle(r, w))
    BY <2>3, StartIdleHeld DEF Held
  <2>. QED
    BY <2>4 DEF r
<1>7. ASSUME id \in Ids(p), ~Has(p, id, ActiveStatus) PROVE Held(p, RemoveJob(p, id))
  BY <1>7, RemoveIsSelection, SelectionHolds DEF Held
<1>8. ASSUME NEW dir, CanMove(p, id, dir) PROVE Held(p, MoveJob(p, id, dir))
  BY <1>8, MoveIsSelection, SelectionHolds DEF Held
<1>9. ASSUME Has(p, id, {"NeedsReview"}) PROVE Held(p, WithStatus(p, id, "Running"))
  <2>1. id \in Ids(p) /\ JobOf(p, id).status = "NeedsReview"
    BY <1>1, <1>9, ActiveHas
  <2>2. "Running" \in JobStatus /\ 0 \in 0..NStages
    BY JobQueueAssumption DEF JobStatus, ActiveStatus
  <2>. QED
    BY <2>1, <2>2, PutJobHolds DEF Held
<1>. QED
  BY <1>2, <1>3, <1>4, <1>5, <1>6, <1>7, <1>8, <1>9

LEMMA CommandHeld ==
  ASSUME CInv, Pausing(queue), NEW id \in JobId, Command(id)
  PROVE  Held(queue, queue')
<1> DEFINE p == PolledQueue
<1>1. Good(p) /\ Later(queue, p) /\ Pausing(p)
  BY PollSound, PollLater DEF Sound, Later
<1>2. Held(p, queue')
  BY <1>1, HandlersHold DEF Command, EnqueueCommand, CancelJob, CancelActive, RetryCommand, RemoveCommand,
                            MoveCommand, ReviewDecision, FinishReview, ReviewJob, Dispatch
<1>. QED
  BY <1>1, <1>2, LaterThen DEF Held

LEMMA OtherHeld ==
  ASSUME CInv, Pausing(queue),
         \/ RejectedCommand \/ PauseCommand \/ CancelActive
         \/ \E kind \in {"scan", "install"} : StartRuntimeTask(kind)
         \/ Poll
  PROVE  Held(queue, queue')
<1> DEFINE p == PolledQueue
<1>1. Good(p) /\ Later(queue, p) /\ Pausing(p)
  BY PollSound, PollLater DEF Sound, Later
<1>2. Held(p, p) /\ Held(p, RequestPause(p))
      /\ \A x : Held(p, Finish(p, x, "Cancelled")) /\ Good(Finish(p, x, "Cancelled"))
      /\ \A y : Held(p, Finish(p, y, "Failed"))
  <2>1. Held(p, p)
    BY <1>1, LaterRefl DEF Held, Later
  <2>2. Held(p, RequestPause(p))
    <3>1. p \in QueueType /\ UniqueIdsIn(p)
      BY <1>1 DEF Good
    <3>2. RequestPause(p).jobs = p.jobs /\ Pausing(RequestPause(p))
      BY <3>1 DEF RequestPause, Pausing, QueueType
    <3>. QED
      BY <3>1, <3>2 DEF Held, StartsBook, UniqueIdsIn
  <2>. QED
    BY <1>1, <2>1, <2>2, FinishGood, FinishHolds DEF Held, TerminalStatus
<1>3. Held(p, queue')
  <2>1. CASE RejectedCommand \/ PauseCommand \/ \E kind \in {"scan", "install"} : StartRuntimeTask(kind)
    BY <1>2, <2>1 DEF RejectedCommand, PauseCommand, StartRuntimeTask, PollsOnly, Dispatch
  <2>2. CASE CancelActive
    <3>1. queue' = p \/ \E x : queue' = StartNextIfIdle(Finish(p, x, "Cancelled"), PolledWorker)
      BY <2>2 DEF CancelActive, Dispatch
    <3>. QED
      BY <1>2, <3>1, StartIdleHeld DEF Held
  <2>3. CASE Poll
    <3>1. StartNext(p) = p
      BY <1>1, StartNextHeld
    <3>2. queue' = p \/ \E i \in DOMAIN p.jobs : queue' = Finish(p, p.jobs[i].id, "Failed")
      BY <2>3, <3>1 DEF Poll, ToLaunch
    <3>. QED
      BY <1>2, <3>2
  <2>. QED
    BY <2>1, <2>2, <2>3
<1>. QED
  BY <1>1, <1>3, LaterThen DEF Held

(* The books that a start brings back wait in a paused queue.              *)
LEMMA StartupHeld ==
  ASSUME CInv, Startup, disk.readable, disk.jobs # << >>
  PROVE  Held(queue, queue') /\ ActiveAt(queue') = {}
<1>1. disk # Unreadable /\ disk # NoBooks
  BY DEF Unreadable, NoBooks
<1>2. queue' = [EmptyQueue EXCEPT !.jobs = [i \in DOMAIN disk.jobs |-> RecoveredJob(disk.jobs[i])],
                                  !.state = "Paused"]
      /\ disk.jobs \in Seq(Job)
  BY <1>1 DEF Startup, RecoveredQueue, CInv, GoodSnapshot
<1>3. queue'.state = "Paused" /\ DOMAIN queue'.jobs = DOMAIN disk.jobs
      /\ \A i \in DOMAIN disk.jobs : queue'.jobs[i] = RecoveredJob(disk.jobs[i])
  BY <1>2 DEF EmptyQueue
<1>4. \A i \in DOMAIN queue'.jobs : queue'.jobs[i].status = "Waiting"
  <2>1. ASSUME NEW j \in Job PROVE RecoveredJob(j).status = "Waiting"
    <3> DEFINE kept == IF j.status = "NeedsReview" THEN Min({j.done, ReviewStage - 1}) ELSE j.done
    <3>1. RecoveredJob(j) = [j EXCEPT !.status = "Waiting", !.done = kept]
      BY DEF RecoveredJob
    <3> HIDE DEF kept
    <3>. QED
      BY <3>1 DEF Job
  <2>2. \A i \in DOMAIN disk.jobs : disk.jobs[i] \in Job
    BY <1>2
  <2>. QED
    BY <1>3, <2>1, <2>2
<1>. QED
  BY <1>3, <1>4 DEF Held, Pausing, StartsBook, ActiveAt, ActiveStatus

(* From a pause request on, and from a start that brings books back, no    *)
(* handler starts a book until the user resumes the queue.                 *)
THEOREM PauseHoldsInEveryHandler == ControllerSpec => PauseHoldsInHandlers
<1> DEFINE Holds ==
      /\ up' /\ IF up THEN Pausing(queue) ELSE disk.readable /\ disk.jobs # << >>
      => \/ /\ Pausing(queue') /\ ~StartsBook(queue, queue')
            /\ up \/ ActiveAt(queue') = {}
         \/ ResumeCommand
<1>1. CInv /\ [ControllerNext]_vars => [Holds]_vars
  <2> SUFFICES ASSUME CInv, ControllerNext, up', ~ResumeCommand,
                      IF up THEN Pausing(queue) ELSE disk.readable /\ disk.jobs # << >>
               PROVE  Held(queue, queue') /\ (up \/ ActiveAt(queue') = {})
    BY DEF Held
  <2>1. CASE up
    <3>1. Pausing(queue) /\ Good(queue)
      BY <2>1 DEF CInv, Sound
    <3>2. CASE \E id \in JobId : Command(id)
      BY <2>1, <3>1, <3>2, CommandHeld
    <3>3. CASE \/ RejectedCommand \/ PauseCommand \/ CancelActive
               \/ \E kind \in {"scan", "install"} : StartRuntimeTask(kind)
               \/ Poll
      BY <2>1, <3>1, <3>3, OtherHeld
    <3>4. CASE Preflight \/ BeginStage \/ EndStage \/ WorkerBreaks \/ WorkerExits \/ RuntimeThreadEnds
      <4>1. queue' = queue
        BY <3>4 DEF Preflight, BeginStage, EndStage, WorkerBreaks, WorkerExits, RuntimeThreadEnds,
                    WorkerUnchanged
      <4>. QED
        BY <2>1, <3>1, <4>1, LaterRefl DEF Held, Later
    <3>5. CASE Crash \/ Shutdown \/ Damage \/ Startup
      BY <2>1, <3>5 DEF Crash, Shutdown, Damage, Startup, Gone
    <3>. QED
      BY <3>2, <3>3, <3>4, <3>5 DEF ControllerNext
  <2>2. CASE ~up
    <3>1. worker = NoWorker /\ runtime = NoTask
      BY <2>2 DEF CInv
    <3>2. ~(Preflight \/ BeginStage \/ EndStage \/ WorkerBreaks \/ WorkerExits \/ RuntimeThreadEnds)
      <4>1. ~(worker.phase \in {"preflight", "check", "stage", "ending"})
        BY <3>1 DEF NoWorker
      <4>. QED
        BY <3>1, <4>1 DEF Preflight, BeginStage, EndStage, WorkerBreaks, WorkerExits, RuntimeThreadEnds
    <3>3. Startup
      BY <2>2, <3>2 DEF ControllerNext, Command, EnqueueCommand, CancelJob, CancelActive, RetryCommand,
           RemoveCommand, MoveCommand, ReviewDecision, FinishReview, RejectedCommand, PauseCommand,
           ResumeCommand, StartRuntimeTask, PollsOnly, Dispatch, Poll, Crash, Shutdown, Damage
    <3>. QED
      BY <2>2, <3>3, StartupHeld
  <2>. QED
    BY <2>1, <2>2
<1>. QED
  BY <1>1, ControllerInductive, PTL DEF ControllerSpec, PauseHoldsInHandlers

-----------------------------------------------------------------------------
(* The snapshot of the queue, written and read one file operation at a     *)
(* time.  RecoversSavedWork speaks of two files only; the inductive        *)
(* invariant adds where the save is: which file holds what at each of its  *)
(* steps, and that a session that saves has found nothing unreadable.      *)

SavingInSession == pc # "idle" => session = "up" /\ target \in acceptable
Removes         == pc \in {"removePrimary", "removeBackup"} => target = NoOpenBook
Writes          == pc \notin {"idle", "removePrimary", "removeBackup"} => target \in Snapshots
TempComplete    == pc \in {"dropBackup", "rotate", "publish"} => temp = target
PrimaryInPlace  == /\ pc = "rotate" => primary # Absent
                   /\ pc = "cleanBackup" => primary = target
PrimaryMoved    == /\ pc \in {"publish", "restore"} => primary = Absent
                   /\ pc = "restore" => backup # Absent
SessionReadable == session = "up" => Source # Bad
BackupReadable  == primary # Absent => backup # Bad

SnapshotInv ==
  /\ SnapshotTypeOK
  /\ RecoversSavedWork
  /\ SavingInSession /\ Removes /\ Writes /\ TempComplete
  /\ PrimaryInPlace /\ PrimaryMoved /\ SessionReadable /\ BackupReadable

(* The initial state satisfies the inductive invariant.                    *)
LEMMA SnapshotInitInv == SnapshotInit => SnapshotInv
  BY QueueRecoveryAssumption
     DEF SnapshotInit, SnapshotInv, SnapshotTypeOK, File, Steps, RecoversSavedWork, Recovers, Source, SavingInSession,
         Removes, Writes, TempComplete, PrimaryInPlace, PrimaryMoved, SessionReadable, BackupReadable

(* Every step keeps the inductive invariant: one step per action.          *)
LEMMA SnapshotNextInv == SnapshotInv /\ [SnapshotNext]_snapshotVars => SnapshotInv'
  <1> SUFFICES ASSUME SnapshotInv, [SnapshotNext]_snapshotVars PROVE SnapshotInv'
    OBVIOUS
  <1> USE QueueRecoveryAssumption
  <1> USE DEF SnapshotInv, SnapshotTypeOK, File, Steps, RecoversSavedWork, Recovers, Source, SavingInSession,
          Removes, Writes, TempComplete, PrimaryInPlace, PrimaryMoved, SessionReadable, BackupReadable,
          files, Unchanging, Fails, Complete
  <1>1. ASSUME NEW s \in Snapshots \cup {NoOpenBook}, BeginSave(s) PROVE SnapshotInv'
    BY <1>1 DEF BeginSave
  <1>2. CASE RemovePrimary
    BY <1>2 DEF RemovePrimary
  <1>3. CASE RemoveBackup
    BY <1>3 DEF RemoveBackup
  <1>4. CASE WriteTemp
    BY <1>4 DEF WriteTemp
  <1>5. CASE DropBackup
    BY <1>5 DEF DropBackup
  <1>6. CASE Rotate
    BY <1>6 DEF Rotate
  <1>7. CASE Publish
    BY <1>7 DEF Publish
  <1>8. CASE Restore
    BY <1>8 DEF Restore
  <1>9. CASE CleanBackup
    BY <1>9 DEF CleanBackup
  <1>10. CASE ProcessEnds
    BY <1>10 DEF ProcessEnds
  <1>11. CASE FileSpoiled
    BY <1>11 DEF FileSpoiled
  <1>12. CASE Recover
    BY <1>12 DEF Recover
  <1>13. CASE Quarantine
    BY <1>13 DEF Quarantine
  <1>14. CASE QuarantineFails
    BY <1>14 DEF QuarantineFails
  <1>15. CASE UNCHANGED snapshotVars
    BY <1>15 DEF snapshotVars
  <1> QED
    BY <1>1, <1>2, <1>3, <1>4, <1>5, <1>6, <1>7, <1>8, <1>9, <1>10, <1>11, <1>12, <1>13, <1>14,
       <1>15 DEF SnapshotNext, SaveStep

(* The inductive invariant holds in every reachable state.                 *)
THEOREM SnapshotInductive == SnapshotSpec => []SnapshotInv
  BY SnapshotInitInv, SnapshotNextInv, PTL DEF SnapshotSpec

(* Every reachable state has the declared types.                           *)
THEOREM SnapshotTypeCorrect == SnapshotSpec => []SnapshotTypeOK
  BY SnapshotInductive, PTL DEF SnapshotInv

(* Wherever a save fails or the process ends, a start reads the last       *)
(* complete save or the one in progress, as long as there is work in it.   *)
THEOREM SavedWorkRecovered == SnapshotSpec => []RecoversSavedWork
  BY SnapshotInductive, PTL DEF SnapshotInv

(* A snapshot a start could not read is never overwritten or removed, only *)
(* renamed aside.                                                          *)
THEOREM UnreadableKept == SnapshotSpec => UnreadableSetAside
  <1>1. SnapshotInv /\ [SnapshotNext]_snapshotVars => [Source = Bad /\ Source' # Bad => Quarantine]_snapshotVars
    <2> SUFFICES ASSUME SnapshotInv, SnapshotNext, Source = Bad, Source' # Bad
                 PROVE  Quarantine
      BY DEF snapshotVars
    <2> USE DEF SnapshotInv
    <2>1. session # "up" /\ pc = "idle"
      BY DEF SessionReadable, SavingInSession
    <2>2. ~SaveStep
      BY <2>1 DEF SaveStep, RemovePrimary, RemoveBackup, WriteTemp, DropBackup, Rotate, Publish,
                  Restore, CleanBackup
    <2>3. ASSUME NEW s \in Snapshots \cup {NoOpenBook} PROVE ~BeginSave(s)
      BY <2>1 DEF BeginSave
    <2>4. ~(ProcessEnds \/ FileSpoiled \/ Recover \/ QuarantineFails)
      BY QueueRecoveryAssumption
         DEF ProcessEnds, FileSpoiled, Recover, QuarantineFails, Source, files
    <2> QED BY <2>2, <2>3, <2>4 DEF SnapshotNext
  <1> QED BY <1>1, SnapshotInductive, PTL DEF SnapshotSpec, UnreadableSetAside
=============================================================================
