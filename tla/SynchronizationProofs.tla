----------------------- MODULE SynchronizationProofs -----------------------
(***************************************************************************)
(* From the audiobook to the read-aloud book, for every narration, every   *)
(* book and every decision.  Three parts: the plan of the chunks, which    *)
(* the program always accepts; the pool, which transcribes every chunk     *)
(* once and implements the promise of Transcription; and the               *)
(* synchronization, whose invariant SyncInv carries what a stage knows to  *)
(* the stages that rely on it: the segments are what is heard, in order    *)
(* (Timed), every match lies in one block (Windows), every decision is one *)
(* that was offered (Sound), and a built book is the reading of its        *)
(* documents (Bound).                                                      *)
(*                                                                         *)
(* The pool and the rest share no state; they are in one module because    *)
(* both continue the plan.                                                 *)
(***************************************************************************)
EXTENDS Synchronization, ChunkPool, OrderingProofs

-----------------------------------------------------------------------------
(* The plan.                                                               *)

(* The chunks cut so far follow each other and fit the engine.             *)
Chained(c) ==
  \A i \in 1..Len(c) : StartOf(c, i) < c[i] /\ c[i] - StartOf(c, i) <= HardCap

PlanInv ==
  /\ chapters \in Contents /\ cuts \in Seq(1..Duration) /\ refined \in Nat
  /\ plan \in {"cutting", "refining", "ready"}
  /\ Chained(cuts)
  /\ plan # "cutting" => ValidPlan(cuts)

(* Appending a cut that is near enough to the last one keeps the chain.    *)
LEMMA ChainGrows ==
  ASSUME NEW c \in Seq(1..Duration), Chained(c), NEW end \in 1..Duration,
         LET last == IF c = << >> THEN 0 ELSE c[Len(c)]
         IN  last < end /\ end - last <= HardCap
  PROVE  Append(c, end) \in Seq(1..Duration) /\ Chained(Append(c, end))
<1> DEFINE d == Append(c, end)
<1>1. d \in Seq(1..Duration) /\ Len(d) = Len(c) + 1 /\ Len(c) \in Nat
  OBVIOUS
<1>2. ASSUME NEW i \in 1..Len(d)
      PROVE  StartOf(d, i) < d[i] /\ d[i] - StartOf(d, i) <= HardCap
  <2>1. CASE i \in 1..Len(c)
    <3>1. d[i] = c[i] /\ StartOf(d, i) = StartOf(c, i)
      BY <2>1 DEF StartOf
    <3> QED BY <2>1, <3>1 DEF Chained
  <2>2. CASE i = Len(c) + 1
    <3>1. d[i] = end
      BY <2>2
    <3>2. StartOf(d, i) = IF c = << >> THEN 0 ELSE c[Len(c)]
      <4>1. CASE c = << >>
        BY <2>2, <4>1 DEF StartOf
      <4>2. CASE c # << >>
        <5>1. Len(c) \in 1..Len(c) /\ i # 1
          BY <2>2, <4>2
        <5> QED BY <2>2, <4>2, <5>1 DEF StartOf
      <4> QED BY <4>1, <4>2
    <3> QED BY <3>1, <3>2
  <2> QED BY <1>1, <2>1, <2>2
<1> QED BY <1>1, <1>2 DEF Chained

(* One cut of a valid plan may move wherever Fits allows.                  *)
LEMMA CutMoves ==
  ASSUME cuts \in Seq(1..Duration), ValidPlan(cuts), ChunkPlanAssumption,
         NEW i \in 1..(Len(cuts) - 1), NEW middle \in Int, Fits(i, middle)
  PROVE  LET d == [cuts EXCEPT ![i] = middle] IN d \in Seq(1..Duration) /\ ValidPlan(d)
<1> DEFINE d == [cuts EXCEPT ![i] = middle]
<1>1. /\ i \in 1..Len(cuts) /\ i + 1 \in 1..Len(cuts) /\ Len(cuts) \in Nat /\ Duration \in Nat
      /\ cuts[i] \in 1..Duration /\ cuts[i + 1] \in 1..Duration
  BY DEF ChunkPlanAssumption
<1>2. StartOf(cuts, i) \in 0..Duration
  BY <1>1 DEF StartOf
<1>3. middle \in 1..Duration
  BY <1>1, <1>2 DEF Fits
<1>4. d \in Seq(1..Duration) /\ Len(d) = Len(cuts) /\ d # << >>
  BY <1>1, <1>3
<1>5. d[Len(d)] = Duration
  <2>1. Len(cuts) # i /\ Len(cuts) \in 1..Len(cuts)
    BY <1>1
  <2>2. d[Len(cuts)] = cuts[Len(cuts)]
    BY <2>1
  <2> QED BY <1>4, <2>2 DEF ValidPlan
<1>6. ASSUME NEW j \in 1..Len(d)
      PROVE  StartOf(d, j) < d[j] /\ d[j] - StartOf(d, j) <= HardCap
  <2>1. CASE j = i
    <3>1. d[j] = middle /\ StartOf(d, j) = StartOf(cuts, j)
      BY <1>1, <2>1 DEF StartOf
    <3> QED BY <2>1, <3>1 DEF Fits
  <2>2. CASE j = i + 1
    <3>1. d[j] = cuts[i + 1] /\ StartOf(d, j) = middle
      BY <1>1, <2>2 DEF StartOf
    <3> QED BY <3>1 DEF Fits
  <2>3. CASE j # i /\ j # i + 1
    <3>1. d[j] = cuts[j] /\ StartOf(d, j) = StartOf(cuts, j)
      BY <1>1, <1>4, <2>3 DEF StartOf
    <3> QED BY <1>4, <3>1 DEF ValidPlan
  <2> QED BY <2>1, <2>2, <2>3
<1> QED BY <1>4, <1>5, <1>6 DEF ValidPlan

LEMMA PlanInvInit == PlanInit => PlanInv
BY DEF PlanInit, PlanInv, Chained

LEMMA PlanInvStep == ChunkPlanAssumption /\ PlanInv /\ [PlanNext]_planVars => PlanInv'
<1> SUFFICES ASSUME ChunkPlanAssumption, PlanInv, [PlanNext]_planVars PROVE PlanInv'
  OBVIOUS
<1> USE ChunkPlanAssumption
<1>1. CASE Cut
  <2>1. /\ chapters' = chapters /\ refined' = refined /\ plan' = "cutting" /\ plan = "cutting"
        /\ chapters \subseteq 1..(Duration - 1) /\ Duration \in Nat /\ MaxChunk \in Nat \ {0}
        /\ MaxChunk <= HardCap /\ HardCap \in Nat
    BY <1>1 DEF Cut, PlanInv, ChunkPlanAssumption
  <2>2. Planned \in 0..Duration /\ Planned < Duration
    <3>1. cuts \in Seq(1..Duration)
      BY DEF PlanInv
    <3>2. cuts # << >> => cuts[Len(cuts)] \in 1..Duration
      BY <3>1
    <3> QED BY <1>1, <2>1, <3>2 DEF Cut, Planned
  <2>3. PICK end \in 1..Duration : cuts' = Append(cuts, end) /\ Planned < end /\ end - Planned <= HardCap
    <3>1. CASE Duration - Planned <= MaxChunk /\ cuts' = Append(cuts, Duration)
      BY <2>1, <2>2, <3>1
    <3>2. CASE Duration - Planned > MaxChunk /\ cuts' = Append(cuts, Planned + MaxChunk)
      BY <2>1, <2>2, <3>2
    <3>3. ASSUME NEW m \in Marks, cuts' = Append(cuts, m)
          PROVE  m \in 1..Duration /\ Planned < m /\ m - Planned <= HardCap
      BY <2>1, <2>2 DEF Marks
    <3> QED BY <1>1, <3>1, <3>2, <3>3, <2>1, <2>2 DEF Cut
  <2>4. cuts' \in Seq(1..Duration) /\ Chained(cuts)'
    <3>1. Append(cuts, end) \in Seq(1..Duration) /\ Chained(Append(cuts, end))
      BY <2>3, ChainGrows DEF PlanInv, Planned
    <3> QED BY <2>3, <3>1 DEF Chained, StartOf
  <2> QED BY <2>1, <2>4 DEF PlanInv
<1>2. CASE CheckPlan
  <2>1. ValidPlan(cuts)
    BY <1>2 DEF CheckPlan, Planned, PlanInv, Chained, ValidPlan, ChunkPlanAssumption
  <2> QED BY <1>2, <2>1 DEF CheckPlan, Validated, PlanInv, Chained, ValidPlan, StartOf
<1>3. CASE Refine
  <2>1. CASE UNCHANGED cuts
    BY <1>3, <2>1 DEF Refine, PlanInv, Chained, ValidPlan, StartOf
  <2>2. ASSUME NEW middle \in (cuts[refined + 1] - Radius)..(cuts[refined + 1] + Radius),
               Fits(refined + 1, middle), cuts' = [cuts EXCEPT ![refined + 1] = middle]
        PROVE  PlanInv'
    <3>1. refined + 1 \in 1..(Len(cuts) - 1) /\ ValidPlan(cuts) /\ cuts \in Seq(1..Duration)
      BY <1>3 DEF Refine, PlanInv
    <3>2. middle \in Int
      BY DEF ChunkPlanAssumption
    <3>3. cuts' \in Seq(1..Duration) /\ ValidPlan(cuts)'
      <4>1. LET d == [cuts EXCEPT ![refined + 1] = middle] IN d \in Seq(1..Duration) /\ ValidPlan(d)
        BY <2>2, <3>1, <3>2, CutMoves
      <4> QED BY <2>2, <4>1 DEF ValidPlan, StartOf
    <3>4. chapters' = chapters /\ plan' = plan /\ refined' = refined + 1
      BY <1>3 DEF Refine
    <3> QED BY <3>3, <3>4 DEF PlanInv, ValidPlan, Chained
  <2> QED BY <1>3, <2>1, <2>2 DEF Refine
<1>4. CASE CheckRefined
  BY <1>4 DEF CheckRefined, Validated, PlanInv, Chained, ValidPlan, StartOf
<1>5. CASE UNCHANGED planVars
  BY <1>5 DEF planVars, PlanInv, Chained, ValidPlan, StartOf
<1> QED BY <1>1, <1>2, <1>3, <1>4, <1>5 DEF PlanNext

(* validate_chunk_plan never refuses what plan_transcription_chunks and    *)
(* refine_synthetic_boundaries made, however long the book, whatever its   *)
(* chapters and wherever ffmpeg finds silence.                             *)
THEOREM PlansAreAccepted == PlanSpec => []PlanAccepted
<1>1. PlanInv => PlanAccepted
  BY DEF PlanInv, PlanAccepted
<1> QED BY <1>1, PlanInvInit, PlanInvStep, ChunkPlanAssumption, PTL DEF PlanSpec

-----------------------------------------------------------------------------
(* The pool.  A chunk is in one place at a time (Placed); it is nowhere    *)
(* only after a thread has failed with it (NothingLost); and whatever      *)
(* stops the pool early goes back to a cancellation or a failure (Reasons).*)

(* What has gone wrong, as the abstract specification sees it.             *)
Broken == error = "observer" \/ \E t \in Threads : problem[t] = "broken" \/ step[t] = "panicked"

Holds(t) == step[t] \in {"work", "send"}

PoolTypes ==
  /\ pending \in Seq(Chunks)
  /\ step \in [Threads -> {"check", "pop", "work", "send", "fail", "report", "gone", "panicked"}]
  /\ held \in [Threads -> 0..NChunks]
  /\ \A t \in Threads : Holds(t) => held[t] \in Chunks
  /\ problem \in [Threads -> {"none"} \cup Problems]
  /\ channel \in Seq([chunk : 0..NChunks, problem : {"none"} \cup Problems])
  /\ stop \in BOOLEAN /\ cancelled \in BOOLEAN

CollectorTypes ==
  /\ main \in {"loop", "receive", "join", "returned"}
  /\ parts \in [Chunks -> 0..NChunks] /\ \A c \in Chunks : parts[c] \in {0, c}
  /\ completed \in Nat
  /\ error \in Errors
  /\ outcome \in {"none", "ok", "cancelled", "failed", "missing"}

(* No chunk is in two places.                                              *)
Placed ==
  /\ \A i, k \in DOMAIN pending : pending[i] = pending[k] => i = k
  /\ \A t, u \in Threads : Holds(t) /\ Holds(u) /\ held[t] = held[u] => t = u
  /\ \A i, k \in DOMAIN channel : channel[i].chunk # 0 /\ channel[i].chunk = channel[k].chunk => i = k
  /\ \A t \in Threads, i \in DOMAIN pending : Holds(t) => pending[i] # held[t]
  /\ \A t \in Threads, i \in DOMAIN channel : Holds(t) => channel[i].chunk # held[t]
  /\ \A i \in DOMAIN pending, k \in DOMAIN channel : pending[i] # channel[k].chunk
  /\ \A i \in DOMAIN pending : parts[pending[i]] = 0
  /\ \A t \in Threads : Holds(t) => parts[held[t]] = 0
  /\ \A i \in DOMAIN channel : channel[i].chunk # 0 => parts[channel[i].chunk] = 0

Counted == completed = Cardinality({c \in Chunks : parts[c] # 0})

NothingLost ==
  \A c \in Chunks :
    \/ \E i \in DOMAIN pending : pending[i] = c
    \/ \E t \in Threads : Holds(t) /\ held[t] = c
    \/ \E i \in DOMAIN channel : channel[i].chunk = c
    \/ parts[c] # 0
    \/ \E t \in Threads : problem[t] # "none" \/ step[t] = "panicked"

(* Why a thread has gone, why the pool stops, why the call fails.          *)
Reasons ==
  /\ \A t \in Threads : problem[t] # "none" => step[t] \in {"fail", "report", "gone"}
  /\ \A t \in Threads : step[t] \in {"fail", "report"} => problem[t] # "none"
  /\ \A i \in DOMAIN channel :
       /\ channel[i].chunk = 0 <=> channel[i].problem # "none"
       /\ channel[i].problem # "none" => \E t \in Threads : problem[t] = channel[i].problem
  /\ \A t \in Threads : step[t] = "gone" => stop \/ pending = << >> \/ problem[t] # "none"
  /\ stop \/ error # "none" \/ (\E t \in Threads : problem[t] # "none") => cancelled \/ Broken

Collected ==
  /\ main = "receive" => error = "none" /\ completed < NChunks
  /\ main \in {"join", "returned"} => error # "none" \/ completed >= NChunks
  /\ main = "returned" <=> outcome # "none"
  /\ main = "returned" => \A t \in Threads : IsGone(t)
  /\ outcome = "ok" => parts = [c \in Chunks |-> c]
  /\ outcome # "missing"

PInv ==
  /\ PoolTypes /\ CollectorTypes
  /\ Placed /\ Counted /\ NothingLost
  /\ Reasons /\ Collected

-----------------------------------------------------------------------------
(* Each step keeps the invariant.                                          *)

LEMMA InitInv == Init => PInv
<1> SUFFICES ASSUME Init PROVE PInv
  OBVIOUS
<1>1. NChunks \in Nat /\ Threads # {} /\ Chunks = 1..NChunks
  BY ChunkPoolAssumption DEF Chunks
<1>2. pending \in Seq(Chunks) /\ DOMAIN pending = Chunks /\ \A i \in Chunks : pending[i] = i
  BY <1>1 DEF Init
<1>3. \A t \in Threads : step[t] = "check" /\ held[t] = 0 /\ problem[t] = "none" /\ ~Holds(t)
  BY DEF Init, Holds
<1>4. channel = << >> /\ DOMAIN channel = {} /\ \A c \in Chunks : parts[c] = 0
  BY DEF Init
<1>5. PoolTypes
  <2>1. channel \in Seq([chunk : 0..NChunks, problem : {"none"} \cup Problems])
    BY <1>4
  <2>2. 0 \in 0..NChunks
    BY <1>1
  <2>3. /\ step \in [Threads -> {"check", "pop", "work", "send", "fail", "report", "gone", "panicked"}]
        /\ held \in [Threads -> 0..NChunks] /\ problem \in [Threads -> {"none"} \cup Problems]
        /\ stop \in BOOLEAN /\ cancelled \in BOOLEAN
    BY <2>2 DEF Init
  <2>. QED
    BY <1>2, <1>3, <2>1, <2>3 DEF PoolTypes
<1>6. CollectorTypes
  BY <1>1, <1>4 DEF Init, CollectorTypes, Errors
<1>7. Placed
  BY <1>2, <1>3, <1>4 DEF Placed
<1>8. Counted
  <2>1. {c \in Chunks : parts[c] # 0} = {}
    BY <1>4
  <2>. QED
    BY <2>1, FS_EmptySet DEF Counted, Init
<1>9. NothingLost
  BY <1>2 DEF NothingLost
<1>10. Reasons
  BY <1>3, <1>4 DEF Reasons, Init
<1>11. Collected
  BY DEF Collected, Init
<1>. QED
  BY <1>5, <1>6, <1>7, <1>8, <1>9, <1>10, <1>11 DEF PInv

(* A thread looks at the token, or stops the others: nothing moves.        *)
LEMMA CheckInv ==
  ASSUME PInv, NEW t \in Threads, Check(t)
  PROVE  PInv'
<1>1. /\ step[t] = "check" /\ step' = [step EXCEPT ![t] = IF stop THEN "gone" ELSE "pop"]
      /\ UNCHANGED <<pending, held, problem, channel, stop, cancelled, main, parts, completed,
                     error, outcome>>
  BY DEF Check, To, collector
<1>2. step \in [Threads -> {"check", "pop", "work", "send", "fail", "report", "gone", "panicked"}]
  BY DEF PInv, PoolTypes
<1>3. /\ step'[t] \in {"gone", "pop"} /\ step'[t] = "gone" => stop
      /\ \A u \in Threads \ {t} : step'[u] = step[u]
      /\ step' \in [Threads -> {"check", "pop", "work", "send", "fail", "report", "gone", "panicked"}]
  BY <1>1, <1>2
<1>4. \A u \in Threads : Holds(u)' <=> Holds(u)
  BY <1>1, <1>3 DEF Holds
<1>5. PoolTypes' /\ CollectorTypes'
  BY <1>1, <1>3, <1>4 DEF PInv, PoolTypes, CollectorTypes
<1>6. Placed'
  BY <1>1, <1>4 DEF PInv, Placed
<1>7. Counted'
  BY <1>1 DEF PInv, Counted
<1>8. NothingLost'
  BY <1>1, <1>3, <1>4 DEF PInv, NothingLost
<1>9. Broken' <=> Broken
  BY <1>1, <1>3 DEF Broken
<1>10. Reasons'
  BY <1>1, <1>3, <1>9 DEF PInv, Reasons
<1>11. Collected'
  BY <1>1, <1>3 DEF PInv, Collected, IsGone
<1>. QED
  BY <1>5, <1>6, <1>7, <1>8, <1>10, <1>11 DEF PInv

LEMMA PopInv ==
  ASSUME PInv, NEW t \in Threads, Pop(t)
  PROVE  PInv'
<1>1. /\ step[t] = "pop"
      /\ UNCHANGED <<problem, channel, stop, cancelled, main, parts, completed, error, outcome>>
  BY DEF Pop, collector
<1>2. /\ pending \in Seq(Chunks)
      /\ step \in [Threads -> {"check", "pop", "work", "send", "fail", "report", "gone", "panicked"}]
      /\ held \in [Threads -> 0..NChunks]
  BY DEF PInv, PoolTypes
<1>3. CASE pending = << >>
  <2>1. step' = [step EXCEPT ![t] = "gone"] /\ UNCHANGED <<pending, held>>
    BY <1>3 DEF Pop, To
  <2>2. /\ step'[t] = "gone" /\ \A u \in Threads \ {t} : step'[u] = step[u]
        /\ step' \in [Threads -> {"check", "pop", "work", "send", "fail", "report", "gone", "panicked"}]
    BY <1>2, <2>1
  <2>3. \A u \in Threads : Holds(u)' <=> Holds(u)
    BY <1>1, <2>2 DEF Holds
  <2>4. PoolTypes' /\ CollectorTypes'
    BY <1>1, <2>1, <2>2, <2>3 DEF PInv, PoolTypes, CollectorTypes
  <2>5. Placed' /\ Counted'
    BY <1>1, <2>1, <2>3 DEF PInv, Placed, Counted
  <2>6. NothingLost'
    BY <1>1, <2>1, <2>2, <2>3 DEF PInv, NothingLost
  <2>7. Broken' <=> Broken
    BY <1>1, <2>2 DEF Broken
  <2>8. Reasons'
    BY <1>1, <1>3, <2>1, <2>2, <2>7 DEF PInv, Reasons
  <2>9. Collected'
    BY <1>1, <2>2 DEF PInv, Collected, IsGone
  <2>. QED
    BY <2>4, <2>5, <2>6, <2>8, <2>9 DEF PInv
<1>4. CASE pending # << >>
  <2> DEFINE c == Head(pending)
  <2>1. /\ step' = [step EXCEPT ![t] = "work"] /\ held' = [held EXCEPT ![t] = c]
        /\ pending' = Tail(pending)
    BY <1>4 DEF Pop, To
  <2>2. /\ step'[t] = "work" /\ held'[t] = c
        /\ \A u \in Threads \ {t} : step'[u] = step[u] /\ held'[u] = held[u]
        /\ step' \in [Threads -> {"check", "pop", "work", "send", "fail", "report", "gone", "panicked"}]
    BY <1>2, <2>1
  <2>3. /\ pending' \in Seq(Chunks) /\ c \in Chunks /\ 1 \in DOMAIN pending /\ pending[1] = c
        /\ Len(pending) \in Nat /\ DOMAIN pending = 1..Len(pending)
        /\ DOMAIN pending' = 1..(Len(pending) - 1)
        /\ \A i \in DOMAIN pending' : pending'[i] = pending[i + 1]
    BY <1>2, <1>4, <2>1, HeadTailProperties
  <2>4. /\ \A i \in DOMAIN pending' : i + 1 \in DOMAIN pending /\ i + 1 # 1 /\ i \in Nat
        /\ \A k \in DOMAIN pending : k # 1 => k - 1 \in DOMAIN pending' /\ pending'[k - 1] = pending[k]
    BY <2>3
  <2> HIDE DEF c
  <2>5. ~Holds(t) /\ Holds(t)' /\ \A u \in Threads \ {t} : Holds(u)' <=> Holds(u)
    BY <1>1, <2>2 DEF Holds
  <2>6. held' \in [Threads -> 0..NChunks]
    <3>1. c \in 0..NChunks
      BY <2>3 DEF Chunks
    <3>. QED
      BY <1>2, <2>1, <3>1
  <2>7. PoolTypes' /\ CollectorTypes'
    BY <1>1, <2>2, <2>3, <2>5, <2>6 DEF PInv, PoolTypes, CollectorTypes
  <2>8. Placed'
    <3>1. Placed
      BY DEF PInv
    <3>2. \A i, k \in DOMAIN pending' : pending'[i] = pending'[k] => i = k
      BY <2>3, <2>4, <3>1 DEF Placed
    <3>3. \A i \in DOMAIN pending' : pending'[i] # c
      BY <2>3, <2>4, <3>1 DEF Placed
    <3>4. \A u, v \in Threads : Holds(u)' /\ Holds(v)' /\ held'[u] = held'[v] => u = v
      BY <2>2, <2>3, <2>5, <3>1 DEF Placed
    <3>5. \A u \in Threads, i \in DOMAIN pending' : Holds(u)' => pending'[i] # held'[u]
      BY <2>2, <2>3, <2>4, <2>5, <3>1, <3>3 DEF Placed
    <3>6. \A u \in Threads : Holds(u)' =>
             parts'[held'[u]] = 0 /\ \A i \in DOMAIN channel' : channel'[i].chunk # held'[u]
      BY <1>1, <2>2, <2>3, <2>5, <3>1 DEF Placed
    <3>7. \A i \in DOMAIN pending' :
             parts'[pending'[i]] = 0 /\ \A k \in DOMAIN channel' : pending'[i] # channel'[k].chunk
      BY <1>1, <2>3, <2>4, <3>1 DEF Placed
    <3>. QED
      BY <1>1, <3>1, <3>2, <3>4, <3>5, <3>6, <3>7 DEF Placed
  <2>9. Counted'
    BY <1>1 DEF PInv, Counted
  <2>10. NothingLost'
    <3> SUFFICES ASSUME NEW d \in Chunks
                 PROVE  \/ \E i \in DOMAIN pending' : pending'[i] = d
                        \/ \E u \in Threads : Holds(u)' /\ held'[u] = d
                        \/ \E i \in DOMAIN channel' : channel'[i].chunk = d
                        \/ parts'[d] # 0
                        \/ \E u \in Threads : problem'[u] # "none" \/ step'[u] = "panicked"
      BY DEF NothingLost
    <3>1. CASE \E i \in DOMAIN pending : pending[i] = d
      BY <2>2, <2>3, <2>4, <2>5, <3>1
    <3>2. CASE \E u \in Threads : Holds(u) /\ held[u] = d
      BY <2>2, <2>5, <3>2
    <3>3. CASE \E u \in Threads : problem[u] # "none" \/ step[u] = "panicked"
      BY <1>1, <2>2, <3>3
    <3>. QED
      BY <1>1, <3>1, <3>2, <3>3 DEF PInv, NothingLost
  <2>11. Broken' <=> Broken
    BY <1>1, <2>2 DEF Broken
  <2>12. Reasons'
    BY <1>1, <1>4, <2>2, <2>11 DEF PInv, Reasons
  <2>13. Collected'
    BY <1>1, <2>2 DEF PInv, Collected, IsGone
  <2>. QED
    BY <2>7, <2>8, <2>9, <2>10, <2>12, <2>13 DEF PInv
<1>. QED
  BY <1>3, <1>4

LEMMA WorkInv ==
  ASSUME PInv, NEW t \in Threads, Work(t) \/ Panic(t)
  PROVE  PInv'
<1>1. /\ step[t] = "work"
      /\ UNCHANGED <<pending, held, channel, stop, cancelled, main, parts, completed, error, outcome>>
  BY DEF Work, Panic, collector
<1>2. /\ step \in [Threads -> {"check", "pop", "work", "send", "fail", "report", "gone", "panicked"}]
      /\ problem \in [Threads -> {"none"} \cup Problems]
  BY DEF PInv, PoolTypes
<1>3. /\ step' \in [Threads -> {"check", "pop", "work", "send", "fail", "report", "gone", "panicked"}]
      /\ problem' \in [Threads -> {"none"} \cup Problems]
      /\ \A u \in Threads \ {t} : step'[u] = step[u] /\ problem'[u] = problem[u]
      /\ \/ step'[t] = "send" /\ problem' = problem
         \/ step'[t] = "panicked" /\ problem' = problem
         \/ step'[t] = "fail" /\ problem'[t] = "broken"
         \/ step'[t] = "fail" /\ problem'[t] = "cancelled" /\ stop
  <2>1. CASE Panic(t)
    BY <1>2, <2>1 DEF Panic, To
  <2>2. CASE Work(t)
    BY <1>2, <2>2 DEF Work, To, Problems
  <2>. QED
    BY <2>1, <2>2
<1>4. \A u \in Threads : Holds(u)' => Holds(u)
  BY <1>1, <1>3 DEF Holds
<1>5. PoolTypes' /\ CollectorTypes'
  BY <1>1, <1>3, <1>4 DEF PInv, PoolTypes, CollectorTypes
<1>6. Placed'
  BY <1>1, <1>4 DEF PInv, Placed
<1>7. Counted'
  BY <1>1 DEF PInv, Counted
<1>8. problem[t] = "none"
  BY <1>1, <1>2 DEF PInv, Reasons
<1>9. NothingLost'
  <2>1. \/ \E u \in Threads : problem'[u] # "none" \/ step'[u] = "panicked"
        \/ problem' = problem /\ \A u \in Threads : Holds(u)' <=> Holds(u)
    BY <1>1, <1>3 DEF Holds
  <2>2. \A u \in Threads : step[u] = "panicked" => step'[u] = "panicked"
    BY <1>1, <1>3
  <2>. QED
    BY <1>1, <2>1, <2>2 DEF PInv, NothingLost
<1>10. \A u \in Threads : problem[u] # "none" => problem'[u] = problem[u]
  BY <1>3, <1>8
<1>11. Broken => Broken'
  BY <1>1, <1>3, <1>8 DEF Broken
<1>12. Reasons'
  <2>1. Reasons
    BY DEF PInv
  <2>2. \A u \in Threads : problem'[u] # "none" => step'[u] \in {"fail", "report", "gone"}
    BY <1>3, <1>8, <2>1 DEF Reasons
  <2>3. \A u \in Threads : step'[u] \in {"fail", "report"} => problem'[u] # "none"
    BY <1>3, <2>1 DEF Reasons
  <2>4. \A i \in DOMAIN channel' :
          /\ channel'[i].chunk = 0 <=> channel'[i].problem # "none"
          /\ channel'[i].problem # "none" => \E u \in Threads : problem'[u] = channel'[i].problem
    BY <1>1, <1>10, <2>1 DEF Reasons
  <2>5. \A u \in Threads : step'[u] = "gone" => stop' \/ pending' = << >> \/ problem'[u] # "none"
    BY <1>1, <1>3, <2>1 DEF Reasons
  <2>6. stop' \/ error' # "none" \/ (\E u \in Threads : problem'[u] # "none") => cancelled' \/ Broken'
    <3>1. problem'[t] = "broken" => Broken'
      BY DEF Broken
    <3>2. stop \/ error # "none" \/ (\E u \in Threads : problem[u] # "none") => cancelled \/ Broken
      BY <2>1 DEF Reasons
    <3>. QED
      BY <1>1, <1>3, <1>11, <3>1, <3>2
  <2>. QED
    BY <2>2, <2>3, <2>4, <2>5, <2>6 DEF Reasons
<1>13. Collected'
  BY <1>1, <1>3 DEF PInv, Collected, IsGone
<1>. QED
  BY <1>5, <1>6, <1>7, <1>9, <1>12, <1>13 DEF PInv

LEMMA SendCompletedInv ==
  ASSUME PInv, NEW t \in Threads, SendCompleted(t)
  PROVE  PInv'
<1> DEFINE c == held[t]
           e == Completed(c)
<1>1. /\ step[t] = "send" /\ step' = [step EXCEPT ![t] = "check"] /\ channel' = Append(channel, e)
      /\ UNCHANGED <<pending, held, problem, stop, cancelled, main, parts, completed, error, outcome>>
  BY DEF SendCompleted, To, collector
<1>2. /\ step \in [Threads -> {"check", "pop", "work", "send", "fail", "report", "gone", "panicked"}]
      /\ channel \in Seq([chunk : 0..NChunks, problem : {"none"} \cup Problems])
      /\ c \in Chunks /\ Holds(t)
  BY <1>1 DEF PInv, PoolTypes, Holds
<1>3. e \in [chunk : 0..NChunks, problem : {"none"} \cup Problems] /\ e.chunk = c /\ e.problem = "none"
      /\ c # 0
  BY <1>2 DEF Completed, Chunks
<1> HIDE DEF e, c
<1>4. /\ channel' \in Seq([chunk : 0..NChunks, problem : {"none"} \cup Problems])
      /\ DOMAIN channel \subseteq DOMAIN channel'
      /\ \A i \in DOMAIN channel : channel'[i] = channel[i]
      /\ \A i \in DOMAIN channel' : i \in DOMAIN channel \/ (i = Len(channel) + 1 /\ channel'[i] = e)
      /\ Len(channel) + 1 \in DOMAIN channel' /\ channel'[Len(channel) + 1] = e
  BY <1>1, <1>2, <1>3
<1>5. /\ step'[t] = "check" /\ \A u \in Threads \ {t} : step'[u] = step[u]
      /\ step' \in [Threads -> {"check", "pop", "work", "send", "fail", "report", "gone", "panicked"}]
  BY <1>1, <1>2
<1>6. ~Holds(t)' /\ \A u \in Threads \ {t} : Holds(u)' <=> Holds(u)
  BY <1>1, <1>5 DEF Holds
<1>7. PoolTypes' /\ CollectorTypes'
  BY <1>1, <1>4, <1>5, <1>6 DEF PInv, PoolTypes, CollectorTypes
<1>8. Placed'
  <2>1. Placed /\ c = held[t]
    BY DEF PInv, c
  <2>2. \A i, k \in DOMAIN channel' :
           channel'[i].chunk # 0 /\ channel'[i].chunk = channel'[k].chunk => i = k
    <3>1. \A i \in DOMAIN channel : channel[i].chunk # c
      BY <1>2, <2>1 DEF Placed
    <3>2. \A i, k \in DOMAIN channel :
             channel[i].chunk # 0 /\ channel[i].chunk = channel[k].chunk => i = k
      BY <2>1 DEF Placed
    <3>. QED
      BY <1>3, <1>4, <3>1, <3>2
  <2>3. \A u \in Threads, i \in DOMAIN channel' : Holds(u)' => channel'[i].chunk # held'[u]
    BY <1>1, <1>2, <1>3, <1>4, <1>6, <2>1 DEF Placed
  <2>4. \A i \in DOMAIN pending', k \in DOMAIN channel' : pending'[i] # channel'[k].chunk
    BY <1>1, <1>2, <1>3, <1>4, <2>1 DEF Placed
  <2>5. \A i \in DOMAIN channel' : channel'[i].chunk # 0 => parts'[channel'[i].chunk] = 0
    BY <1>1, <1>2, <1>3, <1>4, <2>1 DEF Placed
  <2>. QED
    BY <1>1, <1>6, <2>1, <2>2, <2>3, <2>4, <2>5 DEF Placed
<1>9. Counted'
  BY <1>1 DEF PInv, Counted
<1>10. NothingLost'
  <2> SUFFICES ASSUME NEW d \in Chunks
               PROVE  \/ \E i \in DOMAIN pending' : pending'[i] = d
                      \/ \E u \in Threads : Holds(u)' /\ held'[u] = d
                      \/ \E i \in DOMAIN channel' : channel'[i].chunk = d
                      \/ parts'[d] # 0
                      \/ \E u \in Threads : problem'[u] # "none" \/ step'[u] = "panicked"
    BY DEF NothingLost
  <2>1. CASE \E u \in Threads : Holds(u) /\ held[u] = d
    <3>1. PICK u \in Threads : Holds(u) /\ held[u] = d
      BY <2>1
    <3>2. u = t => channel'[Len(channel) + 1].chunk = d
      BY <1>3, <1>4, <3>1 DEF c
    <3>. QED
      BY <1>1, <1>4, <1>6, <3>1, <3>2
  <2>2. CASE \E i \in DOMAIN channel : channel[i].chunk = d
    BY <1>4, <2>2
  <2>3. CASE \E u \in Threads : problem[u] # "none" \/ step[u] = "panicked"
    BY <1>1, <1>5, <2>3
  <2>. QED
    BY <1>1, <2>1, <2>2, <2>3 DEF PInv, NothingLost
<1>11. Broken' <=> Broken
  BY <1>1, <1>5 DEF Broken
<1>12. Reasons'
  <2>1. \A i \in DOMAIN channel' :
          /\ channel'[i].chunk = 0 <=> channel'[i].problem # "none"
          /\ channel'[i].problem # "none" => \E u \in Threads : problem'[u] = channel'[i].problem
    BY <1>1, <1>3, <1>4 DEF PInv, Reasons
  <2>. QED
    BY <1>1, <1>5, <1>11, <2>1 DEF PInv, Reasons
<1>13. Collected'
  BY <1>1, <1>5 DEF PInv, Collected, IsGone
<1>. QED
  BY <1>7, <1>8, <1>9, <1>10, <1>12, <1>13 DEF PInv

LEMMA StopOthersInv ==
  ASSUME PInv, NEW t \in Threads, StopOthers(t)
  PROVE  PInv'
<1>1. /\ step[t] = "fail" /\ step' = [step EXCEPT ![t] = "report"] /\ stop' = TRUE
      /\ UNCHANGED <<pending, held, problem, channel, cancelled, main, parts, completed, error, outcome>>
  BY DEF StopOthers, To, collector
<1>2. step \in [Threads -> {"check", "pop", "work", "send", "fail", "report", "gone", "panicked"}]
  BY DEF PInv, PoolTypes
<1>3. /\ step'[t] = "report" /\ \A u \in Threads \ {t} : step'[u] = step[u]
      /\ step' \in [Threads -> {"check", "pop", "work", "send", "fail", "report", "gone", "panicked"}]
  BY <1>1, <1>2
<1>4. \A u \in Threads : Holds(u)' <=> Holds(u)
  BY <1>1, <1>3 DEF Holds
<1>5. PoolTypes' /\ CollectorTypes'
  BY <1>1, <1>3, <1>4 DEF PInv, PoolTypes, CollectorTypes
<1>6. Placed' /\ Counted'
  BY <1>1, <1>4 DEF PInv, Placed, Counted
<1>7. NothingLost'
  BY <1>1, <1>3, <1>4 DEF PInv, NothingLost
<1>8. Broken' <=> Broken
  BY <1>1, <1>3 DEF Broken
<1>9. Reasons'
  <2>1. problem[t] # "none"
    BY <1>1 DEF PInv, Reasons
  <2>. QED
    BY <1>1, <1>3, <1>8, <2>1 DEF PInv, Reasons
<1>10. Collected'
  BY <1>1, <1>3 DEF PInv, Collected, IsGone
<1>. QED
  BY <1>5, <1>6, <1>7, <1>9, <1>10 DEF PInv

LEMMA SendFailedInv ==
  ASSUME PInv, NEW t \in Threads, SendFailed(t)
  PROVE  PInv'
<1> DEFINE e == Failed(problem[t])
<1>1. /\ step[t] = "report" /\ step' = [step EXCEPT ![t] = "gone"] /\ channel' = Append(channel, e)
      /\ UNCHANGED <<pending, held, problem, stop, cancelled, main, parts, completed, error, outcome>>
  BY DEF SendFailed, To, collector
<1>2. /\ step \in [Threads -> {"check", "pop", "work", "send", "fail", "report", "gone", "panicked"}]
      /\ channel \in Seq([chunk : 0..NChunks, problem : {"none"} \cup Problems])
      /\ problem[t] \in {"none"} \cup Problems /\ problem[t] # "none"
  BY <1>1 DEF PInv, PoolTypes, Reasons
<1>3. e \in [chunk : 0..NChunks, problem : {"none"} \cup Problems] /\ e.chunk = 0 /\ e.problem = problem[t]
  BY <1>2, ChunkPoolAssumption DEF Failed
<1> HIDE DEF e
<1>4. /\ channel' \in Seq([chunk : 0..NChunks, problem : {"none"} \cup Problems])
      /\ DOMAIN channel \subseteq DOMAIN channel'
      /\ \A i \in DOMAIN channel : channel'[i] = channel[i]
      /\ \A i \in DOMAIN channel' : i \in DOMAIN channel \/ channel'[i] = e
  BY <1>1, <1>2, <1>3
<1>5. /\ step'[t] = "gone" /\ \A u \in Threads \ {t} : step'[u] = step[u]
      /\ step' \in [Threads -> {"check", "pop", "work", "send", "fail", "report", "gone", "panicked"}]
  BY <1>1, <1>2
<1>6. \A u \in Threads : Holds(u)' <=> Holds(u)
  BY <1>1, <1>5 DEF Holds
<1>7. PoolTypes' /\ CollectorTypes'
  BY <1>1, <1>4, <1>5, <1>6 DEF PInv, PoolTypes, CollectorTypes
<1>8. Placed'
  <2>1. Placed /\ \A i \in DOMAIN pending : pending[i] \in Chunks
    BY DEF PInv, PoolTypes
  <2>2. 0 \notin Chunks /\ \A u \in Threads : Holds(u) => held[u] # 0
    BY DEF Chunks, PInv, PoolTypes
  <2>3. \A i \in DOMAIN channel' : channel'[i].chunk # 0 => i \in DOMAIN channel /\ channel'[i] = channel[i]
    BY <1>3, <1>4
  <2>4. \A i, k \in DOMAIN channel' :
           channel'[i].chunk # 0 /\ channel'[i].chunk = channel'[k].chunk => i = k
    BY <2>1, <2>3 DEF Placed
  <2>5. \A u \in Threads, i \in DOMAIN channel' : Holds(u)' => channel'[i].chunk # held'[u]
    BY <1>1, <1>6, <2>1, <2>2, <2>3 DEF Placed
  <2>6. \A i \in DOMAIN pending', k \in DOMAIN channel' : pending'[i] # channel'[k].chunk
    BY <1>1, <2>1, <2>2, <2>3 DEF Placed
  <2>7. \A i \in DOMAIN channel' : channel'[i].chunk # 0 => parts'[channel'[i].chunk] = 0
    BY <1>1, <2>1, <2>3 DEF Placed
  <2>. QED
    BY <1>1, <1>6, <2>1, <2>4, <2>5, <2>6, <2>7 DEF Placed
<1>9. Counted'
  BY <1>1 DEF PInv, Counted
<1>10. NothingLost'
  BY <1>1, <1>2 DEF PInv, NothingLost
<1>11. Broken' <=> Broken
  BY <1>1, <1>5 DEF Broken
<1>12. Reasons'
  <2>1. \A i \in DOMAIN channel' :
          /\ channel'[i].chunk = 0 <=> channel'[i].problem # "none"
          /\ channel'[i].problem # "none" => \E u \in Threads : problem'[u] = channel'[i].problem
    BY <1>1, <1>2, <1>3, <1>4 DEF PInv, Reasons
  <2>. QED
    BY <1>1, <1>2, <1>5, <1>11, <2>1 DEF PInv, Reasons
<1>13. Collected'
  BY <1>1, <1>5 DEF PInv, Collected, IsGone
<1>. QED
  BY <1>7, <1>8, <1>9, <1>10, <1>12, <1>13 DEF PInv

(* The collecting thread moves on without an event.                        *)
LEMMA LoopInv ==
  ASSUME PInv, LoopHead \/ ReceiveNothing \/ Cancel
  PROVE  PInv'
<1>1. UNCHANGED <<pending, step, held, problem, channel, parts, completed, outcome>>
      /\ \A u \in Threads : Holds(u)' <=> Holds(u)
  BY DEF LoopHead, ReceiveNothing, Cancel, pool, collector, Holds
<1>2. PoolTypes /\ CollectorTypes /\ Reasons /\ Collected
  BY DEF PInv
<1>3. Placed' /\ Counted' /\ NothingLost'
  BY <1>1 DEF PInv, Placed, Counted, NothingLost
<1>4. CASE LoopHead
  <2>1. /\ main = "loop" /\ main' \in {"join", "receive"} /\ cancelled' = cancelled
        /\ stop' \in {stop, TRUE} /\ error' \in {error, "cancelled"}
        /\ error' # error => error = "none" /\ cancelled
        /\ stop' # stop => cancelled
        /\ main' = "receive" => error' = "none" /\ completed < NChunks
        /\ main' = "join" => error' # "none" \/ ~(completed < NChunks)
    BY <1>4 DEF LoopHead, Collecting
  <2>2. PoolTypes' /\ CollectorTypes'
    BY <1>1, <1>2, <2>1 DEF PoolTypes, CollectorTypes, Errors, Problems
  <2>3. Broken => Broken'
    BY <1>1, <2>1 DEF Broken
  <2>4. Reasons'
    <3>. (stop => stop') /\ (stop' => stop \/ cancelled)
      <4>1. CASE stop' = stop
        BY <4>1
      <4>2. CASE stop' # stop
        BY <2>1, <4>2
      <4>. QED
        BY <4>1, <4>2
    <3>1. stop' \/ error' # "none" \/ (\E t \in Threads : problem'[t] # "none") => cancelled' \/ Broken'
      BY <1>1, <1>2, <2>1, <2>3 DEF Reasons
    <3>. QED
      BY <1>1, <1>2, <2>1, <3>1 DEF Reasons
  <2>5. Collected'
    <3>1. completed \in Nat /\ NChunks \in Nat
      BY <1>2, ChunkPoolAssumption DEF CollectorTypes
    <3>. QED
      BY <1>1, <1>2, <2>1, <3>1 DEF Collected, IsGone
  <2>. QED
    BY <1>3, <2>2, <2>4, <2>5 DEF PInv
<1>5. CASE ReceiveNothing
  <2>1. /\ main = "receive" /\ channel = << >> /\ cancelled' = cancelled /\ error = "none"
        /\ completed < NChunks
    BY <1>2, <1>5 DEF ReceiveNothing, Collected
  <2>2. CASE \A t \in Threads : IsGone(t)
    <3>1. error' = "disconnected" /\ main' = "join" /\ stop' = stop
      BY <1>5, <2>2 DEF ReceiveNothing
    (* Threads that have gone without a failure have emptied the queue.    *)
    <3>2. cancelled \/ Broken
      <4> SUFFICES ASSUME ~cancelled, ~Broken PROVE FALSE
        OBVIOUS
      <4>1. ~stop /\ \A t \in Threads : problem[t] = "none" /\ step[t] # "panicked"
        BY <1>2 DEF Reasons, Broken
      <4>2. pending = << >>
        BY <1>2, <2>2, <4>1, ChunkPoolAssumption DEF Reasons, IsGone
      <4>3. \A t \in Threads : ~Holds(t)
        BY <2>2 DEF IsGone, Holds
      <4>4. \A c \in Chunks : parts[c] # 0
        BY <2>1, <4>1, <4>2, <4>3 DEF PInv, NothingLost
      <4>5. {c \in Chunks : parts[c] # 0} = 1..NChunks
        BY <4>4 DEF Chunks
      <4>6. completed = Cardinality(1..NChunks)
        BY <4>5 DEF PInv, Counted
      <4>7. NChunks \in Nat /\ Cardinality(1..NChunks) = NChunks
        BY ChunkPoolAssumption, FS_Interval
      <4>. QED
        BY <2>1, <4>6, <4>7
    <3>3. PoolTypes' /\ CollectorTypes'
      BY <1>1, <1>2, <2>1, <3>1 DEF PoolTypes, CollectorTypes, Errors
    <3>4. Broken => Broken'
      BY <1>1, <2>1 DEF Broken
    <3>5. Reasons'
      BY <1>1, <1>2, <2>1, <3>1, <3>2, <3>4 DEF Reasons
    <3>6. Collected'
      BY <1>1, <1>2, <2>1, <3>1 DEF Collected
    <3>. QED
      BY <1>3, <3>3, <3>5, <3>6 DEF PInv
  <2>3. CASE ~(\A t \in Threads : IsGone(t))
    <3>1. error' = error /\ main' = "loop" /\ stop' = (stop \/ cancelled)
      BY <1>5, <2>3 DEF ReceiveNothing
    <3>2. PoolTypes' /\ CollectorTypes'
      BY <1>1, <1>2, <2>1, <3>1 DEF PoolTypes, CollectorTypes
    <3>3. Broken' <=> Broken
      BY <1>1, <3>1 DEF Broken
    <3>4. Reasons'
      BY <1>1, <1>2, <2>1, <3>1, <3>3 DEF Reasons
    <3>5. Collected'
      BY <1>1, <1>2, <2>1, <3>1 DEF Collected
    <3>. QED
      BY <1>3, <3>2, <3>4, <3>5 DEF PInv
  <2>. QED
    BY <2>2, <2>3
<1>6. CASE Cancel
  <2>1. cancelled' = TRUE /\ UNCHANGED <<stop, main, error>>
    BY <1>6 DEF Cancel, collector
  <2>2. PoolTypes' /\ CollectorTypes'
    BY <1>1, <1>2, <2>1 DEF PoolTypes, CollectorTypes
  <2>3. Broken' <=> Broken
    BY <1>1, <2>1 DEF Broken
  <2>4. Reasons'
    BY <1>1, <1>2, <2>1, <2>3 DEF Reasons
  <2>5. Collected'
    BY <1>1, <1>2, <2>1 DEF Collected, IsGone
  <2>. QED
    BY <1>3, <2>2, <2>4, <2>5 DEF PInv
<1>. QED
  BY <1>4, <1>5, <1>6

(* An event is taken from the channel: a transcript is stored in its place *)
(* and counted, and a failure becomes the error of the call.               *)
LEMMA ReceiveEventInv ==
  ASSUME PInv, ReceiveEvent
  PROVE  PInv'
<1> DEFINE e == Head(channel)
<1>1. /\ main = "receive" /\ channel # << >> /\ channel' = Tail(channel) /\ main' = "loop"
      /\ UNCHANGED <<pending, step, held, problem, cancelled, outcome>>
      /\ \/ e.problem = "none" /\ Store(e.chunk)
         \/ e.problem # "none" /\ stop' = TRUE /\ error' = e.problem /\ UNCHANGED <<parts, completed>>
  BY DEF ReceiveEvent, pool
<1>2. /\ channel \in Seq([chunk : 0..NChunks, problem : {"none"} \cup Problems])
      /\ parts \in [Chunks -> 0..NChunks] /\ completed \in Nat
      /\ error = "none" /\ completed < NChunks /\ outcome = "none"
      /\ NChunks \in Nat /\ Chunks = 1..NChunks
  BY <1>1, ChunkPoolAssumption DEF PInv, PoolTypes, CollectorTypes, Collected, Chunks
<1>3. /\ channel' \in Seq([chunk : 0..NChunks, problem : {"none"} \cup Problems])
      /\ e \in [chunk : 0..NChunks, problem : {"none"} \cup Problems]
      /\ 1 \in DOMAIN channel /\ channel[1] = e
      /\ Len(channel) \in Nat /\ DOMAIN channel = 1..Len(channel)
      /\ DOMAIN channel' = 1..(Len(channel) - 1)
      /\ \A i \in DOMAIN channel' : channel'[i] = channel[i + 1]
  <2> DEFINE E == [chunk : 0..NChunks, problem : {"none"} \cup Problems]
  <2>1. channel \in Seq(E) /\ channel # << >> /\ channel' = Tail(channel)
    BY <1>1, <1>2
  <2>. HIDE DEF E
  <2>2. /\ channel' \in Seq(E) /\ e \in E
        /\ 1 \in DOMAIN channel /\ channel[1] = e
        /\ Len(channel) \in Nat /\ DOMAIN channel = 1..Len(channel)
        /\ DOMAIN channel' = 1..(Len(channel) - 1)
        /\ \A i \in DOMAIN channel' : channel'[i] = channel[i + 1]
    BY <2>1, HeadTailProperties
  <2>. QED
    BY <2>2 DEF E
<1>4. /\ \A i \in DOMAIN channel' : i + 1 \in DOMAIN channel /\ i + 1 # 1 /\ i \in Nat
      /\ \A k \in DOMAIN channel : k # 1 => k - 1 \in DOMAIN channel' /\ channel'[k - 1] = channel[k]
  BY <1>3
<1>5. \A u \in Threads : Holds(u)' <=> Holds(u)
  BY <1>1 DEF Holds
<1>6. /\ e.chunk = 0 <=> e.problem # "none"
      /\ e.problem # "none" => \E u \in Threads : problem[u] = e.problem
  BY <1>3 DEF PInv, Reasons
<1> HIDE DEF e
<1>7. /\ error' \in Errors /\ stop' \in BOOLEAN
      /\ error' # "none" => error' = "observer" \/ \E u \in Threads : problem[u] = error'
      /\ stop' # stop => error' # "none"
  <2>1. stop \in BOOLEAN
    BY DEF PInv, PoolTypes
  <2>. QED
    BY <1>1, <1>2, <1>3, <1>6, <2>1 DEF Store, Errors
<1>8. /\ Broken => Broken'
      /\ \A i \in DOMAIN channel' :
           /\ channel'[i].chunk = 0 <=> channel'[i].problem # "none"
           /\ channel'[i].problem # "none" => \E u \in Threads : problem'[u] = channel'[i].problem
  BY <1>1, <1>2, <1>3, <1>4 DEF PInv, Broken, Reasons
<1>9. Reasons'
  <2>1. Reasons
    BY DEF PInv
  <2>2. stop' \/ error' # "none" \/ (\E u \in Threads : problem'[u] # "none") => cancelled' \/ Broken'
    <3>1. error' = "observer" => Broken'
      BY DEF Broken
    <3>2. stop \/ (\E u \in Threads : problem[u] # "none") => cancelled \/ Broken
      BY <2>1 DEF Reasons
    <3>. QED
      BY <1>1, <1>7, <1>8, <3>1, <3>2
  <2>3. stop => stop'
    BY <1>1 DEF Store
  <2>. QED
    BY <1>1, <1>8, <2>1, <2>2, <2>3 DEF Reasons
<1>10. Collected'
  BY <1>1, <1>2 DEF Collected
<1>11. PoolTypes'
  BY <1>1, <1>3, <1>5, <1>7 DEF PInv, PoolTypes
<1>12. /\ \A i, k \in DOMAIN channel' :
            channel'[i].chunk # 0 /\ channel'[i].chunk = channel'[k].chunk => i = k
       /\ \A u \in Threads, i \in DOMAIN channel' : Holds(u)' => channel'[i].chunk # held'[u]
       /\ \A i \in DOMAIN pending', k \in DOMAIN channel' : pending'[i] # channel'[k].chunk
  BY <1>1, <1>3, <1>4, <1>5 DEF PInv, Placed
<1>13. CASE e.problem # "none"
  <2>1. UNCHANGED <<parts, completed>>
    BY <1>1, <1>13
  <2>2. CollectorTypes' /\ Counted'
    BY <1>1, <1>7, <2>1 DEF PInv, CollectorTypes, Counted
  <2>3. Placed'
    BY <1>1, <1>3, <1>4, <1>5, <1>12, <2>1 DEF PInv, Placed
  <2>4. NothingLost'
    BY <1>1, <1>3, <1>5, <1>6, <1>13 DEF PInv, NothingLost
  <2>. QED
    BY <1>9, <1>10, <1>11, <2>2, <2>3, <2>4 DEF PInv
<1>14. CASE e.problem = "none"
  <2> DEFINE c == e.chunk
  <2>1. c \in Chunks /\ c # 0 /\ c \in 0..NChunks /\ parts' = [parts EXCEPT ![c] = c]
        /\ completed' = completed + 1
    BY <1>1, <1>2, <1>3, <1>6, <1>14 DEF Store
  <2> HIDE DEF c
  <2>2. /\ parts[c] = 0 /\ parts'[c] = c /\ \A d \in Chunks \ {c} : parts'[d] = parts[d]
        /\ parts' \in [Chunks -> 0..NChunks]
    BY <1>2, <1>3, <2>1 DEF PInv, Placed, c
  <2>3. CollectorTypes'
    BY <1>1, <1>2, <1>7, <2>1, <2>2 DEF PInv, CollectorTypes
  <2>4. Counted'
    <3> DEFINE S == {d \in Chunks : parts[d] # 0}
    <3>1. {d \in Chunks : parts'[d] # 0} = S \cup {c} /\ c \notin S
      BY <2>1, <2>2
    <3>2. S \subseteq 1..NChunks /\ IsFiniteSet(1..NChunks)
      BY <1>2, FS_Interval
    <3>3. IsFiniteSet(S)
      BY <3>2, FS_Subset
    <3>4. Cardinality(S \cup {c}) = Cardinality(S) + 1
      BY <3>1, <3>3, FS_AddElement
    <3>. QED
      BY <2>1, <3>1, <3>4 DEF PInv, Counted
  <2>5. /\ \A i \in DOMAIN pending : pending[i] # c /\ pending[i] \in Chunks
        /\ \A u \in Threads : Holds(u) => held[u] # c /\ held[u] \in Chunks
    <3>1. Placed /\ 1 \in DOMAIN channel /\ channel[1].chunk = c
      BY <1>3 DEF PInv, c
    <3>2. \A i \in DOMAIN pending : pending[i] \in Chunks
      BY DEF PInv, PoolTypes
    <3>3. \A u \in Threads : Holds(u) => held[u] \in Chunks
      BY DEF PInv, PoolTypes
    <3>. QED
      BY <3>1, <3>2, <3>3 DEF Placed
  <2>6. \A i \in DOMAIN channel' : channel'[i].chunk # 0 =>
           channel'[i].chunk \in Chunks /\ channel'[i].chunk # c /\ parts[channel'[i].chunk] = 0
    <3> SUFFICES ASSUME NEW i \in DOMAIN channel', channel'[i].chunk # 0
                 PROVE  channel'[i].chunk \in Chunks /\ channel'[i].chunk # c /\ parts[channel'[i].chunk] = 0
      OBVIOUS
    <3>1. i + 1 \in DOMAIN channel /\ channel'[i] = channel[i + 1] /\ i + 1 # 1 /\ i \in Nat
      BY <1>3, <1>4
    <3>2. channel[i + 1].chunk \in 0..NChunks
      <4>1. channel[i + 1] \in [chunk : 0..NChunks, problem : {"none"} \cup Problems]
        <5>. DEFINE E == [chunk : 0..NChunks, problem : {"none"} \cup Problems]
        <5>1. channel \in Seq(E)
          BY <1>2
        <5>. HIDE DEF E
        <5>2. channel[i + 1] \in E
          BY <3>1, <5>1
        <5>. QED
          BY <5>2 DEF E
      <4>. QED
        BY <4>1
    <3>3. channel[i + 1].chunk # c /\ parts[channel[i + 1].chunk] = 0
      <4>1. Placed /\ 1 \in DOMAIN channel /\ channel[1].chunk = c
        BY <1>3 DEF PInv, c
      <4>2. channel[i + 1].chunk # 0
        BY <3>1
      <4>3. channel[i + 1].chunk # channel[1].chunk
        <5>1. \A n, k \in DOMAIN channel :
                 channel[n].chunk # 0 /\ channel[n].chunk = channel[k].chunk => n = k
          BY <4>1 DEF Placed
        <5>. QED
          BY <3>1, <4>1, <4>2, <5>1
      <4>4. parts[channel[i + 1].chunk] = 0
        BY <3>1, <4>1, <4>2 DEF Placed
      <4>. QED
        BY <4>1, <4>3, <4>4
    <3>. QED
      BY <1>2, <3>1, <3>2, <3>3
  <2>7. Placed'
    <3>1. \A i \in DOMAIN pending' : parts'[pending'[i]] = 0
      BY <1>1, <2>2, <2>5 DEF PInv, Placed
    <3>2. \A u \in Threads : Holds(u)' => parts'[held'[u]] = 0
      BY <1>1, <1>5, <2>2, <2>5 DEF PInv, Placed
    <3>3. \A i \in DOMAIN channel' : channel'[i].chunk # 0 => parts'[channel'[i].chunk] = 0
      BY <2>2, <2>6
    <3>. QED
      BY <1>1, <1>5, <1>12, <3>1, <3>2, <3>3 DEF PInv, Placed
  <2>8. NothingLost'
    <3> SUFFICES ASSUME NEW d \in Chunks
                 PROVE  \/ \E i \in DOMAIN pending' : pending'[i] = d
                        \/ \E u \in Threads : Holds(u)' /\ held'[u] = d
                        \/ \E i \in DOMAIN channel' : channel'[i].chunk = d
                        \/ parts'[d] # 0
                        \/ \E u \in Threads : problem'[u] # "none" \/ step'[u] = "panicked"
      BY DEF NothingLost
    <3>1. CASE \E i \in DOMAIN channel : channel[i].chunk = d
      <4>1. PICK i \in DOMAIN channel : channel[i].chunk = d
        BY <3>1
      <4>2. i = 1 => parts'[d] # 0
        BY <1>3, <2>1, <2>2, <4>1 DEF c
      <4>. QED
        BY <1>4, <4>1, <4>2
    <3>2. parts[d] # 0 => parts'[d] # 0
      BY <2>1, <2>2
    <3>. QED
      BY <1>1, <1>5, <3>1, <3>2 DEF PInv, NothingLost
  <2>. QED
    BY <1>9, <1>10, <1>11, <2>3, <2>4, <2>7, <2>8 DEF PInv
<1>. QED
  BY <1>13, <1>14

(* The call returns: without an error, every transcript is there.          *)
LEMMA ReturnInv ==
  ASSUME PInv, Return
  PROVE  PInv' /\ outcome = "none" /\ (outcome' = "ok" => \A c \in Chunks : parts[c] # 0)
<1>1. /\ main = "join" /\ main' = "returned" /\ outcome' = Outcome /\ \A t \in Threads : IsGone(t)
      /\ UNCHANGED <<pending, step, held, problem, channel, stop, cancelled, parts, completed, error>>
  BY DEF Return, pool
<1>2. /\ outcome = "none" /\ parts \in [Chunks -> 0..NChunks] /\ \A c \in Chunks : parts[c] \in {0, c}
      /\ error # "none" \/ completed >= NChunks
      /\ completed = Cardinality({c \in Chunks : parts[c] # 0})
      /\ NChunks \in Nat /\ Chunks = 1..NChunks
  BY <1>1, ChunkPoolAssumption DEF PInv, CollectorTypes, Collected, Counted, Chunks
<1>3. error = "none" => \A c \in Chunks : parts[c] # 0
  <2> SUFFICES ASSUME error = "none" PROVE {c \in Chunks : parts[c] # 0} = Chunks
    OBVIOUS
  <2> DEFINE S == {c \in Chunks : parts[c] # 0}
  <2>1. IsFiniteSet(Chunks) /\ Cardinality(Chunks) = NChunks /\ S \subseteq Chunks
    BY <1>2, FS_Interval
  <2>2. Cardinality(S) >= Cardinality(Chunks)
    BY <1>2, <2>1
  <2>3. IsFiniteSet(S) /\ Cardinality(S) <= Cardinality(Chunks)
        /\ (Cardinality(S) = Cardinality(Chunks) => S = Chunks)
    BY <2>1, FS_Subset
  <2>4. Cardinality(S) \in Nat /\ Cardinality(Chunks) \in Nat
    BY <2>1, <2>3, FS_CardinalityType
  <2>5. S = Chunks
    BY <2>2, <2>3, <2>4
  <2>. QED
    BY <2>5
<1>4. outcome' \in {"ok", "cancelled", "failed"} /\ (outcome' = "ok" => error = "none")
  BY <1>1, <1>3 DEF Outcome
<1>5. outcome' = "ok" => parts = [c \in Chunks |-> c]
  BY <1>2, <1>3, <1>4
<1>6. \A u \in Threads : Holds(u)' <=> Holds(u)
  BY <1>1 DEF Holds
<1>7. PoolTypes' /\ CollectorTypes'
  BY <1>1, <1>4, <1>6 DEF PInv, PoolTypes, CollectorTypes
<1>8. Placed' /\ Counted' /\ NothingLost'
  BY <1>1, <1>6 DEF PInv, Placed, Counted, NothingLost
<1>9. Reasons'
  <2>1. Broken' <=> Broken
    BY <1>1 DEF Broken
  <2>. QED
    BY <1>1, <2>1 DEF PInv, Reasons
<1>10. Collected'
  BY <1>1, <1>2, <1>4, <1>5 DEF Collected, IsGone
<1>. QED
  BY <1>2, <1>3, <1>4, <1>7, <1>8, <1>9, <1>10 DEF PInv

LEMMA StepInv == PInv /\ [Next]_vars => PInv'
<1> SUFFICES ASSUME PInv, [Next]_vars PROVE PInv'
  OBVIOUS
<1>1. CASE UNCHANGED vars
  <2>1. UNCHANGED <<pending, step, held, problem, channel, stop, cancelled,
                    main, parts, completed, error, outcome>>
    BY <1>1 DEF vars
  <2>2. \A u \in Threads : Holds(u)' <=> Holds(u)
    BY <2>1 DEF Holds
  <2>3. PoolTypes' /\ CollectorTypes' /\ Placed' /\ Counted' /\ NothingLost'
    BY <2>1, <2>2 DEF PInv, PoolTypes, CollectorTypes, Placed, Counted, NothingLost
  <2>4. Broken' <=> Broken
    BY <2>1 DEF Broken
  <2>5. Reasons' /\ Collected'
    BY <2>1, <2>4 DEF PInv, Reasons, Collected, IsGone
  <2>. QED
    BY <2>3, <2>5 DEF PInv
<1>2. CASE LoopHead \/ ReceiveNothing \/ Cancel
  BY <1>2, LoopInv
<1>3. CASE ReceiveEvent
  BY <1>3, ReceiveEventInv
<1>4. CASE Return
  BY <1>4, ReturnInv
<1>5. CASE \E t \in Threads : ThreadStep(t) \/ Work(t) \/ Panic(t)
  <2>1. PICK t \in Threads : ThreadStep(t) \/ Work(t) \/ Panic(t)
    BY <1>5
  <2>. QED
    BY <2>1, CheckInv, PopInv, WorkInv, SendCompletedInv, StopOthersInv, SendFailedInv DEF ThreadStep
<1>. QED
  BY <1>1, <1>2, <1>3, <1>4, <1>5 DEF Next, Collector

LEMMA PoolInvariant == Spec => []PInv
  BY InitInv, StepInv, PTL DEF Spec

-----------------------------------------------------------------------------
(* Values keep their types: no more transcripts are counted than there are *)
(* chunks.                                                                 *)
THEOREM PoolTypeCorrect == Spec => []TypeOK
<1>1. PInv => TypeOK
  <2> SUFFICES ASSUME PInv PROVE TypeOK
    OBVIOUS
  <2>1. completed \in 0..NChunks
    <3> DEFINE S == {c \in Chunks : parts[c] # 0}
    <3>1. NChunks \in Nat /\ IsFiniteSet(Chunks) /\ Cardinality(Chunks) = NChunks /\ S \subseteq Chunks
      BY ChunkPoolAssumption, FS_Interval DEF Chunks
    <3>2. Cardinality(S) <= NChunks
      BY <3>1, FS_Subset
    <3>3. completed \in Nat /\ completed = Cardinality(S)
      BY DEF PInv, CollectorTypes, Counted
    <3>. QED
      BY <3>1, <3>2, <3>3
  <2>2. {stop, cancelled} \subseteq BOOLEAN
    BY DEF PInv, PoolTypes
  <2>. QED
    BY <2>1, <2>2 DEF PInv, PoolTypes, CollectorTypes, TypeOK
<1>. QED
  BY <1>1, PoolInvariant, PTL

(* Every chunk is transcribed once, and in one place at a time; without an *)
(* error no transcript is missing.                                         *)
THEOREM ChunksTranscribedOnce == Spec => []EachChunkOnce
<1>1. PInv => EachChunkOnce
  <2> SUFFICES ASSUME PInv PROVE EachChunkOnce
    OBVIOUS
  <2>1. Placed /\ Counted /\ outcome # "missing"
    BY DEF PInv, Collected
  <2>2. ASSUME NEW c \in Chunks
        PROVE  /\ Cardinality(Holders(c)) + Cardinality(Sent(c)) <= 1
               /\ Queued(c) => Holders(c) = {} /\ Sent(c) = {} /\ ~Stored(c)
               /\ Stored(c) => Holders(c) = {} /\ Sent(c) = {}
    <3>1. c # 0 /\ \A t \in Holders(c) : t \in Threads /\ Holds(t) /\ held[t] = c
      BY DEF Chunks, Holders, Holds
    <3>2. \A i \in Sent(c) : i \in DOMAIN channel /\ channel[i].chunk = c
      BY DEF Sent
    <3>3. Queued(c) => Holders(c) = {} /\ Sent(c) = {} /\ ~Stored(c)
      BY <2>1, <3>1, <3>2 DEF Placed, Queued, Stored
    <3>4. Stored(c) => Holders(c) = {} /\ Sent(c) = {}
      BY <2>1, <3>1, <3>2 DEF Placed, Stored
    <3>5. Holders(c) = {} \/ Sent(c) = {}
      BY <2>1, <3>1, <3>2 DEF Placed
    <3>6. Holders(c) = {} \/ \E t : Holders(c) = {t}
      <4>1. \A t, u \in Holders(c) : t = u
        BY <2>1, <3>1 DEF Placed
      <4>. QED
        BY <4>1
    <3>7. Sent(c) = {} \/ \E i : Sent(c) = {i}
      BY <2>1, <3>1, <3>2 DEF Placed
    <3>8. Cardinality({}) = 0 /\ \A x : Cardinality({x}) = 1
      BY FS_EmptySet, FS_Singleton
    <3>9. Cardinality(Holders(c)) \in {0, 1} /\ (Holders(c) = {} => Cardinality(Holders(c)) = 0)
      BY <3>6, <3>8
    <3>10. Cardinality(Sent(c)) \in {0, 1} /\ (Sent(c) = {} => Cardinality(Sent(c)) = 0)
      BY <3>7, <3>8
    <3>. QED
      BY <3>3, <3>4, <3>5, <3>9, <3>10
  <2>. QED
    BY <2>1, <2>2 DEF EachChunkOnce, Counted, Stored
<1>. QED
  BY <1>1, PoolInvariant, PTL

-----------------------------------------------------------------------------
(* The abstract specification: which transcripts are known, and whether    *)
(* something has failed.                                                   *)

LEMMA AbstractInit == Init => Abstract!Init
<1> SUFFICES ASSUME Init PROVE Abstract!Init
  OBVIOUS
<1>1. {c \in Chunks : parts[c] # 0} = {}
  BY DEF Init
<1>2. ~Broken
  BY DEF Init, Broken
<1>3. cancelled = FALSE /\ outcome = "none"
  BY DEF Init
<1>. QED
  BY <1>1, <1>2, <1>3, Zenon DEF Abstract!Init, Abstract!NoBook, NoBook, Broken

(* The steps that settle nothing leave the abstract state alone.           *)
LEMMA AbstractStutter ==
  ASSUME UNCHANGED <<parts, cancelled, outcome>>, Broken' <=> Broken
  PROVE  UNCHANGED Abstract!vars
<1>1. (IF outcome' = "ok" THEN parts' ELSE NoBook) = (IF outcome = "ok" THEN parts ELSE NoBook)
  OBVIOUS
<1>2. {c \in Chunks : parts'[c] # 0} = {c \in Chunks : parts[c] # 0}
  OBVIOUS
<1>. QED
  BY <1>1, <1>2, Zenon DEF Abstract!vars, Broken, NoBook

LEMMA AbstractStep ==
  ASSUME PInv, PInv', [Next]_vars
  PROVE  [Abstract!Next]_(Abstract!vars)
<1>1. CASE UNCHANGED vars
  <2>1. UNCHANGED <<parts, cancelled, outcome>> /\ (Broken' <=> Broken)
    BY <1>1 DEF vars, Broken
  <2>. QED
    BY <2>1, AbstractStutter
<1>2. CASE \E t \in Threads : ThreadStep(t)
  <2>1. PICK t \in Threads : ThreadStep(t)
    BY <1>2
  <2>2. UNCHANGED <<parts, cancelled, outcome, error, problem>>
    BY <2>1 DEF ThreadStep, Check, Pop, SendCompleted, StopOthers, SendFailed, collector
  <2>3. step[t] # "panicked" /\ \E s : s # "panicked" /\ step' = [step EXCEPT ![t] = s]
    BY <2>1 DEF ThreadStep, Check, Pop, SendCompleted, StopOthers, SendFailed, To
  <2>4. step \in [Threads -> {"check", "pop", "work", "send", "fail", "report", "gone", "panicked"}]
    BY DEF PInv, PoolTypes
  <2>5. \A u \in Threads : step'[u] = "panicked" <=> step[u] = "panicked"
    BY <2>3, <2>4
  <2>6. Broken' <=> Broken
    BY <2>2, <2>5 DEF Broken
  <2>. QED
    BY <2>2, <2>6, AbstractStutter
<1>3. CASE \E t \in Threads : Work(t) \/ Panic(t)
  <2>1. PICK t \in Threads : Work(t) \/ Panic(t)
    BY <1>3
  <2>2. UNCHANGED <<parts, cancelled, outcome, error>>
    BY <2>1 DEF Work, Panic, collector
  <2>3. CASE Broken' <=> Broken
    BY <2>2, <2>3, AbstractStutter
  <2>4. CASE ~(Broken' <=> Broken)
    <3>1. /\ step[t] = "work"
          /\ \A u \in Threads \ {t} : step'[u] = step[u] /\ problem'[u] = problem[u]
      BY <2>1 DEF PInv, PoolTypes, Work, Panic, To
    <3>2. problem[t] = "none"
      BY <3>1 DEF PInv, PoolTypes, Reasons
    <3>3. Broken => Broken'
      BY <2>2, <3>1, <3>2 DEF Broken
    <3>4. Broken'
      BY <2>4, <3>3
    <3>5. Abstract!Break
      BY <2>2, <3>4, Zenon DEF Abstract!Break, Broken, NoBook
    <3>. QED
      BY <3>5 DEF Abstract!Next
  <2>. QED
    BY <2>3, <2>4
<1>4. CASE LoopHead \/ ReceiveNothing
  <2>1. UNCHANGED <<parts, cancelled, outcome, step, problem>>
    BY <1>4 DEF LoopHead, ReceiveNothing, pool
  <2>2. error' = error \/ (error = "none" /\ error' \in {"cancelled", "disconnected"})
    BY <1>4 DEF PInv, Collected, LoopHead, ReceiveNothing, Collecting
  <2>3. Broken' <=> Broken
    BY <2>1, <2>2 DEF Broken
  <2>. QED
    BY <2>1, <2>3, AbstractStutter
<1>5. CASE Cancel
  <2>1. cancelled' = TRUE /\ ~cancelled
        /\ UNCHANGED <<parts, outcome, error, step, problem>>
    BY <1>5 DEF Cancel, pool, collector
  <2>2. Broken' <=> Broken
    BY <2>1 DEF Broken
  <2>3. {c \in Chunks : parts'[c] # 0} = {c \in Chunks : parts[c] # 0}
    BY <2>1
  <2>4. Abstract!Cancel
    BY <2>1, <2>2, <2>3, Zenon DEF Abstract!Cancel, Broken, NoBook
  <2>. QED
    BY <2>4 DEF Abstract!Next
<1>6. CASE ReceiveEvent
  <2> DEFINE e == Head(channel)
  <2>1. /\ error = "none" /\ outcome = "none" /\ UNCHANGED <<cancelled, outcome, step, problem>>
        /\ channel # << >>
        /\ \/ e.problem = "none" /\ Store(e.chunk)
           \/ e.problem # "none" /\ error' = e.problem /\ UNCHANGED parts
    BY <1>6 DEF ReceiveEvent, PInv, Collected, pool
  <2>2. /\ 1 \in DOMAIN channel /\ channel[1] = e
        /\ e.problem \in {"none"} \cup Problems /\ e.chunk \in 0..NChunks
        /\ e.chunk = 0 <=> e.problem # "none"
    <3> DEFINE E == [chunk : 0..NChunks, problem : {"none"} \cup Problems]
    <3>1. channel \in Seq(E) /\ channel # << >>
      BY <2>1 DEF PInv, PoolTypes
    <3>. HIDE DEF E
    <3>2. 1 \in DOMAIN channel /\ channel[1] = e /\ e \in E
      BY <3>1, HeadTailProperties
    <3>3. e.problem \in {"none"} \cup Problems /\ e.chunk \in 0..NChunks
      BY <3>2 DEF E
    <3>4. channel[1].chunk = 0 <=> channel[1].problem # "none"
      BY <3>2 DEF PInv, Reasons
    <3>. QED
      BY <3>2, <3>3, <3>4
  <2> HIDE DEF e
  <2>3. CASE e.problem # "none"
    <3>1. Broken' <=> Broken
      BY <2>1, <2>2, <2>3 DEF Broken, Problems
    <3>. QED
      BY <2>1, <2>3, <3>1, AbstractStutter
  <2>4. CASE e.problem = "none"
    <3>1. PICK c \in Chunks :
             /\ c = e.chunk /\ c # 0 /\ parts' = [parts EXCEPT ![c] = c]
             /\ error' = error \/ error' = "observer"
      BY <2>1, <2>2, <2>4, ChunkPoolAssumption DEF Store, Chunks
    <3>2. parts \in [Chunks -> 0..NChunks] /\ parts[c] = 0
      BY <2>2, <3>1 DEF PInv, CollectorTypes, Placed
    <3>3. {d \in Chunks : parts'[d] # 0} = {d \in Chunks : parts[d] # 0} \cup {c}
          /\ c \notin {d \in Chunks : parts[d] # 0}
      BY <3>1, <3>2
    <3>4. (Broken' <=> Broken) \/ Broken'
      BY <2>1, <3>1 DEF Broken
    <3>5. Abstract!Transcribe(c)
      BY <2>1, <3>3, <3>4, Zenon DEF Abstract!Transcribe, Broken, NoBook
    <3>6. c \in Abstract!Chunks
      BY <3>1 DEF Abstract!Chunks, Chunks
    <3>. QED
      BY <3>5, <3>6 DEF Abstract!Next
  <2>. QED
    BY <2>3, <2>4
<1>7. CASE Return
  <2>1. /\ outcome = "none" /\ outcome' = Outcome
        /\ UNCHANGED <<parts, cancelled, error, step, problem>>
    BY <1>7, ReturnInv DEF Return, pool
  <2>2. Broken' <=> Broken
    BY <2>1 DEF Broken
  <2>3. {c \in Chunks : parts'[c] # 0} = {c \in Chunks : parts[c] # 0}
    BY <2>1
  <2>4. CASE cancelled
    <3>1. outcome' = "cancelled"
      BY <2>1, <2>4 DEF Outcome
    <3>2. Abstract!EndCancelled
      BY <2>1, <2>2, <2>3, <2>4, <3>1, Zenon DEF Abstract!EndCancelled, Broken, NoBook
    <3>. QED
      BY <3>2 DEF Abstract!Next
  <2>5. CASE ~cancelled /\ outcome' = "failed"
    <3>1. error # "none" \/ \E t \in Threads : step[t] = "panicked"
      BY <2>1, <2>5 DEF Outcome
    <3>2. Broken
      BY <2>5, <3>1 DEF PInv, Reasons, Broken
    <3>3. Abstract!Fail
      BY <2>1, <2>2, <2>3, <2>5, <3>2, Zenon DEF Abstract!Fail, Broken, NoBook
    <3>. QED
      BY <3>3 DEF Abstract!Next
  <2>6. CASE ~cancelled /\ outcome' = "ok"
    <3>1. {c \in Chunks : parts[c] # 0} = Abstract!Chunks
      BY <1>7, <2>6, ReturnInv DEF Abstract!Chunks, Chunks
    <3>2. parts' = [c \in Abstract!Chunks |-> c]
      BY <2>6 DEF PInv, Collected, Abstract!Chunks, Chunks
    <3>3. Abstract!Succeed
      BY <2>1, <2>2, <2>3, <2>6, <3>1, <3>2, Zenon DEF Abstract!Succeed, Broken, NoBook
    <3>. QED
      BY <3>3 DEF Abstract!Next
  <2>7. ~cancelled => outcome' \in {"ok", "failed"}
    <3>1. outcome' # "missing"
      BY DEF PInv, Collected
    <3>. QED
      BY <2>1, <3>1 DEF Outcome
  <2>. QED
    BY <2>4, <2>5, <2>6, <2>7
<1>. QED
  BY <1>1, <1>2, <1>3, <1>4, <1>5, <1>6, <1>7 DEF Next, Collector

(* The pool implements the promise of transcribe_audiobook_in_chunks: the  *)
(* transcript of the whole book or an error, and no error without a cause. *)
THEOREM PoolTranscribes == Spec => ImplementsTranscription
<1>. QED
  BY AbstractInit, AbstractStep, PoolInvariant, PTL DEF Spec, ImplementsTranscription, Abstract!Spec

-----------------------------------------------------------------------------
(* Transcription: the stretches without a pause of a chunk, and what an    *)
(* engine reports of each, with the times of the audiobook.                *)
Spoken(start, end, t) == start < t /\ t <= end /\ narration[t] # Quiet

Runs(start, end) ==
  {run \in (start..end) \X (start..end) :
     /\ run[1] < run[2] /\ ~Spoken(start, end, run[1]) /\ ~Spoken(start, end, run[2] + 1)
     /\ \A t \in (run[1] + 1)..run[2] : Spoken(start, end, t)}

Played(run) ==
  [start |-> run[1], end |-> run[2],
   text |-> [i \in 1..(run[2] - run[1]) |-> narration[run[1] + i]]]

(* Two stretches without a pause do not overlap.                           *)
LEMMA RunsApart ==
  ASSUME NEW start \in Int, NEW end \in Int, NEW r \in Runs(start, end), NEW q \in Runs(start, end)
  PROVE  /\ r[1] < q[1] => r[2] <= q[1]
         /\ r[1] = q[1] => r = q
<1>1. /\ r = <<r[1], r[2]>> /\ q = <<q[1], q[2]>>
      /\ r[1] \in Int /\ r[2] \in Int /\ q[1] \in Int /\ q[2] \in Int /\ r[1] < r[2] /\ q[1] < q[2]
  BY DEF Runs
<1>2. /\ ~Spoken(start, end, q[1]) /\ ~Spoken(start, end, r[2] + 1) /\ ~Spoken(start, end, q[2] + 1)
      /\ \A t \in (r[1] + 1)..r[2] : Spoken(start, end, t)
      /\ \A t \in (q[1] + 1)..q[2] : Spoken(start, end, t)
  BY DEF Runs
<1>3. r[1] < q[1] => r[2] <= q[1]
  BY <1>1, <1>2
<1>4. ASSUME r[1] = q[1] PROVE r[2] = q[2]
  <2>1. ~(r[2] < q[2])
    BY <1>1, <1>2, <1>4
  <2>2. ~(q[2] < r[2])
    BY <1>1, <1>2, <1>4
  <2>. QED
    BY <1>1, <2>1, <2>2
<1>. QED
  BY <1>1, <1>3, <1>4

(* What is said at a time belongs to a stretch of it.                      *)
LEMMA RunAround ==
  ASSUME NEW start \in Nat, NEW end \in Nat, NEW t \in (start + 1)..end, narration[t] # Quiet
  PROVE  Runs(start, end) # {}
<1> DEFINE L == {x \in start..(t - 1) : ~Spoken(start, end, x)}
           H == {x \in t..end : ~Spoken(start, end, x + 1)}
           S(x) == Spoken(start, end, x)
<1>1. start \in L /\ end \in H
  BY DEF Spoken
<1>2. PICK lo \in L : \A x \in L : x <= lo
  <2>1. L \in SUBSET (0..t) /\ t \in Nat
    OBVIOUS
  <2> HIDE DEF L
  <2>. QED
    BY <1>1, <2>1, MaxFacts
<1>3. PICK hi \in H : \A x \in H : hi <= x
  <2>1. H \in SUBSET Nat
    OBVIOUS
  <2> HIDE DEF H
  <2>. QED
    BY <1>1, <2>1, LeastNumber
<1>4. S(t)
  BY DEF Spoken
<1> HIDE DEF S
<1>5. /\ lo \in start..(t - 1) /\ hi \in t..end /\ ~S(lo) /\ ~S(hi + 1)
      /\ \A x \in start..(t - 1) : ~S(x) => x <= lo
      /\ \A x \in t..end : ~S(x + 1) => hi <= x
  BY <1>2, <1>3 DEF S
<1>6. ASSUME NEW x \in (lo + 1)..hi PROVE S(x)
  <2>1. CASE x < t
    BY <1>5, <2>1
  <2>2. CASE x = t
    BY <1>4, <2>2
  <2>3. CASE x > t
    <3>1. x - 1 \in t..end /\ ~(hi <= x - 1) /\ (x - 1) + 1 = x
      BY <1>5, <2>3
    <3>. QED
      BY <1>5, <3>1
  <2>. QED
    BY <1>5, <2>1, <2>2, <2>3
<1>7. /\ <<lo, hi>> \in (start..end) \X (start..end)
      /\ <<lo, hi>>[1] = lo /\ <<lo, hi>>[2] = hi /\ lo < hi
  BY <1>5
<1>8. <<lo, hi>> \in Runs(start, end)
  BY <1>5, <1>6, <1>7 DEF Runs, S
<1>. QED
  BY <1>8

(* Moving a segment moves its times and keeps its text.                    *)
LEMMA ShiftedFacts ==
  ASSUME NEW from \in Int, NEW to \in Int, NEW text, NEW offset \in Int
  PROVE  Shifted([start |-> from, end |-> to, text |-> text], offset)
           = [start |-> offset + from, end |-> offset + to, text |-> text]
<1> DEFINE x == [start |-> from, end |-> to, text |-> text]
           y == [start |-> offset + from, end |-> offset + to, text |-> text]
           R == [start : Int, end : Int, text : {text}]
<1>1. x \in R /\ x.start = from /\ x.end = to
  OBVIOUS
<1>2. y \in R /\ y.start = offset + from /\ y.end = offset + to
  OBVIOUS
<1>3. Shifted(x, offset) = y
  <2> HIDE DEF x, y
  <2>1. Shifted(x, offset) \in R
    <3>1. offset + x.start \in Int /\ offset + x.end \in Int
      BY <1>1
    <3>. QED
      BY <1>1, <3>1 DEF Shifted
  <2>2. Shifted(x, offset).start = offset + from /\ Shifted(x, offset).end = offset + to
    BY <1>1 DEF Shifted
  <2>. QED
    BY <1>2, <2>1, <2>2
<1>. QED
  BY <1>3

(* A chunk is its stretches in their order, and no stretch is missing.     *)
LEMMA PhraseFacts ==
  ASSUME NEW start \in Nat, NEW end \in Nat, start < end
  PROVE  /\ Len(Phrases(start, end)) \in Nat
         /\ DOMAIN Phrases(start, end) = 1..Len(Phrases(start, end))
         /\ \E order \in [1..Len(Phrases(start, end)) -> Runs(start, end)] :
              /\ \A i \in 1..Len(Phrases(start, end)) :
                    Shifted(Phrases(start, end)[i], start) = Played(order[i])
              /\ \A i, j \in 1..Len(Phrases(start, end)) : i < j => order[i][2] <= order[j][1]
         /\ \A t \in (start + 1)..end : narration[t] # Quiet => Len(Phrases(start, end)) > 0
<1> DEFINE R == Runs(start, end)
           at == [run \in R |-> run[1]]
           n == Cardinality(R)
           order == InOrder(R, at)
           Phrase(run) == [start |-> run[1] - start, end |-> run[2] - start,
                           text |-> [i \in 1..(run[2] - run[1]) |-> narration[run[1] + i]]]
           P == Phrases(start, end)
<1>1. \A r \in R : r[1] \in Int /\ r[2] \in Int /\ at[r] = r[1]
  BY DEF Runs
<1>2. IsFiniteSet(R)
  <2>1. IsFiniteSet(start..end)
    BY FS_Interval
  <2>2. IsFiniteSet((start..end) \X (start..end))
    BY <2>1, FS_Product
  <2>3. R \subseteq (start..end) \X (start..end)
    BY DEF Runs
  <2>. QED
    BY <2>2, <2>3, FS_Subset
<1>3. \A r, q \in R : r[1] = q[1] => r = q
  BY RunsApart
<1> HIDE DEF R
<1>4. /\ n \in Nat /\ order \in [1..n -> R]
      /\ \A i, j \in 1..n : i < j => at[order[i]] < at[order[j]]
      /\ \A r \in R : \E i \in 1..n : order[i] = r
  <2>1. \A r \in R : at[r] \in Int
    BY <1>1
  <2>2. \A r, q \in R : at[r] = at[q] => r = q
    BY <1>1, <1>3
  <2> HIDE DEF at
  <2>3. Sorts(order, R, at)
    BY <1>2, <2>1, <2>2, InOrderSorts
  <2>. QED
    BY <2>3 DEF Sorts
<1>5. P = [i \in DOMAIN order |-> Phrase(order[i])]
  BY DEF Phrases, Runs, Spoken, R
<1> HIDE DEF at, order, P, n
<1>6. DOMAIN order = 1..n
  BY <1>4
<1>7. DOMAIN P = 1..n /\ Len(P) = n /\ \A i \in 1..n : P[i] = Phrase(order[i])
  <2>1. DOMAIN P = 1..n /\ \A i \in 1..n : P[i] = Phrase(order[i])
    BY <1>5, <1>6
  <2>2. P = [i \in 1..n |-> P[i]]
    <3> HIDE DEF Phrase
    <3>. QED
      BY <1>5, <1>6
  <2>. QED
    BY <1>4, <2>1, <2>2
<1>8. ASSUME NEW i \in 1..n PROVE Shifted(P[i], start) = Played(order[i])
  <2>1. order[i] \in R
    BY <1>4
  <2>2. order[i][1] \in Int /\ order[i][2] \in Int
    BY <1>1, <2>1
  <2>3. start + (order[i][1] - start) = order[i][1] /\ start + (order[i][2] - start) = order[i][2]
    BY <2>2
  <2>4. Shifted(Phrase(order[i]), start) = Played(order[i])
    <3> DEFINE text == [k \in 1..(order[i][2] - order[i][1]) |-> narration[order[i][1] + k]]
    <3>1. /\ Phrase(order[i]) = [start |-> order[i][1] - start, end |-> order[i][2] - start, text |-> text]
          /\ Played(order[i]) = [start |-> order[i][1], end |-> order[i][2], text |-> text]
      BY DEF Played
    <3>2. order[i][1] - start \in Int /\ order[i][2] - start \in Int /\ start \in Int
      BY <2>2
    <3> HIDE DEF text, Phrase
    <3>3. Shifted(Phrase(order[i]), start)
            = [start |-> start + (order[i][1] - start), end |-> start + (order[i][2] - start), text |-> text]
      BY <3>1, <3>2, ShiftedFacts
    <3>. QED
      BY <2>3, <3>1, <3>3
  <2>. QED
    BY <1>7, <2>4
<1>9. ASSUME NEW i \in 1..n, NEW j \in 1..n, i < j PROVE order[i][2] <= order[j][1]
  <2>1. order[i] \in R /\ order[j] \in R
    BY <1>4
  <2>2. order[i][1] < order[j][1]
    BY <1>1, <1>4, <1>9, <2>1
  <2>. QED
    BY <2>1, <2>2, RunsApart DEF R
<1>10. ASSUME NEW t \in (start + 1)..end, narration[t] # Quiet PROVE n > 0
  <2>1. R # {}
    BY <1>10, RunAround DEF R
  <2>. QED
    BY <1>4, <2>1
<1>. QED
  BY <1>4, <1>7, <1>8, <1>9, <1>10 DEF P, R

(* What is said in the book from start to end.                             *)
Heard == {Played(run) : run \in {r \in (0..Duration) \X (0..Duration) : r[1] < r[2]}}

(* A segment that is heard lies in the book and says its words.            *)
LEMMA HeardFacts ==
  ASSUME Duration \in Nat, NEW s \in Heard
  PROVE  /\ s.start \in 0..Duration /\ s.end \in 0..Duration /\ s.start < s.end
         /\ s.text = [i \in 1..(s.end - s.start) |-> narration[s.start + i]]
<1>1. PICK run \in {r \in (0..Duration) \X (0..Duration) : r[1] < r[2]} : s = Played(run)
  BY DEF Heard
<1>2. run[1] \in 0..Duration /\ run[2] \in 0..Duration /\ run[1] < run[2]
  OBVIOUS
<1>3. s.start = run[1] /\ s.end = run[2] /\ s.text = [i \in 1..(run[2] - run[1]) |-> narration[run[1] + i]]
  BY <1>1 DEF Played
<1>4. s.text = [i \in 1..(s.end - s.start) |-> narration[s.start + i]]
  BY <1>3
<1>. QED
  BY <1>2, <1>3, <1>4

(* Its times are numbers.                                                  *)
LEMMA HeardTimes ==
  ASSUME Duration \in Nat
  PROVE  \A s \in Heard : s.start \in Int /\ s.end \in Int /\ s.start < s.end
<1> TAKE s \in Heard
<1>1. s.start \in 0..Duration /\ s.end \in 0..Duration /\ s.start < s.end
  BY HeardFacts
<1>. QED
  BY <1>1

(* The phrases of a chunk, with the times of the audiobook.                *)
Said(c) ==
  LET start  == StartOf(cuts, c)
      spoken == Phrases(start, cuts[c])
  IN  [i \in DOMAIN spoken |-> Shifted(spoken[i], start)]

(* The phrases of a chunk are heard within the chunk, one after the other. *)
LEMMA SaidFacts ==
  ASSUME Duration \in Nat, cuts \in Seq(1..Duration), ValidPlan(cuts), NEW c \in 1..Len(cuts)
  PROVE  /\ StartOf(cuts, c) \in 0..Duration /\ cuts[c] \in 1..Duration /\ Said(c) \in Seq(Heard)
         /\ \A i \in 1..Len(Said(c)) : StartOf(cuts, c) <= Said(c)[i].start /\ Said(c)[i].end <= cuts[c]
         /\ \A i, j \in 1..Len(Said(c)) : i < j => Said(c)[i].end <= Said(c)[j].start
         /\ \A t \in (StartOf(cuts, c) + 1)..cuts[c] : narration[t] # Quiet => Len(Said(c)) > 0
<1> DEFINE start == StartOf(cuts, c)
           end == cuts[c]
           P == Phrases(start, end)
           n == Len(P)
<1>1. end \in 1..Duration /\ start \in 0..Duration /\ start < end
  <2>1. c # 1 => c - 1 \in 1..Len(cuts)
    OBVIOUS
  <2>. QED
    BY <2>1 DEF StartOf, ValidPlan
<1> HIDE DEF start, end
<1>2. start \in Nat /\ end \in Nat
  BY <1>1
<1>3. n \in Nat /\ DOMAIN P = 1..n /\ \A t \in (start + 1)..end : narration[t] # Quiet => n > 0
  BY <1>1, <1>2, PhraseFacts
<1>4. PICK order \in [1..n -> Runs(start, end)] :
         /\ \A i \in 1..n : Shifted(P[i], start) = Played(order[i])
         /\ \A i, j \in 1..n : i < j => order[i][2] <= order[j][1]
  BY <1>1, <1>2, PhraseFacts
<1> HIDE DEF P, n
<1>5. Said(c) = [i \in 1..n |-> Shifted(P[i], start)]
  BY <1>3 DEF Said, P, start, end
<1>6. \A i \in 1..n : /\ order[i] \in (start..end) \X (start..end) /\ order[i][1] < order[i][2]
                      /\ Played(order[i]).start = order[i][1] /\ Played(order[i]).end = order[i][2]
  BY <1>4 DEF Runs, Played
<1>7. \A i \in 1..n : Played(order[i]) \in Heard
  <2> TAKE i \in 1..n
  <2>1. order[i] \in {r \in (0..Duration) \X (0..Duration) : r[1] < r[2]}
    BY <1>1, <1>6
  <2>. QED
    BY <2>1 DEF Heard
<1>8. Said(c) \in Seq(Heard) /\ Len(Said(c)) = n /\ \A i \in 1..n : Said(c)[i] = Played(order[i])
  <2>1. Said(c) = [i \in 1..n |-> Played(order[i])]
    BY <1>4, <1>5
  <2>2. [i \in 1..n |-> Played(order[i])] \in [1..n -> Heard]
    BY <1>7
  <2>3. \A i \in 1..n : Said(c)[i] = Played(order[i])
    BY <2>1
  <2>. QED
    BY <1>3, <2>1, <2>2, <2>3
<1>9. \A i \in 1..n : start <= order[i][1] /\ order[i][2] <= end
  BY <1>6
<1>10. \A i \in 1..n : start <= Said(c)[i].start /\ Said(c)[i].end <= end
  <2> TAKE i \in 1..n
  <2>1. Said(c)[i].start = order[i][1] /\ Said(c)[i].end = order[i][2]
    BY <1>6, <1>8
  <2>. QED
    BY <1>9, <2>1
<1>11. \A i, j \in 1..n : i < j => Said(c)[i].end <= Said(c)[j].start
  <2> TAKE i, j \in 1..n
  <2>1. Said(c)[i].end = order[i][2] /\ Said(c)[j].start = order[j][1]
    BY <1>6, <1>8
  <2>. QED
    BY <1>4, <2>1
<1>. QED
  BY <1>1, <1>3, <1>8, <1>10, <1>11 DEF start, end

(* A chunk ends before the later ones start: induction over the plan.      *)
LEMMA CutsGrow ==
  ASSUME Duration \in Nat, cuts \in Seq(1..Duration), ValidPlan(cuts)
  PROVE  \A c, d \in 1..Len(cuts) : c < d => cuts[c] <= StartOf(cuts, d)
<1> DEFINE n == Len(cuts)
           S == {d \in 0..n : \A c \in 1..n : c < d => cuts[c] <= StartOf(cuts, d)}
<1>1. n \in Nat /\ \A c \in 1..n : cuts[c] \in Int
  OBVIOUS
<1>2. 0 \in S
  BY <1>1
<1>3. ASSUME NEW d \in 1..n, d - 1 \in S PROVE d \in S
  <2>1. ASSUME NEW c \in 1..n, c < d PROVE cuts[c] <= StartOf(cuts, d)
    <3>1. StartOf(cuts, d) = cuts[d - 1] /\ d - 1 \in 1..n
      BY <1>1, <2>1 DEF StartOf
    <3>2. CASE c = d - 1
      BY <1>1, <3>1, <3>2
    <3>3. CASE c < d - 1
      <4>1. cuts[c] <= StartOf(cuts, d - 1)
        BY <1>3, <3>3
      <4>2. StartOf(cuts, d - 1) < cuts[d - 1]
        BY <3>1 DEF ValidPlan
      <4>3. StartOf(cuts, d - 1) \in Int
        BY <3>1, SaidFacts
      <4>. QED
        BY <1>1, <3>1, <4>1, <4>2, <4>3
    <3>. QED
      BY <1>1, <2>1, <3>2, <3>3
  <2>. QED
    BY <1>1, <2>1
<1>4. 0..n \subseteq S
  <2> HIDE DEF S, n
  <2>. QED
    BY <1>1, <1>2, <1>3, Induction
<1>. QED
  BY SMTT(30), <1>1, <1>4

(* Every time of the book is in a chunk.                                   *)
LEMMA ChunkAt ==
  ASSUME Duration \in Nat, cuts \in Seq(1..Duration), ValidPlan(cuts), NEW t \in 1..Duration
  PROVE  \E c \in 1..Len(cuts) : t \in (StartOf(cuts, c) + 1)..cuts[c]
<1> DEFINE C == {c \in 1..Len(cuts) : t <= cuts[c]}
<1>1. Len(cuts) \in C
  <2>1. Len(cuts) \in 1..Len(cuts) /\ cuts[Len(cuts)] = Duration
    BY DEF ValidPlan
  <2>. QED
    BY <2>1
<1>2. PICK c \in C : \A d \in C : c <= d
  <2>1. C \in SUBSET Nat
    OBVIOUS
  <2> HIDE DEF C
  <2>. QED
    BY <1>1, <2>1, LeastNumber
<1>3. c \in 1..Len(cuts) /\ t <= cuts[c] /\ cuts[c] \in Int
  OBVIOUS
<1>4. StartOf(cuts, c) < t /\ StartOf(cuts, c) \in Int
  <2>1. CASE c = 1
    BY <2>1 DEF StartOf
  <2>2. CASE c # 1
    <3>1. c - 1 \in 1..Len(cuts) /\ ~(c <= c - 1)
      BY <1>3, <2>2
    <3>2. ~(t <= cuts[c - 1]) /\ cuts[c - 1] \in Int
      BY <1>2, <3>1
    <3>. QED
      BY <2>2, <3>2 DEF StartOf
  <2>. QED
    BY <2>1, <2>2
<1>. QED
  BY <1>3, <1>4

(* The merged transcript is what is heard, in order, and never empty when  *)
(* something is said.                                                      *)
LEMMA MergedFacts ==
  ASSUME Duration \in Nat, cuts \in Seq(1..Duration), ValidPlan(cuts)
  PROVE  /\ Merged \in Seq(Heard)
         /\ \A p, q \in 1..Len(Merged) : p < q => Merged[p].end <= Merged[q].start
         /\ (\E t \in 1..Duration : narration[t] # Quiet) => Merged # << >>
<1> DEFINE n == Len(cuts)
           seqs == [c \in 1..n |-> Said(c)]
<1>1. n \in Nat
  OBVIOUS
<1>2. \A c \in 1..n : /\ StartOf(cuts, c) \in Int /\ cuts[c] \in Int /\ Said(c) \in Seq(Heard)
                      /\ \A i \in 1..Len(Said(c)) : StartOf(cuts, c) <= Said(c)[i].start /\ Said(c)[i].end <= cuts[c]
                      /\ \A i, j \in 1..Len(Said(c)) : i < j => Said(c)[i].end <= Said(c)[j].start
  BY SaidFacts
<1>3. \A c \in 1..n : \A t \in (StartOf(cuts, c) + 1)..cuts[c] : narration[t] # Quiet => Len(Said(c)) > 0
  BY SaidFacts
<1> HIDE DEF n
<1>4. seqs \in Seq(Seq(Heard)) /\ Len(seqs) = n /\ \A c \in 1..n : seqs[c] = Said(c)
  BY <1>1, <1>2
<1>5. Merged = FlattenSeq(seqs)
  BY DEF Merged, Said, n
<1> HIDE DEF seqs
<1>6. Merged \in Seq(Heard) /\ Chains(Merged, seqs, n)
  BY <1>4, <1>5, FlattenFacts
<1>7. PICK row \in [1..Len(Merged) -> Nat], col \in [1..Len(Merged) -> Nat] : Places(row, col, Merged, seqs, n)
  BY <1>6 DEF Chains
<1>8. ASSUME NEW p \in 1..Len(Merged), NEW q \in 1..Len(Merged), p < q
      PROVE  Merged[p].end <= Merged[q].start
  <2>1. /\ row[p] \in 1..n /\ col[p] \in 1..Len(Said(row[p])) /\ Merged[p] = Said(row[p])[col[p]]
        /\ row[q] \in 1..n /\ col[q] \in 1..Len(Said(row[q])) /\ Merged[q] = Said(row[q])[col[q]]
    BY <1>4, <1>7 DEF Places
  <2>2. row[p] < row[q] \/ (row[p] = row[q] /\ col[p] < col[q])
    BY <1>7, <1>8 DEF Places
  <2>3. CASE row[p] = row[q] /\ col[p] < col[q]
    BY <1>2, <2>1, <2>3
  <2>4. CASE row[p] < row[q]
    <3>1. Merged[p].end <= cuts[row[p]] /\ StartOf(cuts, row[q]) <= Merged[q].start
      BY <1>2, <2>1
    <3>2. cuts[row[p]] <= StartOf(cuts, row[q])
      BY <2>1, <2>4, CutsGrow DEF n
    <3>3. Merged[p].end \in Int /\ Merged[q].start \in Int /\ cuts[row[p]] \in Int /\ StartOf(cuts, row[q]) \in Int
      <4>1. Merged[p] \in Heard /\ Merged[q] \in Heard
        BY <1>6, ElementOfSeq
      <4>2. Merged[p].end \in Int /\ Merged[q].start \in Int
        BY <4>1, HeardTimes
      <4>. QED
        BY <1>2, <2>1, <4>2
    <3>. QED
      BY SMTT(30), <3>1, <3>2, <3>3
  <2>. QED
    BY <2>2, <2>3, <2>4
<1>9. ASSUME NEW t \in 1..Duration, narration[t] # Quiet PROVE Merged # << >>
  <2>1. PICK c \in 1..n : t \in (StartOf(cuts, c) + 1)..cuts[c]
    BY ChunkAt DEF n
  <2>2. Len(Said(c)) > 0 /\ Said(c) \in Seq(Heard)
    BY <1>2, <1>3, <1>9, <2>1
  <2>3. 1 \in 1..Len(seqs[c])
    BY <1>4, <2>2
  <2>4. \E p \in 1..Len(Merged) : row[p] = c /\ col[p] = 1
    BY <1>7, <2>3 DEF Places
  <2>. QED
    BY <2>4
<1>. QED
  BY <1>6, <1>8, <1>9

-----------------------------------------------------------------------------
(* The alignment: a match is a window of the book within one block.        *)
Windows ==
  {Unmatched} \cup
  {w \in [start : Nat, end : 1..Len(Book)] :
     w.start < w.end /\ Book[w.start + 1].block = Book[w.end].block}

(* The best window around a place lies in the book and in one block.       *)
LEMMA BestWindowFacts ==
  ASSUME AlignmentAssumption, NEW text, Len(text) \in Nat, NEW start \in Nat,
         NEW w \in BestWindow(start, text)
  PROVE  [start |-> w.start, end |-> w.end] \in Windows /\ w.end \in Nat
<1> DEFINE variation == Max({1, Min({8, Len(text) \div 4})})
<1>1. Len(Book) \in Nat
  BY DEF AlignmentAssumption
<1>2. variation \in Int
  <2>1. Len(text) \div 4 \in Int
    OBVIOUS
  <2>2. Min({8, Len(text) \div 4}) \in Int
    <3>1. 8 \in Int
      OBVIOUS
    <3>. QED
      BY <2>1, <3>1, MinOfTwo, Zenon
  <2>3. 1 \in Int
    OBVIOUS
  <2>. QED
    BY <2>2, <2>3, MaxOfTwo, Zenon
<1>3. PICK n \in {l \in Max({1, Len(text) - variation})..(Len(text) + variation) : SameBlock(start, l)} :
         w = Scored(start, start + n, text)
  BY DEF BestWindow
<1> HIDE DEF variation
<1>4. n \in Int /\ n >= 1 /\ SameBlock(start, n)
  <2>1. Len(text) - variation \in Int
    BY <1>2
  <2>2. Max({1, Len(text) - variation}) \in Int /\ Max({1, Len(text) - variation}) >= 1
    <3>1. 1 \in Int
      OBVIOUS
    <3>. QED
      BY <2>1, <3>1, MaxOfTwo, Zenon
  <2>. QED
    BY <1>3, <2>2
<1>5. w.start = start /\ w.end = start + n
  BY <1>3 DEF Scored
<1>6. start < start + n /\ start + n \in 1..Len(Book) /\ Book[start + 1].block = Book[start + n].block
  BY <1>1, <1>4 DEF SameBlock
<1>7. [start |-> start, end |-> start + n] \in [start : Nat, end : 1..Len(Book)]
  BY <1>6
<1>. QED
  BY <1>1, <1>5, <1>6, <1>7 DEF Windows

(* So does what the search of a segment finds.                             *)
LEMMA MatchesFacts ==
  ASSUME AlignmentAssumption, cursor \in Nat, NEW text, Len(text) \in Nat, NEW w \in Matches(text), w # Unmatched
  PROVE  [start |-> w.start, end |-> w.end] \in Windows /\ w.end \in Nat
<1> DEFINE sizes == {n \in {3, 2} \cup {k \in {1} : Len(text) = 2} : Candidates(n, text) # {}}
           size  == Max(sizes)
           Good(K) == {v \in BestAround(K, size, text) : Accepted(v, text)}
<1>1. PICK K \in Kept(size, text) : w \in BestAround(K, size, text)
  <2>1. PICK K \in Kept(size, text) : w \in IF Good(K) = {} THEN {Unmatched} ELSE Good(K)
    BY DEF Matches
  <2>2. w \in Good(K)
    BY <2>1
  <2>. QED
    BY <2>1, <2>2
<1> HIDE DEF size
<1>2. PICK start \in UNION {Near(c) : c \in K} : w \in BestWindow(start, text)
  BY <1>1 DEF BestAround
<1>3. PICK c \in K : start \in Near(c)
  BY <1>2
<1>4. c \in Lowest..Highest
  BY <1>1 DEF Kept, Candidates
<1>5. Lowest \in Int /\ Lowest >= 0
  <2>1. cursor - Backtrack \in Int
    BY DEF AlignmentAssumption
  <2>2. 0 \in Int
    OBVIOUS
  <2>. QED
    BY <2>1, <2>2, MaxOfTwo, Zenon DEF Lowest
<1>6. Max({Lowest, c - Fuzz}) \in Int /\ Max({Lowest, c - Fuzz}) >= Lowest
  <2>1. c - Fuzz \in Int
    BY <1>4 DEF AlignmentAssumption
  <2>. QED
    BY <1>5, <2>1, MaxOfTwo
<1>7. start \in Nat
  BY <1>3, <1>5, <1>6 DEF Near
<1>. QED
  BY <1>2, <1>7, BestWindowFacts

-----------------------------------------------------------------------------
(* The review: what the places of the neighbours say of a segment.         *)
LEMMA BlockFacts ==
  ASSUME ReviewAssignmentAssumption, AlignmentAssumption
  PROVE  /\ Blocks = 1..Len(DocumentOf) /\ Len(DocumentOf) \in Nat
         /\ \A b \in Blocks : b \in Nat /\ b > 0 /\ DocumentOf[b] \in 1..Documents
         /\ \A p \in 1..Len(Book) : Book[p].block \in Blocks
<1>1. DocumentOf \in Seq(1..Documents)
  BY DEF ReviewAssignmentAssumption
<1>2. DOMAIN DocumentOf = 1..Len(DocumentOf) /\ Len(DocumentOf) \in Nat
      /\ \A b \in 1..Len(DocumentOf) : DocumentOf[b] \in 1..Documents
  BY <1>1
<1>3. DOMAIN Book = 1..Len(Book)
  BY DEF AlignmentAssumption
<1>. QED
  BY <1>2, <1>3 DEF ReviewAssignmentAssumption, Blocks

(* A segment is matched or reviewed, and a match has its blocks.           *)
LEMMA MatchedFacts ==
  ASSUME ReviewAssignmentAssumption, AlignmentAssumption, aligned \in Seq(Windows)
  PROVE  /\ Len(aligned) \in Nat /\ DOMAIN aligned = 1..Len(aligned)
         /\ Matched \subseteq 1..Len(aligned)
         /\ \A k \in Matched : FirstBlock(k) \in Blocks /\ LastBlock(k) = FirstBlock(k)
<1>1. Len(aligned) \in Nat /\ DOMAIN aligned = 1..Len(aligned) /\ \A k \in 1..Len(aligned) : aligned[k] \in Windows
  OBVIOUS
<1>2. Len(Book) \in Nat
  BY DEF AlignmentAssumption
<1>3. ASSUME NEW k \in Matched PROVE FirstBlock(k) \in Blocks /\ LastBlock(k) = FirstBlock(k)
  <2>1. k \in 1..Len(aligned) /\ aligned[k] # Unmatched
    BY <1>1 DEF Matched, IsMatched
  <2>2. /\ aligned[k] \in [start : Nat, end : 1..Len(Book)] /\ aligned[k].start < aligned[k].end
        /\ Book[aligned[k].start + 1].block = Book[aligned[k].end].block
    BY <1>1, <2>1 DEF Windows
  <2>3. aligned[k].end \in 1..Len(Book)
    BY <2>2
  <2>4. Book[aligned[k].end].block \in Blocks
    BY <2>3, BlockFacts
  <2>. QED
    BY <2>2, <2>4 DEF FirstBlock, LastBlock
<1>. QED
  BY <1>1, <1>3 DEF Matched

(* Of the matches before a segment, one is the last.                       *)
LEMMA LastBefore ==
  ASSUME ReviewAssignmentAssumption, AlignmentAssumption, aligned \in Seq(Windows), NEW k, Before(k) # {}
  PROVE  Max(Before(k)) \in Before(k) /\ \A j \in Before(k) : j <= Max(Before(k))
<1>1. Before(k) \in SUBSET (0..Len(aligned)) /\ Len(aligned) \in Nat
  BY MatchedFacts DEF Before
<1>. QED
  BY <1>1, MaxFacts

(* Of the matches after it, one is the first.                              *)
LEMMA FirstAfter ==
  ASSUME ReviewAssignmentAssumption, AlignmentAssumption, aligned \in Seq(Windows), NEW k, After(k) # {}
  PROVE  Min(After(k)) \in After(k) /\ \A j \in After(k) : Min(After(k)) <= j
<1>1. After(k) \in SUBSET Nat
  BY MatchedFacts DEF After
<1>. QED
  BY <1>1, MinFacts

(* Text is offered from the blocks, an image from the book.                *)
LEMMA CandidateFacts ==
  ASSUME ReviewAssignmentAssumption, AlignmentAssumption, aligned \in Seq(Windows), NEW k
  PROVE  /\ LowBlock(k) \in Nat \ {0} /\ HighBlock(k) \in Nat /\ HighBlock(k) <= Len(DocumentOf)
         /\ TextCandidates(k) \subseteq Blocks /\ ImageCandidates(k) \subseteq Images
<1>1. LowBlock(k) \in Nat \ {0}
  <2>1. CASE Before(k) = {}
    BY <2>1 DEF LowBlock
  <2>2. CASE Before(k) # {}
    <3>1. Max(Before(k)) \in Matched
      BY <2>2, LastBefore DEF Before
    <3>. QED
      BY <2>2, <3>1, MatchedFacts, BlockFacts DEF LowBlock
  <2>. QED
    BY <2>1, <2>2
<1>2. HighBlock(k) \in Nat /\ HighBlock(k) <= Len(DocumentOf)
  <2>1. CASE After(k) = {}
    BY <2>1, BlockFacts DEF HighBlock
  <2>2. CASE After(k) # {}
    <3>1. Min(After(k)) \in Matched
      BY <2>2, FirstAfter DEF After
    <3>2. HighBlock(k) \in Blocks
      BY <2>2, <3>1, MatchedFacts DEF HighBlock
    <3>. QED
      BY <3>2, BlockFacts
  <2>. QED
    BY <2>1, <2>2
<1>3. TextCandidates(k) \subseteq Blocks
  BY <1>1, <1>2, BlockFacts DEF TextCandidates
<1>. QED
  BY <1>1, <1>2, <1>3 DEF ImageCandidates

(* What may be decided about a segment.                                    *)
Allowed(k) ==
  {Pending, Excluded} \cup {p \in {Page} : IsEdge(k)} \cup TextCandidates(k) \cup ImageCandidates(k)

Sound == DOMAIN decisions = Reviewed /\ \A k \in Reviewed : decisions[k] \in Allowed(k)

(* The place of a segment: that of its match, or the text it is assigned   *)
(* to.                                                                     *)
LEMMA EffectiveFacts ==
  ASSUME ReviewAssignmentAssumption, AlignmentAssumption, aligned \in Seq(Windows), Sound
  PROVE  /\ DOMAIN Effective = 1..Len(aligned)
         /\ \A k \in 1..Len(aligned) : Effective[k] \in Nat /\ (Effective[k] > 0 => Effective[k] \in Blocks)
         /\ \A k \in Matched : Effective[k] = FirstBlock(k) /\ Effective[k] > 0
         /\ \A k \in Reviewed : /\ decisions[k] \in Blocks => Effective[k] = decisions[k] /\ Effective[k] > 0
                                /\ decisions[k] \notin Blocks => Effective[k] = 0
<1>1. DOMAIN Effective = 1..Len(aligned)
  BY MatchedFacts DEF Effective
<1>2. ASSUME NEW k \in Matched
      PROVE  Effective[k] = FirstBlock(k) /\ Effective[k] \in Blocks /\ Effective[k] > 0
  <2>1. k \in DOMAIN aligned /\ IsMatched(k)
    BY DEF Matched
  <2>2. Effective[k] = FirstBlock(k)
    BY <2>1 DEF Effective
  <2>. QED
    BY <2>2, MatchedFacts, BlockFacts
<1>3. ASSUME NEW k \in Reviewed
      PROVE  Effective[k] = IF decisions[k] \in Blocks THEN decisions[k] ELSE 0
  <2>1. k \in DOMAIN aligned /\ ~IsMatched(k)
    BY DEF Reviewed, Matched
  <2>. QED
    BY <2>1 DEF Effective
<1>4. 1..Len(aligned) = Matched \cup Reviewed
  BY MatchedFacts DEF Reviewed
<1>5. \A b \in Blocks : b \in Nat /\ b > 0
  BY BlockFacts
<1>6. \A k \in Reviewed : /\ decisions[k] \in Blocks => Effective[k] = decisions[k] /\ Effective[k] > 0
                          /\ decisions[k] \notin Blocks => Effective[k] = 0
  BY <1>3, <1>5
<1>7. \A k \in Matched \cup Reviewed : Effective[k] \in Blocks \/ Effective[k] = 0
  BY <1>2, <1>3
<1>8. ASSUME NEW k \in 1..Len(aligned)
      PROVE  Effective[k] \in Nat /\ (Effective[k] > 0 => Effective[k] \in Blocks)
  <2>1. Effective[k] \in Blocks \/ Effective[k] = 0
    BY <1>4, <1>7
  <2>2. CASE Effective[k] \in Blocks
    BY <1>5, <2>2
  <2>3. CASE Effective[k] = 0
    BY <2>3
  <2>. QED
    BY <2>1, <2>2, <2>3
<1>9. \A k \in Matched : Effective[k] = FirstBlock(k) /\ Effective[k] > 0
  BY <1>2
<1>. QED
  BY <1>1, <1>6, <1>8, <1>9

-----------------------------------------------------------------------------
(* The overlays.  What s lists: the members of S, each once, those that    *)
(* have a place in the text in their order.                                *)
Lists(s, S) ==
  /\ s \in Seq(Nat)
  /\ \A i \in 1..Len(s) : s[i] \in S
  /\ \A k \in S : \E i \in 1..Len(s) : s[i] = k
  /\ \A i, j \in 1..Len(s) : s[i] = s[j] => i = j
  /\ \A i, j \in 1..Len(s) : i < j /\ Effective[s[i]] > 0 /\ Effective[s[j]] > 0 => s[i] < s[j]

(* Sorting by a place that tells the members apart lists them.             *)
LEMMA InOrderLists ==
  ASSUME NEW n \in Nat, NEW S \in SUBSET (1..n), NEW at, \A x \in S : at[x] \in Int,
         \A x, y \in S : x < y => at[x] < at[y]
  PROVE  /\ Lists(InOrder(S, at), S)
         /\ \A i, j \in 1..Len(InOrder(S, at)) : i < j => InOrder(S, at)[i] < InOrder(S, at)[j]
<1> DEFINE m == Cardinality(S)
           s == InOrder(S, at)
<1>1. IsFiniteSet(S) /\ \A x \in S : x \in Nat
  <2>1. IsFiniteSet(1..n) /\ S \in SUBSET (1..n)
    BY FS_Interval
  <2>2. IsFiniteSet(S)
    BY <2>1, FS_Subset, Zenon
  <2>. QED
    BY <2>2
<1>2. \A x, y \in S : at[x] = at[y] => x = y
  <2> TAKE x, y \in S
  <2>1. x < y \/ x = y \/ y < x
    BY <1>1
  <2>2. at[x] \in Int /\ at[y] \in Int /\ (x < y => at[x] < at[y]) /\ (y < x => at[y] < at[x])
    OBVIOUS
  <2>. QED
    BY <2>1, <2>2
<1>3. /\ m \in Nat /\ s \in [1..m -> S]
      /\ \A i, j \in 1..m : i < j => at[s[i]] < at[s[j]]
      /\ \A x \in S : \E i \in 1..m : s[i] = x
  <2>1. IsFiniteSet(S)
    BY <1>1
  <2>2. \A x \in S : at[x] \in Int
    OBVIOUS
  <2>3. Sorts(s, S, at)
    BY <1>2, <2>1, <2>2, InOrderSorts
  <2>. QED
    BY <2>3 DEF Sorts
<1> HIDE DEF m, s
<1>4. s \in Seq(Nat) /\ Len(s) = m
  <2>1. s \in [1..m -> Nat]
    BY <1>1, <1>3
  <2>. QED
    BY <1>3, <2>1
<1>5. \A i, j \in 1..m : i < j => s[i] < s[j]
  <2> TAKE i, j \in 1..m
  <2>1. s[i] \in S /\ s[j] \in S
    BY <1>3
  <2>2. s[i] < s[j] \/ s[i] = s[j] \/ s[j] < s[i]
    <3>1. s[i] \in Nat /\ s[j] \in Nat
      BY <1>1, <2>1
    <3>. QED
      BY <3>1
  <2>3. i < j => at[s[i]] < at[s[j]]
    BY <1>3
  <2>4. at[s[i]] \in Int /\ at[s[j]] \in Int /\ (s[j] < s[i] => at[s[j]] < at[s[i]])
    BY <2>1
  <2>. QED
    BY <2>2, <2>3, <2>4
<1>6. \A i, j \in 1..m : s[i] = s[j] => i = j
  <2> TAKE i, j \in 1..m
  <2>1. s[i] \in Nat /\ s[j] \in Nat
    BY <1>1, <1>3
  <2>2. i < j \/ i = j \/ j < i
    BY <1>3
  <2>. QED
    BY <1>5, <2>1, <2>2
<1>7. Lists(s, S)
  BY <1>3, <1>4, <1>5, <1>6 DEF Lists
<1>. QED
  BY <1>4, <1>5, <1>7 DEF s

(* Two lists without a common member, of which one has no text, join to    *)
(* one.                                                                    *)
LEMMA ListsJoin ==
  ASSUME NEW S, NEW T, NEW s, NEW t, Lists(s, S), Lists(t, T), \A k \in S : k \notin T,
         (\A k \in S : ~(Effective[k] > 0)) \/ (\A k \in T : ~(Effective[k] > 0))
  PROVE  Lists(s \o t, S \cup T)
<1> DEFINE u == s \o t
<1>1. s \in Seq(Nat) /\ t \in Seq(Nat)
  BY DEF Lists
<1>2. /\ u \in Seq(Nat) /\ Len(u) = Len(s) + Len(t) /\ Len(s) \in Nat /\ Len(t) \in Nat
      /\ \A i \in 1..Len(s) : u[i] = s[i] /\ i \in 1..Len(u)
      /\ \A i \in 1..Len(t) : u[Len(s) + i] = t[i] /\ Len(s) + i \in 1..Len(u)
  BY <1>1
<1>3. \A i \in 1..Len(u) : \/ i \in 1..Len(s) /\ u[i] = s[i] /\ u[i] \in S
                           \/ /\ i - Len(s) \in 1..Len(t) /\ i > Len(s)
                              /\ u[i] = t[i - Len(s)] /\ u[i] \in T
  <2> TAKE i \in 1..Len(u)
  <2>1. CASE i <= Len(s)
    <3>1. i \in 1..Len(s)
      BY <1>2, <2>1
    <3>. QED
      BY <1>2, <3>1 DEF Lists
  <2>2. CASE i > Len(s)
    <3>1. i - Len(s) \in 1..Len(t) /\ Len(s) + (i - Len(s)) = i
      BY <1>2, <2>2
    <3>2. u[i] = t[i - Len(s)]
      BY <1>2, <3>1
    <3>. QED
      BY <2>2, <3>1, <3>2 DEF Lists
  <2>. QED
    BY <1>2, <2>1, <2>2
<1> HIDE DEF u
<1>4. \A i \in 1..Len(u) : u[i] \in S \cup T
  BY <1>3
<1>5. \A k \in S \cup T : \E i \in 1..Len(u) : u[i] = k
  <2> TAKE k \in S \cup T
  <2>1. CASE k \in S
    <3>1. PICK i \in 1..Len(s) : s[i] = k
      BY <2>1 DEF Lists
    <3>. QED
      BY <1>2, <3>1
  <2>2. CASE k \in T
    <3>1. PICK i \in 1..Len(t) : t[i] = k
      BY <2>2 DEF Lists
    <3>. QED
      BY <1>2, <3>1
  <2>. QED
    BY <2>1, <2>2
<1>6. \A i, j \in 1..Len(u) : u[i] = u[j] => i = j
  <2> TAKE i, j \in 1..Len(u)
  <2>1. CASE u[i] \in S
    <3>1. i \in 1..Len(s) /\ u[i] = s[i] /\ (u[j] \in S => j \in 1..Len(s) /\ u[j] = s[j])
      BY <1>3, <2>1
    <3>. QED
      BY <2>1, <3>1 DEF Lists
  <2>2. CASE u[i] \in T
    <3>1. /\ i - Len(s) \in 1..Len(t) /\ u[i] = t[i - Len(s)]
          /\ u[j] \in T => j - Len(s) \in 1..Len(t) /\ u[j] = t[j - Len(s)]
      BY <1>3, <2>2
    <3>2. u[i] = u[j] => i - Len(s) = j - Len(s)
      BY <2>2, <3>1 DEF Lists
    <3>. QED
      BY <1>2, <3>2
  <2>. QED
    BY <1>3, <2>1, <2>2
<1>7. \A i, j \in 1..Len(u) : i < j /\ Effective[u[i]] > 0 /\ Effective[u[j]] > 0 => u[i] < u[j]
  <2> SUFFICES ASSUME NEW i \in 1..Len(u), NEW j \in 1..Len(u),
                      i < j, Effective[u[i]] > 0, Effective[u[j]] > 0
               PROVE  u[i] < u[j]
    OBVIOUS
  <2>1. CASE u[i] \in S
    <3>1. u[j] \notin T
      BY <2>1
    <3>2. i \in 1..Len(s) /\ u[i] = s[i] /\ j \in 1..Len(s) /\ u[j] = s[j]
      BY <1>3, <2>1, <3>1
    <3>. QED
      BY <3>2 DEF Lists
  <2>2. CASE u[i] \in T
    <3>1. u[j] \notin S
      BY <2>2
    <3>2. /\ i - Len(s) \in 1..Len(t) /\ u[i] = t[i - Len(s)]
          /\ j - Len(s) \in 1..Len(t) /\ u[j] = t[j - Len(s)]
      BY <1>3, <2>2, <3>1
    <3>3. i - Len(s) < j - Len(s)
      BY <1>2
    <3>4. Effective[t[i - Len(s)]] > 0 /\ Effective[t[j - Len(s)]] > 0
      BY <3>2
    <3>5. t[i - Len(s)] < t[j - Len(s)]
      BY <3>2, <3>3, <3>4 DEF Lists
    <3>. QED
      BY <3>2, <3>5
  <2>. QED
    BY <1>3, <2>1, <2>2
<1>8. Lists(u, S \cup T)
  BY <1>2, <1>4, <1>5, <1>6, <1>7 DEF Lists
<1>. QED
  BY <1>8 DEF u

(* What holds from the review on: every segment has its window, and every  *)
(* other one a decision that was offered.                                  *)
Timed ==
  segments \in Seq(Heard) /\ \A p, q \in 1..Len(segments) : p < q => segments[p].end <= segments[q].start

Settled == Timed /\ aligned \in Seq(Windows) /\ Len(aligned) = Len(segments) /\ Sound

(* Segments follow each other, and no two start together.                  *)
LEMMA TimedFacts ==
  ASSUME Duration \in Nat, Timed
  PROVE  /\ Len(segments) \in Nat /\ DOMAIN segments = 1..Len(segments)
         /\ \A k \in 1..Len(segments) : segments[k].start \in Int /\ segments[k].end \in Int
         /\ \A p, q \in 1..Len(segments) :
              p < q => segments[p].end <= segments[q].start /\ segments[p].start < segments[q].start
<1>1. Len(segments) \in Nat /\ DOMAIN segments = 1..Len(segments) /\ \A k \in 1..Len(segments) : segments[k] \in Heard
  BY DEF Timed
<1>2. \A k \in 1..Len(segments) :
        segments[k].start \in Int /\ segments[k].end \in Int /\ segments[k].start < segments[k].end
  BY <1>1, HeardTimes
<1>. QED
  BY <1>1, <1>2 DEF Timed

(* The text and the images of a document.                                  *)
Shown(document) ==
  {k \in DOMAIN aligned : Effective[k] > 0 /\ DocumentOf[Effective[k]] = document}
  \cup {k \in Reviewed : decisions[k] \in Images /\ ImageIn[decisions[k]] = document}

(* The cues of a document are its text and images, and do not overlap.     *)
LEMMA CueFacts ==
  ASSUME ReviewAssignmentAssumption, AlignmentAssumption, Duration \in Nat, Settled, NEW document
  PROVE  Lists(Cues(document), Shown(document)) /\ ~Overlaps(Cues(document))
<1> DEFINE at == [k \in DOMAIN segments |-> segments[k].start]
           s == Cues(document)
           S == Shown(document)
           n == Len(segments)
<1>1. n \in Nat /\ DOMAIN segments = 1..n /\ DOMAIN aligned = 1..n
  BY TimedFacts, MatchedFacts DEF Settled
<1>2. S \in SUBSET (1..n)
  BY <1>1 DEF Shown, Reviewed
<1>3. \A k \in 1..n : at[k] = segments[k].start
  BY <1>1
<1>4. s = InOrder(S, at)
  BY DEF Cues, Shown
<1>5. \A x \in S : at[x] \in Int
  BY <1>2, <1>3, TimedFacts DEF Settled
<1>6. \A x, y \in S : x < y => at[x] < at[y]
  BY <1>2, <1>3, TimedFacts DEF Settled
<1> HIDE DEF at, s, S, n
<1>7. Lists(s, S) /\ \A i, j \in 1..Len(s) : i < j => s[i] < s[j]
  BY <1>1, <1>2, <1>4, <1>5, <1>6, InOrderLists
<1>8. ~Overlaps(s)
  <2> SUFFICES ASSUME NEW i \in 2..Len(s), segments[s[i]].start < segments[s[i - 1]].end PROVE FALSE
    BY DEF Overlaps
  <2>1. s \in Seq(Nat)
    BY <1>7 DEF Lists
  <2>2. Len(s) \in Nat
    BY <2>1
  <2>3. i \in 1..Len(s) /\ i - 1 \in 1..Len(s) /\ i - 1 < i
    BY <2>2
  <2>4. s[i] \in 1..n /\ s[i - 1] \in 1..n /\ s[i - 1] < s[i]
    BY <1>2, <1>7, <2>3 DEF Lists
  <2>5. /\ segments[s[i - 1]].end <= segments[s[i]].start
        /\ segments[s[i - 1]].end \in Int /\ segments[s[i]].start \in Int
    BY <2>4, TimedFacts DEF Settled, n
  <2>. QED
    BY SMTT(30), <2>5
<1>. QED
  BY <1>7, <1>8 DEF s, S

(* A decision is one of those that the review offers.                      *)
LEMMA DecisionFacts ==
  ASSUME ReviewAssignmentAssumption, AlignmentAssumption, aligned \in Seq(Windows), Sound,
         NEW k \in Reviewed
  PROVE  /\ decisions[k] \in {Pending, Excluded, Page} \cup Blocks \cup Images
         /\ decisions[k] = Page => IsEdge(k)
         /\ decisions[k] \in Blocks => decisions[k] \in TextCandidates(k)
         /\ decisions[k] \in Images => decisions[k] \in ImageCandidates(k)
<1>1. decisions[k] \in Allowed(k)
  BY DEF Sound
<1>2. TextCandidates(k) \subseteq Blocks /\ ImageCandidates(k) \subseteq Images
  BY CandidateFacts
<1>3. /\ \A image \in Images : image \notin Blocks
      /\ \A place \in Blocks \cup Images : place \notin {Pending, Excluded, Page}
      /\ Pending # Excluded /\ Pending # Page /\ Excluded # Page
  BY DEF ReviewAssignmentAssumption
<1>. QED
  BY <1>1, <1>2, <1>3 DEF Allowed

(* Where each segment is read: its document, or 0.                         *)
FirstDocument == DocumentOf[FirstBlock(Min(Matched))]
LastDocument  == DocumentOf[LastBlock(Max(Matched))]

Home(k) ==
  IF Effective[k] > 0 THEN DocumentOf[Effective[k]]
  ELSE IF decisions[k] \in Images THEN ImageIn[decisions[k]]
  ELSE IF decisions[k] # Page THEN 0
  ELSE IF Before(k) = {} THEN FirstDocument ELSE LastDocument

Leading  == {k \in Reviewed : Before(k) = {}}
Trailing == {k \in Reviewed : After(k) = {}}

Paged(document, edge, anchor) == {k \in Reviewed : decisions[k] = Page /\ k \in edge /\ anchor = document}

(* The pages at one edge list the edges kept there.                        *)
LEMMA PageFacts ==
  ASSUME ReviewAssignmentAssumption, AlignmentAssumption, aligned \in Seq(Windows), Sound,
         NEW document, NEW edge, NEW anchor
  PROVE  Lists(Pages(document, edge, anchor), Paged(document, edge, anchor))
<1> DEFINE S == {k \in Reviewed : decisions[k] = Page /\ k \in edge}
           at == [k \in DOMAIN aligned |-> k]
           n == Len(aligned)
<1>1. n \in Nat /\ DOMAIN aligned = 1..n /\ S \in SUBSET (1..n)
  BY MatchedFacts DEF Reviewed
<1>2. \A k \in 1..n : at[k] = k
  BY <1>1
<1>3. CASE Matched # {} /\ anchor = document
  <2>1. Pages(document, edge, anchor) = InOrder(S, at) /\ Paged(document, edge, anchor) = S
    BY <1>3 DEF Pages, Paged
  <2>2. \A x \in S : at[x] \in Int
    BY <1>1, <1>2
  <2>3. \A x, y \in S : x < y => at[x] < at[y]
    BY <1>1, <1>2
  <2> HIDE DEF S, at, n
  <2>4. Lists(InOrder(S, at), S)
    BY <1>1, <2>2, <2>3, InOrderLists
  <2>. QED
    BY <2>1, <2>4
<1>4. CASE ~(Matched # {} /\ anchor = document)
  <2>1. Pages(document, edge, anchor) = << >>
    BY <1>4 DEF Pages
  <2>2. Paged(document, edge, anchor) = {}
    BY <1>4, DecisionFacts DEF Paged, IsEdge
  <2>3. Lists(<< >>, {})
    BY DEF Lists
  <2>. QED
    BY <2>1, <2>2, <2>3
<1>. QED
  BY <1>3, <1>4

(* An edge of the narration is before the first match or after the last.   *)
LEMMA OneEdge ==
  ASSUME ReviewAssignmentAssumption, AlignmentAssumption, aligned \in Seq(Windows),
         Matched # {}, NEW k \in Reviewed
  PROVE  Before(k) # {} \/ After(k) # {}
<1>1. PICK m \in Matched : TRUE
  OBVIOUS
<1>2. m \in 1..Len(aligned) /\ k \in 1..Len(aligned) /\ k # m
  BY MatchedFacts DEF Reviewed
<1>3. m < k \/ k < m
  BY <1>2, MatchedFacts
<1>. QED
  BY <1>3 DEF Before, After

(* A segment is read nowhere just when it waits or is excluded.            *)
LEMMA HomeFacts ==
  ASSUME ReviewAssignmentAssumption, AlignmentAssumption, aligned \in Seq(Windows), Sound,
         NEW k \in 1..Len(aligned)
  PROVE  /\ Home(k) \in 0..Documents
         /\ Home(k) = 0 <=> k \in Reviewed /\ decisions[k] \in {Pending, Excluded}
<1> DEFINE none == k \in Reviewed /\ decisions[k] \in {Pending, Excluded}
<1>1. Documents \in Nat /\ \A d \in 1..Documents : d \in 0..Documents /\ d # 0
  BY DEF ReviewAssignmentAssumption
<1>2. k \in Matched \/ k \in Reviewed
  BY MatchedFacts DEF Reviewed
<1>3. /\ \A image \in Images : image \notin Blocks /\ ImageIn[image] \in 1..Documents
      /\ \A place \in Blocks \cup Images : place \notin {Pending, Excluded, Page}
      /\ Pending # Page /\ Excluded # Page
  BY DEF ReviewAssignmentAssumption
<1>4. CASE Effective[k] > 0
  <2>1. Effective[k] \in Blocks
    BY <1>4, EffectiveFacts
  <2>2. Home(k) \in 1..Documents
    BY <1>4, <2>1, BlockFacts DEF Home
  <2>3. ~none
    <3> SUFFICES ASSUME k \in Reviewed, decisions[k] \in {Pending, Excluded} PROVE FALSE
      OBVIOUS
    <3>1. decisions[k] \notin Blocks
      BY <1>3
    <3>2. Effective[k] = 0
      BY <3>1, EffectiveFacts
    <3>. QED
      BY <1>4, <3>2
  <2>. QED
    BY <1>1, <2>2, <2>3
<1>5. CASE ~(Effective[k] > 0)
  <2>1. k \in Reviewed /\ decisions[k] \notin Blocks
    BY <1>2, <1>5, EffectiveFacts
  <2>2. decisions[k] \in {Pending, Excluded, Page} \cup Images
    BY <2>1, DecisionFacts
  <2>3. CASE decisions[k] \in Images
    <3>1. Home(k) \in 1..Documents
      BY <1>3, <1>5, <2>3 DEF Home
    <3>. QED
      BY <1>1, <1>3, <2>3, <3>1
  <2>4. CASE decisions[k] = Page
    <3>1. Matched # {}
      BY <2>1, <2>4, DecisionFacts DEF IsEdge
    <3>2. FirstDocument \in 1..Documents
      <4>1. Min(Matched) \in Matched
        <5>1. Matched \in SUBSET Nat
          BY MatchedFacts
        <5>. QED
          BY <3>1, <5>1, MinFacts
      <4>. QED
        BY <4>1, MatchedFacts, BlockFacts DEF FirstDocument
    <3>3. LastDocument \in 1..Documents
      <4>1. Max(Matched) \in Matched
        <5>1. Len(aligned) \in Nat /\ Matched \in SUBSET (0..Len(aligned))
          BY MatchedFacts
        <5>. QED
          BY <3>1, <5>1, MaxFacts
      <4>. QED
        BY <4>1, MatchedFacts, BlockFacts DEF LastDocument
    <3>4. decisions[k] \notin Images
      BY <1>3, <2>4
    <3>5. Home(k) \in 1..Documents
      BY <1>5, <2>4, <3>2, <3>3, <3>4 DEF Home
    <3>. QED
      BY <1>1, <1>3, <2>4, <3>5
  <2>5. CASE decisions[k] \in {Pending, Excluded}
    <3>1. decisions[k] \notin Images /\ decisions[k] # Page
      BY <1>3, <2>5
    <3>2. Home(k) = 0
      BY <1>5, <3>1 DEF Home
    <3>. QED
      BY <1>1, <2>1, <2>5, <3>2
  <2>. QED
    BY <2>2, <2>3, <2>4, <2>5
<1>. QED
  BY <1>4, <1>5

(* A document reads the segments that have their home there.               *)
LEMMA ReadingFacts ==
  ASSUME ReviewAssignmentAssumption, AlignmentAssumption, Duration \in Nat, Settled,
         NEW d \in 1..Documents
  PROVE  Lists(Reading(d), {k \in 1..Len(aligned) : Home(k) = d})
<1> DEFINE A == Paged(d, Leading, FirstDocument)
           B == Shown(d)
           C == Paged(d, Trailing, LastDocument)
           a == Pages(d, Leading, FirstDocument)
           b == Cues(d)
           c == Pages(d, Trailing, LastDocument)
<1> USE DEF Settled
<1>1. Lists(a, A) /\ Lists(c, C)
  BY PageFacts
<1>2. Lists(b, B)
  BY CueFacts
<1>3. Reading(d) = (a \o b) \o c
  <2>1. b = IF d \in Synchronized THEN Cues(d) ELSE << >>
    BY DEF Synchronized
  <2>. QED
    BY <2>1 DEF Reading, Leading, Trailing, FirstDocument, LastDocument
<1>4. /\ \A image \in Images : image \notin Blocks /\ image # Page
      /\ Page \notin Blocks /\ Page \notin Images
  BY DEF ReviewAssignmentAssumption
<1>5. \A k \in A \cup C : k \in Reviewed /\ decisions[k] = Page /\ Effective[k] = 0
  BY <1>4, EffectiveFacts DEF Paged
<1>6. \A k \in B : Effective[k] > 0 \/ (k \in Reviewed /\ decisions[k] \in Images)
  BY DEF Shown
<1>7. \A k \in A \cup C : ~(Effective[k] > 0)
  <2> HIDE DEF A, C
  <2>. QED
    BY <1>5
<1>8. (\A k \in A : k \notin B) /\ (\A k \in B : k \notin C)
  <2> HIDE DEF A, B, C
  <2>. QED
    BY <1>4, <1>5, <1>6, <1>7, Zenon
<1>9. \A k \in A : k \notin C
  <2> SUFFICES ASSUME NEW k \in A, k \in C PROVE FALSE
    OBVIOUS
  <2>1. Before(k) = {} /\ After(k) = {} /\ k \in Reviewed /\ decisions[k] = Page
    BY DEF Paged, Leading, Trailing
  <2>2. Matched # {}
    BY <2>1, DecisionFacts DEF IsEdge
  <2>. QED
    BY <2>1, <2>2, OneEdge
<1>10. {k \in 1..Len(aligned) : Home(k) = d} = (A \cup B) \cup C
  <2>1. ASSUME NEW k \in 1..Len(aligned), Home(k) = d PROVE k \in (A \cup B) \cup C
    <3>1. d # 0 /\ k \in DOMAIN aligned
      BY MatchedFacts
    <3>2. CASE Effective[k] > 0
      BY <2>1, <3>1, <3>2 DEF Home, Shown
    <3>3. CASE ~(Effective[k] > 0)
      <4>1. k \in Reviewed
        BY <3>1, <3>3, EffectiveFacts DEF Reviewed
      <4>2. CASE decisions[k] \in Images
        BY <2>1, <3>3, <4>1, <4>2 DEF Home, Shown
      <4>3. CASE decisions[k] \notin Images
        <5>1. decisions[k] = Page /\ d = IF Before(k) = {} THEN FirstDocument ELSE LastDocument
          BY <2>1, <3>1, <3>3, <4>3 DEF Home
        <5>2. Before(k) # {} => After(k) = {}
          BY <4>1, <5>1, DecisionFacts DEF IsEdge
        <5>. QED
          BY <4>1, <5>1, <5>2 DEF Paged, Leading, Trailing
      <4>. QED
        BY <4>2, <4>3
    <3>. QED
      BY <3>2, <3>3
  <2>2. ASSUME NEW k \in A PROVE k \in 1..Len(aligned) /\ Home(k) = d
    <3>1. k \in Reviewed /\ decisions[k] = Page /\ Before(k) = {} /\ FirstDocument = d
      BY DEF Paged, Leading
    <3>. QED
      BY <1>4, <1>7, <3>1, MatchedFacts DEF Home, Reviewed
  <2>3. ASSUME NEW k \in C PROVE k \in 1..Len(aligned) /\ Home(k) = d
    <3>1. k \in Reviewed /\ decisions[k] = Page /\ After(k) = {} /\ LastDocument = d
      BY DEF Paged, Trailing
    <3>2. Matched # {}
      BY <3>1, DecisionFacts DEF IsEdge
    <3>3. Before(k) # {}
      BY <3>1, <3>2, OneEdge
    <3>. QED
      BY <1>4, <1>7, <3>1, <3>3, MatchedFacts DEF Home, Reviewed
  <2>4. ASSUME NEW k \in B PROVE k \in 1..Len(aligned) /\ Home(k) = d
    <3>1. k \in 1..Len(aligned)
      BY MatchedFacts DEF Shown, Reviewed
    <3>2. CASE Effective[k] > 0 /\ DocumentOf[Effective[k]] = d
      BY <3>1, <3>2 DEF Home
    <3>3. CASE k \in Reviewed /\ decisions[k] \in Images /\ ImageIn[decisions[k]] = d
      <4>1. Effective[k] = 0
        BY <1>4, <3>3, EffectiveFacts
      <4>. QED
        BY <3>1, <3>3, <4>1 DEF Home
    <3>. QED
      BY <3>2, <3>3 DEF Shown
  <2> HIDE DEF A, B, C
  <2>. QED
    BY <2>1, <2>2, <2>3, <2>4
<1> HIDE DEF A, B, C, a, b, c
<1>11. Lists(a \o b, A \cup B)
  BY <1>1, <1>2, <1>8, <1>7, ListsJoin
<1>12. Lists((a \o b) \o c, (A \cup B) \cup C)
  <2>1. \A k \in A \cup B : k \notin C
    BY <1>8, <1>9
  <2>2. \A k \in C : ~(Effective[k] > 0)
    BY <1>7
  <2>. QED
    BY <1>1, <1>11, <2>1, <2>2, ListsJoin
<1>. QED
  BY <1>3, <1>10, <1>12

(* The book r reads every segment that has a document, once, document by   *)
(* document, and the text of each in its order.                            *)
Reads(r) ==
  /\ r \in Seq(Nat)
  /\ \A p \in 1..Len(r) : r[p] \in 1..Len(aligned) /\ Home(r[p]) \in 1..Documents
  /\ \A k \in 1..Len(aligned) : Home(k) # 0 => \E p \in 1..Len(r) : r[p] = k
  /\ \A p, q \in 1..Len(r) : r[p] = r[q] => p = q
  /\ \A p, q \in 1..Len(r) :
       p < q => \/ Home(r[p]) < Home(r[q])
                \/ /\ Home(r[p]) = Home(r[q])
                   /\ Effective[r[p]] > 0 /\ Effective[r[q]] > 0 => r[p] < r[q]

(* The book reads every segment that has a home.                           *)
LEMMA BookFacts ==
  ASSUME ReviewAssignmentAssumption, AlignmentAssumption, Duration \in Nat, Settled
  PROVE  Reads(FlattenSeq([d \in 1..Documents |-> Reading(d)]))
<1> DEFINE seqs == [d \in 1..Documents |-> Reading(d)]
           r == FlattenSeq(seqs)
           In(d) == {k \in 1..Len(aligned) : Home(k) = d}
<1>1. Documents \in Nat
  BY DEF ReviewAssignmentAssumption
<1>2. \A d \in 1..Documents : Lists(Reading(d), In(d))
  BY ReadingFacts
<1>3. \A d \in 1..Documents : Reading(d) \in Seq(Nat)
  BY <1>2 DEF Lists
<1>4. seqs \in Seq(Seq(Nat)) /\ Len(seqs) = Documents /\ \A d \in 1..Documents : seqs[d] = Reading(d)
  <2>1. seqs \in [1..Documents -> Seq(Nat)] /\ \A d \in 1..Documents : seqs[d] = Reading(d)
    BY <1>3
  <2> HIDE DEF seqs
  <2>. QED
    BY SMTT(30), <1>1, <2>1
<1> HIDE DEF seqs
<1>5. r \in Seq(Nat) /\ Chains(r, seqs, Documents)
  BY <1>4, FlattenFacts
<1> HIDE DEF r
<1>6. PICK row \in [1..Len(r) -> Nat], col \in [1..Len(r) -> Nat] : Places(row, col, r, seqs, Documents)
  BY <1>5 DEF Chains
<1>7. \A p \in 1..Len(r) : /\ row[p] \in 1..Documents /\ col[p] \in 1..Len(Reading(row[p]))
                           /\ r[p] = Reading(row[p])[col[p]]
  BY <1>4, <1>6 DEF Places
<1>8. ASSUME NEW p \in 1..Len(r)
      PROVE  r[p] \in 1..Len(aligned) /\ Home(r[p]) = row[p] /\ Home(r[p]) \in 1..Documents
  <2>1. r[p] \in In(row[p])
    <3> HIDE DEF In
    <3>. QED
      BY <1>2, <1>7 DEF Lists
  <2>. QED
    BY <1>7, <2>1
<1>9. ASSUME NEW k \in 1..Len(aligned), Home(k) # 0 PROVE \E p \in 1..Len(r) : r[p] = k
  <2> DEFINE d == Home(k)
  <2>1. d \in 1..Documents
    <3>1. d \in 0..Documents
      BY HomeFacts DEF Settled
    <3>. QED
      BY <1>1, <1>9, <3>1
  <2>2. k \in In(d)
    OBVIOUS
  <2> HIDE DEF In, d
  <2>3. PICK i \in 1..Len(Reading(d)) : Reading(d)[i] = k
    BY <1>2, <2>1, <2>2 DEF Lists
  <2>4. PICK p \in 1..Len(r) : row[p] = d /\ col[p] = i
    BY <1>4, <1>6, <2>1 DEF Places
  <2>. QED
    BY <1>7, <2>3, <2>4
<1> HIDE DEF In
<1>10. ASSUME NEW p \in 1..Len(r), NEW q \in 1..Len(r), r[p] = r[q] PROVE p = q
  <2>1. row[p] = row[q] /\ row[p] \in 1..Documents
    BY <1>7, <1>8, <1>10
  <2>2. col[p] = col[q]
    <3> DEFINE s == Reading(row[p])
    <3>1. Lists(s, In(row[p])) /\ col[p] \in 1..Len(s) /\ col[q] \in 1..Len(s) /\ s[col[p]] = s[col[q]]
      BY <1>2, <1>7, <1>10, <2>1
    <3> HIDE DEF s
    <3>. QED
      BY <3>1 DEF Lists
  <2>3. row[p] \in Nat /\ col[p] \in Nat
    OBVIOUS
  <2>4. ~(p < q)
    <3>1. p < q => row[p] < row[q] \/ (row[p] = row[q] /\ col[p] < col[q])
      BY <1>6 DEF Places
    <3>. QED
      BY <2>1, <2>2, <2>3, <3>1
  <2>5. ~(q < p)
    <3>1. q < p => row[q] < row[p] \/ (row[q] = row[p] /\ col[q] < col[p])
      BY <1>6 DEF Places
    <3>. QED
      BY <2>1, <2>2, <2>3, <3>1
  <2>6. p \in Int /\ q \in Int
    OBVIOUS
  <2>. QED
    BY <2>4, <2>5, <2>6
<1>11. ASSUME NEW p \in 1..Len(r), NEW q \in 1..Len(r), p < q
       PROVE  \/ Home(r[p]) < Home(r[q])
              \/ /\ Home(r[p]) = Home(r[q])
                 /\ Effective[r[p]] > 0 /\ Effective[r[q]] > 0 => r[p] < r[q]
  <2>1. row[p] < row[q] \/ (row[p] = row[q] /\ col[p] < col[q])
    BY <1>6, <1>11 DEF Places
  <2>2. CASE row[p] < row[q]
    BY <1>8, <2>2
  <2>3. CASE row[p] = row[q] /\ col[p] < col[q]
    <3>1. Effective[r[p]] > 0 /\ Effective[r[q]] > 0 => r[p] < r[q]
      <4> DEFINE s == Reading(row[p])
      <4>1. /\ Lists(s, In(row[p])) /\ col[p] \in 1..Len(s) /\ col[q] \in 1..Len(s)
            /\ r[p] = s[col[p]] /\ r[q] = s[col[q]]
        BY <1>2, <1>7, <2>3
      <4> HIDE DEF s
      <4>2. Effective[s[col[p]]] > 0 /\ Effective[s[col[q]]] > 0 => s[col[p]] < s[col[q]]
        BY <2>3, <4>1, Zenon DEF Lists
      <4>. QED
        BY <4>1, <4>2, Zenon
    <3>. QED
      BY <1>8, <2>3, <3>1
  <2>. QED
    BY <2>1, <2>2, <2>3
<1>12. Reads(r)
  BY <1>5, <1>8, <1>9, <1>10, <1>11 DEF Reads
<1>. QED
  BY <1>12 DEF r, seqs

(* What Build has made of the decisions.                                   *)
Whole == FlattenSeq([d \in 1..Documents |-> Reading(d)])

Bound == (\A k \in Reviewed : decisions[k] # Pending) /\ Materializes /\ readaloud = Whole

(* A built book reads each segment once, and an excluded one never.        *)
LEMMA BoundOnce ==
  ASSUME ReviewAssignmentAssumption, AlignmentAssumption, Duration \in Nat, Settled, Bound
  PROVE  \A k \in DOMAIN segments :
           Cardinality({i \in DOMAIN readaloud : readaloud[i] = k})
             = IF k \in Reviewed /\ decisions[k] = Excluded THEN 0 ELSE 1
<1>1. Reads(readaloud)
  BY BookFacts DEF Bound, Whole
<1>2. DOMAIN segments = 1..Len(aligned)
  BY TimedFacts DEF Settled
<1>3. DOMAIN readaloud = 1..Len(readaloud)
  BY <1>1 DEF Reads
<1> TAKE k \in DOMAIN segments
<1> DEFINE S == {i \in DOMAIN readaloud : readaloud[i] = k}
<1>4. CASE k \in Reviewed /\ decisions[k] = Excluded
  <2>1. Home(k) = 0
    BY <1>2, <1>4, HomeFacts DEF Settled
  <2>2. \A i \in 1..Len(readaloud) : readaloud[i] # k
    BY <1>1, <2>1 DEF Reads
  <2>3. S = {}
    BY <1>3, <2>2
  <2>. QED
    BY <1>4, <2>3, FS_EmptySet
<1>5. CASE ~(k \in Reviewed /\ decisions[k] = Excluded)
  <2>1. Home(k) # 0
    BY <1>2, <1>5, HomeFacts DEF Settled, Bound
  <2>2. PICK p \in 1..Len(readaloud) : readaloud[p] = k
    BY <1>1, <1>2, <2>1 DEF Reads
  <2>3. S = {p}
    BY <1>1, <1>3, <2>2 DEF Reads
  <2>. QED
    BY <1>5, <2>3, FS_Singleton
<1>. QED
  BY <1>4, <1>5

(* In a monotonic alignment the matches go through the documents in order. *)
LEMMA MonotonicMatches ==
  ASSUME ReviewAssignmentAssumption, AlignmentAssumption, aligned \in Seq(Windows), Sound, IsMonotonic,
         NEW j \in Matched, NEW k \in Matched, j <= k
  PROVE  DocumentOf[FirstBlock(j)] <= DocumentOf[FirstBlock(k)]
<1>1. /\ Effective[j] = FirstBlock(j) /\ Effective[k] = FirstBlock(k) /\ Effective[k] > 0
      /\ Effective[j] \in Nat /\ Effective[k] \in Nat
  BY EffectiveFacts, MatchedFacts
<1>2. j \in DOMAIN aligned /\ k \in DOMAIN aligned /\ j \in Nat /\ k \in Nat
  BY MatchedFacts
<1>3. FirstBlock(j) <= FirstBlock(k)
  <2>1. CASE j < k
    BY <1>1, <1>2, <2>1 DEF IsMonotonic
  <2>2. CASE j = k
    BY <1>1, <2>2
  <2>. QED
    BY <1>2, <2>1, <2>2
<1>4. FirstBlock(j) \in Blocks /\ FirstBlock(k) \in Blocks
  BY MatchedFacts
<1>. QED
  BY <1>3, <1>4 DEF ReviewAssignmentAssumption

(* A built book reads its text in the order of the narration.              *)
LEMMA BoundTextInOrder ==
  ASSUME ReviewAssignmentAssumption, AlignmentAssumption, Duration \in Nat, Settled, Bound,
         NEW i \in DOMAIN readaloud, NEW j \in DOMAIN readaloud, i < j,
         Effective[readaloud[i]] > 0, Effective[readaloud[j]] > 0
  PROVE  readaloud[i] < readaloud[j] /\ Effective[readaloud[i]] <= Effective[readaloud[j]]
<1> DEFINE x == readaloud[i]
           y == readaloud[j]
<1>1. Reads(readaloud) /\ IsMonotonic
  BY BookFacts DEF Bound, Whole, Materializes
<1>2. i \in 1..Len(readaloud) /\ j \in 1..Len(readaloud)
  BY SMTT(30), <1>1 DEF Reads
<1>3. /\ x \in 1..Len(aligned) /\ y \in 1..Len(aligned)
      /\ Home(x) < Home(y) \/ (Home(x) = Home(y) /\ x < y)
      /\ Home(x) \in 1..Documents /\ Home(y) \in 1..Documents
  BY <1>1, <1>2 DEF Reads
<1> HIDE DEF x, y
<1>4. Effective[x] > 0 /\ Effective[y] > 0
  BY DEF x, y
<1>5. /\ Home(x) = DocumentOf[Effective[x]] /\ Home(y) = DocumentOf[Effective[y]]
      /\ Effective[x] \in Blocks /\ Effective[y] \in Blocks /\ Effective[x] \in Nat /\ Effective[y] \in Nat
  BY <1>3, <1>4, EffectiveFacts DEF Home, Settled
<1>6. x \in Nat /\ y \in Nat /\ x \in DOMAIN aligned /\ y \in DOMAIN aligned
  BY <1>3, MatchedFacts DEF Settled
<1>7. /\ x < y => Effective[x] <= Effective[y]
      /\ y < x => Effective[y] <= Effective[x]
  BY <1>1, <1>4, <1>6 DEF IsMonotonic
<1>8. CASE Home(x) = Home(y) /\ x < y
  BY <1>7, <1>8 DEF x, y
<1>9. CASE Home(x) < Home(y)
  <2>1. Effective[y] <= Effective[x] => Home(y) <= Home(x)
    BY <1>5 DEF ReviewAssignmentAssumption
  <2>2. ~(Home(y) <= Home(x))
    BY <1>3, <1>9
  <2>3. ~(Effective[y] <= Effective[x])
    BY <2>1, <2>2
  <2>4. x < y
    BY <1>5, <1>6, <1>7, <2>3
  <2>. QED
    BY <1>7, <2>4 DEF x, y
<1>. QED
  BY <1>3, <1>8, <1>9

(* It reads an image between the matches around it.                        *)
LEMMA BoundImageInOrder ==
  ASSUME ReviewAssignmentAssumption, AlignmentAssumption, Settled, Bound,
         NEW k \in Reviewed, NEW m \in Matched, decisions[k] \in Images
  PROVE  IF k < m THEN ImageIn[decisions[k]] <= DocumentOf[FirstBlock(m)]
                  ELSE ImageIn[decisions[k]] >= DocumentOf[FirstBlock(m)]
<1> USE DEF Settled
<1>1. IsMonotonic /\ decisions[k] \in ImageCandidates(k)
  BY DecisionFacts DEF Bound, Materializes
<1>2. k \in Nat /\ m \in Nat /\ k # m
  BY MatchedFacts DEF Reviewed
<1>3. \A j \in Matched : DocumentOf[FirstBlock(j)] \in Int /\ LastBlock(j) = FirstBlock(j)
  <2>1. \A b \in Blocks : DocumentOf[b] \in Int
    BY BlockFacts
  <2>. QED
    BY <2>1, MatchedFacts
<1>4. ImageIn[decisions[k]] \in Int
  BY DEF ReviewAssignmentAssumption
<1>5. CASE k < m
  <2>1. m \in After(k)
    BY <1>5 DEF After
  <2> DEFINE j == Min(After(k))
  <2>2. j \in Matched /\ j <= m
    BY <2>1, FirstAfter DEF After
  <2>3. ImageIn[decisions[k]] <= DocumentOf[FirstBlock(j)]
    BY <1>1, <2>1 DEF ImageCandidates
  <2> HIDE DEF j
  <2>4. DocumentOf[FirstBlock(j)] <= DocumentOf[FirstBlock(m)]
    BY <1>1, <2>2, MonotonicMatches
  <2>. QED
    BY SMTT(30), <1>3, <1>4, <1>5, <2>2, <2>3, <2>4
<1>6. CASE ~(k < m)
  <2>1. m \in Before(k)
    BY <1>2, <1>6 DEF Before
  <2> DEFINE j == Max(Before(k))
  <2>2. j \in Matched /\ m <= j
    BY <2>1, LastBefore DEF Before
  <2>3. DocumentOf[LastBlock(j)] <= ImageIn[decisions[k]]
    BY <1>1, <2>1 DEF ImageCandidates
  <2> HIDE DEF j
  <2>4. DocumentOf[FirstBlock(m)] <= DocumentOf[FirstBlock(j)]
    BY <1>1, <2>2, MonotonicMatches
  <2>. QED
    BY SMTT(30), <1>3, <1>4, <1>6, <2>2, <2>3, <2>4
<1>. QED
  BY <1>5, <1>6

-----------------------------------------------------------------------------
(* Failures.  The reports of the engine are the true ones, or one of them  *)
(* is without duration and is refused.                                     *)
LEMMA MergedAccepted ==
  ASSUME Duration \in Nat, cuts \in Seq(1..Duration), ValidPlan(cuts)
  PROVE  Merged # << >> => IsTranscript(Merged)
<1>1. /\ Merged \in Seq(Heard)
      /\ \A p, q \in 1..Len(Merged) : p < q => Merged[p].end <= Merged[q].start
  BY MergedFacts
<1>2. DOMAIN Merged = 1..Len(Merged) /\ Len(Merged) \in Nat /\ \A i \in 1..Len(Merged) : Merged[i] \in Heard
  BY <1>1
<1>3. \A i \in DOMAIN Merged : Merged[i].start < Merged[i].end
  BY <1>2, HeardTimes
<1>4. \A i \in DOMAIN Merged : i > 1 => Merged[i - 1].end <= Merged[i].start
  <2> TAKE i \in DOMAIN Merged
  <2>1. i > 1 => i - 1 \in 1..Len(Merged) /\ i - 1 < i
    BY <1>2
  <2>. QED
    BY <1>1, <1>2, <2>1
<1>. QED
  BY <1>3, <1>4 DEF IsTranscript

(* The transcript reported is the merged one, or one that is refused.      *)
LEMMA ReportedFacts ==
  ASSUME Duration \in Nat, cuts \in Seq(1..Duration), ValidPlan(cuts)
  PROVE  /\ Reported({}) = Merged
         /\ \A i \in DOMAIN Merged : ~IsTranscript(Reported({i}))
<1>1. Merged \in Seq(Heard)
  BY MergedFacts
<1>2. DOMAIN Merged = 1..Len(Merged) /\ \A i \in DOMAIN Merged : Merged[i] \in Heard
  BY <1>1
<1>3. Reported({}) = Merged
  BY <1>1 DEF Reported
<1>4. ASSUME NEW i \in DOMAIN Merged, IsTranscript(Reported({i})) PROVE FALSE
  <2>1. i \in DOMAIN Reported({i}) /\ Reported({i})[i] = [Merged[i] EXCEPT !.end = Merged[i].start]
    BY DEF Reported
  <2>2. Merged[i].start \in Int /\ \E run : Merged[i] = Played(run)
    BY <1>2, HeardTimes DEF Heard
  <2>3. PICK run : Merged[i] = Played(run)
    BY <2>2
  <2>4. Reported({i})[i].start = Merged[i].start /\ Reported({i})[i].end = Merged[i].start
    <3> DEFINE s == Merged[i]
               t == Reported({i})[i]
    <3>1. t = [s EXCEPT !.end = s.start] /\ "start" \in DOMAIN s /\ "end" \in DOMAIN s
      BY <2>1, <2>3 DEF Played
    <3> HIDE DEF s, t
    <3>2. t.start = s.start /\ t.end = s.start
      BY <3>1
    <3>. QED
      BY <3>2 DEF s, t
  <2>5. Reported({i})[i].start < Reported({i})[i].end
    BY <1>4, <2>1 DEF IsTranscript
  <2>. QED
    BY <2>1, <2>2, <2>4, <2>5
<1>. QED
  BY <1>3, <1>4

(* Why a book may fail to be built.                                        *)
Explained ==
  \/ ~AlignedInOrder
  \/ \E j, k \in DOMAIN aligned :
       j < k /\ (j \in Reviewed \/ k \in Reviewed) /\ Effective[k] \in 1..(Effective[j] - 1)
  \/ \A k \in DOMAIN aligned : k \in Reviewed /\ decisions[k] = Excluded

(* An alignment out of order is explained.                                 *)
LEMMA OrderExplained ==
  ASSUME ReviewAssignmentAssumption, AlignmentAssumption, Settled, ~IsMonotonic
  PROVE  Explained
<1> USE DEF Settled
<1>1. PICK j \in DOMAIN aligned, k \in DOMAIN aligned :
         j < k /\ 0 < Effective[k] /\ ~(Effective[j] <= Effective[k])
  BY DEF IsMonotonic
<1>2. Effective[j] \in Nat /\ Effective[k] \in Nat
  BY EffectiveFacts, MatchedFacts
<1>3. Effective[k] \in 1..(Effective[j] - 1)
  BY <1>1, <1>2
<1>4. CASE j \in Reviewed \/ k \in Reviewed
  BY <1>1, <1>3, <1>4 DEF Explained
<1>5. CASE j \in Matched /\ k \in Matched
  <2>1. IsMatched(j) /\ IsMatched(k) /\ ~(FirstBlock(j) <= FirstBlock(k))
    BY <1>1, <1>5, EffectiveFacts DEF Matched
  <2>. QED
    BY <1>1, <2>1 DEF Explained, AlignedInOrder
<1>. QED
  BY <1>4, <1>5 DEF Reviewed

(* So is a book that nothing is read in.                                   *)
LEMMA EmptyExplained ==
  ASSUME ReviewAssignmentAssumption, AlignmentAssumption, Duration \in Nat, Settled,
         \A k \in Reviewed : decisions[k] # Pending, Synchronized = {}
  PROVE  Explained
<1> USE DEF Settled
<1>1. \A d \in 1..Documents : Shown(d) = {}
  <2> TAKE d \in 1..Documents
  <2>1. Cues(d) = << >>
    BY DEF Synchronized
  <2>2. Lists(<< >>, Shown(d))
    BY <2>1, CueFacts
  <2>3. Len(<< >>) = 0
    OBVIOUS
  <2>. QED
    BY <2>2, <2>3 DEF Lists
<1>2. ASSUME NEW k \in DOMAIN aligned PROVE ~(Effective[k] > 0)
  <2> SUFFICES ASSUME Effective[k] > 0 PROVE FALSE
    OBVIOUS
  <2>1. DocumentOf[Effective[k]] \in 1..Documents
    BY EffectiveFacts, MatchedFacts, BlockFacts
  <2>2. k \in Shown(DocumentOf[Effective[k]])
    BY DEF Shown
  <2>. QED
    BY <1>1, <2>1, <2>2
<1>3. Matched = {}
  BY <1>2, EffectiveFacts DEF Matched
<1>4. ASSUME NEW k \in DOMAIN aligned PROVE k \in Reviewed /\ decisions[k] = Excluded
  <2>1. k \in Reviewed
    BY <1>3 DEF Reviewed
  <2>2. decisions[k] \notin Blocks
    BY <1>2, <2>1, EffectiveFacts
  <2>3. decisions[k] \notin Images
    <3> SUFFICES ASSUME decisions[k] \in Images PROVE FALSE
      OBVIOUS
    <3>1. ImageIn[decisions[k]] \in 1..Documents
      BY DEF ReviewAssignmentAssumption
    <3>2. k \in Shown(ImageIn[decisions[k]])
      BY <2>1 DEF Shown
    <3>. QED
      BY <1>1, <3>1, <3>2
  <2>4. decisions[k] # Page
    BY <1>3, <2>1, DecisionFacts DEF IsEdge
  <2>. QED
    BY <2>1, <2>2, <2>3, <2>4, DecisionFacts
<1>. QED
  BY <1>4 DEF Explained

(* Build refuses nothing else.                                             *)
LEMMA BuildExplained ==
  ASSUME ReviewAssignmentAssumption, AlignmentAssumption, Duration \in Nat, Settled,
         \A k \in Reviewed : decisions[k] # Pending,
         ~(Materializes /\ InOneBlock /\ Synchronized # {} /\ \A d \in Synchronized : ~Overlaps(Cues(d)))
  PROVE  Explained
<1>1. \A k \in Reviewed : InWindow(k)
  BY DecisionFacts DEF InWindow, TextCandidates, Settled
<1>2. InOneBlock
  BY MatchedFacts DEF InOneBlock, Settled
<1>3. \A d \in Synchronized : ~Overlaps(Cues(d))
  BY CueFacts
<1>4. CASE ~IsMonotonic
  BY <1>4, OrderExplained
<1>5. CASE IsMonotonic
  <2>1. Synchronized = {}
    BY <1>1, <1>2, <1>3, <1>5 DEF Materializes
  <2>. QED
    BY <2>1, EmptyExplained
<1>. QED
  BY <1>4, <1>5

-----------------------------------------------------------------------------
(* The invariant.                                                          *)
SyncInv ==
  /\ PlanInv /\ stage \in {"Analyze", "Align", "ReviewAudio", "Built", "Failed"}
  /\ Timed /\ aligned \in Seq(Windows) /\ Len(aligned) <= Len(segments) /\ cursor \in Nat
  /\ stage = "Analyze" => aligned = << >>
  /\ stage \in {"Align", "ReviewAudio"} => segments # << >>
  /\ stage \in {"ReviewAudio", "Built"} => Settled
  /\ stage = "Built" => Bound
  /\ FailuresExplained

Assumed == ChunkPlanAssumption /\ AlignmentAssumption /\ ReviewAssignmentAssumption

(* What the alignment says does not change with the rest.                  *)
LEMMA SameMatches ==
  ASSUME aligned' = aligned
  PROVE  /\ Matched' = Matched /\ Reviewed' = Reviewed
         /\ \A k : (IsMatched(k))' <=> IsMatched(k)
         /\ \A k : FirstBlock(k)' = FirstBlock(k) /\ LastBlock(k)' = LastBlock(k)
         /\ \A k : Before(k)' = Before(k) /\ After(k)' = After(k)
         /\ \A k : IsEdge(k)' <=> IsEdge(k)
<1>1. /\ \A k : (IsMatched(k))' <=> IsMatched(k)
      /\ \A k : FirstBlock(k)' = FirstBlock(k) /\ LastBlock(k)' = LastBlock(k)
  BY DEF IsMatched, FirstBlock, LastBlock
<1>2. Matched' = Matched
  BY <1>1 DEF Matched
<1>3. Reviewed' = Reviewed /\ \A k : Before(k)' = Before(k) /\ After(k)' = After(k)
  BY <1>2 DEF Reviewed, Before, After
<1>. QED
  BY <1>1, <1>2, <1>3 DEF IsEdge

(* Nor do the offers of the review,                                        *)
LEMMA SameOffers ==
  ASSUME aligned' = aligned
  PROVE  \A k : Allowed(k)' = Allowed(k)
<1>1. \A k : LowBlock(k)' = LowBlock(k) /\ HighBlock(k)' = HighBlock(k)
  BY SameMatches DEF LowBlock, HighBlock
<1>2. \A k : TextCandidates(k)' = TextCandidates(k)
  BY <1>1 DEF TextCandidates
<1>3. \A k : ImageCandidates(k)' = ImageCandidates(k)
  BY SameMatches DEF ImageCandidates
<1>4. ASSUME NEW k PROVE Allowed(k)' = Allowed(k)
  <2>1. TextCandidates(k)' = TextCandidates(k) /\ ImageCandidates(k)' = ImageCandidates(k) /\ (IsEdge(k)' <=> IsEdge(k))
    BY <1>2, <1>3, SameMatches
  <2>. QED
    BY <2>1 DEF Allowed
<1>. QED
  BY <1>4

(* nor, under the same decisions, the places of the segments,              *)
LEMMA SamePlaces ==
  ASSUME aligned' = aligned, decisions' = decisions
  PROVE  /\ Effective' = Effective /\ (Sound' <=> Sound) /\ (Materializes' <=> Materializes)
         /\ AlignedInOrder' <=> AlignedInOrder
<1>1. Effective' = Effective
  BY SameMatches DEF Effective
<1>2. Sound' <=> Sound
  BY SameMatches, SameOffers DEF Sound
<1>3. \A k : InWindow(k)' <=> InWindow(k)
  <2>1. \A k : LowBlock(k)' = LowBlock(k) /\ HighBlock(k)' = HighBlock(k)
    BY SameMatches DEF LowBlock, HighBlock
  <2>. QED
    BY <2>1 DEF InWindow
<1>4. IsMonotonic' <=> IsMonotonic
  BY <1>1 DEF IsMonotonic
<1>5. Materializes' <=> Materializes
  BY <1>3, <1>4, SameMatches DEF Materializes
<1>6. AlignedInOrder' <=> AlignedInOrder
  BY SameMatches DEF AlignedInOrder
<1>. QED
  BY <1>1, <1>2, <1>5, <1>6

(* nor the book that is read,                                              *)
LEMMA SameReading ==
  ASSUME aligned' = aligned, decisions' = decisions, segments' = segments
  PROVE  Whole' = Whole
<1>1. \A d : Cues(d)' = Cues(d)
  BY SameMatches, SamePlaces DEF Cues
<1>2. Synchronized' = Synchronized
  BY <1>1 DEF Synchronized
<1>4. Leading' = Leading /\ Trailing' = Trailing /\ FirstDocument' = FirstDocument /\ LastDocument' = LastDocument
  BY SameMatches DEF Leading, Trailing, FirstDocument, LastDocument
<1>5. \A d : Reading(d) = Pages(d, Leading, FirstDocument) \o (IF d \in Synchronized THEN Cues(d) ELSE << >>)
                          \o Pages(d, Trailing, LastDocument)
  BY DEF Reading, Leading, Trailing, FirstDocument, LastDocument
<1>6. ASSUME NEW d PROVE Reading(d)' = Reading(d)
  <2>1. Reading(d)' = Pages(d, Leading, FirstDocument)' \o (IF d \in Synchronized' THEN Cues(d)' ELSE << >>)
                      \o Pages(d, Trailing, LastDocument)'
    BY DEF Reading, Leading, Trailing, FirstDocument, LastDocument
  <2>2. /\ Pages(d, Leading, FirstDocument)' = Pages(d, Leading, FirstDocument)
        /\ Pages(d, Trailing, LastDocument)' = Pages(d, Trailing, LastDocument)
    BY <1>4, SameMatches DEF Pages
  <2>. QED
    BY <1>1, <1>2, <1>5, <2>1, <2>2
<1>. QED
  BY <1>6 DEF Whole

(* nor the times.                                                          *)
LEMMA SameTimes ==
  ASSUME segments' = segments, narration' = narration
  PROVE  Timed' <=> Timed
<1>1. Heard' = Heard
  BY DEF Heard, Played
<1>. QED
  BY <1>1 DEF Timed

(* A step that changes nothing but the plan keeps the rest.                *)
LEMMA OthersKeep ==
  ASSUME SyncInv, PlanInv', UNCHANGED <<alignVars, decisions, alone>>
  PROVE  SyncInv'
<1>1. /\ segments' = segments /\ aligned' = aligned /\ cursor' = cursor /\ decisions' = decisions
      /\ narration' = narration /\ stage' = stage /\ momentary' = momentary /\ readaloud' = readaloud
  BY DEF alignVars, alone
<1>2. (Timed' <=> Timed) /\ (Sound' <=> Sound) /\ Windows' = Windows
  BY <1>1, SameTimes, SamePlaces DEF Windows
<1>3. Settled' <=> Settled
  BY <1>1, <1>2 DEF Settled
<1>4. Bound' <=> Bound
  BY <1>1, SameMatches, SamePlaces, SameReading DEF Bound
<1>5. FailuresExplained' <=> FailuresExplained
  BY <1>1, SameMatches, SamePlaces DEF FailuresExplained
<1>. QED
  BY <1>1, <1>2, <1>3, <1>4, <1>5 DEF SyncInv

(* The initial state satisfies the invariant.                              *)
LEMMA SyncInvInit == Assumed /\ SyncInit => SyncInv
<1> SUFFICES ASSUME Assumed, SyncInit PROVE SyncInv
  OBVIOUS
<1>1. PlanInv
  BY DEF SyncInit, PlanInit, PlanInv, Chained
<1>2. /\ stage = "Analyze" /\ segments = << >> /\ aligned = << >> /\ cursor = 0
  BY DEF SyncInit
<1>3. Timed /\ aligned \in Seq(Windows) /\ Len(aligned) <= Len(segments)
  BY <1>2 DEF Timed
<1>. QED
  BY <1>1, <1>2, <1>3 DEF SyncInv, FailuresExplained

(* Transcribe: the segments are what is heard, or the failure is           *)
(* explained.                                                              *)
LEMMA TranscribeKeeps ==
  ASSUME Assumed, SyncInv, Transcribe
  PROVE  SyncInv'
<1>1. /\ stage = "Analyze" /\ UNCHANGED <<chapters, cuts, refined, plan, aligned, cursor,
                                          decisions, narration, readaloud>>
      /\ plan \in {"ready", "rejected"}
  BY DEF Transcribe, planVars
<1>2. PlanInv /\ Timed /\ aligned = << >> /\ cursor \in Nat
  BY <1>1 DEF SyncInv
<1>3. PlanInv'
  BY <1>1, <1>2 DEF PlanInv, Chained, StartOf, ValidPlan
<1>4. plan = "ready" /\ cuts \in Seq(1..Duration) /\ ValidPlan(cuts) /\ Duration \in Nat
  BY <1>1, <1>2 DEF PlanInv, Assumed, ChunkPlanAssumption
<1>5. PICK lone \in {{}} \cup {{i} : i \in {j \in DOMAIN Merged : Len(Merged[j].text) = 1}} :
         /\ momentary' = (lone # {})
         /\ IF plan = "ready" /\ IsTranscript(Reported(lone))
               THEN segments' = Reported(lone) /\ stage' = "Align"
               ELSE stage' = "Failed" /\ UNCHANGED segments
  BY DEF Transcribe
<1>6. lone = {} \/ \E i \in DOMAIN Merged : lone = {i}
  BY <1>5
<1>7. Heard' = Heard
  BY <1>1 DEF Heard, Played
<1>8. aligned' = << >> /\ aligned' \in Seq(Windows)' /\ cursor' \in Nat
  BY <1>1, <1>2
<1>9. CASE IsTranscript(Reported(lone))
  <2>1. segments' = Merged /\ stage' = "Align"
    BY <1>4, <1>5, <1>6, <1>9, ReportedFacts
  <2>2. Merged \in Seq(Heard) /\ \A p, q \in 1..Len(Merged) : p < q => Merged[p].end <= Merged[q].start
    BY <1>4, MergedFacts
  <2>3. Timed'
    BY <1>7, <2>1, <2>2 DEF Timed
  <2>4. Len(aligned') <= Len(segments')
    <3>1. Len(Merged) \in Nat
      BY <2>2
    <3>. QED
      BY <1>8, <2>1, <3>1
  <2>5. segments' # << >>
    BY <1>4, <1>5, <1>9, <2>1 DEF IsTranscript
  <2>. QED
    BY <1>3, <1>8, <2>1, <2>3, <2>4, <2>5 DEF SyncInv, FailuresExplained
<1>10. CASE ~IsTranscript(Reported(lone))
  <2>1. stage' = "Failed" /\ segments' = segments /\ momentary' = (lone # {})
    BY <1>5, <1>10
  <2>2. Timed' /\ Len(aligned') <= Len(segments')
    <3>1. Timed'
      BY <1>1, <1>2, <2>1, SameTimes
    <3>2. Len(segments) \in Nat
      BY <1>2, <1>4, TimedFacts
    <3>. QED
      BY <1>8, <2>1, <3>1, <3>2
  <2>3. momentary' \/ \A t \in 1..Duration : narration'[t] = Quiet
    <3>1. CASE lone # {}
      BY <2>1, <3>1
    <3>2. CASE lone = {}
      <4>1. ~IsTranscript(Merged)
        BY <1>4, <1>10, <3>2, ReportedFacts
      <4>2. Merged = << >>
        BY <1>4, <4>1, MergedAccepted
      <4>. QED
        BY <1>1, <1>4, <4>2, MergedFacts
    <3>. QED
      BY <3>1, <3>2
  <2>4. FailuresExplained'
    BY <1>8, <2>3 DEF FailuresExplained
  <2>. QED
    BY <1>3, <1>8, <2>1, <2>2, <2>4 DEF SyncInv
<1>. QED
  BY <1>9, <1>10

(* Align: one more segment has its window.                                 *)
LEMMA AlignKeeps ==
  ASSUME Assumed, SyncInv, Align
  PROVE  SyncInv'
<1>1. /\ stage = "Align" /\ AlignSegment
      /\ UNCHANGED <<chapters, cuts, refined, plan, segments, decisions, narration, stage,
                     momentary, readaloud>>
  BY DEF Align, AlignSegment, planVars, alone
<1>2. PlanInv /\ Timed /\ aligned \in Seq(Windows) /\ cursor \in Nat
  BY DEF SyncInv
<1>3. PlanInv' /\ Timed'
  <2>1. PlanInv'
    BY <1>1, <1>2 DEF PlanInv, Chained, StartOf, ValidPlan
  <2>. QED
    BY <1>1, <1>2, <2>1, SameTimes
<1>4. Len(segments) \in Nat /\ Len(aligned) \in Nat /\ Len(aligned) < Len(segments) /\ Duration \in Nat
  <2>1. Duration \in Nat
    BY DEF Assumed, ChunkPlanAssumption
  <2>2. Len(aligned) \in Nat
    BY <1>2
  <2>. QED
    BY <1>1, <1>2, <2>1, <2>2, TimedFacts DEF AlignSegment
<1> DEFINE text == segments[Len(aligned) + 1].text
<1>5. Len(text) \in Nat
  <2> DEFINE s == segments[Len(aligned) + 1]
  <2>1. Len(aligned) + 1 \in 1..Len(segments) /\ segments \in Seq(Heard)
    BY <1>2, <1>4 DEF Timed
  <2>2. s \in Heard
    BY <2>1
  <2> HIDE DEF s
  <2>3. s.start \in 0..Duration /\ s.end \in 0..Duration /\ s.start < s.end
        /\ s.text = [i \in 1..(s.end - s.start) |-> narration[s.start + i]]
    BY <1>4, <2>2, HeardFacts
  <2>4. s.end - s.start \in Nat
    BY <1>4, <2>3
  <2>5. Len(s.text) = s.end - s.start
    BY <2>3, <2>4
  <2>. QED
    BY <2>4, <2>5 DEF s
<1> HIDE DEF text
<1>6. (\E w \in Windows : aligned' = Append(aligned, w)) /\ cursor' \in Nat
  <2>1. PICK w \in Matches(text) :
           aligned' = Append(aligned, [start |-> w.start, end |-> w.end]) /\ cursor' = Max({cursor, w.end})
    BY <1>1 DEF AlignSegment, text
  <2>2. [start |-> w.start, end |-> w.end] \in Windows /\ w.end \in Nat
    <3>1. CASE w = Unmatched
      <4>1. w.start = 0 /\ w.end = 0
        BY <3>1 DEF Unmatched
      <4>2. Unmatched \in Windows
        BY DEF Windows
      <4>. QED
        BY <4>1, <4>2 DEF Unmatched
    <3>. QED
      BY <1>2, <1>5, <3>1, MatchesFacts DEF Assumed
  <2>3. Max({cursor, w.end}) \in Int /\ Max({cursor, w.end}) >= cursor
    <3>1. cursor \in Int /\ w.end \in Int
      BY <1>2, <2>2
    <3>. QED
      BY <3>1, MaxOfTwo, Zenon
  <2>. QED
    BY <1>2, <2>1, <2>2, <2>3
<1>7. aligned' \in Seq(Windows) /\ Len(aligned') <= Len(segments)
  BY <1>2, <1>4, <1>6
<1>8. Windows' = Windows
  BY DEF Windows
<1>. QED
  BY <1>1, <1>3, <1>6, <1>7, <1>8 DEF SyncInv, FailuresExplained

(* Review: every decision it starts from is one it offers.                 *)
LEMMA ReviewKeeps ==
  ASSUME Assumed, SyncInv, Review
  PROVE  SyncInv'
<1>1. /\ stage = "Align" /\ Len(aligned) = Len(segments) /\ stage' = "ReviewAudio"
      /\ decisions' = [k \in Reviewed |-> IF Smart /\ IsEdge(k) THEN Page ELSE Pending]
      /\ UNCHANGED <<chapters, cuts, refined, plan, segments, aligned, cursor, narration,
                     momentary, readaloud>>
  BY DEF Review, StartReview, planVars, alignVars
<1>2. PlanInv /\ Timed /\ aligned \in Seq(Windows) /\ cursor \in Nat /\ segments # << >>
  BY <1>1 DEF SyncInv
<1>3. PlanInv' /\ Timed'
  <2>1. PlanInv'
    BY <1>1, <1>2 DEF PlanInv, Chained, StartOf, ValidPlan
  <2>. QED
    BY <1>1, <1>2, <2>1, SameTimes
<1>4. Sound'
  <2>1. Reviewed' = Reviewed /\ \A k : Allowed(k)' = Allowed(k)
    BY <1>1, SameMatches, SameOffers
  <2>2. \A k \in Reviewed : decisions'[k] \in Allowed(k)
    BY <1>1 DEF Allowed
  <2>. QED
    BY <1>1, <2>1, <2>2 DEF Sound
<1>5. Len(aligned') \in Nat /\ aligned' \in Seq(Windows)'
  BY <1>1, <1>2 DEF Windows
<1>6. Settled' /\ Len(aligned') <= Len(segments')
  BY <1>1, <1>3, <1>4, <1>5 DEF Settled
<1>. QED
  BY <1>1, <1>2, <1>3, <1>5, <1>6 DEF SyncInv, FailuresExplained

(* Decision: so is every one that is taken.                                *)
LEMMA DecisionKeeps ==
  ASSUME Assumed, SyncInv, Decision
  PROVE  SyncInv'
<1>1. /\ stage = "ReviewAudio"
      /\ UNCHANGED <<chapters, cuts, refined, plan, segments, aligned, cursor, narration,
                     stage, momentary, readaloud>>
  BY DEF Decision, planVars, alignVars, alone
<1>2. PlanInv /\ Settled /\ cursor \in Nat
  BY <1>1 DEF SyncInv
<1>3. PlanInv' /\ Timed'
  <2>1. PlanInv'
    BY <1>1, <1>2 DEF PlanInv, Chained, StartOf, ValidPlan
  <2>. QED
    BY <1>1, <1>2, <2>1, SameTimes DEF Settled
<1>4. PICK k \in Reviewed : \E decision \in Allowed(k) : decisions' = [decisions EXCEPT ![k] = decision]
  BY DEF Decision, AssignText, AssignImage, KeepEdge, Exclude, Decide, Allowed
<1>5. Sound'
  <2>1. Reviewed' = Reviewed /\ \A j : Allowed(j)' = Allowed(j)
    BY <1>1, SameMatches, SameOffers
  <2>2. DOMAIN decisions' = Reviewed /\ \A j \in Reviewed : decisions'[j] \in Allowed(j)
    BY <1>2, <1>4 DEF Settled, Sound
  <2>. QED
    BY <2>1, <2>2 DEF Sound
<1>6. Settled'
  BY <1>1, <1>2, <1>3, <1>5 DEF Settled, Windows
<1>. QED
  BY <1>1, <1>2, <1>3, <1>6 DEF SyncInv, FailuresExplained, Settled

(* Build: the book that is read, or a failure that is explained.           *)
LEMMA BuildKeeps ==
  ASSUME Assumed, SyncInv, Build
  PROVE  SyncInv'
<1>1. /\ stage = "ReviewAudio" /\ \A k \in Reviewed : decisions[k] # Pending
      /\ UNCHANGED <<chapters, cuts, refined, plan, segments, aligned, cursor, decisions,
                     narration, momentary>>
  BY DEF Build, planVars, alignVars
<1>2. PlanInv /\ Settled /\ cursor \in Nat /\ Duration \in Nat
  BY <1>1 DEF SyncInv, Assumed, ChunkPlanAssumption
<1>3. PlanInv'
  BY <1>1, <1>2 DEF PlanInv, Chained, StartOf, ValidPlan
<1>4. Settled' /\ Timed' /\ aligned' \in Seq(Windows)' /\ Len(aligned') <= Len(segments')
  <2>1. Timed' /\ Sound' /\ Windows' = Windows
    BY <1>1, <1>2, SameTimes, SamePlaces DEF Settled, Windows
  <2>2. Len(aligned) \in Nat
    BY <1>2 DEF Settled
  <2>. QED
    BY <1>1, <1>2, <2>1, <2>2 DEF Settled
<1>5. CASE Materializes /\ InOneBlock /\ Synchronized # {} /\ \A d \in Synchronized : ~Overlaps(Cues(d))
  <2>1. stage' = "Built" /\ readaloud' = Whole
    BY <1>5 DEF Build, Whole
  <2>2. Bound'
    BY <1>1, <1>5, <2>1, SameMatches, SamePlaces, SameReading DEF Bound
  <2>. QED
    BY <1>1, <1>2, <1>3, <1>4, <2>1, <2>2 DEF SyncInv, FailuresExplained
<1>6. CASE ~(Materializes /\ InOneBlock /\ Synchronized # {} /\ \A d \in Synchronized : ~Overlaps(Cues(d)))
  <2>1. stage' = "Failed"
    BY <1>6 DEF Build
  <2>2. Explained
    BY <1>1, <1>2, <1>6, BuildExplained DEF Assumed
  <2>3. Explained'
    BY <1>1, <2>2, SameMatches, SamePlaces DEF Explained
  <2>4. aligned' # << >>
    <3>1. segments # << >> /\ Len(segments) \in Nat /\ DOMAIN segments = 1..Len(segments) /\ segments \in Seq(Heard)
      BY <1>1, <1>2, TimedFacts DEF SyncInv, Settled, Timed
    <3>2. Len(aligned) # 0
      BY <1>2, <3>1 DEF Settled
    <3>. QED
      BY <1>1, <3>2
  <2>5. FailuresExplained'
    BY <2>3, <2>4 DEF FailuresExplained, Explained
  <2>. QED
    BY <1>1, <1>2, <1>3, <1>4, <2>1, <2>5 DEF SyncInv
<1>. QED
  BY <1>5, <1>6

(* Every step keeps the invariant: one lemma per action.                   *)
LEMMA SyncInvStep == Assumed /\ SyncInv /\ [SyncNext]_syncVars => SyncInv'
<1> SUFFICES ASSUME Assumed, SyncInv, [SyncNext]_syncVars PROVE SyncInv'
  OBVIOUS
<1>1. CASE PlanChunks
  <2>1. PlanInv'
    BY <1>1, PlanInvStep DEF PlanChunks, SyncInv, Assumed
  <2>. QED
    BY <1>1, <2>1, OthersKeep DEF PlanChunks
<1>2. CASE UNCHANGED syncVars
  <2>1. PlanInv'
    BY <1>2, PlanInvStep DEF syncVars, SyncInv, Assumed
  <2>. QED
    BY <1>2, <2>1, OthersKeep DEF syncVars
<1>. QED
  BY <1>1, <1>2, TranscribeKeeps, AlignKeeps, ReviewKeeps, DecisionKeeps, BuildKeeps DEF SyncNext

(* The invariant holds of every run.                                       *)
LEMMA SyncInvariant == SyncSpec => []SyncInv
<1>1. Assumed
  BY ChunkPlanAssumption, AlignmentAssumption, ReviewAssignmentAssumption DEF Assumed
<1>. QED
  BY <1>1, SyncInvInit, SyncInvStep, PTL DEF SyncSpec

(* In every book, with every plan of chunks the program accepts and        *)
(* wherever silence is found, a segment has its times within the audiobook *)
(* and exactly the words that are heard there: merge_chunk_transcripts     *)
(* moves every chunk's phrases by the start of the chunk, and no later     *)
(* stage changes them.                                                     *)
THEOREM CuesPlayWhatTheyShow == SyncSpec => []ClipsTrue
<1>1. Duration \in Nat
  BY ChunkPlanAssumption DEF ChunkPlanAssumption
<1>2. SyncInv => ClipsTrue
  <2> SUFFICES ASSUME Timed, NEW k \in DOMAIN segments
               PROVE  LET s == segments[k]
                      IN  s.end <= Duration /\ s.text = [i \in 1..(s.end - s.start) |-> narration[s.start + i]]
    BY DEF SyncInv, ClipsTrue
  <2>1. segments[k] \in Heard
    BY DEF Timed
  <2>. QED
    BY <1>1, <2>1, HeardFacts
<1>. QED
  BY <1>2, SyncInvariant, PTL

(* In every built book each segment of the transcript is read once, and    *)
(* one that the review excluded never, whatever the aligner matched and    *)
(* whatever was decided: the match or the decision of                      *)
(* apply_audio_review_to_alignment gives it one place, and                 *)
(* build_combined_smil and the edge pages read each place once.            *)
THEOREM NoSegmentLostOrReadTwice == SyncSpec => []EverySegmentOnce
<1>1. Duration \in Nat
  BY ChunkPlanAssumption DEF ChunkPlanAssumption
<1>2. SyncInv => EverySegmentOnce
  BY <1>1, AlignmentAssumption, ReviewAssignmentAssumption, BoundOnce DEF SyncInv, EverySegmentOnce
<1>. QED
  BY <1>2, SyncInvariant, PTL

(* Every built book reads its text in the order of the narration, and an   *)
(* image between the matches around it: materialize_reviewed_alignment     *)
(* accepts only a monotonic assignment and the overlays sort by time.      *)
THEOREM BookReadInOrder == SyncSpec => []NarrationInOrder
<1>1. Duration \in Nat
  BY ChunkPlanAssumption DEF ChunkPlanAssumption
<1>2. SyncInv => NarrationInOrder
  BY <1>1, AlignmentAssumption, ReviewAssignmentAssumption, BoundTextInOrder, BoundImageInOrder
     DEF SyncInv, NarrationInOrder
<1>. QED
  BY <1>2, SyncInvariant, PTL

(* The transcription of a book fails only for silence or a word without    *)
(* time: no plan is refused, and no merged transcript that has all its     *)
(* durations.  After it a book fails only for an alignment or a decision   *)
(* out of order, or when nothing is left to read; no other check of        *)
(* materialize_reviewed_alignment or run_build_epub refuses what the       *)
(* stages before it made.                                                  *)
THEOREM BooksFailForAReason == SyncSpec => []FailuresExplained
<1>1. SyncInv => FailuresExplained
  BY DEF SyncInv
<1>. QED
  BY <1>1, SyncInvariant, PTL
=============================================================================
