----------------------------- MODULE ChunkPool -----------------------------
(***************************************************************************)
(* run_chunk_workers (crates/storyteller-application/src/                  *)
(* chunked_transcription.rs): threads take chunks from a shared queue and  *)
(* send their transcripts to the thread of the pipeline worker, which      *)
(* collects them, relays a cancellation and joins the threads.             *)
(***************************************************************************)
EXTENDS Naturals, Sequences, FiniteSets, SequencesExt

CONSTANTS
  NChunks,  (* chunks of the plan; the transcript of chunk i is i            *)
  Threads   (* effective_workers, at least one                               *)

ASSUME ChunkPoolAssumption ==
  NChunks \in Nat \ {0} /\ IsFiniteSet(Threads) /\ Threads # {}

VARIABLES
  pending,    (* queue: the chunks nobody has taken yet                     *)
  step,       (* where each thread is                                       *)
  held,       (* the chunk each thread works on                             *)
  problem,    (* the error each thread is about to report                   *)
  channel,    (* events sent and not yet received                           *)
  stop,       (* worker_cancellation                                        *)
  cancelled,  (* cancellation, the token of the book                        *)
  main,       (* where the collecting thread is                             *)
  parts,      (* transcripts by chunk index, 0 where there is none          *)
  completed,  (* how many transcripts were collected                        *)
  error,      (* first_error                                                *)
  outcome     (* what the call returned                                     *)

pool == <<pending, step, held, problem>>
collector == <<main, parts, completed, error, outcome>>
vars == <<pending, step, held, problem, channel, stop, cancelled,
          main, parts, completed, error, outcome>>

Chunks == 1..NChunks
NoBook == << >>
Problems == {"broken", "cancelled"}
Errors   == {"none", "panicked", "disconnected", "observer"} \cup Problems

Completed(c) == [chunk |-> c, problem |-> "none"]
Failed(p)    == [chunk |-> 0, problem |-> p]

(* The thread's closure has returned or unwound: its sender is dropped.    *)
IsGone(t) == step[t] \in {"gone", "panicked"}

-----------------------------------------------------------------------------
(* A thread.                                                               *)

To(t, s) == step' = [step EXCEPT ![t] = s]

Check(t) ==
  /\ step[t] = "check"
  /\ To(t, IF stop THEN "gone" ELSE "pop")
  /\ UNCHANGED <<pending, held, problem, channel, stop, cancelled, collector>>

(* pop_front under the lock.                                               *)
Pop_Unlocked(t) ==
  /\ step[t] = "pop"
  /\ IF pending = << >> THEN To(t, "gone") /\ UNCHANGED <<pending, held>>
     ELSE /\ held' = [held EXCEPT ![t] = Head(pending)]
          /\ pending' \in {pending, Tail(pending)}
          /\ To(t, "work")
  /\ UNCHANGED <<problem, channel, stop, cancelled, collector>>
Pop(t) ==
  /\ step[t] = "pop"
  /\ IF pending = << >> THEN To(t, "gone") /\ UNCHANGED <<pending, held>>
     ELSE /\ held' = [held EXCEPT ![t] = Head(pending)]
          /\ pending' = Tail(pending)
          /\ To(t, "work")
  /\ UNCHANGED <<problem, channel, stop, cancelled, collector>>

(* transcribe_one_chunk: convert, run the engine, parse.                   *)
Work(t) ==
  /\ step[t] = "work"
  /\ \/ To(t, "send") /\ UNCHANGED problem
     \/ To(t, "fail") /\ problem' = [problem EXCEPT ![t] = "broken"]
     \/ stop /\ To(t, "fail") /\ problem' = [problem EXCEPT ![t] = "cancelled"]
  /\ UNCHANGED <<pending, held, channel, stop, cancelled, collector>>

Panic(t) ==
  /\ step[t] = "work" /\ To(t, "panicked")
  /\ UNCHANGED <<pending, held, problem, channel, stop, cancelled, collector>>

SendCompleted(t) ==
  /\ step[t] = "send" /\ channel' = Append(channel, Completed(held[t]))
  /\ To(t, "check")
  /\ UNCHANGED <<pending, held, problem, stop, cancelled, collector>>

StopOthers(t) ==
  /\ step[t] = "fail" /\ stop' = TRUE /\ To(t, "report")
  /\ UNCHANGED <<pending, held, problem, channel, cancelled, collector>>

SendFailed(t) ==
  /\ step[t] = "report" /\ channel' = Append(channel, Failed(problem[t]))
  /\ To(t, "gone")
  /\ UNCHANGED <<pending, held, problem, stop, cancelled, collector>>

ThreadStep(t) ==
  Check(t) \/ Pop(t) \/ SendCompleted(t) \/ StopOthers(t) \/ SendFailed(t)

-----------------------------------------------------------------------------
(* The collecting thread.                                                  *)

Collecting == completed < NChunks /\ error = "none"

LoopHead_NotRelayed ==
  /\ main = "loop"
  /\ \/ ~Collecting /\ main' = "join" /\ UNCHANGED error
     \/ Collecting /\ cancelled /\ error' = "cancelled" /\ main' = "join"
     \/ Collecting /\ ~cancelled /\ main' = "receive" /\ UNCHANGED error
  /\ UNCHANGED <<pool, channel, stop, cancelled, parts, completed, outcome>>
LoopHead ==
  /\ main = "loop"
  /\ \/ ~Collecting /\ main' = "join" /\ UNCHANGED <<stop, error>>
     \/ Collecting /\ cancelled /\ stop' = TRUE /\ error' = "cancelled" /\ main' = "join"
     \/ Collecting /\ ~cancelled /\ main' = "receive" /\ UNCHANGED <<stop, error>>
  /\ UNCHANGED <<pool, channel, cancelled, parts, completed, outcome>>

(* A transcript goes where its chunk belongs, not where it arrives; the    *)
(* progress observer may fail.                                             *)
Store_InArrivalOrder(c) ==
  /\ parts' = [parts EXCEPT ![completed + 1] = c] /\ completed' = completed + 1
  /\ \/ UNCHANGED <<stop, error>>
     \/ stop' = TRUE /\ error' = "observer"
Store(c) ==
  /\ parts' = [parts EXCEPT ![c] = c] /\ completed' = completed + 1
  /\ \/ UNCHANGED <<stop, error>>
     \/ stop' = TRUE /\ error' = "observer"

ReceiveEvent ==
  /\ main = "receive" /\ channel # << >>
  /\ channel' = Tail(channel) /\ main' = "loop"
  /\ LET event == Head(channel)
     IN  \/ event.problem = "none" /\ Store(event.chunk)
         \/ /\ event.problem # "none" /\ stop' = TRUE /\ error' = event.problem
            /\ UNCHANGED <<parts, completed>>
  /\ UNCHANGED <<pool, cancelled, outcome>>

(* recv_timeout: a timeout while a sender lives, else Disconnected.        *)
ReceiveNothing_SenderKept ==
  /\ main = "receive" /\ channel = << >>
  /\ main' = "loop" /\ stop' = (stop \/ cancelled)
  /\ UNCHANGED <<pool, channel, cancelled, parts, completed, error, outcome>>
ReceiveNothing ==
  /\ main = "receive" /\ channel = << >>
  /\ IF \A t \in Threads : IsGone(t)
       THEN error' = "disconnected" /\ main' = "join" /\ UNCHANGED stop
       ELSE main' = "loop" /\ stop' = (stop \/ cancelled) /\ UNCHANGED error
  /\ UNCHANGED <<pool, channel, cancelled, parts, completed, outcome>>

Outcome ==
  IF cancelled THEN "cancelled"
  ELSE IF error # "none" \/ \E t \in Threads : step[t] = "panicked" THEN "failed"
  ELSE IF \E c \in Chunks : parts[c] = 0 THEN "missing" ELSE "ok"

Return ==
  /\ main = "join" /\ \A t \in Threads : IsGone(t)
  /\ main' = "returned" /\ outcome' = Outcome
  /\ UNCHANGED <<pool, channel, stop, cancelled, parts, completed, error>>

Collector == LoopHead \/ ReceiveEvent \/ ReceiveNothing \/ Return

Cancel ==
  /\ ~cancelled /\ cancelled' = TRUE
  /\ UNCHANGED <<pool, channel, stop, collector>>

-----------------------------------------------------------------------------
Init ==
  /\ pending = [c \in Chunks |-> c]
  /\ step = [t \in Threads |-> "check"]
  /\ held = [t \in Threads |-> 0] /\ problem = [t \in Threads |-> "none"]
  /\ channel = << >> /\ stop = FALSE /\ cancelled = FALSE
  /\ main = "loop" /\ parts = [c \in Chunks |-> 0] /\ completed = 0
  /\ error = "none" /\ outcome = "none"

Next == Collector \/ Cancel \/ \E t \in Threads : ThreadStep(t) \/ Work(t) \/ Panic(t)

Spec == Init /\ [][Next]_vars

(* Both sides run; an engine that hangs is only stopped by the token, whose*)
(* request kills the child process (command.rs).                           *)
Fairness ==
  /\ WF_vars(Collector)
  /\ \A t \in Threads : WF_vars(ThreadStep(t)) /\ WF_vars(stop /\ Work(t))

FairSpec == Spec /\ Fairness

-----------------------------------------------------------------------------
(* Properties.                                                             *)

(* Values have the types of the Rust declarations.                         *)
TypeOK ==
  /\ pending \in Seq(Chunks)
  /\ step \in [Threads -> {"check", "pop", "work", "send", "fail", "report", "gone", "panicked"}]
  /\ held \in [Threads -> 0..NChunks]
  /\ problem \in [Threads -> {"none"} \cup Problems]
  /\ channel \in Seq([chunk : 0..NChunks, problem : {"none"} \cup Problems])
  /\ {stop, cancelled} \subseteq BOOLEAN
  /\ main \in {"loop", "receive", "join", "returned"}
  /\ parts \in [Chunks -> 0..NChunks] /\ completed \in 0..NChunks
  /\ error \in Errors
  /\ outcome \in {"none", "ok", "cancelled", "failed", "missing"}

Queued(c)  == \E i \in DOMAIN pending : pending[i] = c
Holders(c) == {t \in Threads : held[t] = c /\ step[t] \in {"work", "send"}}
Sent(c)    == {i \in DOMAIN channel : channel[i].chunk = c}
Stored(c)  == parts[c] # 0

(* "Distribute chunks": every chunk is transcribed once; it is in the      *)
(* queue, with one thread, in one event or collected, never in two places; *)
(* and the count the loop ends on is the number of transcripts that are    *)
(* there, so that "did not return a result" is never reported.             *)
EachChunkOnce ==
  /\ \A c \in Chunks :
       /\ Cardinality(Holders(c)) + Cardinality(Sent(c)) <= 1
       /\ Queued(c) => Holders(c) = {} /\ Sent(c) = {} /\ ~Stored(c)
       /\ Stored(c) => Holders(c) = {} /\ Sent(c) = {}
  /\ completed = Cardinality({c \in Chunks : Stored(c)})
  /\ outcome # "missing"

(* Collected, the work of the threads is the transcript of the book.       *)
Abstract ==
  INSTANCE Transcription
    WITH known   <- {c \in Chunks : parts[c] # 0},
         broken  <- error = "observer"
                    \/ \E t \in Threads : problem[t] = "broken" \/ step[t] = "panicked",
         book    <- IF outcome = "ok" THEN parts ELSE NoBook

ImplementsTranscription == Abstract!Spec

(* A cancellation, or the failure of one chunk, ends the call, although    *)
(* other engines may hang for good unless they are killed.                 *)
StopReturns == (cancelled \/ error # "none" \/ \E t \in Threads : step[t] = "fail") ~> main = "returned"

(* A panic sends nothing and stops nobody: its chunk never arrives, and    *)
(* the others go on until the queue is empty. The loop must notice that    *)
(* the last sender has gone: unless an engine hangs for good the call      *)
(* returns, whichever threads have panicked and whatever was sent before.  *)
ReturnsUnlessHung ==
  <>(main = "returned") \/ <>[](\E t \in Threads : step[t] = "work")
=============================================================================
