-------------------------- MODULE FinishingProofs ---------------------------
(***************************************************************************)
(* What holds of every book and every narration: the external program is   *)
(* gone when the stage that ran it goes on, the names the builder invents  *)
(* are new, the book keeps what it was, each cue names its block, and what *)
(* is built passes the audit.                                              *)
(*                                                                         *)
(* The argument about a call follows a line: until the reader is gone it   *)
(* is in the pipe, in the channel or captured; a reader that came to the   *)
(* end leaves an empty pipe, and one that failed leaves its error in the   *)
(* channel or has had the call given up.  The argument about an EPUB needs *)
(* one invariant only, that made is what BuildEpub makes of a book and a   *)
(* narration; the rest is about the operators of EpubBuild and             *)
(* EpubValidate.                                                           *)
(***************************************************************************)
EXTENDS Finishing, OrderingProofs

-----------------------------------------------------------------------------
(* A call of run_cancellable_command.                                      *)

Steps == {"called", "drain", "check", "wait", "join stdout", "join stderr", "last", "returned"}
Reasons == {"ok", "spawn", "stream", "cancelled", "wait"}

Counts == [Streams -> Nat]

CountsOK == written \in Counts /\ piped \in Counts /\ sent \in Counts /\ told \in Counts

ControlOK ==
  /\ call \in Steps /\ why \in Reasons
  /\ child \in {"none", "running", "exited", "reaped"}
  /\ success \in BOOLEAN /\ heir \in BOOLEAN /\ cancelled \in BOOLEAN
  /\ reader \in [Streams -> {"none", "reading", "ended", "failed"}]
  /\ broken \subseteq Streams

(* A line that was written is in one place.                                *)
LinesConserved == \A s \in Streams : written[s] = piped[s] + sent[s] + told[s]

Conserved == CountsOK /\ LinesConserved

ReadersHonest ==
  \A s \in Streams :
    /\ reader[s] = "ended" => piped[s] = 0
    /\ reader[s] = "failed" => s \in broken \/ why # "ok"

(* How far the caller is says what there still is of the program and of    *)
(* the threads.                                                            *)
CallerKnows ==
  /\ call = "called" => child = "none" /\ \A s \in Streams : reader[s] = "none"
  /\ call \in {"called", "drain", "check", "wait"} => why = "ok"
  /\ call # "called" /\ why = "ok" => \A s \in Streams : reader[s] # "none"
  /\ call \in {"join stdout", "join stderr", "last", "returned"} => child \in {"none", "reaped"}
  /\ call \in {"join stderr", "last", "returned"} => reader["stdout"] # "reading"
  /\ call \in {"last", "returned"} => reader["stderr"] # "reading"
  /\ call = "returned" /\ why = "ok" => told = written

CInv == ControlOK /\ Conserved /\ ReadersHonest /\ CallerKnows

-----------------------------------------------------------------------------
(* The lines, step by step.                                                *)

LEMMA StillConserved ==
  ASSUME Conserved, UNCHANGED lines PROVE Conserved'
BY DEF Conserved, CountsOK, LinesConserved, lines

LEMMA WriteConserves == ASSUME Conserved, NEW s \in Streams, Write(s) PROVE Conserved'
<1>1. CountsOK'
  BY DEF Conserved, CountsOK, Counts, Write
<1>2. ASSUME NEW t \in Streams PROVE written'[t] = piped'[t] + sent'[t] + told'[t]
  BY DEF Conserved, CountsOK, Counts, LinesConserved, Write
<1>. QED
  BY <1>1, <1>2 DEF Conserved, LinesConserved

LEMMA ReadConserves == ASSUME Conserved, NEW s \in Streams, ReadLine(s) PROVE Conserved'
<1>1. CountsOK'
  BY DEF Conserved, CountsOK, Counts, ReadLine
<1>2. ASSUME NEW t \in Streams PROVE written'[t] = piped'[t] + sent'[t] + told'[t]
  BY DEF Conserved, CountsOK, Counts, LinesConserved, ReadLine
<1>. QED
  BY <1>1, <1>2 DEF Conserved, LinesConserved

(* A round of drain_messages neither loses nor invents a line.             *)
LEMMA DrainConserves ==
  ASSUME Conserved, DrainMessages
  PROVE  /\ Conserved' /\ broken' = {} /\ piped' = piped /\ written' = written
         /\ \A s \in Streams : told'[s] = told[s] + sent[s]
<1>1. /\ broken' = {} /\ piped' = piped /\ written' = written
      /\ \A s \in Streams : told'[s] = told[s] + sent[s] /\ sent'[s] = 0
  BY DEF DrainMessages, NoLines
<1>2. CountsOK'
  BY DEF Conserved, CountsOK, Counts, DrainMessages, NoLines
<1>3. ASSUME NEW t \in Streams PROVE written'[t] = piped'[t] + sent'[t] + told'[t]
  BY <1>1 DEF Conserved, CountsOK, Counts, LinesConserved
<1>. QED
  BY <1>1, <1>2, <1>3 DEF Conserved, LinesConserved

-----------------------------------------------------------------------------
LEMMA CommandInitInv == CommandInit => CInv
<1> SUFFICES ASSUME CommandInit PROVE CInv
  OBVIOUS
<1>1. NoLines \in Counts /\ \A s \in Streams : NoLines[s] = 0
  BY DEF NoLines, Counts
<1>2. Conserved
  BY <1>1 DEF CommandInit, Conserved, CountsOK, LinesConserved
<1>3. ControlOK
  BY DEF CommandInit, ControlOK, Steps, Reasons
<1>4. ReadersHonest /\ CallerKnows
  BY DEF CommandInit, ReadersHonest, CallerKnows, Streams
<1>. QED
  BY <1>2, <1>3, <1>4 DEF CInv

-----------------------------------------------------------------------------
(* The world outside: only Write moves a line, and only while it is read.  *)
LEMMA OutsideInv == ASSUME CInv, Outside \/ Cancel PROVE CInv'
<1>1. CASE Fork \/ HeirEnds \/ Cancel
  <2>1. Conserved'
    BY <1>1, StillConserved DEF CInv, Fork, HeirEnds, Cancel
  <2>2. ControlOK' /\ ReadersHonest' /\ CallerKnows'
    BY <1>1 DEF CInv, ControlOK, Fork, HeirEnds, Cancel, lines, ReadersHonest, CallerKnows
  <2>. QED
    BY <2>1, <2>2 DEF CInv
<1>2. ASSUME NEW s \in Streams, Write(s) PROVE CInv'
  <2>1. Conserved'
    BY <1>2, WriteConserves DEF CInv
  <2>2. ControlOK'
    BY <1>2 DEF CInv, ControlOK, Write
  <2>3. ReadersHonest'
    BY <1>2 DEF CInv, Conserved, CountsOK, Counts, Write, ReadersHonest
  <2>4. CallerKnows'
    BY <1>2 DEF CInv, Write, CallerKnows, Streams
  <2>. QED
    BY <2>1, <2>2, <2>3, <2>4 DEF CInv
<1>3. ASSUME NEW status \in BOOLEAN, Exit(status) PROVE CInv'
  <2>1. Conserved'
    BY <1>3, StillConserved DEF CInv, Exit
  <2>2. ControlOK' /\ ReadersHonest' /\ CallerKnows'
    BY <1>3 DEF CInv, ControlOK, Exit, lines, ReadersHonest, CallerKnows
  <2>. QED
    BY <2>1, <2>2 DEF CInv
<1>. QED
  BY <1>1, <1>2, <1>3 DEF Outside

(* The two readers.                                                        *)
LEMMA ReaderInv == ASSUME CInv, NEW s \in Streams, Reading(s) \/ ReadFails(s) PROVE CInv'
<1>1. CASE ReadLine(s)
  <2>1. Conserved'
    BY <1>1, ReadConserves DEF CInv
  <2>2. ControlOK' /\ CallerKnows'
    BY <1>1 DEF CInv, ControlOK, ReadLine, CallerKnows, Streams
  <2>3. ReadersHonest'
    BY <1>1 DEF CInv, Conserved, CountsOK, Counts, ReadLine, ReadersHonest
  <2>. QED
    BY <2>1, <2>2, <2>3 DEF CInv
<1>2. CASE ReadEnd(s)
  <2>1. Conserved'
    BY <1>2, StillConserved DEF CInv, ReadEnd
  <2>2. ControlOK'
    BY <1>2 DEF CInv, ControlOK, ReadEnd
  <2>3. ReadersHonest' /\ CallerKnows'
    BY <1>2 DEF CInv, ControlOK, ReadEnd, lines, ReadersHonest, CallerKnows, Streams
  <2>. QED
    BY <2>1, <2>2, <2>3 DEF CInv
<1>3. CASE ReadFails(s)
  <2>1. Conserved'
    BY <1>3, StillConserved DEF CInv, ReadFails
  <2>2. ControlOK'
    BY <1>3 DEF CInv, ControlOK, ReadFails
  <2>3. ReadersHonest' /\ CallerKnows'
    BY <1>3 DEF CInv, ControlOK, ReadFails, lines, ReadersHonest, CallerKnows, Streams
  <2>. QED
    BY <2>1, <2>2, <2>3 DEF CInv
<1>. QED
  BY <1>1, <1>2, <1>3 DEF Reading

-----------------------------------------------------------------------------
(* The caller.                                                             *)

LEMMA ReturnInv == ASSUME CInv, Return PROVE CInv'
<1>1. CASE why \in {"ok", "cancelled"}
  <2>1. /\ Conserved' /\ broken' = {} /\ piped' = piped /\ written' = written
        /\ \A s \in Streams : told'[s] = told[s] + sent[s]
    BY <1>1, DrainConserves DEF CInv, Return
  <2>2. ControlOK'
    BY <2>1 DEF CInv, ControlOK, Return, Steps, Reasons
  <2>3. ReadersHonest'
    BY <1>1, <2>1 DEF CInv, Return, ReadersHonest
  <2>4. ASSUME why' = "ok" PROVE told' = written'
    <3>1. why = "ok" /\ broken = {}
      BY <1>1, <2>4 DEF Return
    <3>2. \A s \in Streams : reader[s] = "ended"
      BY <3>1 DEF CInv, ControlOK, Return, ReadersHonest, CallerKnows, Streams
    <3>3. ASSUME NEW s \in Streams PROVE told'[s] = written'[s]
      <4>1. piped[s] = 0 /\ written[s] = piped[s] + sent[s] + told[s]
        BY <3>2 DEF CInv, ReadersHonest, Conserved, LinesConserved
      <4>. QED
        BY <2>1, <4>1 DEF CInv, Conserved, CountsOK, Counts
    <3>. QED
      BY <2>1, <3>3 DEF Conserved, CountsOK, Counts
  <2>5. CallerKnows'
    BY <2>4 DEF CInv, Return, CallerKnows
  <2>. QED
    BY <2>1, <2>2, <2>3, <2>5 DEF CInv
<1>2. CASE why \notin {"ok", "cancelled"}
  <2>1. Conserved'
    BY <1>2, StillConserved DEF CInv, Return
  <2>2. ControlOK' /\ ReadersHonest' /\ CallerKnows'
    BY <1>2 DEF CInv, ControlOK, Return, Steps, lines, ReadersHonest, CallerKnows
  <2>. QED
    BY <2>1, <2>2 DEF CInv
<1>. QED
  BY <1>1, <1>2

LEMMA CallerInv == ASSUME CInv, Caller PROVE CInv'
<1>1. CASE Start
  <2>1. Conserved'
    BY <1>1, StillConserved DEF CInv, Start
  <2>2. ControlOK'
    BY <1>1 DEF CInv, ControlOK, Start, GiveUp, Steps, Reasons
  <2>3. ReadersHonest'
    BY <1>1 DEF CInv, ControlOK, Start, GiveUp, lines, ReadersHonest, CallerKnows
  <2>4. CallerKnows'
    <3>1. /\ child = "none" /\ why \in Reasons
          /\ reader \in [Streams -> {"none", "reading", "ended", "failed"}]
          /\ reader["stdout"] = "none" /\ reader["stderr"] = "none"
      BY <1>1 DEF CInv, ControlOK, Start, CallerKnows, Streams
    <3>2. CASE call' = "drain"
      <4>1. /\ reader' = [s \in Streams |-> "reading"] /\ why' = why
        BY <1>1, <3>2 DEF Start, GiveUp
      <4>2. why = "ok"
        BY <1>1 DEF CInv, CallerKnows, Start
      <4>. QED
        BY <3>2, <4>1, <4>2 DEF CallerKnows
    <3>3. CASE call' = "returned"
      BY <1>1, <3>1, <3>3 DEF Start, GiveUp, CallerKnows
    <3>4. CASE call' = "join stdout"
      BY <1>1, <3>1, <3>4 DEF Start, GiveUp, CallerKnows
    <3>. QED
      BY <1>1, <3>2, <3>3, <3>4 DEF Start, GiveUp
  <2>. QED
    BY <2>1, <2>2, <2>3, <2>4 DEF CInv
<1>2. CASE Drain
  <2>1. Conserved' /\ broken' = {} /\ piped' = piped
    BY <1>2, DrainConserves DEF CInv, Drain
  <2>2. ControlOK'
    BY <1>2, <2>1 DEF CInv, ControlOK, Drain, GiveUp, Steps, Reasons
  <2>3. ReadersHonest' /\ CallerKnows'
    BY <1>2, <2>1 DEF CInv, Drain, GiveUp, ReadersHonest, CallerKnows
  <2>. QED
    BY <2>1, <2>2, <2>3 DEF CInv
<1>3. CASE Check \/ TryWait
  <2>1. Conserved'
    BY <1>3, StillConserved DEF CInv, Check, TryWait
  <2>2. ControlOK'
    BY <1>3 DEF CInv, ControlOK, Check, TryWait, GiveUp, Steps, Reasons
  <2>3. ReadersHonest' /\ CallerKnows'
    BY <1>3 DEF CInv, Check, TryWait, GiveUp, lines, ReadersHonest, CallerKnows
  <2>. QED
    BY <2>1, <2>2, <2>3 DEF CInv
<1>4. CASE Join
  <2>1. Conserved'
    BY <1>4, StillConserved DEF CInv, Join
  <2>2. ControlOK' /\ ReadersHonest' /\ CallerKnows'
    BY <1>4 DEF CInv, ControlOK, Join, Joinable, Steps, lines, ReadersHonest, CallerKnows
  <2>. QED
    BY <2>1, <2>2 DEF CInv
<1>5. CASE Return
  BY <1>5, ReturnInv
<1>. QED
  BY <1>1, <1>2, <1>3, <1>4, <1>5 DEF Caller

LEMMA CommandStepInv == CInv /\ [CommandNext]_cvars => CInv'
<1> SUFFICES ASSUME CInv, [CommandNext]_cvars PROVE CInv'
  OBVIOUS
<1>1. CASE UNCHANGED cvars
  BY <1>1 DEF cvars, CInv, ControlOK, Conserved, CountsOK, LinesConserved, ReadersHonest, CallerKnows
<1>2. CASE CommandNext
  BY <1>2, CallerInv, OutsideInv, ReaderInv DEF CommandNext
<1>. QED
  BY <1>1, <1>2

LEMMA CInvReturns == CInv => CommandReturns
BY DEF CInv, ControlOK, CallerKnows, CommandReturns, Streams

(* When the call returns, the program has been waited for and the readers  *)
(* are joined, and Ok means that no line was lost: in every interleaving   *)
(* of exit, output, errors and cancellation (command.rs:49-175).           *)
THEOREM CallReturnsClean == CommandSpec => []CommandReturns
<1>1. CommandSpec => []CInv
  BY CommandInitInv, CommandStepInv, PTL DEF CommandSpec
<1>. QED
  BY <1>1, CInvReturns, PTL

-----------------------------------------------------------------------------
(* The call that the Encode stage makes.                                   *)

LEMMA FinishingStepCall == CInv /\ [Next]_vars => CInv'
<1> SUFFICES ASSUME CInv, [Next]_vars PROVE CInv'
  OBVIOUS
<1>1. CASE UNCHANGED cvars
  BY <1>1, CommandStepInv
<1>2. CASE EncodeStep
  BY <1>2, CommandStepInv DEF EncodeStep
<1>3. CASE EncodeEnds
  <2>1. /\ call' = "called" /\ why' = "ok" /\ child' = "none" /\ success' = FALSE /\ heir' = FALSE
        /\ written' = NoLines /\ piped' = NoLines /\ sent' = NoLines /\ told' = NoLines
        /\ reader' = [s \in Streams |-> "none"] /\ broken' = {} /\ cancelled' = cancelled
    BY <1>3 DEF EncodeEnds
  <2>2. NoLines \in Counts /\ \A s \in Streams : NoLines[s] = 0
    BY DEF NoLines, Counts
  <2>3. Conserved'
    BY <2>1, <2>2 DEF Conserved, CountsOK, LinesConserved
  <2>4. ControlOK'
    BY <2>1 DEF CInv, ControlOK, Steps, Reasons
  <2>5. ReadersHonest' /\ CallerKnows'
    BY <2>1 DEF ReadersHonest, CallerKnows, Streams
  <2>. QED
    BY <2>3, <2>4, <2>5 DEF CInv
<1>4. CASE RequestCancel
  <2>1. Cancel
    BY <1>4 DEF RequestCancel, Cancel
  <2>. QED
    BY <2>1, OutsideInv
<1>. QED
  BY <1>1, <1>2, <1>3, <1>4
     DEF Next, vars, PreviewStep, CloseStep, FinishReview, EncodeCopy, Breaks, BuildEpub, Validate, Done

(* Whatever the preview, the user and the other stages do meanwhile, a     *)
(* call that has returned has left nothing running and lost no line.       *)
THEOREM EncodeReturnsClean == Spec => []CommandReturns
<1>1. Init => CInv
  BY CommandInitInv DEF Init
<1>2. Spec => []CInv
  BY <1>1, FinishingStepCall, PTL DEF Spec
<1>. QED
  BY <1>2, CInvReturns, PTL

-----------------------------------------------------------------------------
(* Names that are new.                                                     *)

(* More numbers than things: two numbers get the same thing.               *)
LEMMA PigeonHole ==
  ASSUME NEW S, IsFiniteSet(S), NEW f, f \in [1..(Cardinality(S) + 1) -> S]
  PROVE  \E j, k \in 1..(Cardinality(S) + 1) : j # k /\ f[j] = f[k]
<1>1. Cardinality(S) \in Nat
  BY FS_CardinalityType
<1>2. IsFiniteSet(1..(Cardinality(S) + 1)) /\ Cardinality(1..(Cardinality(S) + 1)) = Cardinality(S) + 1
  BY <1>1, FS_Interval
<1>. QED
  BY <1>1, <1>2, FS_PigeonHole

(* unique_id never returns an id that is used.                             *)
LEMMA UniqueIdFresh ==
  ASSUME NEW base, NEW used, IsFiniteSet(used)
  PROVE  UniqueId(base, used) \notin used
<1> DEFINE numbers == 1..(Cardinality(used) + 1)
           free == {k \in numbers : <<base, k>> \notin used}
<1>1. free # {}
  <2> SUFFICES ASSUME free = {} PROVE FALSE
    OBVIOUS
  <2> DEFINE f == [k \in numbers |-> <<base, k>>]
  <2>1. f \in [numbers -> used]
    OBVIOUS
  <2>2. PICK j, k \in numbers : j # k /\ f[j] = f[k]
    <3> HIDE DEF f
    <3>. QED
      BY <2>1, PigeonHole
  <2>. QED
    BY <2>2
<1>2. free \in SUBSET Nat
  <2>1. Cardinality(used) \in Nat
    BY FS_CardinalityType
  <2>. QED
    BY <2>1
<1>3. \E k \in free : \A j \in free : k <= j
  BY <1>1, <1>2, LeastNumber
<1>4. (CHOOSE k \in free : \A j \in free : k <= j) \in free
  BY <1>3
<1>. QED
  BY <1>4 DEF UniqueId

(* unique_resource_root: nothing in the source is where the new files go.  *)
LEMMA RootIsFree ==
  ASSUME NEW files, files \in Seq(Range(files))
  PROVE  /\ \A path \in Range(files) : path[1] # UniqueResourceRoot(files)
         /\ UniqueResourceRoot(files) # 0
<1> DEFINE numbers == 1..(Len(files) + 1)
           free == {k \in numbers : \A path \in Range(files) : path[1] # k}
<1>1. Len(files) \in Nat /\ DOMAIN files = 1..Len(files)
  OBVIOUS
<1>2. free # {}
  <2> SUFFICES ASSUME free = {} PROVE FALSE
    OBVIOUS
  <2> DEFINE At(k) == CHOOSE i \in 1..Len(files) : files[i][1] = k
             f == [k \in numbers |-> At(k)]
  <2>1. \A k \in numbers : At(k) \in 1..Len(files) /\ files[At(k)][1] = k
    <3> TAKE k \in numbers
    <3>1. PICK path \in Range(files) : path[1] = k
      OBVIOUS
    <3>2. PICK i \in 1..Len(files) : files[i] = path
      BY <1>1 DEF Range
    <3>3. files[i][1] = k
      BY <3>1, <3>2
    <3>. QED
      BY <3>3
  <2>2. f \in [numbers -> 1..Len(files)] /\ \A k \in numbers : f[k] = At(k)
    BY <2>1
  <2>3. IsFiniteSet(1..Len(files)) /\ Cardinality(1..Len(files)) = Len(files)
    BY <1>1, FS_Interval
  <2>4. \E j, k \in numbers : j # k /\ f[j] = f[k]
    <3> HIDE DEF f, At
    <3>1. numbers = 1..(Cardinality(1..Len(files)) + 1)
      BY <2>3
    <3>. QED
      BY <2>2, <2>3, <3>1, PigeonHole
  <2>. QED
    <3> HIDE DEF At
    <3>. QED
      BY <2>1, <2>2, <2>4
<1>3. free \in SUBSET Nat
  BY <1>1
<1>4. \E k \in free : \A j \in free : k <= j
  BY <1>2, <1>3, LeastNumber
<1>5. (CHOOSE k \in free : \A j \in free : k <= j) \in free
  BY <1>4
<1>. QED
  BY <1>5 DEF UniqueResourceRoot

-----------------------------------------------------------------------------
(* The documents.                                                          *)

(* What pushing ids does to a document.                                    *)
LEMMA PushedAllKeeps ==
  ASSUME NEW d, NEW ids, "id" \in DOMAIN d
  PROVE  LET e == PushedAll(d, ids)
         IN  /\ DOMAIN e = DOMAIN d
             /\ \A field \in DOMAIN d \ {"id"} : e[field] = d[field]
             /\ DOMAIN e.id = DOMAIN d.id
             /\ \A n \in DOMAIN d.id : d.id[n] \in {None, e.id[n]}
<1> DEFINE pushed == [n \in DOMAIN d.id |-> IF n \in DOMAIN ids THEN Pushed(d, n, ids[n]).id[n] ELSE d.id[n]]
           e == PushedAll(d, ids)
<1>1. e = [d EXCEPT !.id = pushed]
  BY DEF PushedAll
<1>2. ASSUME NEW n \in DOMAIN d.id, NEW id, d.id[n] # None PROVE Pushed(d, n, id).id[n] = d.id[n]
  BY <1>2 DEF Pushed
<1>3. \A n \in DOMAIN d.id : d.id[n] \in {None, pushed[n]}
  BY <1>2
<1>4. /\ DOMAIN e = DOMAIN d /\ e.id = pushed
      /\ \A field \in DOMAIN d \ {"id"} : e[field] = d[field]
  <2> HIDE DEF pushed
  <2>. QED
    BY <1>1
<1>. QED
  BY <1>3, <1>4

(* d with new ids is e: all but the ids is kept, and so is every id.       *)
Keeps(d, e) ==
  /\ "id" \in DOMAIN e
  /\ [e EXCEPT !.id = None] = [d EXCEPT !.id = None]
  /\ DOMAIN e.id = DOMAIN d.id
  /\ \A n \in DOMAIN d.id : d.id[n] \in {None, e.id[n]}

LEMMA AnnotatedKeeps ==
  ASSUME NEW book, NEW n, NEW path, "id" \in DOMAIN book.docs[path]
  PROVE  Keeps(book.docs[path], Annotated(book, n, path))
<1> DEFINE d == book.docs[path]
           e == TextAnnotated(book, n, path)
           g == Annotated(book, n, path)
<1>1. \E ids : e = PushedAll(d, ids)
  BY DEF TextAnnotated, WithBlockAnchors
<1>2. /\ DOMAIN e = DOMAIN d
      /\ \A field \in DOMAIN d \ {"id"} : e[field] = d[field]
      /\ DOMAIN e.id = DOMAIN d.id
      /\ \A k \in DOMAIN d.id : d.id[k] \in {None, e.id[k]}
  <2> HIDE DEF e, d
  <2>. QED
    BY <1>1, PushedAllKeeps DEF d
<1>3. \E ids : g = PushedAll(e, ids)
  BY DEF Annotated, WithImageAnchors
<1>4. /\ DOMAIN g = DOMAIN e
      /\ \A field \in DOMAIN e \ {"id"} : g[field] = e[field]
      /\ DOMAIN g.id = DOMAIN e.id
      /\ \A k \in DOMAIN e.id : e.id[k] \in {None, g.id[k]}
  <2>1. "id" \in DOMAIN e
    BY <1>2
  <2> HIDE DEF e, g
  <2>. QED
    BY <1>3, <2>1, PushedAllKeeps
<1> HIDE DEF d, e, g
<1>5. DOMAIN g = DOMAIN d /\ \A field \in DOMAIN d \ {"id"} : g[field] = d[field]
  BY <1>2, <1>4
<1>6. [g EXCEPT !.id = None] = [d EXCEPT !.id = None]
  BY <1>5
<1>7. \A k \in DOMAIN d.id : d.id[k] \in {None, g.id[k]}
  BY <1>2, <1>4
<1>8. "id" \in DOMAIN g /\ DOMAIN g.id = DOMAIN d.id
  BY <1>2, <1>4, <1>5 DEF d
<1>9. Keeps(d, g)
  BY <1>6, <1>7, <1>8 DEF Keeps
<1>. QED
  BY <1>9 DEF d, g

(* What is built is built from a book and a narration.                     *)
BuiltStages == {"validate", "completed", "rejected", "refused"}

BuiltFromBook ==
  stage \in BuiltStages =>
    /\ made.book \in Books /\ made.narration \in Narrations
    /\ Extractable(made.book) /\ Narrates(made.book, made.narration)
    /\ IF stage = "refused" THEN ~Buildable(made.book, made.narration)
       ELSE Buildable(made.book, made.narration) /\ made.epub = Built(made.book, made.narration)
    /\ stage = "completed" => Valid(made.epub)
    /\ stage = "rejected" => ~Valid(made.epub)

LEMMA BuiltIsMade == ASSUME NEW book, NEW n PROVE Built(book, n) # None
<1>1. "entries" \in DOMAIN Built(book, n) /\ DOMAIN None = {}
  BY DEF Built, None
<1>. QED
  BY <1>1

LEMMA BuildMakes == ASSUME BuildEpub PROVE BuiltFromBook'
<1>1. PICK book \in Books, narration \in Narrations :
        /\ Extractable(book) /\ Narrates(book, narration)
        /\ LET epub == IF Buildable(book, narration) THEN Built(book, narration) ELSE None
           IN  /\ made' = [book |-> book, narration |-> narration, epub |-> epub]
               /\ stage' = IF epub # None THEN "validate" ELSE "refused"
  BY Zenon DEF BuildEpub
<1>2. CASE Buildable(book, narration)
  <2>1. /\ made' = [book |-> book, narration |-> narration, epub |-> Built(book, narration)]
        /\ stage' = "validate"
    BY <1>1, <1>2, BuiltIsMade
  <2>. QED
    BY <1>1, <1>2, <2>1 DEF BuiltFromBook
<1>3. CASE ~Buildable(book, narration)
  <2>1. /\ made' = [book |-> book, narration |-> narration, epub |-> None]
        /\ stage' = "refused"
    BY <1>1, <1>3
  <2>. QED
    BY <1>1, <1>3, <2>1 DEF BuiltFromBook
<1>. QED
  BY <1>2, <1>3

LEMMA BuiltFromBookStep == BuiltFromBook /\ [Next]_vars => BuiltFromBook'
<1> SUFFICES ASSUME BuiltFromBook, [Next]_vars PROVE BuiltFromBook'
  OBVIOUS
<1>1. CASE BuildEpub
  BY <1>1, BuildMakes
<1>2. CASE Validate
  BY <1>2 DEF BuiltFromBook, BuiltStages, Validate
<1>3. CASE made' = made /\ stage' = stage
  BY <1>3 DEF BuiltFromBook
<1>4. CASE stage' \notin BuiltStages
  BY <1>4 DEF BuiltFromBook
<1>5. PreviewStep \/ CloseStep \/ FinishReview \/ EncodeCopy \/ EncodeEnds \/ Breaks
        => stage' \notin BuiltStages
  BY DEF PreviewStep, CloseStep, FinishReview, EncodeCopy, EncodeEnds, Breaks, Stopped, BuiltStages
<1>6. EncodeStep \/ RequestCancel \/ Done \/ UNCHANGED vars => made' = made /\ stage' = stage
  BY DEF EncodeStep, RequestCancel, Done, vars
<1>. QED
  BY <1>1, <1>2, <1>3, <1>4, <1>5, <1>6 DEF Next

LEMMA BuiltAlways == Spec => []BuiltFromBook
<1>1. Init => BuiltFromBook
  BY DEF Init, BuiltFromBook, BuiltStages
<1>. QED
  BY <1>1, BuiltFromBookStep, PTL DEF Spec

LEMMA BuiltKeepsDocuments == BuiltFromBook => DocumentsKept
<1> SUFFICES ASSUME BuiltFromBook, stage \in {"validate", "completed", "rejected"},
                    NEW path \in DOMAIN made.book.docs
             PROVE  IF path \in Synchronized THEN OnlyIdsAdded(path) ELSE Candidate(path) = Source(path)
  BY DEF DocumentsKept
<1> DEFINE book == made.book
           n == made.narration
           root == UniqueResourceRoot(book.files)
           pages == {PagePath(root, page) : page \in n.pages}
<1>1. book \in Books /\ made.epub = Built(book, n)
  BY DEF BuiltFromBook, BuiltStages
<1>2. /\ book.files \in Seq(Range(book.files)) /\ path \in Range(book.files)
      /\ "id" \in DOMAIN book.docs[path]
  BY <1>1, BooksAssumption DEF IsBook, IsDocument
<1>3. path \notin pages
  <2>1. path[1] # root
    BY <1>2, RootIsFree
  <2>2. \A page \in n.pages : PagePath(root, page)[1] = root
    BY DEF PagePath
  <2>. QED
    BY <2>1, <2>2
<1>4. Candidate(path) = IF path \in Synchronized THEN Annotated(book, n, path) ELSE book.docs[path]
  <2>1. made.epub.docs =
          [p \in DOMAIN book.docs \cup pages |->
             IF p \in pages THEN PageXhtml(p[3])
             ELSE IF p \in Range(SynchronizedDocs(book, n)) THEN Annotated(book, n, p) ELSE book.docs[p]]
    BY <1>1 DEF Built
  <2> HIDE DEF book, n, root, pages
  <2>. QED
    BY <1>3, <2>1 DEF Candidate, Synchronized, book, n
<1>5. CASE path \in Synchronized
  <2>1. Keeps(book.docs[path], Annotated(book, n, path))
    BY <1>2, AnnotatedKeeps
  <2>. QED
    BY <1>4, <1>5, <2>1 DEF Keeps, OnlyIdsAdded, Source
<1>6. CASE path \notin Synchronized
  BY <1>4, <1>6 DEF Source
<1>. QED
  BY <1>5, <1>6

-----------------------------------------------------------------------------
(* What a book has.                                                        *)

(* The prover is told what it needs of a book in parts.                    *)
LEMMA BookFacts ==
  ASSUME NEW book, IsBook(book)
  PROVE  /\ book.items \in Seq(Range(book.items)) /\ DOMAIN book.items = 1..Len(book.items)
         /\ Len(book.items) \in Nat
         /\ book.spine \in Seq(Range(book.spine)) /\ DOMAIN book.spine = 1..Len(book.spine)
         /\ Len(book.spine) \in Nat
         /\ book.files \in Seq(Range(book.files)) /\ IsFiniteSet(book.ids)
BY DEF IsBook

(* No place of the spine names what another one does.                      *)
LEMMA SpineOnce ==
  ASSUME NEW book, IsBook(book), NEW i \in DOMAIN book.spine, NEW j \in DOMAIN book.spine, i # j
  PROVE  /\ book.spine[i].idref # book.spine[j].idref
         /\ {book.spine[i].idref, book.spine[j].idref} \subseteq ListedIds(book)
              => ItemOf(book, book.spine[i].idref).path # ItemOf(book, book.spine[j].idref).path
BY DEF IsBook

LEMMA GreatestPosition ==
  ASSUME NEW m \in Nat, NEW S \in SUBSET (1..m), S # {}
  PROVE  (CHOOSE i \in S : \A j \in S : j <= i) \in S
<1>1. S \in SUBSET Nat
  OBVIOUS
<1>2. IsFiniteSet(S)
  <2>1. IsFiniteSet(1..m)
    BY FS_Interval
  <2>. QED
    BY <2>1, FS_Subset
<1>3. \E i \in S : \A j \in S : j <= i
  BY <1>1, <1>2, GreatestNumber
<1>. QED
  BY <1>3

LEMMA ListedIsUsed ==
  ASSUME NEW book, NEW id \in ListedIds(book)
  PROVE  id \in UsedIds(book)
BY DEF ListedIds, Listed, UsedIds, Range

LEMMA ItemOfFacts ==
  ASSUME NEW book, IsBook(book), NEW id \in ListedIds(book)
  PROVE  \E k \in Listed(book) : ItemOf(book, id) = book.items[k] /\ ItemOf(book, id).id = id
<1> DEFINE of == {i \in Listed(book) : book.items[i].id = id}
           m == Len(book.items)
<1>1. m \in Nat /\ DOMAIN book.items = 1..m
  BY BookFacts
<1>2. of \in SUBSET (1..m) /\ of # {}
  BY <1>1 DEF ListedIds, Listed
<1>3. (CHOOSE i \in of : \A j \in of : j <= i) \in of
  <2> HIDE DEF of, m
  <2>. QED
    BY <1>1, <1>2, GreatestPosition
<1>4. PICK k \in of : ItemOf(book, id) = book.items[k]
  BY <1>3 DEF ItemOf
<1>. QED
  BY <1>4

LEMMA XhtmlIdFacts ==
  ASSUME NEW book, IsBook(book), NEW path, XhtmlItems(book, path) # {}
  PROVE  \E i \in XhtmlItems(book, path) : XhtmlId(book, path) = book.items[i].id
<1> DEFINE m == Len(book.items)
<1>1. m \in Nat /\ DOMAIN book.items = 1..m
  BY BookFacts
<1>2. XhtmlItems(book, path) \in SUBSET (1..m)
  BY <1>1 DEF XhtmlItems, Listed
<1>3. (CHOOSE i \in XhtmlItems(book, path) : \A j \in XhtmlItems(book, path) : j <= i) \in XhtmlItems(book, path)
  <2> HIDE DEF m
  <2>. QED
    BY <1>1, <1>2, GreatestPosition
<1>. QED
  BY <1>3 DEF XhtmlId

LEMMA UsedIdsFinite == ASSUME NEW book, IsBook(book) PROVE IsFiniteSet(UsedIds(book))
<1> DEFINE idOf == [item \in Range(book.items) |-> item.id]
           at == [i \in DOMAIN book.items |-> book.items[i].id]
<1>1. IsFiniteSet(DOMAIN book.items)
  <2>1. 1 \in Int /\ Len(book.items) \in Int /\ DOMAIN book.items = 1..Len(book.items)
    BY BookFacts
  <2>. QED
    BY <2>1, FS_Interval
<1>2. DOMAIN book.items \subseteq DOMAIN at
  OBVIOUS
<1>3. IsFiniteSet({at[i] : i \in DOMAIN book.items})
  <2> HIDE DEF at
  <2>. QED
    BY <1>1, <1>2, ImageFinite
<1>4. {at[i] : i \in DOMAIN book.items} = {item.id : item \in Range(book.items)}
  BY DEF Range
<1>5. IsFiniteSet({item.id : item \in Range(book.items)} \ {None})
  BY <1>3, <1>4, FS_Subset
<1>. QED
  BY <1>5, BookFacts, FS_Union DEF UsedIds

(* An invented id has the base it was asked for, so that what is invented  *)
(* for different things is different.                                      *)
LEMMA UniqueIdBase == ASSUME NEW base, NEW used PROVE UniqueId(base, used)[1] = base
BY DEF UniqueId

(* The ids that go into the package are new and differ from each other.    *)
LEMMA PackageIds ==
  ASSUME NEW book, IsBook(book), NEW n, NEW path, NEW page
  PROVE  /\ {OverlayId(book, n, path), AudioId(book), PageId(book, page), PageOverlayId(book, page)}
              \cap UsedIds(book) = {}
         /\ OverlayId(book, n, path)[1] = <<"stl-mo", SectionNumber(book, n, path), 0>>
         /\ AudioId(book)[1] = <<"stl-audio", 0, 0>>
         /\ PageId(book, page)[1] = <<"stl-extra-page", page.item, 0>>
         /\ PageOverlayId(book, page)[1] = <<"stl-extra-mo", page.item, 0>>
<1>1. IsFiniteSet(UsedIds(book))
  BY UsedIdsFinite
<1>. QED
  BY <1>1, UniqueIdFresh, UniqueIdBase DEF OverlayId, AudioId, PageId, PageOverlayId

(* The documents of the corpus: of each there is a linear place in the     *)
(* spine and an item, and it has lines.                                    *)
LEMMA SectionsFacts ==
  ASSUME NEW book, IsBook(book), Extractable(book)
  PROVE  /\ Sections(book) \in Seq(DOMAIN book.docs) /\ IsInjective(Sections(book))
         /\ \A path \in Range(Sections(book)) :
              /\ XhtmlItems(book, path) # {} /\ LineCount(book.docs[path], CorpusText) > 0
<1> DEFINE T == {r \in Range(book.spine) : Read(book, r)}
           read == Among(book.spine, T)
           s == Sections(book)
<1>1. book.spine \in Seq(Range(book.spine))
  BY BookFacts
<1>2. read \in Seq(Range(book.spine)) /\ \A r : r \in Range(read) <=> r \in Range(book.spine) /\ r \in T
  <2> HIDE DEF T
  <2>. QED
    BY <1>1, AmongFacts
<1>3. \E at : Selects(at, read, book.spine, T)
  <2> HIDE DEF T
  <2>. QED
    BY <1>1, AmongSelects
<1>4. s = [i \in DOMAIN read |-> ItemOf(book, read[i].idref).path]
  BY DEF Sections
<1>5. \A r \in T : /\ r \in Range(book.spine) /\ r.linear
                   /\ ItemOf(book, r.idref).type = "xhtml" /\ ~ItemOf(book, r.idref).nav
                   /\ LineCount(book.docs[ItemOf(book, r.idref).path], CorpusText) > 0
  BY DEF Read
<1> HIDE DEF T, read, s
<1>6. ASSUME NEW r \in T
      PROVE  /\ r.idref \in ListedIds(book)
             /\ \E k \in Listed(book) : ItemOf(book, r.idref) = book.items[k]
             /\ ItemOf(book, r.idref).path \in DOMAIN book.docs
  <2>1. PICK k \in DOMAIN book.spine : book.spine[k] = r
    BY <1>5 DEF Range
  <2>2. /\ r.idref \in ListedIds(book)
        /\ ItemOf(book, r.idref).path \in DOMAIN book.docs
    BY <1>5, <2>1 DEF Extractable
  <2>. QED
    BY <2>2, ItemOfFacts
<1>7. DOMAIN read = 1..Len(read) /\ Len(read) \in Nat /\ \A i \in 1..Len(read) : read[i] \in T
  <2>1. \A i \in 1..Len(read) : read[i] \in Range(read)
    BY <1>2 DEF Range
  <2>. QED
    BY <1>2, <2>1
<1>8. DOMAIN s = 1..Len(read) /\ \A i \in 1..Len(read) : s[i] = ItemOf(book, read[i].idref).path
  BY <1>4, <1>7
<1>9. s \in Seq(DOMAIN book.docs)
  <2>1. \A i \in 1..Len(read) : s[i] \in DOMAIN book.docs
    BY <1>6, <1>7, <1>8
  <2>2. s = [i \in 1..Len(read) |-> s[i]]
    BY <1>4, <1>7
  <2>3. s \in [1..Len(read) -> DOMAIN book.docs]
    BY <2>1, <2>2
  <2>. QED
    BY <1>7, <2>3
<1>10. IsInjective(s)
  <2> SUFFICES ASSUME NEW i \in 1..Len(read), NEW j \in 1..Len(read), s[i] = s[j], i # j PROVE FALSE
    BY <1>8 DEF IsInjective
  <2>1. PICK at : Selects(at, read, book.spine, T)
    BY <1>3
  <2>2. /\ at[i] \in DOMAIN book.spine /\ at[j] \in DOMAIN book.spine
        /\ read[i] = book.spine[at[i]] /\ read[j] = book.spine[at[j]]
    BY <2>1, BookFacts DEF Selects
  <2>3. at[i] # at[j]
    <3>1. i < j \/ j < i
      BY <1>7
    <3>2. at[i] < at[j] \/ at[j] < at[i]
      BY <2>1, <3>1 DEF Selects
    <3>3. at[i] \in Nat /\ at[j] \in Nat
      BY <2>2, BookFacts
    <3>. QED
      BY <3>2, <3>3
  <2>4. /\ read[i] \in T /\ read[j] \in T /\ s[i] = ItemOf(book, read[i].idref).path
        /\ s[j] = ItemOf(book, read[j].idref).path
    BY <1>7, <1>8
  <2>5. {read[i].idref, read[j].idref} \subseteq ListedIds(book)
    BY <1>6, <2>4
  <2>. QED
    <3>1. ItemOf(book, book.spine[at[i]].idref).path # ItemOf(book, book.spine[at[j]].idref).path
      BY <2>2, <2>3, <2>5, SpineOnce
    <3>. QED
      BY <2>2, <2>4, <3>1
<1>11. ASSUME NEW path \in Range(s)
       PROVE  XhtmlItems(book, path) # {} /\ LineCount(book.docs[path], CorpusText) > 0
  <2>1. PICK i \in 1..Len(read) : path = ItemOf(book, read[i].idref).path /\ read[i] \in T
    BY <1>7, <1>8 DEF Range
  <2>2. ItemOf(book, read[i].idref).type = "xhtml" /\ LineCount(book.docs[path], CorpusText) > 0
    BY <1>5, <2>1
  <2>3. PICK k \in Listed(book) : book.items[k] = ItemOf(book, read[i].idref)
    BY <1>6, <2>1
  <2>. QED
    BY <2>1, <2>2, <2>3 DEF XhtmlItems
<1>. QED
  BY <1>9, <1>10, <1>11 DEF s

(* The documents with an image and no text have an order.                  *)
LEMMA ExtraFacts ==
  ASSUME NEW book, IsBook(book), NEW n, IsNarration(n), Narrates(book, n)
  PROVE  /\ IsFiniteSet(Extra(book, n)) /\ Extra(book, n) \subseteq DOMAIN book.docs
         /\ \A x \in Extra(book, n) : x[3] \in Nat /\ XhtmlItems(book, x) # {}
         /\ \A x, y \in Extra(book, n) : x[3] = y[3] => x = y
<1> DEFINE hrefs == [g \in n.graphics |-> g.href]
<1>1. IsFiniteSet({hrefs[g] : g \in n.graphics})
  <2>1. IsFiniteSet(n.graphics) /\ n.graphics \subseteq DOMAIN hrefs
    BY DEF IsNarration
  <2> HIDE DEF hrefs
  <2>. QED
    BY <2>1, ImageFinite
<1>2. Extra(book, n) \subseteq {hrefs[g] : g \in n.graphics}
  BY DEF Extra
<1>3. IsFiniteSet(Extra(book, n))
  BY <1>1, <1>2, FS_Subset
<1>4. \A x \in Extra(book, n) : x \in DOMAIN book.docs /\ XhtmlItems(book, x) # {}
  BY DEF Extra, Narrates, Illustrates
<1>5. /\ \A path \in DOMAIN book.docs : path[3] \in Nat
      /\ \A x, y \in DOMAIN book.docs : x[3] = y[3] => x = y
  BY DEF IsBook
<1>. QED
  BY <1>3, <1>4, <1>5

(* The synchronized documents: those the narration names, each once.       *)
LEMMA DocsFacts ==
  ASSUME NEW book, IsBook(book), NEW n, IsNarration(n), Extractable(book), Narrates(book, n)
  PROVE  /\ SynchronizedDocs(book, n) \in Seq(DOMAIN book.docs) /\ IsInjective(SynchronizedDocs(book, n))
         /\ Range(SynchronizedDocs(book, n)) = {t.href : t \in n.text} \cup {g.href : g \in n.graphics}
         /\ \A path \in Range(SynchronizedDocs(book, n)) : path \in DOMAIN book.docs /\ XhtmlItems(book, path) # {}
<1> DEFINE narrated == {t.href : t \in n.text} \cup {g.href : g \in n.graphics}
           s == Among(Sections(book), narrated)
           E == Extra(book, n)
           at == [x \in E |-> x[3]]
           t == InOrder(E, at)
           D == DOMAIN book.docs
<1>1. Sections(book) \in Seq(D) /\ IsInjective(Sections(book))
  BY SectionsFacts
<1>2. /\ s \in Seq(D) /\ IsInjective(s)
      /\ \A x : x \in Range(s) <=> x \in Range(Sections(book)) /\ x \in narrated
  <2> HIDE DEF narrated, D
  <2>. QED
    BY <1>1, AmongFacts
<1>3. t \in Seq(E) /\ IsInjective(t) /\ Range(t) = E
  <2>1. (\A x \in E : at[x] = x[3]) /\ (\A x \in E : at[x] \in Int) /\ \A x, y \in E : at[x] = at[y] => x = y
    BY ExtraFacts
  <2>2. IsFiniteSet(E)
    BY ExtraFacts
  <2> HIDE DEF at, E
  <2>. QED
    BY <2>1, <2>2, SortedFacts
<1>4. t \in Seq(D)
  <2>1. E \subseteq D
    BY ExtraFacts
  <2> HIDE DEF t, E, D
  <2>. QED
    BY <1>3, <2>1
<1>5. E = {g.href : g \in n.graphics} \ Range(Sections(book))
  BY DEF Extra
<1>6. {x.href : x \in n.text} \subseteq Range(Sections(book))
  BY DEF Narrates
<1>7. SynchronizedDocs(book, n) = Joined(s, t)
  BY DEF SynchronizedDocs, Joined
<1>8. Range(s) \cap Range(t) = {} /\ Range(s) \cup Range(t) = narrated
  <2> HIDE DEF s, t
  <2>. QED
    BY <1>2, <1>3, <1>5, <1>6
<1>9. /\ Joined(s, t) \in Seq(D) /\ IsInjective(Joined(s, t)) /\ Range(Joined(s, t)) = narrated
  <2> HIDE DEF s, t, narrated, D
  <2>1. s \in Seq(D) /\ t \in Seq(D) /\ IsInjective(s) /\ IsInjective(t)
    BY <1>2, <1>3, <1>4
  <2>2. Joined(s, t) \in Seq(D) /\ Range(Joined(s, t)) = Range(s) \cup Range(t)
    BY <2>1, JoinedFacts
  <2>3. IsInjective(Joined(s, t))
    BY <1>8, <2>1, JoinedFacts
  <2>. QED
    BY <1>8, <2>2, <2>3
<1>10. ASSUME NEW path \in Range(Joined(s, t)) PROVE path \in D /\ XhtmlItems(book, path) # {}
  <2>1. path \in Range(Sections(book)) \/ path \in E
    <3> HIDE DEF s, t, E
    <3>. QED
      BY <1>2, <1>3, <1>8, <1>9, <1>10
  <2>2. path \in D
    <3>1. Range(Sections(book)) \subseteq D
      BY <1>1 DEF Range
    <3>. QED
      BY <2>1, <3>1, ExtraFacts
  <2>. QED
    BY <2>1, <2>2, SectionsFacts, ExtraFacts
<1>. QED
  BY <1>7, <1>9, <1>10

-----------------------------------------------------------------------------
(* The spine: each place of the source with the pages before and after it. *)

PagesAt(book, n, i, before) ==
  {page \in n.pages : XhtmlId(book, page.href) = book.spine[i].idref /\ page.before = before}
BeforeOf(book, n, i) == ByItem(PagesAt(book, n, i, TRUE))
AfterOf(book, n, i) == ByItem(PagesAt(book, n, i, FALSE))

RefTo(book, page) == [idref |-> PageId(book, page), linear |-> TRUE]
RefsTo(book, pages) == [j \in DOMAIN pages |-> RefTo(book, pages[j])]
RowOf(book, n, i) == RefsTo(book, BeforeOf(book, n, i)) \o << book.spine[i] >> \o RefsTo(book, AfterOf(book, n, i))
Rows(book, n) == [i \in DOMAIN book.spine |-> RowOf(book, n, i)]

AnyRef(book, n) == Range(book.spine) \cup {RefTo(book, page) : page \in n.pages}

LEMMA SpineIsRows == ASSUME NEW book, NEW n PROVE Spine(book, n) = FlattenSeq(Rows(book, n))
BY DEF Spine, Rows, RowOf, RefsTo, RefTo, BeforeOf, AfterOf, PagesAt

LEMMA ByItemFacts ==
  ASSUME NEW n, IsNarration(n), NEW pages \in SUBSET n.pages
  PROVE  /\ ByItem(pages) \in Seq(pages) /\ Len(ByItem(pages)) \in Nat
         /\ DOMAIN ByItem(pages) = 1..Len(ByItem(pages))
         /\ IsInjective(ByItem(pages)) /\ Range(ByItem(pages)) = pages
<1> DEFINE at == [page \in pages |-> page.item]
<1>1. IsFiniteSet(pages)
  <2>1. IsFiniteSet(n.pages)
    BY DEF IsNarration
  <2>. QED
    BY <2>1, FS_Subset
<1>2. \A x \in pages : at[x] = x.item /\ x.item \in Nat
  <2>1. \A x \in n.pages : x.item \in Nat
    BY DEF IsNarration
  <2>. QED
    BY <2>1
<1>3. \A x, y \in n.pages : x.item = y.item => x = y
  BY DEF IsNarration
<1>4. (\A x \in pages : at[x] \in Int) /\ \A x, y \in pages : at[x] = at[y] => x = y
  BY <1>2, <1>3
<1>5. ByItem(pages) = InOrder(pages, at)
  BY DEF ByItem
<1> HIDE DEF at
<1>6. ByItem(pages) \in Seq(pages) /\ IsInjective(ByItem(pages)) /\ Range(ByItem(pages)) = pages
  BY <1>1, <1>4, <1>5, SortedFacts
<1>. QED
  BY <1>6

LEMMA RefsFacts ==
  ASSUME NEW book, NEW n, NEW pages \in Seq(n.pages)
  PROVE  /\ RefsTo(book, pages) \in Seq(AnyRef(book, n)) /\ Len(RefsTo(book, pages)) = Len(pages)
         /\ \A j \in 1..Len(pages) : RefsTo(book, pages)[j].idref = PageId(book, pages[j])
<1> DEFINE refs == RefsTo(book, pages)
<1>1. Len(pages) \in Nat /\ DOMAIN pages = 1..Len(pages) /\ \A j \in 1..Len(pages) : pages[j] \in n.pages
  OBVIOUS
<1>2. refs = [j \in 1..Len(pages) |-> RefTo(book, pages[j])]
  BY <1>1 DEF RefsTo
<1>3. \A j \in 1..Len(pages) : refs[j] \in AnyRef(book, n) /\ refs[j].idref = PageId(book, pages[j])
  <2>1. \A page : RefTo(book, page).idref = PageId(book, page)
    BY DEF RefTo
  <2>2. \A j \in 1..Len(pages) : refs[j] = RefTo(book, pages[j])
    BY <1>2
  <2>. QED
    BY <1>1, <2>1, <2>2 DEF AnyRef
<1>4. refs \in [1..Len(pages) -> AnyRef(book, n)]
  <2>1. refs = [j \in 1..Len(pages) |-> refs[j]]
    BY <1>2
  <2>. QED
    BY <1>3, <2>1
<1> HIDE DEF refs
<1>5. refs \in Seq(AnyRef(book, n)) /\ Len(refs) = Len(pages)
  BY <1>1, <1>4
<1>. QED
  BY <1>3, <1>5 DEF refs

IsRow(book, i, row, b, a) ==
  /\ Len(b) \in Nat /\ Len(a) \in Nat /\ Len(row) = Len(b) + 1 + Len(a)
  /\ \A j \in 1..Len(b) : row[j].idref = PageId(book, b[j])
  /\ row[Len(b) + 1] = book.spine[i]
  /\ \A j \in 1..Len(a) : row[Len(b) + 1 + j].idref = PageId(book, a[j])

LEMMA RowFacts ==
  ASSUME NEW book, IsBook(book), NEW n, IsNarration(n), NEW i \in DOMAIN book.spine
  PROVE  /\ RowOf(book, n, i) \in Seq(AnyRef(book, n))
         /\ IsRow(book, i, RowOf(book, n, i), BeforeOf(book, n, i), AfterOf(book, n, i))
<1> DEFINE b == BeforeOf(book, n, i)
           a == AfterOf(book, n, i)
           rb == RefsTo(book, b)
           ra == RefsTo(book, a)
           own == << book.spine[i] >>
           front == Joined(rb, own)
           row == RowOf(book, n, i)
           X == AnyRef(book, n)
<1>1. b \in Seq(n.pages) /\ a \in Seq(n.pages) /\ Len(b) \in Nat /\ Len(a) \in Nat
  <2>1. PagesAt(book, n, i, TRUE) \in SUBSET n.pages /\ PagesAt(book, n, i, FALSE) \in SUBSET n.pages
    BY DEF PagesAt
  <2>2. b \in Seq(PagesAt(book, n, i, TRUE)) /\ a \in Seq(PagesAt(book, n, i, FALSE))
    BY <2>1, ByItemFacts DEF BeforeOf, AfterOf
  <2>. QED
    BY <2>1, <2>2, SeqWiden
<1>2. row = Joined(front, ra)
  BY DEF RowOf, Joined
<1>3. book.spine[i] \in X
  BY DEF AnyRef, Range
<1>4. own \in Seq(X) /\ Len(own) = 1 /\ own[1] = book.spine[i]
  <2> HIDE DEF X
  <2>. QED
    BY <1>3
<1> HIDE DEF b, a, X, row, own
<1>5. /\ rb \in Seq(X) /\ Len(rb) = Len(b) /\ \A j \in 1..Len(b) : rb[j].idref = PageId(book, b[j])
      /\ ra \in Seq(X) /\ Len(ra) = Len(a) /\ \A j \in 1..Len(a) : ra[j].idref = PageId(book, a[j])
  BY <1>1, RefsFacts DEF X
<1> HIDE DEF rb, ra
<1>6. /\ front \in Seq(X) /\ Len(front) = Len(b) + 1
      /\ \A j \in 1..Len(b) : front[j] = rb[j]
      /\ front[Len(b) + 1] = book.spine[i]
  <2>0. rb \in Seq(X) /\ own \in Seq(X)
    BY <1>4, <1>5
  <2>1. front \in Seq(X) /\ Len(front) = Len(rb) + Len(own)
    BY <2>0, JoinedLists
  <2>3. \A j \in 1..Len(rb) : front[j] = rb[j]
    BY <2>0, JoinedLists
  <2>4. \A j \in 1..Len(own) : front[Len(rb) + j] = own[j]
    BY <2>0, JoinedLists
  <2>2. 1 \in 1..1
    OBVIOUS
  <2>. QED
    BY <1>4, <1>5, <2>1, <2>2, <2>3, <2>4
<1> HIDE DEF front
<1>7. /\ row \in Seq(X) /\ Len(row) = Len(b) + 1 + Len(a)
      /\ \A j \in 1..(Len(b) + 1) : row[j] = front[j]
      /\ \A j \in 1..Len(a) : row[Len(b) + 1 + j] = ra[j]
  <2>0. front \in Seq(X) /\ ra \in Seq(X)
    BY <1>5, <1>6
  <2>1. row \in Seq(X) /\ Len(row) = Len(front) + Len(ra)
    BY <1>2, <2>0, JoinedLists
  <2>2. \A j \in 1..Len(front) : row[j] = front[j]
    BY <1>2, <2>0, JoinedLists
  <2>3. \A j \in 1..Len(ra) : row[Len(front) + j] = ra[j]
    <3>1. \A j \in 1..Len(ra) : Joined(front, ra)[Len(front) + j] = ra[j]
      BY <2>0, JoinedLists
    <3>. QED
      BY <1>2, <3>1
  <2>. QED
    BY <1>5, <1>6, <2>1, <2>2, <2>3
<1>8. \A j \in 1..Len(b) : j \in 1..(Len(b) + 1) /\ Len(b) + 1 \in 1..(Len(b) + 1)
  BY <1>1
<1>9. row[Len(b) + 1] = book.spine[i]
  <2>1. Len(b) + 1 \in 1..(Len(b) + 1)
    BY <1>1
  <2>. QED
    BY <1>6, <1>7, <2>1
<1>. QED
  <2>1. IsRow(book, i, row, b, a)
    BY <1>1, <1>5, <1>6, <1>7, <1>8, <1>9 DEF IsRow
  <2>. QED
    BY <1>7, <2>1 DEF b, a, row, X

(* Where each entry of the new spine comes from.                           *)
Laid(row, col, book, n) ==
  LET s == Spine(book, n)
      places == 1..Len(s)
      B(i) == BeforeOf(book, n, i)
      A(i) == AfterOf(book, n, i)
  IN  /\ row \in [places -> DOMAIN book.spine] /\ col \in [places -> Nat]
      /\ \A p, q \in places : p < q => row[p] < row[q] \/ (row[p] = row[q] /\ col[p] < col[q])
      /\ \A p \in places :
           \/ col[p] \in 1..Len(B(row[p])) /\ s[p].idref = PageId(book, B(row[p])[col[p]])
           \/ col[p] = Len(B(row[p])) + 1 /\ s[p] = book.spine[row[p]]
           \/ \E j \in 1..Len(A(row[p])) :
                col[p] = Len(B(row[p])) + 1 + j /\ s[p].idref = PageId(book, A(row[p])[j])
      /\ \A i \in DOMAIN book.spine :
           \A j \in 1..(Len(B(i)) + 1 + Len(A(i))) : \E p \in places : row[p] = i /\ col[p] = j

LEMMA SpineIsLaid ==
  ASSUME NEW book, IsBook(book), NEW n, IsNarration(n)
  PROVE  Spine(book, n) \in Seq(AnyRef(book, n)) /\ \E row, col : Laid(row, col, book, n)
<1> DEFINE X == AnyRef(book, n)
           N == Len(book.spine)
           s == Spine(book, n)
           rows == Rows(book, n)
           B(i) == BeforeOf(book, n, i)
           A(i) == AfterOf(book, n, i)
<1>1. N \in Nat /\ DOMAIN book.spine = 1..N
  BY BookFacts
<1>2. \A i \in 1..N : rows[i] = RowOf(book, n, i)
  BY <1>1 DEF Rows
<1>3. rows = [i \in 1..N |-> RowOf(book, n, i)]
  BY <1>1 DEF Rows
<1>4. \A i \in 1..N : RowOf(book, n, i) \in Seq(X)
  BY <1>1, RowFacts
<1> HIDE DEF X, N, s, rows
<1>5. rows \in Seq(Seq(X)) /\ Len(rows) = N
  <2>1. rows \in [1..N -> Seq(X)]
    BY <1>3, <1>4
  <2>. QED
    BY <1>1, <2>1
<1>6. s \in Seq(X) /\ Chains(s, rows, N)
  BY <1>5, FlattenFacts, SpineIsRows DEF s, rows
<1>7. PICK row, col \in [1..Len(s) -> Nat] : Places(row, col, s, rows, N)
  BY <1>6 DEF Chains
<1>8. \A p \in 1..Len(s) : /\ row[p] \in 1..N /\ col[p] \in 1..Len(rows[row[p]])
                           /\ s[p] = rows[row[p]][col[p]]
  BY <1>7 DEF Places
<1>9. \A p, q \in 1..Len(s) : p < q => row[p] < row[q] \/ (row[p] = row[q] /\ col[p] < col[q])
  BY <1>7 DEF Places
<1>10. ASSUME NEW p \in 1..Len(s)
       PROVE  \/ col[p] \in 1..Len(B(row[p])) /\ s[p].idref = PageId(book, B(row[p])[col[p]])
              \/ col[p] = Len(B(row[p])) + 1 /\ s[p] = book.spine[row[p]]
              \/ \E j \in 1..Len(A(row[p])) :
                   col[p] = Len(B(row[p])) + 1 + j /\ s[p].idref = PageId(book, A(row[p])[j])
  <2> DEFINE i == row[p]
             c == col[p]
             w == RowOf(book, n, i)
  <2>1. i \in 1..N /\ i \in DOMAIN book.spine /\ c \in 1..Len(w) /\ s[p] = w[c]
    BY <1>1, <1>2, <1>8
  <2> HIDE DEF i, c, w
  <2>2. /\ Len(B(i)) \in Nat /\ Len(A(i)) \in Nat /\ Len(w) = Len(B(i)) + 1 + Len(A(i))
        /\ \A j \in 1..Len(B(i)) : w[j].idref = PageId(book, B(i)[j])
        /\ w[Len(B(i)) + 1] = book.spine[i]
        /\ \A j \in 1..Len(A(i)) : w[Len(B(i)) + 1 + j].idref = PageId(book, A(i)[j])
    <3>1. IsRow(book, i, w, B(i), A(i))
      BY <2>1, RowFacts DEF w
    <3> HIDE DEF B, A
    <3>. QED
      BY <3>1 DEF IsRow
  <2> HIDE DEF B, A
  <2>3. CASE c \in 1..Len(B(i))
    <3>1. s[p].idref = PageId(book, B(i)[c])
      BY <2>1, <2>2, <2>3
    <3>. QED
      BY <2>3, <3>1 DEF i, c
  <2>4. CASE c = Len(B(i)) + 1
    <3>1. s[p] = book.spine[i]
      BY <2>1, <2>2, <2>4
    <3>. QED
      BY <2>4, <3>1 DEF i, c
  <2>5. CASE c > Len(B(i)) + 1
    <3>1. c - (Len(B(i)) + 1) \in 1..Len(A(i)) /\ c = Len(B(i)) + 1 + (c - (Len(B(i)) + 1))
      BY <2>1, <2>2, <2>5
    <3>2. PICK j \in 1..Len(A(i)) : c = Len(B(i)) + 1 + j
      BY <3>1
    <3>3. s[p].idref = PageId(book, A(i)[j])
      BY <2>1, <2>2, <3>2
    <3>. QED
      BY <3>2, <3>3 DEF i, c
  <2>6. c \in 1..Len(B(i)) \/ c = Len(B(i)) + 1 \/ c > Len(B(i)) + 1
    <3>1. c \in Nat \ {0} /\ Len(B(i)) \in Nat
      BY <2>1, <2>2
    <3>. QED
      BY <3>1
  <2>. QED
    BY <2>3, <2>4, <2>5, <2>6
<1>11. ASSUME NEW i \in 1..N, NEW j \in 1..(Len(B(i)) + 1 + Len(A(i)))
       PROVE  \E p \in 1..Len(s) : row[p] = i /\ col[p] = j
  <2>0. IsRow(book, i, RowOf(book, n, i), B(i), A(i))
    BY <1>1, RowFacts
  <2>1. j \in 1..Len(rows[i])
    BY <1>1, <1>2, <2>0 DEF IsRow
  <2>. QED
    BY <1>7, <2>1 DEF Places
<1>12. row \in [1..Len(s) -> DOMAIN book.spine]
  BY <1>1, <1>8
<1>13. Laid(row, col, book, n)
  <2> HIDE DEF A, B
  <2>. QED
    BY <1>1, <1>7, <1>9, <1>10, <1>11, <1>12 DEF Laid, s, A, B
<1>. QED
  BY <1>6, <1>13 DEF s, X

(* The spine of the source names items only.                               *)
LEMMA SpineNamesItems ==
  ASSUME NEW book, IsBook(book), Extractable(book), NEW i \in DOMAIN book.spine
  PROVE  book.spine[i].idref \in UsedIds(book)
<1>1. CASE book.spine[i].linear
  <2>1. book.spine[i].idref \in ListedIds(book)
    BY <1>1 DEF Extractable
  <2>. QED
    BY <2>1, ListedIsUsed
<1>2. CASE ~book.spine[i].linear
  <2>1. \A r \in Range(book.spine) : ~r.linear => r.idref \in ListedIds(book)
    BY DEF IsBook
  <2>2. book.spine[i] \in Range(book.spine)
    BY DEF Range
  <2>. QED
    BY <1>2, <2>1, <2>2, ListedIsUsed
<1>. QED
  BY <1>1, <1>2

(* A page is recognized by its id.                                         *)
LEMMA PageIdOnce ==
  ASSUME NEW book, IsBook(book), NEW n, IsNarration(n), NEW x \in n.pages, NEW y \in n.pages,
         PageId(book, x) = PageId(book, y)
  PROVE  x = y
<1>1. <<"stl-extra-page", x.item, 0>> = <<"stl-extra-page", y.item, 0>>
  BY PackageIds
<1>2. x.item = y.item
  BY <1>1
<1>. QED
  BY <1>2 DEF IsNarration

PagesOf(book, n) == {PageId(book, page) : page \in n.pages}

(* A list of all members of S, each once.                                  *)
Lists(at, S) ==
  /\ Len(at) \in Nat
  /\ \A j \in 1..Len(at) : at[j] \in S
  /\ \A j, k \in 1..Len(at) : at[j] = at[k] => j = k
  /\ \A x \in S : \E j \in 1..Len(at) : at[j] = x

LEMMA PagesBeside ==
  ASSUME NEW n, IsNarration(n), NEW book, NEW i
  PROVE  /\ Lists(BeforeOf(book, n, i), PagesAt(book, n, i, TRUE))
         /\ Lists(AfterOf(book, n, i), PagesAt(book, n, i, FALSE))
<1>1. ASSUME NEW before \in BOOLEAN
      PROVE  Lists(ByItem(PagesAt(book, n, i, before)), PagesAt(book, n, i, before))
  <2> DEFINE S == PagesAt(book, n, i, before)
             at == ByItem(S)
  <2>1. S \in SUBSET n.pages
    BY DEF PagesAt
  <2> HIDE DEF S
  <2>2. /\ at \in Seq(S) /\ Len(at) \in Nat /\ DOMAIN at = 1..Len(at)
        /\ IsInjective(at) /\ Range(at) = S
    BY <2>1, ByItemFacts
  <2> HIDE DEF at
  <2>3. \A j \in 1..Len(at) : at[j] \in S
    BY <2>2
  <2>4. \A j, k \in 1..Len(at) : at[j] = at[k] => j = k
    BY <2>2 DEF IsInjective
  <2>5. \A page \in S : \E j \in 1..Len(at) : at[j] = page
    BY <2>2 DEF Range
  <2>6. Lists(at, S)
    BY <2>2, <2>3, <2>4, <2>5 DEF Lists
  <2>. QED
    BY <2>6 DEF at, S
<1>. QED
  BY <1>1 DEF BeforeOf, AfterOf

(* An entry of the new spine is one of the source or a page.               *)
LEMMA OwnOrPage ==
  ASSUME NEW book, IsBook(book), NEW n, IsNarration(n), Extractable(book), NEW row, NEW col,
         Laid(row, col, book, n), NEW p \in 1..Len(Spine(book, n))
  PROVE  LET own == Len(BeforeOf(book, n, row[p])) + 1
         IN  /\ col[p] = own =>
                  Spine(book, n)[p] = book.spine[row[p]] /\ Spine(book, n)[p].idref \notin PagesOf(book, n)
             /\ col[p] # own => Spine(book, n)[p].idref \in PagesOf(book, n)
<1> DEFINE i == row[p]
           c == col[p]
           r == Spine(book, n)[p]
           b == BeforeOf(book, n, i)
           a == AfterOf(book, n, i)
<1>1. /\ i \in DOMAIN book.spine
      /\ \/ c \in 1..Len(b) /\ r.idref = PageId(book, b[c])
         \/ c = Len(b) + 1 /\ r = book.spine[i]
         \/ \E j \in 1..Len(a) : c = Len(b) + 1 + j /\ r.idref = PageId(book, a[j])
  BY DEF Laid
<1> HIDE DEF i, c, r
<1>2. /\ Len(b) \in Nat /\ Len(a) \in Nat
      /\ \A j \in 1..Len(b) : b[j] \in n.pages
      /\ \A j \in 1..Len(a) : a[j] \in n.pages
  BY PagesBeside DEF PagesAt, Lists
<1>3. book.spine[i].idref \in UsedIds(book) /\ \A page : PageId(book, page) \notin UsedIds(book)
  BY <1>1, SpineNamesItems, PackageIds
<1> HIDE DEF a, b
<1>4. /\ c = Len(b) + 1 => r = book.spine[i] /\ r.idref \notin PagesOf(book, n)
      /\ c # Len(b) + 1 => r.idref \in PagesOf(book, n)
  <2>1. CASE c \in 1..Len(b) /\ r.idref = PageId(book, b[c])
    BY <1>2, <2>1 DEF PagesOf
  <2>2. CASE c = Len(b) + 1 /\ r = book.spine[i]
    BY <1>3, <2>2 DEF PagesOf
  <2>3. ASSUME NEW j \in 1..Len(a), c = Len(b) + 1 + j, r.idref = PageId(book, a[j])
        PROVE  c # Len(b) + 1 /\ r.idref \in PagesOf(book, n)
    <3>1. c # Len(b) + 1
      BY <1>2, <2>3
    <3>. QED
      BY <1>2, <2>3, <3>1 DEF PagesOf
  <2>. QED
    BY <1>1, <2>1, <2>2, <2>3
<1>. QED
  BY <1>4 DEF b, i, c, r

(* Without the pages the spine is that of the source.                      *)
LEMMA SpineKept ==
  ASSUME NEW book, IsBook(book), NEW n, IsNarration(n), Extractable(book)
  PROVE  Among(Spine(book, n), {r \in Range(Spine(book, n)) : r.idref \notin PagesOf(book, n)}) = book.spine
<1> DEFINE s == Spine(book, n)
           T == {r \in Range(s) : r.idref \notin PagesOf(book, n)}
           X == AnyRef(book, n)
           N == Len(book.spine)
           places == 1..Len(s)
           Own(i) == Len(BeforeOf(book, n, i)) + 1
<1>1. s \in Seq(X)
  BY SpineIsLaid
<1>2. PICK row, col : Laid(row, col, book, n)
  BY SpineIsLaid
<1>3. /\ row \in [places -> DOMAIN book.spine] /\ col \in [places -> Nat]
      /\ \A p, q \in places : p < q => row[p] < row[q] \/ (row[p] = row[q] /\ col[p] < col[q])
  BY <1>2 DEF Laid
<1>4. \A i \in DOMAIN book.spine : \E p \in places : row[p] = i /\ col[p] = Own(i)
  <2> TAKE i \in DOMAIN book.spine
  <2>1. Own(i) \in 1..(Len(BeforeOf(book, n, i)) + 1 + Len(AfterOf(book, n, i)))
    BY PagesBeside DEF Lists
  <2>. QED
    BY <1>2, <2>1 DEF Laid
<1>5. \A p \in places : /\ col[p] = Own(row[p]) => s[p] = book.spine[row[p]] /\ s[p].idref \notin PagesOf(book, n)
                        /\ col[p] # Own(row[p]) => s[p].idref \in PagesOf(book, n)
  BY <1>2, OwnOrPage
<1>6. DOMAIN book.spine = 1..N /\ N \in Nat /\ book.spine \in Seq(Range(book.spine)) /\ Range(book.spine) \subseteq X
  BY BookFacts DEF AnyRef
<1>7. \A p \in places : s[p] \in Range(s)
  BY <1>1 DEF Range
<1> HIDE DEF s, X, N, Own
<1> DEFINE at == [i \in 1..N |-> CHOOSE p \in places : row[p] = i /\ col[p] = Own(i)]
<1>8. \A i \in 1..N : at[i] \in places /\ row[at[i]] = i /\ col[at[i]] = Own(i)
  BY <1>4, <1>6
<1>9. at \in [1..N -> places]
  BY <1>8
<1> HIDE DEF at
<1>10. Len(s) \in Nat
  BY <1>1
<1>11. ASSUME NEW i \in 1..N, NEW j \in 1..N, i < j PROVE at[i] < at[j]
  <2>1. at[i] \in places /\ at[j] \in places /\ row[at[i]] = i /\ row[at[j]] = j
    BY <1>8
  <2>2. at[i] # at[j]
    BY <1>6, <1>11, <2>1
  <2>3. ~(at[j] < at[i])
    <3>1. ~(j < i) /\ j # i
      BY <1>6, <1>11
    <3>. QED
      BY <1>3, <2>1, <3>1
  <2>4. at[i] \in Nat /\ at[j] \in Nat
    BY <1>10, <2>1
  <2>. QED
    BY <2>2, <2>3, <2>4
<1>12. \A i \in 1..N : book.spine[i] = s[at[i]] /\ s[at[i]] \in T
  BY <1>5, <1>7, <1>8
<1>13. \A p \in 1..Len(s) : s[p] \in T => \E i \in 1..N : at[i] = p
  <2> SUFFICES ASSUME NEW p \in places, s[p] \in T PROVE at[row[p]] = p /\ row[p] \in 1..N
    OBVIOUS
  <2>1. row[p] \in 1..N /\ col[p] = Own(row[p])
    BY <1>3, <1>5, <1>6
  <2>2. at[row[p]] \in places /\ row[at[row[p]]] = row[p] /\ col[at[row[p]]] = col[p]
    BY <1>8, <2>1
  <2>3. ~(at[row[p]] < p) /\ ~(p < at[row[p]])
    <3>1. row[p] \in Nat /\ col[p] \in Nat
      BY <1>3, <1>6
    <3>2. ~(row[p] < row[p]) /\ ~(col[p] < col[p])
      BY <3>1
    <3>. QED
      BY <1>3, <2>2, <3>2
  <2>4. p \in Nat /\ at[row[p]] \in Nat
    BY <1>10, <2>2
  <2>. QED
    BY <2>1, <2>3, <2>4
<1>14. Selects(at, book.spine, s, T)
  <2>1. \A i, j \in 1..N : i < j => at[i] < at[j]
    BY <1>11
  <2> HIDE DEF T
  <2>. QED
    BY <1>6, <1>9, <1>12, <1>13, <2>1 DEF Selects, N
<1>15. book.spine \in Seq(X)
  BY <1>6, SeqWiden
<1>16. Among(s, T) = book.spine
  <2> HIDE DEF T
  <2>. QED
    BY <1>1, <1>14, <1>15, AmongIs
<1>. QED
  BY <1>16 DEF s

(* The column in which a page stands in the row of its anchor.             *)
InColumn(book, n, i, page, c) ==
  /\ XhtmlId(book, page.href) = book.spine[i].idref
  /\ \/ page.before = TRUE /\ c \in 1..Len(BeforeOf(book, n, i)) /\ BeforeOf(book, n, i)[c] = page
     \/ page.before = FALSE
        /\ \E j \in 1..Len(AfterOf(book, n, i)) :
             c = Len(BeforeOf(book, n, i)) + 1 + j /\ AfterOf(book, n, i)[j] = page

LEMMA ColumnFacts ==
  ASSUME NEW book, NEW n, IsNarration(n), NEW i, NEW page \in n.pages,
         XhtmlId(book, page.href) = book.spine[i].idref
  PROVE  /\ \E c \in 1..(Len(BeforeOf(book, n, i)) + 1 + Len(AfterOf(book, n, i))) : InColumn(book, n, i, page, c)
         /\ \A c, d : InColumn(book, n, i, page, c) /\ InColumn(book, n, i, page, d) => c = d
         /\ \A c : InColumn(book, n, i, page, c) =>
              IF page.before THEN c < Len(BeforeOf(book, n, i)) + 1 ELSE Len(BeforeOf(book, n, i)) + 1 < c
<1> DEFINE b == BeforeOf(book, n, i)
           a == AfterOf(book, n, i)
<1>1. page.before \in BOOLEAN
  BY DEF IsNarration
<1>0. Lists(b, PagesAt(book, n, i, TRUE)) /\ Lists(a, PagesAt(book, n, i, FALSE))
  BY PagesBeside
<1>3. page \in PagesAt(book, n, i, page.before)
  BY DEF PagesAt
<1>4. \A c : InColumn(book, n, i, page, c) <=>
        \/ page.before = TRUE /\ c \in 1..Len(b) /\ b[c] = page
        \/ page.before = FALSE /\ \E j \in 1..Len(a) : c = Len(b) + 1 + j /\ a[j] = page
  BY DEF InColumn
<1> HIDE DEF a, b
<1>2. /\ Len(b) \in Nat /\ Len(a) \in Nat
      /\ \A j, k \in 1..Len(b) : b[j] = b[k] => j = k
      /\ \A j, k \in 1..Len(a) : a[j] = a[k] => j = k
  BY <1>0 DEF Lists
<1>7. \A x \in PagesAt(book, n, i, TRUE) : \E j \in 1..Len(b) : b[j] = x
  BY <1>0 DEF Lists
<1>8. \A x \in PagesAt(book, n, i, FALSE) : \E j \in 1..Len(a) : a[j] = x
  BY <1>0 DEF Lists
<1>5. CASE page.before = TRUE
  <2>1. PICK j \in 1..Len(b) : b[j] = page
    BY <1>3, <1>5, <1>7
  <2>2. j \in 1..(Len(b) + 1 + Len(a))
    BY <1>2
  <2>3. InColumn(book, n, i, page, j)
    BY <1>4, <1>5, <2>1
  <2>4. \A c : InColumn(book, n, i, page, c) => c \in 1..Len(b) /\ b[c] = page
    BY <1>4, <1>5
  <2>5. \A c : InColumn(book, n, i, page, c) => c < Len(b) + 1
    BY <1>2, <2>4
  <2>. QED
    BY <1>2, <1>5, <2>2, <2>3, <2>4, <2>5 DEF a, b
<1>6. CASE page.before = FALSE
  <2>1. PICK j \in 1..Len(a) : a[j] = page
    BY <1>3, <1>6, <1>8
  <2>2. Len(b) + 1 + j \in 1..(Len(b) + 1 + Len(a))
    BY <1>2
  <2>3. InColumn(book, n, i, page, Len(b) + 1 + j)
    BY <1>4, <1>6, <2>1
  <2>4. \A c : InColumn(book, n, i, page, c) => \E k \in 1..Len(a) : c = Len(b) + 1 + k /\ a[k] = page
    BY <1>4, <1>6
  <2>5. \A c : InColumn(book, n, i, page, c) => c = Len(b) + 1 + j
    BY <1>2, <2>1, <2>4
  <2>6. Len(b) + 1 < Len(b) + 1 + j
    BY <1>2
  <2>. QED
    BY <1>6, <2>2, <2>3, <2>5, <2>6 DEF a, b
<1>. QED
  BY <1>1, <1>5, <1>6

(* A page of the new spine stands in the row and column of the page.       *)
LEMMA PlaceOfPage ==
  ASSUME NEW book, IsBook(book), NEW n, IsNarration(n), Extractable(book), NEW row, NEW col,
         Laid(row, col, book, n), NEW p \in 1..Len(Spine(book, n)), NEW page \in n.pages
  PROVE  Spine(book, n)[p].idref = PageId(book, page) <=> InColumn(book, n, row[p], page, col[p])
<1> DEFINE i == row[p]
           c == col[p]
           r == Spine(book, n)[p]
           b == BeforeOf(book, n, i)
           a == AfterOf(book, n, i)
<1>1. /\ i \in DOMAIN book.spine
      /\ \/ c \in 1..Len(b) /\ r.idref = PageId(book, b[c])
         \/ c = Len(b) + 1 /\ r = book.spine[i]
         \/ \E j \in 1..Len(a) : c = Len(b) + 1 + j /\ r.idref = PageId(book, a[j])
  BY DEF Laid
<1> HIDE DEF i, c, r
<1>2. /\ Len(b) \in Nat /\ Len(a) \in Nat
      /\ \A j \in 1..Len(b) : b[j] \in PagesAt(book, n, i, TRUE)
      /\ \A j \in 1..Len(a) : a[j] \in PagesAt(book, n, i, FALSE)
  BY PagesBeside DEF Lists
<1>3. r = book.spine[i] => r.idref # PageId(book, page)
  BY <1>1, SpineNamesItems, PackageIds
<1>4. InColumn(book, n, i, page, c) <=>
        /\ XhtmlId(book, page.href) = book.spine[i].idref
        /\ \/ page.before = TRUE /\ c \in 1..Len(b) /\ b[c] = page
           \/ page.before = FALSE /\ \E j \in 1..Len(a) : c = Len(b) + 1 + j /\ a[j] = page
  BY DEF InColumn
<1> HIDE DEF a, b
<1>5. CASE c \in 1..Len(b) /\ r.idref = PageId(book, b[c])
  <2>1. b[c] \in n.pages /\ XhtmlId(book, b[c].href) = book.spine[i].idref /\ b[c].before = TRUE
    BY <1>2, <1>5 DEF PagesAt
  <2>2. r.idref = PageId(book, page) => b[c] = page
    BY <1>5, <2>1, PageIdOnce
  <2>3. \A j \in 1..Len(a) : c # Len(b) + 1 + j
    BY <1>2, <1>5
  <2>. QED
    BY <1>4, <1>5, <2>1, <2>2, <2>3 DEF i, c, r
<1>6. CASE c = Len(b) + 1 /\ r = book.spine[i]
  <2>1. c \notin 1..Len(b) /\ \A j \in 1..Len(a) : c # Len(b) + 1 + j
    BY <1>2, <1>6
  <2>. QED
    BY <1>3, <1>4, <1>6, <2>1 DEF i, c, r
<1>7. ASSUME NEW j \in 1..Len(a), c = Len(b) + 1 + j, r.idref = PageId(book, a[j])
      PROVE  r.idref = PageId(book, page) <=> InColumn(book, n, i, page, c)
  <2>1. a[j] \in n.pages /\ XhtmlId(book, a[j].href) = book.spine[i].idref /\ a[j].before = FALSE
    BY <1>2, <1>7 DEF PagesAt
  <2>2. r.idref = PageId(book, page) => a[j] = page
    BY <1>7, <2>1, PageIdOnce
  <2>3. c \notin 1..Len(b) /\ \A k \in 1..Len(a) : c = Len(b) + 1 + k => k = j
    BY <1>2, <1>7
  <2>4. InColumn(book, n, i, page, c) => a[j] = page
    BY <1>4, <2>3
  <2>. QED
    BY <1>4, <1>7, <2>1, <2>2, <2>4
<1>. QED
  BY <1>1, <1>5, <1>6, <1>7 DEF i, c, r

(* Each page stands in the spine once, beside its anchor, with nothing     *)
(* between them but other pages.                                           *)
LEMMA PageAtAnchor ==
  ASSUME NEW book, IsBook(book), NEW n, IsNarration(n), Extractable(book),
         NEW page \in n.pages, AnchorInSpine(book, page)
  PROVE  LET s == Spine(book, n)
             PlacesOf(id) == {k \in DOMAIN s : s[k].idref = id}
         IN  \E i \in PlacesOf(PageId(book, page)), j \in PlacesOf(XhtmlId(book, page.href)) :
               /\ PlacesOf(PageId(book, page)) = {i}
               /\ IF page.before THEN i < j ELSE j < i
               /\ \A k \in DOMAIN s :
                    (i < k /\ k < j) \/ (j < k /\ k < i) => s[k].idref \in PagesOf(book, n)
<1> DEFINE s == Spine(book, n)
           places == 1..Len(s)
           Own(i) == Len(BeforeOf(book, n, i)) + 1
<1>1. PICK row, col : Laid(row, col, book, n)
  BY SpineIsLaid
<1>2. DOMAIN s = places /\ Len(s) \in Nat
  BY SpineIsLaid
<1>3. /\ row \in [places -> DOMAIN book.spine] /\ col \in [places -> Nat]
      /\ \A p, q \in places : p < q => row[p] < row[q] \/ (row[p] = row[q] /\ col[p] < col[q])
  BY <1>1 DEF Laid
<1>4. DOMAIN book.spine \subseteq Nat
  BY BookFacts
<1>5. PICK i \in DOMAIN book.spine : book.spine[i].idref = XhtmlId(book, page.href)
  BY DEF AnchorInSpine, Range
<1>6. \A k \in DOMAIN book.spine : book.spine[k].idref = XhtmlId(book, page.href) => k = i
  BY <1>5, SpineOnce
<1>7. /\ \E c \in 1..(Len(BeforeOf(book, n, i)) + 1 + Len(AfterOf(book, n, i))) : InColumn(book, n, i, page, c)
      /\ \A c, d : InColumn(book, n, i, page, c) /\ InColumn(book, n, i, page, d) => c = d
      /\ \A c : InColumn(book, n, i, page, c) => IF page.before THEN c < Own(i) ELSE Own(i) < c
  BY <1>5, ColumnFacts
<1>8. PICK c \in 1..(Len(BeforeOf(book, n, i)) + 1 + Len(AfterOf(book, n, i))) : InColumn(book, n, i, page, c)
  BY <1>7
<1>9. PICK p \in places : row[p] = i /\ col[p] = c
  BY <1>1, <1>8 DEF Laid
<1>10. PICK q \in places : row[q] = i /\ col[q] = Own(i)
  <2>1. Own(i) \in 1..(Len(BeforeOf(book, n, i)) + 1 + Len(AfterOf(book, n, i)))
    BY PagesBeside DEF Lists
  <2>. QED
    BY <1>1, <2>1 DEF Laid
<1>11. s[p].idref = PageId(book, page)
  BY <1>1, <1>8, <1>9, PlaceOfPage
<1>12. s[q].idref = XhtmlId(book, page.href)
  BY <1>1, <1>5, <1>10, OwnOrPage
<1>13. \A k \in places : s[k].idref = PageId(book, page) => row[k] = i /\ col[k] = c
  <2> SUFFICES ASSUME NEW k \in places, s[k].idref = PageId(book, page) PROVE row[k] = i /\ col[k] = c
    OBVIOUS
  <2>1. InColumn(book, n, row[k], page, col[k])
    BY <1>1, PlaceOfPage
  <2>2. row[k] = i
    <3>1. row[k] \in DOMAIN book.spine /\ book.spine[row[k]].idref = XhtmlId(book, page.href)
      BY <1>3, <2>1 DEF InColumn
    <3>. QED
      BY <1>6, <3>1
  <2>. QED
    BY <1>7, <1>8, <2>1, <2>2
<1>14. \A k \in places : /\ col[k] # Own(row[k]) => s[k].idref \in PagesOf(book, n)
  BY <1>1, OwnOrPage
<1>15. IF page.before THEN c < Own(i) ELSE Own(i) < c
  BY <1>7, <1>8
<1>16. i \in Nat /\ c \in Nat /\ Own(i) \in Nat /\ p \in Nat /\ q \in Nat /\ \A k \in places : k \in Nat
  BY <1>2, <1>3, <1>4, <1>9, <1>10
<1>17. \A k \in places : row[k] \in Nat /\ col[k] \in Nat
  BY <1>3, <1>4
<1> HIDE DEF s, places, Own
<1>18. \A k \in places : s[k].idref = PageId(book, page) => k = p
  <2> SUFFICES ASSUME NEW k \in places, s[k].idref = PageId(book, page) PROVE k = p
    OBVIOUS
  <2>1. row[k] = i /\ col[k] = c
    BY <1>13
  <2>2. ~(k < p) /\ ~(p < k)
    BY <1>3, <1>9, <1>16, <2>1
  <2>. QED
    BY <1>16, <2>2
<1>19. page.before \in BOOLEAN
  BY DEF IsNarration
<1>20. IF page.before THEN p < q ELSE q < p
  <2>1. p # q
    BY <1>9, <1>10, <1>15, <1>16
  <2>2. c < Own(i) => ~(q < p)
    BY <1>3, <1>9, <1>10, <1>16
  <2>3. Own(i) < c => ~(p < q)
    BY <1>3, <1>9, <1>10, <1>16
  <2>. QED
    BY <1>15, <1>16, <1>19, <2>1, <2>2, <2>3
<1>21. ASSUME NEW k \in places, (p < k /\ k < q) \/ (q < k /\ k < p) PROVE s[k].idref \in PagesOf(book, n)
  <2>1. row[k] = i
    <3>1. ~(row[k] < i) /\ ~(i < row[k])
      <4>1. CASE p < k /\ k < q
        BY <1>3, <1>9, <1>10, <1>16, <1>17, <4>1
      <4>2. CASE q < k /\ k < p
        BY <1>3, <1>9, <1>10, <1>16, <1>17, <4>2
      <4>. QED
        BY <1>21, <4>1, <4>2
    <3>. QED
      BY <1>16, <1>17, <3>1
  <2>2. col[k] # Own(i)
    BY <1>3, <1>9, <1>10, <1>16, <1>17, <1>21, <2>1
  <2>. QED
    BY <1>14, <2>1, <2>2
<1>22. {k \in DOMAIN s : s[k].idref = PageId(book, page)} = {p}
  BY <1>2, <1>11, <1>18
<1>23. p \in DOMAIN s /\ q \in DOMAIN s /\ q \in {k \in DOMAIN s : s[k].idref = XhtmlId(book, page.href)}
  BY <1>2, <1>12
<1>. QED
  BY <1>2, <1>20, <1>21, <1>22, <1>23 DEF s

-----------------------------------------------------------------------------
(* The names in the archive.                                               *)

(* Each synchronized document has a number of its own.                     *)
LEMMA SectionNumberFacts ==
  ASSUME NEW book, IsBook(book), NEW n, IsNarration(n), Extractable(book), Narrates(book, n)
  PROVE  /\ \A x \in Range(SynchronizedDocs(book, n)) : SectionNumber(book, n, x) \in Nat
         /\ \A x, y \in Range(SynchronizedDocs(book, n)) :
              SectionNumber(book, n, x) = SectionNumber(book, n, y) => x = y
<1> DEFINE S == Sections(book)
           E == Extra(book, n)
           Upto(x) == {y \in E : y[3] <= x[3]}
           docs == Range(SynchronizedDocs(book, n))
           number == [x \in docs |-> SectionNumber(book, n, x)]
<1>1. Len(S) \in Nat /\ DOMAIN S = 1..Len(S)
  BY SectionsFacts
<1>2. docs \subseteq Range(S) \cup E
  <2>1. docs = {t.href : t \in n.text} \cup {g.href : g \in n.graphics}
    BY DocsFacts
  <2>2. {t.href : t \in n.text} \subseteq Range(S)
    BY DEF Narrates
  <2>. QED
    BY <2>1, <2>2 DEF Extra
<1>3. ASSUME NEW x \in Range(S) PROVE SectionNumber(book, n, x) \in 1..Len(S) /\ S[SectionNumber(book, n, x)] = x
  <2>1. \E i \in DOMAIN S : S[i] = x
    BY DEF Range
  <2>. QED
    BY <1>1, <1>3, <2>1 DEF SectionNumber
<1>4. ASSUME NEW x \in E
      PROVE  /\ SectionNumber(book, n, x) = Len(S) + Cardinality(Upto(x)) /\ x \in Upto(x)
             /\ IsFiniteSet(Upto(x)) /\ Cardinality(Upto(x)) \in Nat \ {0}
  <2>1. x \notin Range(S)
    BY DEF Extra
  <2>2. SectionNumber(book, n, x) = Len(S) + Cardinality(Upto(x))
    BY <2>1 DEF SectionNumber
  <2>3. x \in Upto(x)
    BY ExtraFacts
  <2>4. IsFiniteSet(Upto(x))
    <3>1. Upto(x) \in SUBSET E /\ IsFiniteSet(E)
      BY ExtraFacts
    <3>. QED
      BY <3>1, FS_Subset
  <2>5. Cardinality(Upto(x)) \in Nat /\ Cardinality(Upto(x)) # 0
    <3> HIDE DEF Upto
    <3>. QED
      BY <2>3, <2>4, FS_CardinalityType, FS_EmptySet
  <2>. QED
    BY <2>2, <2>3, <2>4, <2>5
<1>5. ASSUME NEW x \in E, NEW y \in E, x[3] < y[3]
      PROVE  SectionNumber(book, n, x) < SectionNumber(book, n, y)
  <2>1. \A z \in E : z[3] \in Nat
    BY ExtraFacts
  <2>2. Upto(x) \subseteq Upto(y) /\ y \in Upto(y) /\ y \notin Upto(x)
    BY <1>5, <2>1
  <2>3. IsFiniteSet(Upto(y)) /\ Cardinality(Upto(x)) \in Nat /\ Cardinality(Upto(y)) \in Nat
    BY <1>4
  <2>4. Cardinality(Upto(x)) < Cardinality(Upto(y))
    <3>1. Upto(x) \in SUBSET (Upto(y) \ {y})
      BY <2>2
    <3>2. IsFiniteSet(Upto(y) \ {y}) /\ Cardinality(Upto(y) \ {y}) = Cardinality(Upto(y)) - 1
      <4> HIDE DEF Upto
      <4>. QED
        BY <2>2, <2>3, FS_RemoveElement
    <3>3. Cardinality(Upto(x)) <= Cardinality(Upto(y) \ {y})
      <4> HIDE DEF Upto
      <4>. QED
        BY <3>1, <3>2, FS_Subset
    <3>. QED
      BY <2>3, <3>2, <3>3
  <2>. QED
    BY <1>1, <1>4, <2>3, <2>4
<1> HIDE DEF S, E, Upto, docs
<1>6. ASSUME NEW x \in docs PROVE SectionNumber(book, n, x) \in Nat
  BY <1>1, <1>2, <1>3, <1>4
<1>7. ASSUME NEW x \in docs, NEW y \in docs, SectionNumber(book, n, x) = SectionNumber(book, n, y)
      PROVE  x = y
  <2>1. CASE x \in Range(S) /\ y \in Range(S)
    BY <1>3, <1>7, <2>1
  <2>2. CASE x \in E /\ y \in E
    <3>1. x[3] \in Nat /\ y[3] \in Nat /\ (x[3] = y[3] => x = y)
      BY <2>2, ExtraFacts DEF E
    <3>2. ~(x[3] < y[3]) /\ ~(y[3] < x[3])
      BY <1>5, <1>6, <1>7, <2>2
    <3>. QED
      BY <3>1, <3>2
  <2>3. \A v, w : v \in Range(S) /\ w \in E => SectionNumber(book, n, v) # SectionNumber(book, n, w)
    <3> SUFFICES ASSUME NEW v \in Range(S), NEW w \in E
                 PROVE  SectionNumber(book, n, v) # SectionNumber(book, n, w)
      OBVIOUS
    <3>1. SectionNumber(book, n, v) \in 1..Len(S)
      BY <1>3
    <3>2. SectionNumber(book, n, w) = Len(S) + Cardinality(Upto(w)) /\ Cardinality(Upto(w)) \in Nat \ {0}
      BY <1>4
    <3>. QED
      BY <1>1, <3>1, <3>2
  <2>. QED
    BY <1>2, <1>7, <2>1, <2>2, <2>3
<1>. QED
  BY <1>6, <1>7 DEF docs

(* Where new files go there is nothing yet, nor is it where the container  *)
(* and the package are.                                                    *)
LEMMA RootFacts ==
  ASSUME NEW book, IsBook(book)
  PROVE  /\ UniqueResourceRoot(book.files) # 0
         /\ \A path \in Range(book.files) : path[1] # UniqueResourceRoot(book.files)
         /\ \A path \in DOMAIN book.docs : path \in Range(book.files)
         /\ Mimetype \notin Range(book.files) /\ Package \notin Range(book.files)
<1>1. book.files \in Seq(Range(book.files))
  BY BookFacts
<1>2. /\ \A path \in DOMAIN book.docs : path \in Range(book.files)
      /\ Mimetype \notin Range(book.files) /\ Package \notin Range(book.files)
  BY DEF IsBook
<1>3. \A path \in Range(book.files) : path[1] # UniqueResourceRoot(book.files)
  BY <1>1, RootIsFree
<1>4. UniqueResourceRoot(book.files) # 0
  BY <1>1, RootIsFree
<1>. QED
  BY <1>2, <1>3, <1>4

(* The archive has every file of the source, the new files, and nothing    *)
(* twice.                                                                  *)
NewFiles(book, n, root) ==
  {Smil(book, n, root, x) : x \in Range(SynchronizedDocs(book, n))}
  \cup {PagePath(root, page) : page \in n.pages} \cup {PageSmil(root, page) : page \in n.pages}
  \cup {Audio(root)}

LEMMA EntriesFacts ==
  ASSUME NEW book, IsBook(book), NEW n, IsNarration(n), Extractable(book), Narrates(book, n),
         NEW root, root = UniqueResourceRoot(book.files)
  PROVE  /\ Enumerates(Entries(book, n, root),
                       {Mimetype, Package} \cup Range(book.files) \cup NewFiles(book, n, root))
         /\ Entries(book, n, root) # << >> /\ Entries(book, n, root)[1] = Mimetype
<1> DEFINE docs == SynchronizedDocs(book, n)
           D == Range(docs)
           P == n.pages
           pages == ByItem(P)
           files == book.files
           F == [x \in D |-> x]
           G == [x \in D |-> Smil(book, n, root, x)]
           PF == [x \in P |-> PagePath(root, x)]
           PG == [x \in P |-> PageSmil(root, x)]
           e1 == << Mimetype >>
           e2 == Among(files, Range(files) \ D)
           e4 == FlattenSeq([i \in DOMAIN docs |-> << F[docs[i]], G[docs[i]] >>])
           e5 == FlattenSeq([i \in DOMAIN pages |-> << PF[pages[i]], PG[pages[i]] >>])
           R2 == Range(files) \ D
           R4 == {F[x] : x \in D} \cup {G[x] : x \in D}
           R5 == {PF[x] : x \in P} \cup {PG[x] : x \in P}
<1>1. D \subseteq Range(files)
  BY DocsFacts, RootFacts
<1>2. Enumerates(docs, D)
  BY DocsFacts, EnumeratesIn
<1>3. Enumerates(pages, P)
  BY ByItemFacts DEF Enumerates
<1>4. Enumerates(e2, R2)
  <2>1. files \in Seq(Range(files)) /\ IsInjective(files)
    BY DEF IsBook
  <2>2. /\ e2 \in Seq(Range(files)) /\ IsInjective(e2)
        /\ \A x : x \in Range(e2) <=> x \in Range(files) /\ x \in R2
    <3> HIDE DEF D, files
    <3>. QED
      BY <2>1, AmongFacts
  <2>3. Range(e2) = R2
    <3> HIDE DEF e2, D, files
    <3>. QED
      BY <2>2
  <2> HIDE DEF e2, R2
  <2>. QED
    BY <2>2, <2>3, EnumeratesIn
<1>5. /\ \A x \in D : F[x] = x /\ G[x] = <<root, "overlay", SectionNumber(book, n, x)>>
      /\ \A x \in P : PF[x] = <<root, "page", x.item>> /\ PG[x] = <<root, "page overlay", x.item>>
  BY DEF Smil, PagePath, PageSmil
<1>6. \A x, y \in D : SectionNumber(book, n, x) = SectionNumber(book, n, y) => x = y
  BY SectionNumberFacts
<1>7. \A x, y \in P : x.item = y.item => x = y
  BY DEF IsNarration
<1>8. \A x \in Range(files) : x[1] # root /\ x # Mimetype /\ x # Package
  BY RootFacts
<1>9. root # 0
  BY RootFacts
<1>10. DOMAIN F = D /\ DOMAIN G = D /\ DOMAIN PF = P /\ DOMAIN PG = P
  OBVIOUS
<1>11. Entries(book, n, root) =
         Joined(Joined(Joined(Joined(Joined(e1, e2), << Package >>), e4), e5), << Audio(root) >>)
  <2>1. [i \in DOMAIN docs |-> << docs[i], Smil(book, n, root, docs[i]) >>]
          = [i \in DOMAIN docs |-> << F[docs[i]], G[docs[i]] >>]
    <3>1. \A i \in DOMAIN docs : docs[i] \in D
      BY DEF Range
    <3>. QED
      BY <3>1
  <2>2. [i \in DOMAIN pages |-> << PagePath(root, pages[i]), PageSmil(root, pages[i]) >>]
          = [i \in DOMAIN pages |-> << PF[pages[i]], PG[pages[i]] >>]
    <3>1. \A i \in DOMAIN pages : pages[i] \in P
      BY <1>3 DEF Enumerates, Range
    <3>. QED
      BY <3>1
  <2>3. Entries(book, n, root) =
          << Mimetype >> \o e2 \o << Package >>
            \o FlattenSeq([i \in DOMAIN docs |-> << docs[i], Smil(book, n, root, docs[i]) >>])
            \o FlattenSeq([i \in DOMAIN pages |-> << PagePath(root, pages[i]), PageSmil(root, pages[i]) >>])
            \o << Audio(root) >>
    BY DEF Entries
  <2> HIDE DEF e2, F, G, PF, PG, pages, docs
  <2>. QED
    BY <2>1, <2>2, <2>3 DEF Joined
<1>12. /\ Mimetype = <<0, "mimetype", 0>> /\ Package = <<0, "package", 0>>
       /\ Audio(root) = <<root, "audio", 0>>
  BY DEF Mimetype, Package, Audio
<1>31. \A x \in D : G[x][1] = root /\ G[x][2] = "overlay" /\ G[x][3] = SectionNumber(book, n, x)
  <2>1. \A x \in D : G[x] = Smil(book, n, root, x)
    OBVIOUS
  <2>2. \A x : /\ Smil(book, n, root, x)[1] = root /\ Smil(book, n, root, x)[2] = "overlay"
               /\ Smil(book, n, root, x)[3] = SectionNumber(book, n, x)
    BY DEF Smil
  <2> HIDE DEF G, D
  <2>. QED
    BY <2>1, <2>2
<1>32. \A x \in P : /\ PF[x][1] = root /\ PF[x][2] = "page" /\ PF[x][3] = x.item
                    /\ PG[x][1] = root /\ PG[x][2] = "page overlay" /\ PG[x][3] = x.item
  <2>1. \A x \in P : PF[x] = PagePath(root, x) /\ PG[x] = PageSmil(root, x)
    OBVIOUS
  <2>2. \A x : /\ PagePath(root, x)[1] = root /\ PagePath(root, x)[2] = "page" /\ PagePath(root, x)[3] = x.item
               /\ PageSmil(root, x)[1] = root /\ PageSmil(root, x)[2] = "page overlay"
               /\ PageSmil(root, x)[3] = x.item
    BY DEF PagePath, PageSmil
  <2> HIDE DEF PF, PG, P
  <2>. QED
    BY <2>1, <2>2
<1> HIDE DEF docs, pages, files, F, G, PF, PG, D, P
<1>33. /\ Mimetype[1] = 0 /\ Package[1] = 0 /\ Mimetype # Package
       /\ Audio(root)[1] = root /\ Audio(root)[2] = "audio"
  BY <1>12
<1>13. Enumerates(e4, R4)
  <2>1. \A x, y \in D : F[x] = F[y] => x = y
    BY <1>5
  <2>2. \A x, y \in D : G[x] = G[y] => x = y
    BY <1>6, <1>31
  <2>3. \A x, y \in D : F[x] # G[y]
    BY <1>1, <1>5, <1>8, <1>31
  <2>. QED
    BY <1>2, <1>10, <2>1, <2>2, <2>3, EnumeratesPairs
<1>14. Enumerates(e5, R5)
  <2>1. \A x, y \in P : PF[x] = PF[y] => x = y
    <3> SUFFICES ASSUME NEW x \in P, NEW y \in P, PF[x] = PF[y] PROVE x = y
      OBVIOUS
    <3>1. PF[x][3] = x.item /\ PF[y][3] = y.item
      BY <1>32
    <3>. QED
      BY <1>7, <3>1
  <2>2. \A x, y \in P : PG[x] = PG[y] => x = y
    <3> SUFFICES ASSUME NEW x \in P, NEW y \in P, PG[x] = PG[y] PROVE x = y
      OBVIOUS
    <3>1. PG[x][3] = x.item /\ PG[y][3] = y.item
      BY <1>32
    <3>. QED
      BY <1>7, <3>1
  <2>3. \A x, y \in P : PF[x] # PG[y]
    BY <1>32
  <2>. QED
    <3>1. P \subseteq DOMAIN PF /\ P \subseteq DOMAIN PG
      BY <1>10
    <3>2. Enumerates(FlattenSeq([i \in DOMAIN pages |-> << PF[pages[i]], PG[pages[i]] >>]),
                     {PF[x] : x \in P} \cup {PG[x] : x \in P})
      BY <1>3, <2>1, <2>2, <2>3, <3>1, EnumeratesPairs
    <3>. QED
      BY <3>2
<1>15. \A z : z \in R4 <=> \E x \in D : z = x \/ z = <<root, "overlay", SectionNumber(book, n, x)>>
  <2>1. \A z : z \in R4 <=> \E x \in D : z = F[x] \/ z = G[x]
    BY DEF R4
  <2>. QED
    BY <1>5, <2>1
<1>16. \A z : z \in R5 <=> \E x \in P : z = <<root, "page", x.item>> \/ z = <<root, "page overlay", x.item>>
  <2>1. \A z : z \in R5 <=> \E x \in P : z = PF[x] \/ z = PG[x]
    BY DEF R5
  <2>. QED
    BY <1>5, <2>1
<1>35. \A z \in R4 : z \in D \/ (z[1] = root /\ z[2] = "overlay")
  <2>1. \A z \in R4 : \E x \in D : z = F[x] \/ z = G[x]
    BY DEF R4
  <2>2. \A x \in D : F[x] \in D /\ G[x][1] = root /\ G[x][2] = "overlay"
    BY <1>5, <1>31
  <2> HIDE DEF R4
  <2>. QED
    BY <2>1, <2>2
<1>36. \A z \in R5 : z[1] = root /\ z[2] \in {"page", "page overlay"}
  BY <1>32
<1>17. \A z \in R2 : z \in Range(files) /\ z \notin D
  OBVIOUS
<1> HIDE DEF e2, e4, e5, R2, R4, R5
<1>38. Enumerates(e1, {Mimetype})
  BY EnumeratesOne
<1>39. e1[1] = Mimetype /\ Len(e1) >= 1
  OBVIOUS
<1> HIDE DEF e1
<1>18. {Mimetype} \cap R2 = {}
  BY <1>8, <1>17
<1>19. ({Mimetype} \cup R2) \cap {Package} = {}
  BY <1>8, <1>12, <1>17
<1>20. ({Mimetype} \cup R2 \cup {Package}) \cap R4 = {}
  BY <1>1, <1>8, <1>9, <1>17, <1>33, <1>35
<1>37. \A z \in {Mimetype} \cup R2 \cup {Package} \cup R4 : z[1] # root \/ z[2] = "overlay"
  BY <1>1, <1>8, <1>9, <1>17, <1>33, <1>35
<1>21. ({Mimetype} \cup R2 \cup {Package} \cup R4) \cap R5 = {}
  BY <1>36, <1>37
<1>22. ({Mimetype} \cup R2 \cup {Package} \cup R4 \cup R5) \cap {Audio(root)} = {}
  BY <1>33, <1>36, <1>37
<1> DEFINE j2 == Joined(e1, e2)
           j3 == Joined(j2, << Package >>)
           j4 == Joined(j3, e4)
           j5 == Joined(j4, e5)
           j6 == Joined(j5, << Audio(root) >>)
<1>23. Enumerates(j2, {Mimetype} \cup R2)
  BY <1>4, <1>18, <1>38, EnumeratesJoined
<1> HIDE DEF j2
<1>24. Enumerates(j3, {Mimetype} \cup R2 \cup {Package})
  BY <1>19, <1>23, EnumeratesOne, EnumeratesJoined
<1> HIDE DEF j3
<1>25. Enumerates(j4, {Mimetype} \cup R2 \cup {Package} \cup R4)
  BY <1>13, <1>20, <1>24, EnumeratesJoined
<1> HIDE DEF j4
<1>26. Enumerates(j5, {Mimetype} \cup R2 \cup {Package} \cup R4 \cup R5)
  BY <1>14, <1>21, <1>25, EnumeratesJoined
<1> HIDE DEF j5
<1>27. Enumerates(j6, {Mimetype} \cup R2 \cup {Package} \cup R4 \cup R5 \cup {Audio(root)})
  BY <1>22, <1>26, EnumeratesOne, EnumeratesJoined
<1>28. Entries(book, n, root) = j6
  BY <1>11 DEF j2, j3, j4, j5
<1>29. {Mimetype} \cup R2 \cup {Package} \cup R4 \cup R5 \cup {Audio(root)}
         = {Mimetype, Package} \cup Range(files) \cup NewFiles(book, n, root)
  <2>1. \A z : z \in R2 <=> z \in Range(files) /\ z \notin D
    BY DEF R2
  <2>2. \A z : z \in NewFiles(book, n, root) <=>
          \/ \E x \in D : z = <<root, "overlay", SectionNumber(book, n, x)>>
          \/ \E x \in P : z = <<root, "page", x.item>> \/ z = <<root, "page overlay", x.item>>
          \/ z = Audio(root)
    BY DEF NewFiles, Smil, PagePath, PageSmil, D, P, docs
  <2>3. ASSUME NEW z
        PROVE  z \in {Mimetype} \cup R2 \cup {Package} \cup R4 \cup R5 \cup {Audio(root)}
                 <=> z \in {Mimetype, Package} \cup Range(files) \cup NewFiles(book, n, root)
    BY <1>1, <1>15, <1>16, <2>1, <2>2
  <2>. QED
    BY <2>3
<1>30. j6 # << >> /\ j6[1] = Mimetype
  <2> DEFINE R == {Mimetype} \cup R2 \cup {Package} \cup R4 \cup R5 \cup {Audio(root)}
  <2>1. /\ {Mimetype} \subseteq R /\ R2 \subseteq R /\ {Package} \subseteq R /\ R4 \subseteq R /\ R5 \subseteq R
        /\ {Audio(root)} \subseteq R
    OBVIOUS
  <2>2. ASSUME NEW s, NEW Q, Enumerates(s, Q), Q \subseteq R PROVE s \in Seq(R) /\ Len(s) \in Nat
    BY <2>2, SeqWiden DEF Enumerates
  <2> HIDE DEF R
  <2>3. << Package >> \in Seq(R) /\ << Audio(root) >> \in Seq(R)
    BY <2>1
  <2>4. e1 \in Seq(R) /\ e2 \in Seq(R) /\ e4 \in Seq(R) /\ e5 \in Seq(R)
    BY <1>4, <1>13, <1>14, <1>38, <2>1, <2>2
  <2>6. ASSUME NEW s \in Seq(R), NEW t \in Seq(R), Len(s) >= 1, s[1] = Mimetype
        PROVE  Joined(s, t) \in Seq(R) /\ Len(Joined(s, t)) >= 1 /\ Joined(s, t)[1] = Mimetype
    <3>1. Joined(s, t) \in Seq(R) /\ Len(Joined(s, t)) = Len(s) + Len(t)
      BY JoinedLists
    <3>2. \A k \in 1..Len(s) : Joined(s, t)[k] = s[k]
      BY JoinedLists
    <3>3. Len(s) \in Nat /\ Len(t) \in Nat /\ 1 \in 1..Len(s)
      BY <2>6
    <3>. QED
      BY <2>6, <3>1, <3>2, <3>3
  <2>7. j2 \in Seq(R) /\ Len(j2) >= 1 /\ j2[1] = Mimetype
    BY <1>39, <2>4, <2>6 DEF j2
  <2>8. j3 \in Seq(R) /\ Len(j3) >= 1 /\ j3[1] = Mimetype
    BY <2>3, <2>6, <2>7 DEF j3
  <2>9. j4 \in Seq(R) /\ Len(j4) >= 1 /\ j4[1] = Mimetype
    BY <2>4, <2>6, <2>8 DEF j4
  <2>10. j5 \in Seq(R) /\ Len(j5) >= 1 /\ j5[1] = Mimetype
    BY <2>4, <2>6, <2>9 DEF j5
  <2>11. j6 \in Seq(R) /\ Len(j6) >= 1 /\ j6[1] = Mimetype
    BY <2>3, <2>6, <2>10
  <2> HIDE DEF j6
  <2>. QED
    BY <2>11
<1>. QED
  BY <1>27, <1>28, <1>29, <1>30 DEF files

-----------------------------------------------------------------------------
(* The manifest.                                                           *)

LEMMA NewIdsDiffer ==
  ASSUME NEW book, IsBook(book), NEW n, IsNarration(n), Extractable(book), Narrates(book, n)
  PROVE  /\ \A x, y \in Range(SynchronizedDocs(book, n)) : OverlayId(book, n, x) = OverlayId(book, n, y) => x = y
         /\ \A x, y \in n.pages : PageId(book, x) = PageId(book, y) => x = y
         /\ \A x, y \in n.pages : PageOverlayId(book, x) = PageOverlayId(book, y) => x = y
         /\ \A x, y, z : /\ OverlayId(book, n, x) # AudioId(book)
                         /\ OverlayId(book, n, x) # PageId(book, y) /\ OverlayId(book, n, x) # PageOverlayId(book, y)
                         /\ AudioId(book) # PageId(book, y) /\ AudioId(book) # PageOverlayId(book, y)
                         /\ PageId(book, y) # PageOverlayId(book, z)
<1>1. \A x : OverlayId(book, n, x)[1] = <<"stl-mo", SectionNumber(book, n, x), 0>>
  BY PackageIds
<1>2. AudioId(book)[1] = <<"stl-audio", 0, 0>>
  BY PackageIds
<1>3. \A x : PageId(book, x)[1] = <<"stl-extra-page", x.item, 0>>
  BY PackageIds
<1>4. \A x : PageOverlayId(book, x)[1] = <<"stl-extra-mo", x.item, 0>>
  BY PackageIds
<1>5. ASSUME NEW x \in Range(SynchronizedDocs(book, n)), NEW y \in Range(SynchronizedDocs(book, n)),
             OverlayId(book, n, x) = OverlayId(book, n, y)
      PROVE  x = y
  <2>1. <<"stl-mo", SectionNumber(book, n, x), 0>> = <<"stl-mo", SectionNumber(book, n, y), 0>>
    BY <1>1, <1>5
  <2>2. SectionNumber(book, n, x) = SectionNumber(book, n, y)
    BY <2>1
  <2>. QED
    BY <2>2, SectionNumberFacts
<1>6. ASSUME NEW x \in n.pages, NEW y \in n.pages, PageOverlayId(book, x) = PageOverlayId(book, y)
      PROVE  x = y
  <2>1. <<"stl-extra-mo", x.item, 0>> = <<"stl-extra-mo", y.item, 0>>
    BY <1>4, <1>6
  <2>2. x.item = y.item
    BY <2>1
  <2>. QED
    BY <2>2 DEF IsNarration
<1>7. ASSUME NEW x, NEW y, NEW z
      PROVE  /\ OverlayId(book, n, x) # AudioId(book)
             /\ OverlayId(book, n, x) # PageId(book, y) /\ OverlayId(book, n, x) # PageOverlayId(book, y)
             /\ AudioId(book) # PageId(book, y) /\ AudioId(book) # PageOverlayId(book, y)
             /\ PageId(book, y) # PageOverlayId(book, z)
  <2>1. OverlayId(book, n, x)[1][1] = "stl-mo"
    BY <1>1
  <2>2. AudioId(book)[1][1] = "stl-audio"
    BY <1>2
  <2>3. PageId(book, y)[1][1] = "stl-extra-page"
    BY <1>3
  <2>4. PageOverlayId(book, y)[1][1] = "stl-extra-mo" /\ PageOverlayId(book, z)[1][1] = "stl-extra-mo"
    BY <1>4
  <2>. QED
    BY <2>1, <2>2, <2>3, <2>4
<1>. QED
  BY <1>5, <1>6, <1>7, PageIdOnce

(* A source item in the new manifest.                                      *)
Rewritten(book, n, item) ==
  [id |-> item.id, path |-> item.path, type |-> item.type, nav |-> item.nav, remote |-> item.remote,
   overlay |-> IF item.type = "xhtml" /\ item.path \in Range(SynchronizedDocs(book, n))
                 THEN OverlayId(book, n, item.path) ELSE None]

OverlayItem(book, n, root, x) == Declared(OverlayId(book, n, x), Smil(book, n, root, x), "smil", None)
AudioItem(book, root) == Declared(AudioId(book), Audio(root), "audio", None)
PageItem(book, root, page) ==
  Declared(PageId(book, page), PagePath(root, page), "xhtml", PageOverlayId(book, page))
PageSmilItem(book, root, page) == Declared(PageOverlayId(book, page), PageSmil(root, page), "smil", None)

NewItems(book, n, root) ==
  {OverlayItem(book, n, root, x) : x \in Range(SynchronizedDocs(book, n))}
  \cup {AudioItem(book, root)}
  \cup ({PageItem(book, root, page) : page \in n.pages} \cup {PageSmilItem(book, root, page) : page \in n.pages})

LEMMA NewItemsDiffer ==
  ASSUME NEW book, IsBook(book), NEW n, IsNarration(n), Extractable(book), Narrates(book, n), NEW root,
         NEW x \in NewItems(book, n, root), NEW y \in NewItems(book, n, root), x.id = y.id
  PROVE  x = y
<1> DEFINE D == Range(SynchronizedDocs(book, n))
<1>1. /\ \A v : OverlayItem(book, n, root, v).id = OverlayId(book, n, v)
      /\ AudioItem(book, root).id = AudioId(book)
      /\ \A v : PageItem(book, root, v).id = PageId(book, v)
      /\ \A v : PageSmilItem(book, root, v).id = PageOverlayId(book, v)
  BY DEF OverlayItem, AudioItem, PageItem, PageSmilItem, Declared
<1>2. \A z \in NewItems(book, n, root) :
        \/ \E v \in D : z = OverlayItem(book, n, root, v)
        \/ z = AudioItem(book, root)
        \/ \E v \in n.pages : z = PageItem(book, root, v)
        \/ \E v \in n.pages : z = PageSmilItem(book, root, v)
  BY DEF NewItems
<1>3. /\ \A v, w \in D : OverlayId(book, n, v) = OverlayId(book, n, w) => v = w
      /\ \A v, w \in n.pages : PageId(book, v) = PageId(book, w) => v = w
      /\ \A v, w \in n.pages : PageOverlayId(book, v) = PageOverlayId(book, w) => v = w
  BY NewIdsDiffer
<1>4. \A u, v, w : /\ OverlayId(book, n, u) # AudioId(book)
                   /\ OverlayId(book, n, u) # PageId(book, v) /\ OverlayId(book, n, u) # PageOverlayId(book, v)
                   /\ AudioId(book) # PageId(book, v) /\ AudioId(book) # PageOverlayId(book, v)
                   /\ PageId(book, v) # PageOverlayId(book, w)
  BY NewIdsDiffer
<1> HIDE DEF D
<1>5. ASSUME NEW v \in D, x = OverlayItem(book, n, root, v) PROVE x = y
  BY <1>1, <1>2, <1>3, <1>4, <1>5
<1>6. CASE x = AudioItem(book, root)
  BY <1>1, <1>2, <1>4, <1>6
<1>7. ASSUME NEW v \in n.pages, x = PageItem(book, root, v) PROVE x = y
  BY <1>1, <1>2, <1>3, <1>4, <1>7
<1>8. ASSUME NEW v \in n.pages, x = PageSmilItem(book, root, v) PROVE x = y
  BY <1>1, <1>2, <1>3, <1>4, <1>8
<1>. QED
  BY <1>2, <1>5, <1>6, <1>7, <1>8

(* The items of the source first, then the new ones, each once.            *)
ManifestOf(items, book, n, root) ==
  LET m == Len(book.items)
  IN  /\ Len(items) \in Nat /\ DOMAIN items = 1..Len(items) /\ m \in Nat /\ m <= Len(items)
      /\ \A i \in 1..m : items[i] = Rewritten(book, n, book.items[i])
      /\ \A i \in 1..Len(items) : i > m => items[i] \in NewItems(book, n, root)
      /\ \A i, j \in 1..Len(items) : i > m /\ j > m /\ items[i] = items[j] => i = j
      /\ \A item \in NewItems(book, n, root) : \E i \in 1..Len(items) : i > m /\ items[i] = item

LEMMA FourLists ==
  ASSUME NEW X, NEW a \in Seq(X), NEW b \in Seq(X), NEW c \in Seq(X), NEW d \in Seq(X)
  PROVE  Joined(Joined(Joined(a, b), c), d) = Joined(a, Joined(Joined(b, c), d))
<1>1. ((a \o b) \o c) \o d = a \o ((b \o c) \o d)
  OBVIOUS
<1>. QED
  BY <1>1, Zenon DEF Joined

LEMMA ManifestFacts ==
  ASSUME NEW book, IsBook(book), NEW n, IsNarration(n), Extractable(book), Narrates(book, n), NEW root
  PROVE  ManifestOf(Manifest(book, n, root), book, n, root)
<1> DEFINE docs == SynchronizedDocs(book, n)
           D == Range(docs)
           P == n.pages
           pages == ByItem(P)
           F == [x \in D |-> OverlayItem(book, n, root, x)]
           PF == [x \in P |-> PageItem(book, root, x)]
           PG == [x \in P |-> PageSmilItem(book, root, x)]
           m1 == [i \in DOMAIN book.items |-> Rewritten(book, n, book.items[i])]
           m2 == [i \in DOMAIN docs |-> F[docs[i]]]
           m3 == << AudioItem(book, root) >>
           m4 == FlattenSeq([i \in DOMAIN pages |-> << PF[pages[i]], PG[pages[i]] >>])
           R2 == {F[x] : x \in D}
           R3 == {AudioItem(book, root)}
           R4 == {PF[x] : x \in P} \cup {PG[x] : x \in P}
           N == NewItems(book, n, root)
           m == Len(book.items)
           t == Joined(Joined(m2, m3), m4)
<1>1. Enumerates(docs, D) /\ Enumerates(pages, P)
  BY DocsFacts, EnumeratesIn, ByItemFacts DEF Enumerates
<1>2. Manifest(book, n, root) = Joined(Joined(Joined(m1, m2), m3), m4)
  <2>1. [i \in DOMAIN docs |-> Declared(OverlayId(book, n, docs[i]), Smil(book, n, root, docs[i]), "smil", None)] = m2
    <3>1. \A i \in DOMAIN docs : docs[i] \in D
      BY DEF Range
    <3>. QED
      BY <3>1 DEF OverlayItem
  <2>2. [i \in DOMAIN pages |->
           << Declared(PageId(book, pages[i]), PagePath(root, pages[i]), "xhtml", PageOverlayId(book, pages[i])),
              Declared(PageOverlayId(book, pages[i]), PageSmil(root, pages[i]), "smil", None) >>]
          = [i \in DOMAIN pages |-> << PF[pages[i]], PG[pages[i]] >>]
    <3>1. \A i \in DOMAIN pages : pages[i] \in P
      BY <1>1 DEF Enumerates, Range
    <3>. QED
      BY <3>1 DEF PageItem, PageSmilItem
  <2>3. Manifest(book, n, root) =
          m1 \o [i \in DOMAIN docs |->
                  Declared(OverlayId(book, n, docs[i]), Smil(book, n, root, docs[i]), "smil", None)]
             \o m3
             \o FlattenSeq([i \in DOMAIN pages |->
                  << Declared(PageId(book, pages[i]), PagePath(root, pages[i]), "xhtml", PageOverlayId(book, pages[i])),
                     Declared(PageOverlayId(book, pages[i]), PageSmil(root, pages[i]), "smil", None) >>])
    <3>1. \A item :
            (IF item.type = "xhtml" /\ item.path \in Range(docs)
               THEN [id |-> item.id, path |-> item.path, type |-> item.type, nav |-> item.nav,
                     remote |-> item.remote, overlay |-> OverlayId(book, n, item.path)]
               ELSE [id |-> item.id, path |-> item.path, type |-> item.type, nav |-> item.nav,
                     remote |-> item.remote, overlay |-> None]) = Rewritten(book, n, item)
      BY DEF Rewritten
    <3>2. Manifest(book, n, root) =
            [i \in DOMAIN book.items |->
              IF book.items[i].type = "xhtml" /\ book.items[i].path \in Range(docs)
                THEN [id |-> book.items[i].id, path |-> book.items[i].path, type |-> book.items[i].type,
                      nav |-> book.items[i].nav, remote |-> book.items[i].remote,
                      overlay |-> OverlayId(book, n, book.items[i].path)]
                ELSE [id |-> book.items[i].id, path |-> book.items[i].path, type |-> book.items[i].type,
                      nav |-> book.items[i].nav, remote |-> book.items[i].remote, overlay |-> None]]
              \o [i \in DOMAIN docs |->
                  Declared(OverlayId(book, n, docs[i]), Smil(book, n, root, docs[i]), "smil", None)]
              \o << Declared(AudioId(book), Audio(root), "audio", None) >>
              \o FlattenSeq([i \in DOMAIN pages |->
                  << Declared(PageId(book, pages[i]), PagePath(root, pages[i]), "xhtml", PageOverlayId(book, pages[i])),
                     Declared(PageOverlayId(book, pages[i]), PageSmil(root, pages[i]), "smil", None) >>])
      BY Zenon DEF Manifest
    <3>3. m1 = [i \in DOMAIN book.items |->
              IF book.items[i].type = "xhtml" /\ book.items[i].path \in Range(docs)
                THEN [id |-> book.items[i].id, path |-> book.items[i].path, type |-> book.items[i].type,
                      nav |-> book.items[i].nav, remote |-> book.items[i].remote,
                      overlay |-> OverlayId(book, n, book.items[i].path)]
                ELSE [id |-> book.items[i].id, path |-> book.items[i].path, type |-> book.items[i].type,
                      nav |-> book.items[i].nav, remote |-> book.items[i].remote, overlay |-> None]]
      BY <3>1
    <3> HIDE DEF m1, docs, pages
    <3>. QED
      BY <3>2, <3>3 DEF AudioItem
  <2> HIDE DEF m1, m2, docs, pages, F, PF, PG
  <2>. QED
    BY <2>1, <2>2, <2>3 DEF Joined
<1>3. m \in Nat /\ DOMAIN book.items = 1..m
  BY BookFacts
<1>4. /\ \A x \in D : F[x] = OverlayItem(book, n, root, x) /\ F[x].id = OverlayId(book, n, x)
      /\ \A x \in P : PF[x].id = PageId(book, x) /\ PG[x].id = PageOverlayId(book, x)
      /\ AudioItem(book, root).id = AudioId(book)
  BY DEF OverlayItem, PageItem, PageSmilItem, AudioItem, Declared
<1>5. DOMAIN F = D /\ DOMAIN PF = P /\ DOMAIN PG = P
  OBVIOUS
<1>6. N = R2 \cup R3 \cup R4
  <2>1. R2 = {OverlayItem(book, n, root, x) : x \in D}
    OBVIOUS
  <2>2. R4 = {PageItem(book, root, page) : page \in P} \cup {PageSmilItem(book, root, page) : page \in P}
    OBVIOUS
  <2> HIDE DEF R2, R4
  <2>. QED
    BY <2>1, <2>2 DEF NewItems
<1> HIDE DEF docs, pages, D, P, F, PF, PG, N, m
<1>7. Enumerates(m2, R2)
  <2>1. \A x, y \in D : F[x] = F[y] => x = y
    <3> SUFFICES ASSUME NEW x \in D, NEW y \in D, F[x] = F[y] PROVE x = y
      OBVIOUS
    <3>1. OverlayId(book, n, x) = OverlayId(book, n, y)
      BY <1>4
    <3>. QED
      BY <3>1, NewIdsDiffer DEF D, docs
  <2>. QED
    BY <1>1, <1>5, <2>1, EnumeratesMapped
<1>8. Enumerates(m4, R4)
  <2>1. \A x, y \in P : PF[x] = PF[y] => x = y
    <3> SUFFICES ASSUME NEW x \in P, NEW y \in P, PF[x] = PF[y] PROVE x = y
      OBVIOUS
    <3>1. PageId(book, x) = PageId(book, y)
      BY <1>4
    <3>. QED
      BY <3>1, NewIdsDiffer DEF P
  <2>2. \A x, y \in P : PG[x] = PG[y] => x = y
    <3> SUFFICES ASSUME NEW x \in P, NEW y \in P, PG[x] = PG[y] PROVE x = y
      OBVIOUS
    <3>1. PageOverlayId(book, x) = PageOverlayId(book, y)
      BY <1>4
    <3>. QED
      BY <3>1, NewIdsDiffer DEF P
  <2>3. \A x, y \in P : PF[x] # PG[y]
    <3> SUFFICES ASSUME NEW x \in P, NEW y \in P, PF[x] = PG[y] PROVE FALSE
      OBVIOUS
    <3>1. PageId(book, x) = PageOverlayId(book, y)
      BY <1>4
    <3>. QED
      BY <3>1, NewIdsDiffer
  <2>4. P \subseteq DOMAIN PF /\ P \subseteq DOMAIN PG
    BY <1>5
  <2>. QED
    BY <1>1, <2>1, <2>2, <2>3, <2>4, EnumeratesPairs
<1>9. R2 \cap R3 = {}
  <2> SUFFICES ASSUME NEW x \in D, F[x] = AudioItem(book, root) PROVE FALSE
    OBVIOUS
  <2>1. OverlayId(book, n, x) = AudioId(book)
    BY <1>4
  <2>. QED
    BY <2>1, NewIdsDiffer
<1>10. (R2 \cup R3) \cap R4 = {}
  <2> SUFFICES ASSUME NEW z \in R2 \cup R3, NEW x \in P, z = PF[x] \/ z = PG[x] PROVE FALSE
    OBVIOUS
  <2>1. z.id = PageId(book, x) \/ z.id = PageOverlayId(book, x)
    BY <1>4
  <2>2. z.id = AudioId(book) \/ \E y \in D : z.id = OverlayId(book, n, y)
    BY <1>4
  <2>. QED
    BY <2>1, <2>2, NewIdsDiffer
<1> HIDE DEF R2, R4, m1, m2, m4
<1>11. Enumerates(t, N)
  <2>1. Enumerates(m3, R3)
    BY EnumeratesOne
  <2> HIDE DEF m3, R3
  <2>2. Enumerates(Joined(m2, m3), R2 \cup R3)
    BY <1>7, <1>9, <2>1, EnumeratesJoined
  <2>. QED
    BY <1>6, <1>8, <1>10, <2>2, EnumeratesJoined
<1>12. Manifest(book, n, root) = Joined(m1, t)
  <2> DEFINE X == Range(m1) \cup N
  <2>2. m1 \in Seq(X)
    <3>1. m1 \in Seq(Range(m1))
      <4>1. m1 = [i \in 1..m |-> Rewritten(book, n, book.items[i])]
        BY <1>3 DEF m1
      <4>2. m1 \in [1..m -> Range(m1)]
        <5>1. \A i \in 1..m : m1[i] \in Range(m1)
          BY <4>1 DEF Range
        <5>. QED
          BY <4>1, <5>1
      <4>. QED
        BY <1>3, <4>2
    <3>. QED
      BY <3>1, SeqWiden
  <2>3. m2 \in Seq(X) /\ m3 \in Seq(X) /\ m4 \in Seq(X)
    <3>1. R2 \subseteq X /\ R3 \subseteq X /\ R4 \subseteq X
      BY <1>6
    <3>2. Enumerates(m3, R3)
      BY EnumeratesOne
    <3> HIDE DEF X, m3, R3
    <3>. QED
      BY <1>7, <1>8, <3>1, <3>2, SeqWiden DEF Enumerates
  <2> HIDE DEF X, m3
  <2>4. Joined(Joined(Joined(m1, m2), m3), m4) = Joined(m1, Joined(Joined(m2, m3), m4))
    BY <2>2, <2>3, FourLists
  <2>. QED
    BY <1>2, <2>4
<1>13. m1 \in Seq(Range(m1)) /\ Len(m1) = m /\ \A i \in 1..m : m1[i] = Rewritten(book, n, book.items[i])
  <2>1. m1 = [i \in 1..m |-> Rewritten(book, n, book.items[i])]
    BY <1>3 DEF m1
  <2>2. m1 \in [1..m -> Range(m1)]
    <3>1. \A i \in 1..m : m1[i] \in Range(m1)
      BY <2>1 DEF Range
    <3>. QED
      BY <2>1, <3>1
  <2>. QED
    BY <1>3, <2>1, <2>2
<1> DEFINE items == Joined(m1, t)
           X == Range(m1) \cup N
<1> HIDE DEF t
<1>14. m1 \in Seq(X) /\ t \in Seq(X) /\ Len(t) \in Nat
  <2>1. t \in Seq(N)
    BY <1>11 DEF Enumerates
  <2>. QED
    BY <1>13, <2>1, SeqWiden
<1> HIDE DEF X
<1>15. items \in Seq(X) /\ Len(items) = m + Len(t)
  BY <1>13, <1>14, JoinedLists
<1>16. \A i \in 1..m : items[i] = Rewritten(book, n, book.items[i])
  <2>1. \A i \in 1..Len(m1) : items[i] = m1[i]
    BY <1>14, JoinedLists
  <2>. QED
    BY <1>13, <2>1
<1>17. \A i \in 1..Len(t) : items[m + i] = t[i]
  <2>1. \A i \in 1..Len(t) : items[Len(m1) + i] = t[i]
    BY <1>14, JoinedLists
  <2>. QED
    BY <1>13, <2>1
<1> HIDE DEF items
<1>18. ASSUME NEW i \in 1..Len(items), i > m PROVE i - m \in 1..Len(t) /\ items[i] = t[i - m]
  <2>1. i - m \in 1..Len(t) /\ m + (i - m) = i
    BY <1>3, <1>14, <1>15, <1>18
  <2>. QED
    BY <1>17, <2>1
<1>19. \A k \in 1..Len(t) : m + k \in 1..Len(items) /\ m + k > m
  BY <1>3, <1>14, <1>15
<1>20. DOMAIN t = 1..Len(t) /\ IsInjective(t) /\ Range(t) = N
  BY <1>11, <1>14 DEF Enumerates
<1>21. \A i \in 1..Len(items) : i > m => items[i] \in N
  BY <1>18, <1>20 DEF Range
<1>22. \A i, j \in 1..Len(items) : i > m /\ j > m /\ items[i] = items[j] => i = j
  <2> SUFFICES ASSUME NEW i \in 1..Len(items), NEW j \in 1..Len(items), i > m, j > m, items[i] = items[j]
               PROVE  i = j
    OBVIOUS
  <2>1. i - m \in 1..Len(t) /\ j - m \in 1..Len(t) /\ t[i - m] = t[j - m]
    BY <1>18
  <2>2. i - m = j - m
    BY <1>20, <2>1 DEF IsInjective
  <2>3. i \in Nat /\ j \in Nat
    BY <1>3, <1>14, <1>15
  <2>. QED
    BY <1>3, <2>2, <2>3
<1>23. \A item \in N : \E i \in 1..Len(items) : i > m /\ items[i] = item
  <2> TAKE item \in N
  <2>1. PICK k \in 1..Len(t) : t[k] = item
    BY <1>20 DEF Range
  <2>. QED
    BY <1>17, <1>19, <2>1
<1>24. Len(items) \in Nat /\ DOMAIN items = 1..Len(items) /\ m <= Len(items)
  BY <1>3, <1>14, <1>15
<1>25. ManifestOf(items, book, n, root)
  BY <1>3, <1>16, <1>21, <1>22, <1>23, <1>24 DEF ManifestOf, m, N
<1>. QED
  BY <1>12, <1>25 DEF items

-----------------------------------------------------------------------------
(* What the book was is still there.                                       *)

LEMMA BuiltLeavesTheRest == BuiltFromBook => NothingElseTouched
<1> SUFFICES ASSUME BuiltFromBook PROVE NothingElseTouched
  OBVIOUS
<1>1. DocumentsKept
  BY BuiltKeepsDocuments
<1>2. ASSUME stage \in {"validate", "completed", "rejected"}
      PROVE  /\ Range(made.book.files) \subseteq Range(made.epub.entries)
             /\ \A i \in DOMAIN made.book.items : made.epub.items[i].id = made.book.items[i].id
             /\ Among(made.epub.spine, {r \in Range(made.epub.spine) : r.idref \notin NewRefs}) = made.book.spine
             /\ \A page \in made.narration.pages : AtAnchor(page)
  <2> DEFINE book == made.book
             n == made.narration
             root == UniqueResourceRoot(book.files)
  <2>1. /\ book \in Books /\ n \in Narrations /\ Extractable(book) /\ Narrates(book, n)
        /\ Buildable(book, n) /\ made.epub = Built(book, n)
    BY <1>2 DEF BuiltFromBook, BuiltStages
  <2>2. IsBook(book) /\ IsNarration(n)
    BY <2>1, BooksAssumption, NarrationsAssumption
  <2>3. /\ made.epub.entries = Entries(book, n, root) /\ made.epub.items = Manifest(book, n, root)
        /\ made.epub.spine = Spine(book, n)
    BY <2>1 DEF Built
  <2>4. NewRefs = PagesOf(book, n)
    BY DEF NewRefs, PagesOf
  <2>5. \A page \in n.pages : AnchorInSpine(book, page)
    BY <2>1 DEF Buildable
  <2> HIDE DEF book, n, root
  <2>6. Range(book.files) \subseteq Range(made.epub.entries)
    <3>1. Enumerates(Entries(book, n, root), {Mimetype, Package} \cup Range(book.files) \cup NewFiles(book, n, root))
      BY <2>1, <2>2, EntriesFacts DEF root
    <3>. QED
      BY <2>3, <3>1 DEF Enumerates
  <2>7. \A i \in DOMAIN book.items : made.epub.items[i].id = book.items[i].id
    <3>1. ManifestOf(made.epub.items, book, n, root)
      BY <2>1, <2>2, <2>3, ManifestFacts
    <3>2. \A i \in 1..Len(book.items) : made.epub.items[i] = Rewritten(book, n, book.items[i])
      BY <3>1 DEF ManifestOf
    <3>3. DOMAIN book.items = 1..Len(book.items)
      BY <2>2, BookFacts
    <3>4. \A item : Rewritten(book, n, item).id = item.id
      BY DEF Rewritten
    <3>. QED
      BY <3>2, <3>3, <3>4
  <2>8. Among(made.epub.spine, {r \in Range(made.epub.spine) : r.idref \notin NewRefs}) = book.spine
    BY <2>1, <2>2, <2>3, <2>4, SpineKept
  <2>9. ASSUME NEW page \in n.pages PROVE AtAnchor(page)
    <3>1. \E i \in PlaceOf(PageId(book, page)), j \in PlaceOf(XhtmlId(book, page.href)) :
            /\ PlaceOf(PageId(book, page)) = {i}
            /\ IF page.before THEN i < j ELSE j < i
            /\ \A k \in DOMAIN made.epub.spine :
                 (i < k /\ k < j) \/ (j < k /\ k < i) => made.epub.spine[k].idref \in NewRefs
      BY <2>1, <2>2, <2>3, <2>4, <2>5, PageAtAnchor DEF PlaceOf
    <3>. QED
      BY <3>1 DEF AtAnchor, book
  <2>. QED
    BY <2>6, <2>7, <2>8, <2>9 DEF book, n
<1>. QED
  BY <1>1, <1>2 DEF NothingElseTouched

(* Whatever ids and files a source has, and whatever introductions and     *)
(* credits the user keeps, building changes nothing of the book but what   *)
(* the overlays need: run_build_epub, rewrite_package and                  *)
(* add_supplemental_package_items of core/epub_build.rs.                   *)
THEOREM BookIsKept == Spec => []NothingElseTouched
BY BuiltAlways, BuiltLeavesTheRest, PTL

-----------------------------------------------------------------------------
(* Lines and blocks.                                                       *)

LEMMA ElementFacts ==
  ASSUME NEW d, IsDocument(d)
  PROVE  /\ IsFiniteSet(DOMAIN d.class) /\ DOMAIN d.id = DOMAIN d.class /\ DOMAIN d.image = DOMAIN d.class
         /\ \A n \in DOMAIN d.class : d.from[n] \in Nat /\ d.to[n] \in Nat /\ d.from[n] <= d.to[n]
         /\ DOMAIN d.text \subseteq Nat /\ IsFiniteSet(DOMAIN d.text)
BY DEF IsDocument

(* Elements nest.                                                          *)
LEMMA Nested ==
  ASSUME NEW d, IsDocument(d), NEW n \in DOMAIN d.class, NEW m \in DOMAIN d.class, n # m
  PROVE  \/ d.to[n] < d.from[m] \/ d.to[m] < d.from[n]
         \/ d.from[n] < d.from[m] /\ d.to[m] < d.to[n]
         \/ d.from[m] < d.from[n] /\ d.to[n] < d.to[m]
BY DEF IsDocument

LEMMA OpensOnce ==
  ASSUME NEW d, IsDocument(d), NEW n \in DOMAIN d.class, NEW m \in DOMAIN d.class, d.from[n] = d.from[m]
  PROVE  n = m
<1>1. /\ d.from[n] \in Nat /\ d.to[n] \in Nat /\ d.from[n] <= d.to[n]
      /\ d.from[m] \in Nat /\ d.to[m] \in Nat /\ d.from[m] <= d.to[m]
  BY ElementFacts
<1>. QED
  BY <1>1, Nested

LEMMA TextApart ==
  ASSUME NEW d, IsDocument(d), NEW i \in DOMAIN d.text
  PROVE  /\ i \in Nat /\ \A b \in Boundaries(d) : b \in Nat /\ i # b
         /\ \A n \in DOMAIN d.class : i # d.from[n] /\ i # d.to[n]
<1>1. \A n \in DOMAIN d.class : i # d.from[n] /\ i # d.to[n] /\ d.from[n] \in Nat /\ d.to[n] \in Nat
  BY ElementFacts DEF IsDocument
<1>2. i \in Nat
  BY ElementFacts
<1>3. \A b \in Boundaries(d) : \E n \in DOMAIN d.class : b = d.from[n] \/ b = d.to[n]
  BY DEF Boundaries
<1>. QED
  BY <1>1, <1>2, <1>3

LEMMA PiecesFacts ==
  ASSUME NEW d, IsDocument(d), NEW kinds
  PROVE  /\ Pieces(d, kinds) \subseteq DOMAIN d.text /\ Pieces(d, kinds) \subseteq Nat
         /\ IsFiniteSet(Pieces(d, kinds))
         /\ LineStarts(d, kinds) \subseteq Pieces(d, kinds) /\ IsFiniteSet(LineStarts(d, kinds))
<1>1. Pieces(d, kinds) \in SUBSET DOMAIN d.text
  BY DEF Pieces
<1>2. LineStarts(d, kinds) \in SUBSET Pieces(d, kinds)
  BY DEF LineStarts
<1>3. IsFiniteSet(Pieces(d, kinds))
  BY <1>1, ElementFacts, FS_Subset
<1>4. IsFiniteSet(LineStarts(d, kinds))
  BY <1>2, <1>3, FS_Subset
<1>. QED
  BY <1>1, <1>2, <1>3, <1>4, ElementFacts

LEMMA OwnerPieces == ASSUME NEW d PROVE Pieces(d, OwnerText) \subseteq Pieces(d, CorpusText)
BY DEF Pieces, OwnerText, CorpusText

(* Between the starts of two lines is a boundary.                          *)
LEMMA LinesApart ==
  ASSUME NEW d, NEW kinds, NEW i \in Pieces(d, kinds), NEW j \in LineStarts(d, kinds), i < j
  PROVE  \E b \in Boundaries(d) : i < b /\ b < j
BY DEF LineStarts

(* i and j are of one line.                                                *)
Together(d, i, j) == i <= j /\ \A b \in Boundaries(d) : ~(i < b /\ b < j)

(* Each piece of text is of a line.                                        *)
LEMMA LineOf ==
  ASSUME NEW d, IsDocument(d), NEW kinds, NEW p \in Pieces(d, kinds)
  PROVE  \E i \in LineStarts(d, kinds) : Together(d, i, p)
<1> DEFINE T == {q \in Pieces(d, kinds) : Together(d, q, p)}
<1>1. Pieces(d, kinds) \subseteq Nat /\ \A q \in Pieces(d, kinds) : q \in DOMAIN d.text
  BY PiecesFacts
<1>2. p \in T
  <2>1. p \in Nat /\ \A b \in Boundaries(d) : b \in Nat
    BY <1>1, TextApart
  <2>. QED
    BY <2>1 DEF Together
<1>3. T \in SUBSET Nat /\ T # {}
  BY <1>1, <1>2
<1>4. PICK i \in T : \A q \in T : i <= q
  <2> HIDE DEF T
  <2>. QED
    BY <1>3, LeastNumber
<1>5. ASSUME NEW j \in Pieces(d, kinds), j < i PROVE \E b \in Boundaries(d) : j < b /\ b < i
  <2>1. i \in Nat /\ j \in Nat /\ p \in Nat /\ i \in DOMAIN d.text /\ i <= p
    BY <1>1 DEF Together
  <2>2. j \notin T
    BY <1>4, <1>5, <2>1
  <2>3. PICK b \in Boundaries(d) : j < b /\ b < p
    BY <1>5, <2>1, <2>2 DEF Together
  <2>4. b \in Nat /\ i # b
    BY <2>1, TextApart
  <2>5. ~(i < b /\ b < p)
    BY DEF Together
  <2>. QED
    BY <2>1, <2>3, <2>4, <2>5
<1>6. i \in LineStarts(d, kinds)
  BY <1>5 DEF LineStarts
<1>. QED
  BY <1>6

LEMMA LineNumbers ==
  ASSUME NEW d, IsDocument(d), NEW kinds
  PROVE  /\ LineCount(d, kinds) \in Nat
         /\ \A line \in 1..LineCount(d, kinds) :
              /\ LineStart(d, kinds, line) \in LineStarts(d, kinds)
              /\ Cardinality({j \in LineStarts(d, kinds) : j <= LineStart(d, kinds, line)}) = line
         /\ \A i \in LineStarts(d, kinds) :
              LET line == Cardinality({j \in LineStarts(d, kinds) : j <= i})
              IN  line \in 1..LineCount(d, kinds) /\ LineStart(d, kinds, line) = i
<1> DEFINE S == LineStarts(d, kinds)
           at == [i \in S |-> i]
           N(i) == Cardinality({j \in S : j <= i})
<1>1. IsFiniteSet(S) /\ S \subseteq Nat
  BY PiecesFacts
<1>2. \A i \in S : RankBy(S, at, i) = N(i)
  <2> TAKE i \in S
  <2>1. {y \in S : at[y] <= at[i]} = {j \in S : j <= i}
    BY DEF at
  <2>. QED
    BY <2>1 DEF RankBy
<1>3. (\A x \in S : at[x] \in Nat) /\ \A x, y \in S : at[x] = at[y] => x = y
  BY <1>1
<1> HIDE DEF at, S
<1>4. /\ \A x \in S : RankBy(S, at, x) \in 1..Cardinality(S)
      /\ \A x, y \in S : RankBy(S, at, x) = RankBy(S, at, y) => x = y
      /\ \A k \in 1..Cardinality(S) : \E x \in S : RankBy(S, at, x) = k
      /\ Cardinality(S) \in Nat
  BY <1>1, <1>3, RankFacts
<1> HIDE DEF N
<1>5. /\ \A x \in S : N(x) \in 1..Cardinality(S)
      /\ \A x, y \in S : N(x) = N(y) => x = y
      /\ \A k \in 1..Cardinality(S) : \E x \in S : N(x) = k
  BY <1>2, <1>4
<1>6. \A line : LineStart(d, kinds, line) = CHOOSE i \in S : N(i) = line
  BY DEF LineStart, S, N
<1>7. \A line \in 1..Cardinality(S) : LineStart(d, kinds, line) \in S /\ N(LineStart(d, kinds, line)) = line
  BY <1>5, <1>6
<1>8. \A i \in S : LineStart(d, kinds, N(i)) = i
  BY <1>5, <1>7
<1>. QED
  BY <1>4, <1>5, <1>7, <1>8 DEF LineCount, S, N

(* A block that is not hidden begins and ends at a boundary.               *)
LEMMA BlockBounds ==
  ASSUME NEW d, IsDocument(d), NEW n \in Containers(d), d.class[n] = "block"
  PROVE  d.from[n] \in Boundaries(d) /\ d.to[n] \in Boundaries(d)
<1>1. n \in DOMAIN d.class /\ ~Hidden(d, d.from[n])
  BY DEF Containers
<1>2. d.from[n] \in Nat /\ d.to[n] \in Nat /\ d.from[n] <= d.to[n]
  BY <1>1, ElementFacts
<1>3. ~Hidden(d, d.to[n])
  <2> SUFFICES ASSUME NEW m \in Around(d, d.to[n]), d.class[m] = "hidden" PROVE FALSE
    BY DEF Hidden
  <2>1. m \in DOMAIN d.class /\ d.from[m] <= d.to[n] /\ d.to[n] <= d.to[m]
    BY DEF Around
  <2>2. d.from[m] \in Nat /\ d.to[m] \in Nat
    BY <2>1, ElementFacts
  <2>3. m # n
    OBVIOUS
  <2>4. d.from[m] < d.from[n] /\ d.to[n] < d.to[m]
    BY <1>1, <1>2, <2>1, <2>2, <2>3, Nested
  <2>5. m \in Around(d, d.from[n])
    BY <1>2, <2>1, <2>2, <2>4 DEF Around
  <2>. QED
    BY <1>1, <2>5 DEF Hidden
<1> DEFINE E == {k \in DOMAIN d.class : d.class[k] \in {"block", "break"}}
           U == UNION {{d.from[k], d.to[k]} : k \in E}
<1>4. d.from[n] \in U /\ d.to[n] \in U
  BY <1>1
<1>5. Boundaries(d) = {i \in U : ~Hidden(d, i)}
  BY DEF Boundaries
<1> HIDE DEF U
<1>. QED
  BY <1>1, <1>3, <1>4, <1>5

(* The block a piece of text is in, as stack.last() has it.                *)
LEMMA InnermostFacts ==
  ASSUME NEW d, IsDocument(d), NEW i \in Pieces(d, CorpusText)
  PROVE  Innermost(d, i) \in Containers(d) /\ Innermost(d, i) \in Around(d, i)
<1> DEFINE S == Around(d, i) \cap Containers(d)
<1>1. S # {}
  BY DEF IsDocument
<1>2. S \in SUBSET DOMAIN d.class /\ IsFiniteSet(DOMAIN d.class)
  BY ElementFacts DEF Containers
<1>3. IsFiniteSet(S)
  BY <1>2, FS_Subset
<1>4. S \subseteq DOMAIN d.from /\ \A n \in S : d.from[n] \in Nat
  <2>1. DOMAIN d.from = DOMAIN d.class
    BY DEF IsDocument
  <2>. QED
    BY <1>2, <2>1, ElementFacts
<1>5. Innermost(d, i) = CHOOSE n \in S : \A m \in S : d.from[m] <= d.from[n]
  BY DEF Innermost
<1> HIDE DEF S
<1>6. \E n \in S : \A m \in S : d.from[m] <= d.from[n]
  BY <1>1, <1>3, <1>4, GreatestBy
<1>7. Innermost(d, i) \in S
  BY <1>5, <1>6
<1>. QED
  BY <1>7 DEF S

(* What is of one line is in one block.                                    *)
LEMMA SameBlock ==
  ASSUME NEW d, IsDocument(d), NEW i \in Pieces(d, CorpusText), NEW j \in Pieces(d, CorpusText), Together(d, i, j)
  PROVE  Innermost(d, i) = Innermost(d, j)
<1>1. /\ i \in DOMAIN d.text /\ j \in DOMAIN d.text /\ i \in Nat /\ j \in Nat
  BY PiecesFacts
<1>2. i <= j /\ \A b \in Boundaries(d) : ~(i < b /\ b < j)
  BY DEF Together
<1>3. ASSUME NEW n \in Containers(d) PROVE n \in Around(d, i) <=> n \in Around(d, j)
  <2>1. n \in DOMAIN d.class /\ d.class[n] \in {"body", "block"}
    BY DEF Containers
  <2>2. d.from[n] \in Nat /\ d.to[n] \in Nat
    BY <2>1, ElementFacts
  <2>3. CASE d.class[n] = "body"
    <3>1. \A k \in Pieces(d, CorpusText) : n \in Around(d, k)
      BY <2>3 DEF IsDocument
    <3>. QED
      BY <3>1
  <2>4. CASE d.class[n] = "block"
    <3>1. ~(i < d.from[n] /\ d.from[n] < j) /\ ~(i < d.to[n] /\ d.to[n] < j)
      BY <1>2, <2>4, BlockBounds
    <3>2. i # d.from[n] /\ i # d.to[n] /\ j # d.from[n] /\ j # d.to[n]
      BY <1>1, <2>1, TextApart
    <3>3. d.from[n] <= i <=> d.from[n] <= j
      BY <1>1, <1>2, <2>2, <3>1, <3>2
    <3>4. i <= d.to[n] <=> j <= d.to[n]
      BY <1>1, <1>2, <2>2, <3>1, <3>2
    <3>. QED
      BY <2>1, <3>3, <3>4 DEF Around
  <2>. QED
    BY <2>1, <2>3, <2>4
<1>4. Around(d, i) \cap Containers(d) = Around(d, j) \cap Containers(d)
  BY <1>3
<1>. QED
  BY <1>4 DEF Innermost

(* map_line_owners numbers the lines as the corpus does, up to the first   *)
(* block that holds nothing but references: the starts of both go with     *)
(* each other, one to one and in order.                                    *)
LEMMA SameLines ==
  ASSUME NEW d, IsDocument(d), NEW line \in 1..LineCount(d, CorpusText), ~AfterReference(d, line)
  PROVE  /\ line \in 1..LineCount(d, OwnerText)
         /\ Together(d, LineStart(d, CorpusText, line), LineStart(d, OwnerText, line))
<1> DEFINE C == LineStarts(d, CorpusText)
           O == LineStarts(d, OwnerText)
           c == LineStart(d, CorpusText, line)
           Upto == {i \in C : i <= c}
           h == [i \in Upto |-> CHOOSE j \in O : Together(d, i, j)]
           T == {j \in O : j <= h[c]}
<1>1. c \in C /\ Cardinality(Upto) = line
  BY LineNumbers
<1>2. /\ C \subseteq Pieces(d, CorpusText) /\ O \subseteq Pieces(d, OwnerText) /\ O \subseteq Pieces(d, CorpusText)
      /\ IsFiniteSet(C) /\ Pieces(d, CorpusText) \subseteq Nat /\ Pieces(d, CorpusText) \subseteq DOMAIN d.text
  BY PiecesFacts, OwnerPieces
<1>3. \A b \in Boundaries(d), i \in Pieces(d, CorpusText) : b \in Nat /\ i # b
  BY <1>2, TextApart
<1>4. \A i \in Upto : \E j \in O : Together(d, i, j)
  <2> TAKE i \in Upto
  <2>1. i \in O \/ \E j \in O : j > i /\ \A b \in Boundaries(d) : ~(i < b /\ b < j)
    BY DEF AfterReference
  <2>2. CASE i \in O
    <3>1. Together(d, i, i)
      BY <1>2, <1>3 DEF Together
    <3>. QED
      BY <2>2, <3>1
  <2>3. CASE \E j \in O : j > i /\ \A b \in Boundaries(d) : ~(i < b /\ b < j)
    <3>1. PICK j \in O : j > i /\ \A b \in Boundaries(d) : ~(i < b /\ b < j)
      BY <2>3
    <3>2. i <= j
      BY <1>2, <3>1
    <3>. QED
      BY <3>1, <3>2 DEF Together
  <2>. QED
    BY <2>1, <2>2, <2>3
<1>5. \A i \in Upto : h[i] \in O /\ Together(d, i, h[i])
  BY <1>4
<1>6. c \in Upto
  BY <1>1, <1>2
<1>7. Upto \subseteq C /\ \A i \in Upto : i <= c
  OBVIOUS
<1>8. \A i, j \in C : i < j => \E b \in Boundaries(d) : i < b /\ b < j
  BY <1>2, LinesApart
<1>9. \A i, j \in O : i < j => \E b \in Boundaries(d) : i < b /\ b < j
  BY <1>2, LinesApart
<1> HIDE DEF C, O, c, Upto, h
(* Only one start of the builder is of the same line.                      *)
<1>10. ASSUME NEW i \in C, NEW j \in O, NEW k \in O, Together(d, i, j), Together(d, i, k) PROVE j = k
  <2>1. i \in Nat /\ j \in Nat /\ k \in Nat
    BY <1>2
  <2>2. ~(j < k)
    <3> SUFFICES ASSUME j < k PROVE FALSE
      OBVIOUS
    <3>1. PICK b \in Boundaries(d) : j < b /\ b < k
      BY <1>9
    <3>2. i <= j /\ ~(i < b /\ b < k)
      BY <1>10, <3>1 DEF Together
    <3>3. b \in Nat
      BY <1>2, <1>3
    <3>. QED
      BY <2>1, <3>1, <3>2, <3>3
  <2>3. ~(k < j)
    <3> SUFFICES ASSUME k < j PROVE FALSE
      OBVIOUS
    <3>1. PICK b \in Boundaries(d) : k < b /\ b < j
      BY <1>9
    <3>2. i <= k /\ ~(i < b /\ b < j)
      BY <1>10, <3>1 DEF Together
    <3>3. b \in Nat
      BY <1>2, <1>3
    <3>. QED
      BY <2>1, <3>1, <3>2, <3>3
  <2>. QED
    BY <2>1, <2>2, <2>3
<1>11. ASSUME NEW i \in C, NEW j \in C, i < j, NEW k \in O, Together(d, i, k), NEW l \in O, Together(d, j, l)
       PROVE  k < l
  <2>1. i \in Nat /\ j \in Nat /\ k \in Nat /\ l \in Nat
    BY <1>2
  <2>2. PICK b \in Boundaries(d) : i < b /\ b < j
    BY <1>8, <1>11
  <2>3. ~(i < b /\ b < k) /\ j <= l
    BY <1>11 DEF Together
  <2>4. b \in Nat /\ k # b
    BY <1>2, <1>3
  <2>. QED
    BY <2>1, <2>2, <2>3, <2>4
<1>12. h \in [Upto -> T]
  <2>1. \A i \in Upto : h[i] <= h[c]
    <3> TAKE i \in Upto
    <3>1. i \in Nat /\ c \in Nat /\ h[i] \in Nat /\ h[c] \in Nat /\ i \in C /\ c \in C
      BY <1>2, <1>5, <1>6, <1>7
    <3>2. CASE i = c
      BY <3>1, <3>2
    <3>3. CASE i < c
      <4>1. h[i] < h[c]
        BY <1>5, <1>6, <1>11, <3>1, <3>3
      <4>. QED
        BY <3>1, <4>1
    <3>. QED
      BY <1>7, <3>1, <3>2, <3>3
  <2>2. h = [i \in Upto |-> h[i]]
    BY DEF h
  <2>. QED
    BY <1>5, <2>1, <2>2
<1>13. \A i, j \in Upto : h[i] = h[j] => i = j
  <2> SUFFICES ASSUME NEW i \in Upto, NEW j \in Upto, h[i] = h[j] PROVE i = j
    OBVIOUS
  <2>1. i \in C /\ j \in C /\ i \in Nat /\ j \in Nat /\ h[i] \in O /\ h[i] \in Nat
    BY <1>2, <1>5, <1>7
  <2>2. ~(h[i] < h[i])
    BY <2>1
  <2>3. ~(i < j) /\ ~(j < i)
    BY <1>5, <1>11, <2>1, <2>2
  <2>. QED
    BY <2>1, <2>3
<1>14. \A j \in T : \E i \in Upto : h[i] = j
  <2> TAKE j \in T
  <2>1. j \in O /\ j <= h[c] /\ j \in Pieces(d, CorpusText) /\ h[c] \in O /\ c \in C
    BY <1>2, <1>5, <1>6, <1>7
  <2>2. PICK i \in C : Together(d, i, j)
    BY <2>1, LineOf DEF C
  <2>3. i \in Nat /\ c \in Nat /\ j \in Nat /\ h[c] \in Nat
    BY <1>2, <2>1
  <2>4. i <= c
    <3> SUFFICES ASSUME c < i PROVE FALSE
      BY <2>3
    <3>1. PICK b \in Boundaries(d) : c < b /\ b < i
      BY <1>8, <2>1
    <3>2. ~(c < b /\ b < h[c]) /\ i <= j
      BY <1>5, <1>6, <2>2 DEF Together
    <3>3. b \in Nat
      BY <2>1, <1>3
    <3>. QED
      BY <2>1, <2>3, <3>1, <3>2, <3>3
  <2>5. i \in Upto
    BY <2>4 DEF Upto
  <2>6. h[i] = j
    BY <1>5, <1>10, <2>1, <2>2, <2>5
  <2>. QED
    BY <2>5, <2>6
<1>15. IsFiniteSet(Upto)
  <2>1. Upto \in SUBSET C
    BY <1>7
  <2>. QED
    BY <1>2, <2>1, FS_Subset
<1>16. Cardinality(T) = line
  <2> HIDE DEF T
  <2>. QED
    BY <1>1, <1>12, <1>13, <1>14, <1>15, SameNumber
<1>17. h[c] \in O
  BY <1>5, <1>6
<1>18. line \in 1..LineCount(d, OwnerText) /\ LineStart(d, OwnerText, line) = h[c]
  <2>1. T = {j \in LineStarts(d, OwnerText) : j <= h[c]}
    BY DEF T, O
  <2> HIDE DEF T
  <2>. QED
    BY <1>16, <1>17, <2>1, LineNumbers DEF O
<1>. QED
  BY <1>5, <1>6, <1>18 DEF c

LEMMA OwnerFound ==
  ASSUME NEW d, IsDocument(d), NEW line \in 1..LineCount(d, CorpusText), ~AfterReference(d, line)
  PROVE  Owner(d, line) = Innermost(d, LineStart(d, CorpusText, line))
<1>1. line \in 1..LineCount(d, OwnerText)
  BY SameLines
<1>2. Together(d, LineStart(d, CorpusText, line), LineStart(d, OwnerText, line))
  BY SameLines
<1>3. LineStart(d, CorpusText, line) \in Pieces(d, CorpusText)
  BY LineNumbers, PiecesFacts
<1>4. LineStart(d, OwnerText, line) \in Pieces(d, CorpusText)
  BY <1>1, LineNumbers, PiecesFacts, OwnerPieces
<1>. QED
  BY <1>2, <1>3, <1>4, SameBlock DEF Owner

LEMMA OwnerFacts ==
  ASSUME NEW d, IsDocument(d), NEW line \in 1..LineCount(d, OwnerText)
  PROVE  Owner(d, line) \in Containers(d)
<1>1. LineStart(d, OwnerText, line) \in Pieces(d, CorpusText)
  BY LineNumbers, PiecesFacts, OwnerPieces
<1>. QED
  BY <1>1, InnermostFacts DEF Owner

-----------------------------------------------------------------------------
(* Anchors.                                                                *)

LEMMA NarrationFacts ==
  ASSUME NEW n, IsNarration(n)
  PROVE  /\ IsFiniteSet(n.text) /\ IsFiniteSet(n.graphics) /\ IsFiniteSet(n.pages)
         /\ \A x \in n.text \cup n.graphics \cup n.pages : x.item \in Nat \ {0}
         /\ \A x, y \in n.text : x.item = y.item => x = y
         /\ \A x, y \in n.graphics : x.item = y.item => x = y
         /\ \A x, y \in n.pages : x.item = y.item => x = y
         /\ \A x \in n.text, y \in n.graphics : x.item # y.item
         /\ \A x \in n.text \cup n.graphics, y \in n.pages : x.item # y.item
         /\ \A g, h \in n.graphics : g.href = h.href /\ g.image = h.image => g = h
<1> DEFINE ItemsOf(S) == {x.item : x \in S}
<1>1. \A S \in {n.text, n.graphics, n.pages} :
        /\ IsFiniteSet(S) /\ ItemsOf(S) \subseteq Nat \ {0}
        /\ \A x, y \in S : x.item = y.item => x = y
  BY DEF IsNarration
<1>2. ItemsOf(n.text) \cap ItemsOf(n.graphics) = {} /\ ItemsOf(n.text \cup n.graphics) \cap ItemsOf(n.pages) = {}
  BY DEF IsNarration
<1>3. \A g, h \in n.graphics : g.href = h.href /\ g.image = h.image => g = h
  BY DEF IsNarration
<1>4. \A S \in {n.text, n.graphics, n.pages} : \A x \in S : x.item \in Nat \ {0}
  BY <1>1
<1>5. \A x \in n.text, y \in n.graphics : x.item # y.item
  BY <1>2
<1>6. \A x \in n.text \cup n.graphics, y \in n.pages : x.item # y.item
  BY <1>2
<1> HIDE DEF ItemsOf
<1>. QED
  BY <1>1, <1>3, <1>4, <1>5, <1>6

LEMMA OrdinalOnce ==
  ASSUME NEW d, IsDocument(d), NEW n \in Containers(d), NEW m \in Containers(d), Ordinal(d, n) = Ordinal(d, m)
  PROVE  n = m
<1> DEFINE S == Containers(d)
           at == d.from
<1>1. S \in SUBSET DOMAIN d.class /\ IsFiniteSet(DOMAIN d.class)
  BY ElementFacts DEF Containers
<1>2. IsFiniteSet(S)
  BY <1>1, FS_Subset
<1>3. \A x \in S : at[x] \in Nat
  BY <1>1, ElementFacts
<1>4. \A x, y \in S : at[x] = at[y] => x = y
  BY <1>1, OpensOnce
<1>5. Ordinal(d, n) = RankBy(S, at, n) /\ Ordinal(d, m) = RankBy(S, at, m)
  BY DEF Ordinal, RankBy
<1> HIDE DEF S, at
<1>6. n \in S /\ m \in S
  BY DEF S
<1>7. \A x, y \in S : RankBy(S, at, x) = RankBy(S, at, y) => x = y
  BY <1>2, <1>3, <1>4, RankFacts
<1>. QED
  BY <1>5, <1>6, <1>7

(* An image is shown by the first element that shows it.                   *)
LEMMA ShownFacts ==
  ASSUME NEW d, IsDocument(d), NEW image, Showing(d, image) # {}
  PROVE  Shown(d, image) \in DOMAIN d.id /\ d.image[Shown(d, image)] = image
<1> DEFINE S == Showing(d, image)
<1>1. S \in SUBSET DOMAIN d.class /\ IsFiniteSet(DOMAIN d.class) /\ DOMAIN d.id = DOMAIN d.class
  BY ElementFacts DEF Showing
<1>2. IsFiniteSet(S)
  BY <1>1, FS_Subset
<1>3. S \subseteq DOMAIN d.from /\ \A n \in S : d.from[n] \in Nat
  <2>1. DOMAIN d.from = DOMAIN d.class
    BY DEF IsDocument
  <2>. QED
    BY <1>1, <2>1, ElementFacts
<1>4. Shown(d, image) = CHOOSE n \in S : \A m \in S : d.from[n] <= d.from[m]
  BY DEF Shown
<1>5. \A n \in S : d.image[n] = image
  BY DEF Showing
<1>6. S # {}
  OBVIOUS
<1> HIDE DEF S
<1>7. \E n \in S : \A m \in S : d.from[n] <= d.from[m]
  BY <1>2, <1>3, <1>6, GreatestBy
<1>8. Shown(d, image) \in S
  BY <1>4, <1>7
<1>. QED
  BY <1>1, <1>5, <1>8

LEMMA PushedAllIds ==
  ASSUME NEW d, NEW ids, "id" \in DOMAIN d
  PROVE  /\ DOMAIN PushedAll(d, ids).id = DOMAIN d.id
         /\ \A n \in DOMAIN d.id :
              PushedAll(d, ids).id[n] = IF n \in DOMAIN ids /\ d.id[n] = None THEN ids[n] ELSE d.id[n]
<1> DEFINE pushed == [n \in DOMAIN d.id |-> IF n \in DOMAIN ids THEN Pushed(d, n, ids[n]).id[n] ELSE d.id[n]]
<1>1. PushedAll(d, ids) = [d EXCEPT !.id = pushed]
  BY DEF PushedAll
<1>2. ASSUME NEW n \in DOMAIN d.id, NEW id PROVE Pushed(d, n, id).id[n] = IF d.id[n] = None THEN id ELSE d.id[n]
  BY DEF Pushed
<1>3. \A n \in DOMAIN d.id : pushed[n] = IF n \in DOMAIN ids /\ d.id[n] = None THEN ids[n] ELSE d.id[n]
  BY <1>2
<1>4. DOMAIN pushed = DOMAIN d.id
  OBVIOUS
<1> HIDE DEF pushed
<1>5. PushedAll(d, ids).id = pushed
  BY <1>1
<1>. QED
  BY <1>3, <1>4, <1>5

(* The ids a narrated document gets, d before, e with the anchors of its   *)
(* blocks and f with those of its images too.                              *)
TextId(d, k, section) == UniqueId(<<"stl-mo", section, Ordinal(d, k)>>, BlockIds(d))
ImageId(e, item, section) == UniqueId(<<"stl-graphic", section, item>>, Ids(e))

BlocksAnchored(d, e, owners, section) ==
  /\ DOMAIN e.id = DOMAIN d.id
  /\ \A k \in DOMAIN d.id : e.id[k] = IF k \in owners /\ d.id[k] = None THEN TextId(d, k, section) ELSE d.id[k]

ImagesAnchored(d, e, f, graphics, section) ==
  /\ DOMAIN f.id = DOMAIN d.id
  /\ \A k \in DOMAIN d.id : e.id[k] # None => f.id[k] = e.id[k]
  /\ \A k \in DOMAIN d.id :
       \/ f.id[k] = e.id[k]
       \/ e.id[k] = None /\ \E g \in graphics : k = Shown(d, g.image) /\ f.id[k] = ImageId(e, g.item, section)
  /\ \A g \in graphics :
       /\ Shown(d, g.image) \in DOMAIN d.id
       /\ e.id[Shown(d, g.image)] = None => f.id[Shown(d, g.image)] = ImageId(e, g.item, section)

LEMMA BlocksGetIds ==
  ASSUME NEW d, IsDocument(d), NEW asked, NEW section
  PROVE  BlocksAnchored(d, WithBlockAnchors(d, asked, section), {Owner(d, l) : l \in asked}, section)
<1> DEFINE owners == {Owner(d, l) : l \in asked}
           ids == [k \in owners |-> BlockAnchor(d, k, section)]
           e == WithBlockAnchors(d, asked, section)
<1>1. e = PushedAll(d, ids) /\ DOMAIN ids = owners /\ "id" \in DOMAIN d
  BY DEF WithBlockAnchors, IsDocument
<1>2. \A k \in owners : ids[k] = BlockAnchor(d, k, section)
  OBVIOUS
<1>3. \A k : d.id[k] = None => BlockAnchor(d, k, section) = TextId(d, k, section)
  BY DEF BlockAnchor, TextId
<1> HIDE DEF owners, ids, e
<1>4. /\ DOMAIN e.id = DOMAIN d.id
      /\ \A k \in DOMAIN d.id : e.id[k] = IF k \in DOMAIN ids /\ d.id[k] = None THEN ids[k] ELSE d.id[k]
  BY <1>1, PushedAllIds
<1>. QED
  BY <1>1, <1>2, <1>3, <1>4 DEF BlocksAnchored, owners, e

LEMMA ImagesGetIds ==
  ASSUME NEW d, IsDocument(d), NEW e, Keeps(d, e), NEW graphics, NEW section,
         \A g \in graphics : Showing(d, g.image) # {},
         \A g, h \in graphics : g.image = h.image => g = h
  PROVE  ImagesAnchored(d, e, WithImageAnchors(e, graphics, section), graphics, section)
<1> DEFINE f == WithImageAnchors(e, graphics, section)
           shown == {Shown(e, g.image) : g \in graphics}
           The(k) == CHOOSE g \in graphics : Shown(e, g.image) = k
           ids == [k \in shown |-> ImageAnchor(e, The(k).image, section, The(k).item)]
<1>1. f = PushedAll(e, ids) /\ DOMAIN ids = shown
  BY DEF WithImageAnchors
<1>2. "id" \in DOMAIN e /\ DOMAIN e.id = DOMAIN d.id
  BY DEF Keeps
<1>3. e.image = d.image /\ e.from = d.from
  <2>1. [e EXCEPT !.id = None].image = [d EXCEPT !.id = None].image
    BY DEF Keeps
  <2>2. [e EXCEPT !.id = None].from = [d EXCEPT !.id = None].from
    BY DEF Keeps
  <2>3. [e EXCEPT !.id = None] = [d EXCEPT !.id = None]
    BY DEF Keeps
  <2>4. "image" \in DOMAIN d /\ "from" \in DOMAIN d
    BY DEF IsDocument
  <2>5. DOMAIN e = DOMAIN d
    BY <2>3
  <2>. QED
    BY <2>1, <2>2, <2>4, <2>5
<1>4. \A image : Shown(e, image) = Shown(d, image)
  BY <1>3 DEF Shown, Showing
<1>5. \A g \in graphics : Shown(d, g.image) \in DOMAIN d.id /\ d.image[Shown(d, g.image)] = g.image
  BY ShownFacts
<1>6. ASSUME NEW g \in graphics PROVE The(Shown(d, g.image)) = g
  <2>1. \A h \in graphics : Shown(e, h.image) = Shown(d, g.image) => h = g
    BY <1>4, <1>5
  <2>2. Shown(e, g.image) = Shown(d, g.image)
    BY <1>4
  <2>. QED
    BY <2>1, <2>2
<1>7. \A g \in graphics : Shown(d, g.image) \in shown
  BY <1>4
<1>8. \A k \in shown : \E g \in graphics : k = Shown(d, g.image)
  BY <1>4
<1> HIDE DEF f, shown, The
<1>9. \A g \in graphics : ids[Shown(d, g.image)] = ImageAnchor(e, g.image, section, g.item)
  BY <1>6, <1>7
<1> HIDE DEF ids
<1>10. /\ DOMAIN f.id = DOMAIN e.id
       /\ \A k \in DOMAIN e.id : f.id[k] = IF k \in DOMAIN ids /\ e.id[k] = None THEN ids[k] ELSE e.id[k]
  BY <1>1, <1>2, PushedAllIds
<1>11. ASSUME NEW g \in graphics, e.id[Shown(d, g.image)] = None
       PROVE  ImageAnchor(e, g.image, section, g.item) = ImageId(e, g.item, section)
  BY <1>4, <1>11 DEF ImageAnchor, ImageId
<1>12. \A k \in DOMAIN d.id : e.id[k] # None => f.id[k] = e.id[k]
  BY <1>2, <1>10
<1>13. \A g \in graphics :
         e.id[Shown(d, g.image)] = None => f.id[Shown(d, g.image)] = ImageId(e, g.item, section)
  BY <1>1, <1>2, <1>5, <1>7, <1>9, <1>10, <1>11
<1>14. ASSUME NEW k \in DOMAIN d.id, f.id[k] # e.id[k]
       PROVE  e.id[k] = None /\ \E g \in graphics : k = Shown(d, g.image) /\ f.id[k] = ImageId(e, g.item, section)
  <2>1. k \in shown /\ e.id[k] = None
    BY <1>1, <1>2, <1>10, <1>14
  <2>2. PICK g \in graphics : k = Shown(d, g.image)
    BY <1>8, <2>1
  <2>. QED
    BY <1>13, <2>1, <2>2
<1>15. \A g \in graphics : Shown(d, g.image) \in DOMAIN d.id
  BY <1>5
<1>16. ImagesAnchored(d, e, f, graphics, section)
  BY <1>2, <1>10, <1>12, <1>13, <1>14, <1>15 DEF ImagesAnchored
<1>. QED
  BY <1>16 DEF f

LEMMA NoneIsNotBlank == None # Blank
<1>1. Len(None) = 0 /\ Len(Blank) = 1
  BY DEF None, Blank
<1>. QED
  BY <1>1

LEMMA MadeId == ASSUME NEW base, NEW used PROVE UniqueId(base, used) \notin {None, Blank}
<1> DEFINE k == CHOOSE i \in {m \in 1..(Cardinality(used) + 1) : <<base, m>> \notin used} :
                  \A j \in {m \in 1..(Cardinality(used) + 1) : <<base, m>> \notin used} : i <= j
<1>1. UniqueId(base, used) = <<base, k>>
  BY DEF UniqueId
<1> HIDE DEF k
<1>. QED
  BY <1>1 DEF None, Blank

LEMMA BlockIdsFinite == ASSUME NEW d, IsDocument(d) PROVE IsFiniteSet(BlockIds(d))
<1> DEFINE S == Containers(d)
           T == {d.id[n] : n \in S}
<1>1. S \in SUBSET DOMAIN d.id /\ IsFiniteSet(DOMAIN d.id)
  BY ElementFacts DEF Containers
<1>2. IsFiniteSet(S)
  BY <1>1, FS_Subset
<1> HIDE DEF S
<1>3. IsFiniteSet(T)
  BY <1>1, <1>2, ImageFinite
<1>4. BlockIds(d) \in SUBSET T
  BY DEF BlockIds, S
<1> HIDE DEF T
<1>. QED
  BY <1>3, <1>4, FS_Subset

LEMMA IdsFinite == ASSUME NEW d, IsFiniteSet(DOMAIN d.id) PROVE IsFiniteSet(Ids(d))
<1> DEFINE T == {d.id[n] : n \in DOMAIN d.id}
<1>1. IsFiniteSet(T)
  BY ImageFinite
<1>2. Ids(d) \in SUBSET T
  BY DEF Ids
<1> HIDE DEF T
<1>. QED
  BY <1>1, <1>2, FS_Subset

-----------------------------------------------------------------------------
(* The overlays.                                                           *)

TextPar(book, n, root, t) ==
  Par(t.item, t.href,
      BlockAnchor(book.docs[t.href], Owner(book.docs[t.href], t.line), SectionNumber(book, n, t.href)), Audio(root))
ImagePar(book, n, root, g) ==
  Par(g.item, g.href,
      ImageAnchor(TextAnnotated(book, n, g.href), g.image, SectionNumber(book, n, g.href), g.item), Audio(root))
PagePar(root, page) == Par(page.item, PagePath(root, page), PageAnchor(page.item), Audio(root))
PageOverlay(root, page) == [textref |-> PagePath(root, page), pars |-> {PagePar(root, page)}]

LEMMA SectionPars ==
  ASSUME NEW book, NEW n, NEW root, NEW x
  PROVE  /\ SectionSmil(book, n, x, Audio(root)).textref = x
         /\ SectionSmil(book, n, x, Audio(root)).pars =
              {TextPar(book, n, root, t) : t \in {t \in n.text : t.href = x}}
              \cup {ImagePar(book, n, root, g) : g \in GraphicsOf(n, x)}
<1> DEFINE number == SectionNumber(book, n, x)
           d == book.docs[x]
           A == {Par(t.item, x, BlockAnchor(d, Owner(d, t.line), number), Audio(root)) : t \in {t \in n.text : t.href = x}}
           B == {Par(g.item, x, ImageAnchor(TextAnnotated(book, n, x), g.image, number, g.item), Audio(root))
                   : g \in GraphicsOf(n, x)}
<1>1. SectionSmil(book, n, x, Audio(root)) = [textref |-> x, pars |-> A \cup B]
  BY DEF SectionSmil
<1>2. A = {TextPar(book, n, root, t) : t \in {t \in n.text : t.href = x}}
  BY DEF TextPar
<1>3. B = {ImagePar(book, n, root, g) : g \in GraphicsOf(n, x)}
  BY DEF ImagePar, GraphicsOf
<1> HIDE DEF A, B
<1>. QED
  BY <1>1, <1>2, <1>3

LEMMA SmilsFacts ==
  ASSUME NEW book, IsBook(book), NEW n, IsNarration(n), Extractable(book), Narrates(book, n),
         NEW root, root = UniqueResourceRoot(book.files)
  PROVE  LET smils == Built(book, n).smils
             docs == Range(SynchronizedDocs(book, n))
         IN  /\ \A x \in docs : smils[Smil(book, n, root, x)] = SectionSmil(book, n, x, Audio(root))
             /\ \A page \in n.pages : smils[PageSmil(root, page)] = PageOverlay(root, page)
             /\ \A x \in docs : Smil(book, n, root, x) \in DOMAIN smils
             /\ \A page \in n.pages : PageSmil(root, page) \in DOMAIN smils
             /\ \A smil \in DOMAIN smils :
                  \/ \E x \in docs : smil = Smil(book, n, root, x)
                  \/ \E page \in n.pages : smil = PageSmil(root, page)
<1> DEFINE docs == Range(SynchronizedDocs(book, n))
           P == n.pages
           names == {Smil(book, n, root, x) : x \in docs} \cup {PageSmil(root, page) : page \in P}
           smils == Built(book, n).smils
           Of(smil) == CHOOSE x \in docs : Smil(book, n, root, x) = smil
           Page(smil) == CHOOSE page \in P : PageSmil(root, page) = smil
<1>1. smils = [smil \in names |->
                 IF \E x \in docs : Smil(book, n, root, x) = smil
                   THEN SectionSmil(book, n, Of(smil), Audio(root))
                   ELSE PageOverlay(root, Page(smil))]
  BY DEF Built, PageOverlay, PagePar
<1>2. \A x, y \in docs : Smil(book, n, root, x) = Smil(book, n, root, y) => x = y
  <2>1. \A x, y \in docs : SectionNumber(book, n, x) = SectionNumber(book, n, y) => x = y
    BY SectionNumberFacts
  <2>2. \A x : Smil(book, n, root, x)[3] = SectionNumber(book, n, x)
    BY DEF Smil
  <2>. QED
    BY <2>1, <2>2
<1>3. \A x \in P, y \in P : PageSmil(root, x) = PageSmil(root, y) => x = y
  <2>1. \A x, y \in P : x.item = y.item => x = y
    BY NarrationFacts
  <2>2. \A x : PageSmil(root, x)[3] = x.item
    BY DEF PageSmil
  <2>. QED
    BY <2>1, <2>2
<1>4. \A x, y : Smil(book, n, root, x) # PageSmil(root, y)
  <2>1. \A x : Smil(book, n, root, x)[2] = "overlay"
    BY DEF Smil
  <2>2. \A x : PageSmil(root, x)[2] = "page overlay"
    BY DEF PageSmil
  <2>. QED
    BY <2>1, <2>2
<1>5. (\A x \in docs : Smil(book, n, root, x) \in names) /\ \A page \in P : PageSmil(root, page) \in names
  OBVIOUS
<1>6. \A smil \in names : (\E x \in docs : smil = Smil(book, n, root, x)) \/ \E page \in P : smil = PageSmil(root, page)
  OBVIOUS
<1> HIDE DEF docs, names, smils, P
<1>7. \A x \in docs : Of(Smil(book, n, root, x)) = x
  BY <1>2
<1>8. \A page \in P : Page(PageSmil(root, page)) = page
  BY <1>3
<1> HIDE DEF Of, Page
<1>9. \A x \in docs : smils[Smil(book, n, root, x)] = SectionSmil(book, n, x, Audio(root))
  BY <1>1, <1>5, <1>7
<1>10. \A page \in P : smils[PageSmil(root, page)] = PageOverlay(root, page)
  BY <1>1, <1>4, <1>5, <1>8
<1>11. DOMAIN smils = names
  BY <1>1
<1>. QED
  BY <1>5, <1>6, <1>9, <1>10, <1>11 DEF docs, smils, P

(* Every item is played once.                                              *)
PlayedFor(smils, item) == {par \in UNION {smil.pars : smil \in Range(smils)} : par.item = item}

LEMMA PlayedOnce ==
  ASSUME NEW book, IsBook(book), NEW n, IsNarration(n), Extractable(book), Narrates(book, n),
         NEW root, root = UniqueResourceRoot(book.files), NEW smils, smils = Built(book, n).smils
  PROVE  /\ \A t \in n.text : PlayedFor(smils, t.item) = {TextPar(book, n, root, t)}
         /\ \A g \in n.graphics : PlayedFor(smils, g.item) = {ImagePar(book, n, root, g)}
         /\ \A page \in n.pages : PlayedFor(smils, page.item) = {PagePar(root, page)}
<1> DEFINE docs == Range(SynchronizedDocs(book, n))
           all == UNION {smil.pars : smil \in Range(smils)}
           IsPar(par) == \/ \E t \in n.text : par = TextPar(book, n, root, t)
                         \/ \E g \in n.graphics : par = ImagePar(book, n, root, g)
                         \/ \E page \in n.pages : par = PagePar(root, page)
<1>1. /\ \A x \in docs : smils[Smil(book, n, root, x)] = SectionSmil(book, n, x, Audio(root))
      /\ \A page \in n.pages : smils[PageSmil(root, page)] = PageOverlay(root, page)
      /\ \A x \in docs : Smil(book, n, root, x) \in DOMAIN smils
      /\ \A page \in n.pages : PageSmil(root, page) \in DOMAIN smils
      /\ \A smil \in DOMAIN smils :
           \/ \E x \in docs : smil = Smil(book, n, root, x)
           \/ \E page \in n.pages : smil = PageSmil(root, page)
  BY SmilsFacts
<1>2. docs = {t.href : t \in n.text} \cup {g.href : g \in n.graphics}
  BY DocsFacts
<1>3. \A x, par : par \in SectionSmil(book, n, x, Audio(root)).pars <=>
        \/ \E t \in n.text : t.href = x /\ par = TextPar(book, n, root, t)
        \/ \E g \in n.graphics : g.href = x /\ par = ImagePar(book, n, root, g)
  BY SectionPars DEF GraphicsOf
<1>4. \A page : PageOverlay(root, page).pars = {PagePar(root, page)}
  BY DEF PageOverlay
<1>5. \A par : par \in all <=> \E smil \in DOMAIN smils : par \in smils[smil].pars
  BY DEF Range
<1> HIDE DEF docs, all
<1>6. ASSUME NEW par \in all PROVE IsPar(par)
  <2>1. PICK smil \in DOMAIN smils : par \in smils[smil].pars
    BY <1>5
  <2>2. CASE \E x \in docs : smil = Smil(book, n, root, x)
    BY <1>1, <1>3, <2>1, <2>2
  <2>3. CASE \E page \in n.pages : smil = PageSmil(root, page)
    BY <1>1, <1>4, <2>1, <2>3
  <2>. QED
    BY <1>1, <2>1, <2>2, <2>3
<1>7. ASSUME NEW t \in n.text PROVE TextPar(book, n, root, t) \in all
  <2>1. t.href \in docs
    BY <1>2
  <2>2. TextPar(book, n, root, t) \in smils[Smil(book, n, root, t.href)].pars
    BY <1>1, <1>3, <2>1
  <2>. QED
    BY <1>1, <1>5, <2>1, <2>2
<1>8. ASSUME NEW g \in n.graphics PROVE ImagePar(book, n, root, g) \in all
  <2>1. g.href \in docs
    BY <1>2
  <2>2. ImagePar(book, n, root, g) \in smils[Smil(book, n, root, g.href)].pars
    BY <1>1, <1>3, <2>1
  <2>. QED
    BY <1>1, <1>5, <2>1, <2>2
<1>9. ASSUME NEW page \in n.pages PROVE PagePar(root, page) \in all
  BY <1>1, <1>4, <1>5
<1>10. /\ \A t : TextPar(book, n, root, t).item = t.item
       /\ \A g : ImagePar(book, n, root, g).item = g.item
       /\ \A page : PagePar(root, page).item = page.item
  BY DEF TextPar, ImagePar, PagePar, Par
<1>11. \A item : PlayedFor(smils, item) = {par \in all : par.item = item}
  BY DEF PlayedFor, all
<1>12. ASSUME NEW t \in n.text PROVE PlayedFor(smils, t.item) = {TextPar(book, n, root, t)}
  <2>1. ASSUME NEW par \in all, par.item = t.item PROVE par = TextPar(book, n, root, t)
    <3>1. /\ \A s \in n.text : s.item = t.item => s = t
          /\ \A g \in n.graphics : g.item # t.item
          /\ \A page \in n.pages : page.item # t.item
      BY NarrationFacts
    <3>. QED
      BY <1>6, <1>10, <2>1, <3>1
  <2>. QED
    BY <1>7, <1>10, <1>11, <2>1
<1>13. ASSUME NEW g \in n.graphics PROVE PlayedFor(smils, g.item) = {ImagePar(book, n, root, g)}
  <2>1. ASSUME NEW par \in all, par.item = g.item PROVE par = ImagePar(book, n, root, g)
    <3>1. /\ \A h \in n.graphics : h.item = g.item => h = g
          /\ \A t \in n.text : t.item # g.item
          /\ \A page \in n.pages : page.item # g.item
      BY NarrationFacts
    <3>. QED
      BY <1>6, <1>10, <2>1, <3>1
  <2>. QED
    BY <1>8, <1>10, <1>11, <2>1
<1>14. ASSUME NEW page \in n.pages PROVE PlayedFor(smils, page.item) = {PagePar(root, page)}
  <2>1. ASSUME NEW par \in all, par.item = page.item PROVE par = PagePar(root, page)
    <3>1. /\ \A x \in n.pages : x.item = page.item => x = page
          /\ \A t \in n.text : t.item # page.item
          /\ \A g \in n.graphics : g.item # page.item
      BY NarrationFacts
    <3>. QED
      BY <1>6, <1>10, <2>1, <3>1
  <2>. QED
    BY <1>9, <1>10, <1>11, <2>1
<1>. QED
  BY <1>12, <1>13, <1>14

(* What the audit has found of a book it accepts.                          *)
LEMMA FragmentsFound ==
  ASSUME NEW book, IsBook(book), NEW n, IsNarration(n), Extractable(book), Narrates(book, n),
         NEW root, root = UniqueResourceRoot(book.files), NEW e, e = Built(book, n), Valid(e)
  PROVE  /\ \A t \in n.text : HasFragment(e.docs[t.href], TextPar(book, n, root, t).text[2])
         /\ \A g \in n.graphics : HasFragment(e.docs[g.href], ImagePar(book, n, root, g).text[2])
<1> DEFINE docs == Range(SynchronizedDocs(book, n))
<1>1. docs = {t.href : t \in n.text} \cup {g.href : g \in n.graphics}
  BY DocsFacts
<1>2. \A x \in docs : XhtmlItems(book, x) # {}
  BY DocsFacts
<1>3. ManifestOf(e.items, book, n, root)
  <2>1. e.items = Manifest(book, n, root)
    BY DEF Built
  <2>. QED
    BY <2>1, ManifestFacts
<1>4. \A i \in OverlayItems(e) : OverlayAudit(e, e.items[i])
  BY DEF Valid
<1>5. \A x \in docs : OverlayItem(book, n, root, x) \in NewItems(book, n, root)
  BY DEF NewItems
<1>6. ASSUME NEW x \in docs, NEW par \in SectionSmil(book, n, x, Audio(root)).pars
      PROVE  HasFragment(e.docs[x], par.text[2])
  <2>1. PICK i \in DOMAIN book.items : book.items[i].type = "xhtml" /\ book.items[i].path = x
    BY <1>2 DEF XhtmlItems, Listed
  <2>2. i \in DOMAIN e.items /\ e.items[i] = Rewritten(book, n, book.items[i])
    <3>1. DOMAIN book.items = 1..Len(book.items)
      BY BookFacts
    <3>2. /\ Len(e.items) \in Nat /\ DOMAIN e.items = 1..Len(e.items) /\ Len(book.items) \in Nat
          /\ Len(book.items) <= Len(e.items)
          /\ \A k \in 1..Len(book.items) : e.items[k] = Rewritten(book, n, book.items[k])
      BY <1>3 DEF ManifestOf
    <3>. QED
      BY <3>1, <3>2
  <2>3. e.items[i].type = "xhtml" /\ e.items[i].path = x /\ e.items[i].overlay = OverlayId(book, n, x)
    BY <2>1, <2>2 DEF Rewritten
  <2>4. OverlayId(book, n, x) # None
    BY MadeId DEF OverlayId
  <2>5. OverlayAudit(e, e.items[i])
    BY <1>4, <2>2, <2>3, <2>4 DEF OverlayItems
  <2> DEFINE smil == OverlayItem(book, n, root, x)
  <2>6. smil \in Range(e.items)
    <3>1. \E k \in DOMAIN e.items : e.items[k] = smil
      BY <1>3, <1>5 DEF ManifestOf
    <3>. QED
      BY <3>1 DEF Range
  <2>7. smil.id = OverlayId(book, n, x) /\ smil.path = Smil(book, n, root, x)
    BY DEF OverlayItem, Declared
  <2> HIDE DEF smil
  <2>8. SmilAudit(e, e.smils[smil.path], x)
    BY <2>3, <2>5, <2>6, <2>7 DEF OverlayAudit
  <2>9. e.smils[smil.path] = SectionSmil(book, n, x, Audio(root))
    BY <2>7, SmilsFacts
  <2>10. ParAudit(e, par, x)
    BY <2>8, <2>9 DEF SmilAudit
  <2>. QED
    BY <2>10 DEF ParAudit
<1>7. \A t \in n.text : TextPar(book, n, root, t) \in SectionSmil(book, n, t.href, Audio(root)).pars
  BY SectionPars
<1>8. \A g \in n.graphics : ImagePar(book, n, root, g) \in SectionSmil(book, n, g.href, Audio(root)).pars
  BY SectionPars DEF GraphicsOf
<1>. QED
  BY <1>1, <1>6, <1>7, <1>8

-----------------------------------------------------------------------------
(* Where the anchors lead.                                                 *)

(* d is narrated: e has anchors for the blocks owners, f for graphics too. *)
NarratedDoc(d, e, f, owners, graphics, section) ==
  /\ IsDocument(d) /\ owners \subseteq Containers(d)
  /\ BlocksAnchored(d, e, owners, section) /\ ImagesAnchored(d, e, f, graphics, section)
  /\ \A g, h \in graphics : g.item = h.item => g = h
  /\ \A g \in graphics :
       ImageAnchor(e, g.image, section, g.item) =
         LET k == Shown(d, g.image)
         IN  IF e.id[k] \notin {None, Blank} THEN e.id[k] ELSE ImageId(e, g.item, section)
  /\ f.from = d.from

LeadsIn(f, id, k) == f.id[k] = id /\ \A m \in DOMAIN f.id : f.id[m] = id => f.from[k] <= f.from[m]

LEMMA LeadsOnce ==
  ASSUME NEW d, IsDocument(d), NEW f, Distinct(f), f.from = d.from, DOMAIN f.id = DOMAIN d.id,
         NEW k \in DOMAIN d.id, f.id[k] \notin {None, Blank}
  PROVE  LeadsIn(f, f.id[k], k)
<1>1. \A m \in DOMAIN f.id : f.id[m] = f.id[k] => m = k
  BY DEF Distinct
<1>2. f.from[k] \in Nat
  BY ElementFacts
<1>. QED
  BY <1>1, <1>2 DEF LeadsIn

LEMMA TextIdOnce ==
  ASSUME NEW d, IsDocument(d), NEW k \in Containers(d), NEW m \in Containers(d), NEW section,
         TextId(d, k, section) = TextId(d, m, section)
  PROVE  k = m
<1>1. <<"stl-mo", section, Ordinal(d, k)>> = <<"stl-mo", section, Ordinal(d, m)>>
  BY UniqueIdBase DEF TextId
<1>2. Ordinal(d, k) = Ordinal(d, m)
  BY <1>1
<1>. QED
  BY <1>2, OrdinalOnce

LEMMA IdForms ==
  ASSUME NEW d, NEW e, NEW k, NEW item, NEW section
  PROVE  /\ TextId(d, k, section) \notin {None, Blank} /\ ImageId(e, item, section) \notin {None, Blank}
         /\ TextId(d, k, section)[1][1] = "stl-mo" /\ ImageId(e, item, section)[1][1] = "stl-graphic"
         /\ ImageId(e, item, section)[1][3] = item
<1>1. TextId(d, k, section)[1] = <<"stl-mo", section, Ordinal(d, k)>>
  BY UniqueIdBase DEF TextId
<1>2. ImageId(e, item, section)[1] = <<"stl-graphic", section, item>>
  BY UniqueIdBase DEF ImageId
<1>3. TextId(d, k, section) \notin {None, Blank} /\ ImageId(e, item, section) \notin {None, Blank}
  BY MadeId DEF TextId, ImageId
<1>. QED
  BY <1>1, <1>2, <1>3

LEMMA IdsFresh ==
  ASSUME NEW d, NEW e, NEW f, NEW owners, NEW graphics, NEW section,
         NarratedDoc(d, e, f, owners, graphics, section), NEW k, NEW item
  PROVE  /\ \A m \in Containers(d) : d.id[m] # TextId(d, k, section)
         /\ \A m \in DOMAIN d.id : e.id[m] # ImageId(e, item, section)
<1>1. IsDocument(d) /\ DOMAIN e.id = DOMAIN d.id
  BY DEF NarratedDoc, BlocksAnchored
<1>2. TextId(d, k, section) \notin BlockIds(d)
  BY <1>1, BlockIdsFinite, UniqueIdFresh DEF TextId
<1>3. IsFiniteSet(DOMAIN e.id)
  BY <1>1, ElementFacts
<1>4. ImageId(e, item, section) \notin Ids(e)
  BY <1>3, IdsFinite, UniqueIdFresh DEF ImageId
<1>5. TextId(d, k, section) \notin {None, Blank} /\ ImageId(e, item, section) \notin {None, Blank}
  BY IdForms
<1>6. ASSUME NEW m \in Containers(d) PROVE d.id[m] # TextId(d, k, section)
  BY <1>2, <1>5 DEF BlockIds
<1>7. ASSUME NEW m \in DOMAIN d.id PROVE e.id[m] # ImageId(e, item, section)
  BY <1>1, <1>4, <1>5 DEF Ids
<1>. QED
  BY <1>6, <1>7

(* Where an id of f is from.                                               *)
IdFrom(d, e, f, owners, graphics, section, m) ==
  \/ f.id[m] = d.id[m] /\ e.id[m] = d.id[m]
  \/ d.id[m] = None /\ m \in owners /\ f.id[m] = TextId(d, m, section) /\ e.id[m] = f.id[m]
  \/ /\ d.id[m] = None /\ e.id[m] = None
     /\ \E g \in graphics : m = Shown(d, g.image) /\ f.id[m] = ImageId(e, g.item, section)

LEMMA IdsFrom ==
  ASSUME NEW d, NEW e, NEW f, NEW owners, NEW graphics, NEW section,
         NarratedDoc(d, e, f, owners, graphics, section)
  PROVE  \A m \in DOMAIN d.id : IdFrom(d, e, f, owners, graphics, section, m)
<1> TAKE m \in DOMAIN d.id
<1>1. e.id[m] = IF m \in owners /\ d.id[m] = None THEN TextId(d, m, section) ELSE d.id[m]
  BY DEF NarratedDoc, BlocksAnchored
<1>2. \/ f.id[m] = e.id[m]
      \/ e.id[m] = None /\ \E g \in graphics : m = Shown(d, g.image) /\ f.id[m] = ImageId(e, g.item, section)
  BY DEF NarratedDoc, ImagesAnchored
<1>3. TextId(d, m, section) # None
  BY IdForms
<1>4. CASE f.id[m] = e.id[m]
  BY <1>1, <1>4 DEF IdFrom
<1>5. CASE e.id[m] = None /\ \E g \in graphics : m = Shown(d, g.image) /\ f.id[m] = ImageId(e, g.item, section)
  BY <1>1, <1>3, <1>5 DEF IdFrom
<1>. QED
  BY <1>2, <1>4, <1>5

LEMMA BlockLeads ==
  ASSUME NEW d, NEW e, NEW f, NEW owners, NEW graphics, NEW section,
         NarratedDoc(d, e, f, owners, graphics, section), NEW b \in owners,
         HasFragment(f, BlockAnchor(d, b, section))
  PROVE  \/ LeadsIn(f, BlockAnchor(d, b, section), b)
         \/ /\ d.id[b] = Blank
            /\ \E m \in DOMAIN d.id \ Containers(d) : d.id[m] \notin {None, Blank} /\ d.id[m][1][1] = "stl-mo"
<1>1. /\ IsDocument(d) /\ b \in Containers(d) /\ f.from = d.from /\ DOMAIN f.id = DOMAIN d.id
      /\ owners \subseteq Containers(d)
  BY DEF NarratedDoc, ImagesAnchored
<1>2. b \in DOMAIN d.id
  BY <1>1, ElementFacts DEF Containers
<1>3. Distinct(f) /\ BlockAnchor(d, b, section) \in Ids(f)
  BY DEF HasFragment
<1>4. e.id[b] = IF d.id[b] = None THEN TextId(d, b, section) ELSE d.id[b]
  BY <1>2 DEF NarratedDoc, BlocksAnchored
<1>5. e.id[b] # None => f.id[b] = e.id[b]
  BY <1>2 DEF NarratedDoc, ImagesAnchored
<1>6. TextId(d, b, section) \notin {None, Blank}
  BY IdForms
<1>7. BlockAnchor(d, b, section) = IF d.id[b] \notin {None, Blank} THEN d.id[b] ELSE TextId(d, b, section)
  BY DEF BlockAnchor, TextId
<1>8. CASE d.id[b] # Blank
  <2>1. f.id[b] = BlockAnchor(d, b, section) /\ f.id[b] \notin {None, Blank}
    BY <1>4, <1>5, <1>6, <1>7, <1>8
  <2>2. LeadsIn(f, f.id[b], b)
    BY <1>1, <1>2, <1>3, <2>1, LeadsOnce
  <2>. QED
    BY <2>1, <2>2
<1>9. CASE d.id[b] = Blank
  <2>1. PICK m \in DOMAIN d.id : f.id[m] = TextId(d, b, section)
    BY <1>1, <1>3, <1>7, <1>9 DEF Ids
  <2>2. IdFrom(d, e, f, owners, graphics, section, m)
    BY IdsFrom
  <2>3. ASSUME d.id[m] = None, m \in owners, f.id[m] = TextId(d, m, section) PROVE FALSE
    <3>1. m = b
      BY <1>1, <2>1, <2>3, TextIdOnce
    <3>. QED
      BY <1>9, <2>3, <3>1, NoneIsNotBlank
  <2>4. ASSUME NEW g \in graphics, f.id[m] = ImageId(e, g.item, section) PROVE FALSE
    <3>1. TextId(d, b, section)[1][1] = "stl-mo" /\ ImageId(e, g.item, section)[1][1] = "stl-graphic"
      BY IdForms
    <3>. QED
      BY <2>1, <2>4, <3>1
  <2>5. d.id[m] = TextId(d, b, section)
    BY <2>1, <2>2, <2>3, <2>4 DEF IdFrom
  <2>6. m \notin Containers(d)
    BY <2>5, IdsFresh
  <2>7. TextId(d, b, section)[1][1] = "stl-mo"
    BY IdForms
  <2>. QED
    BY <1>6, <1>9, <2>5, <2>6, <2>7
<1>. QED
  BY <1>8, <1>9

LEMMA ImageLeads ==
  ASSUME NEW d, NEW e, NEW f, NEW owners, NEW graphics, NEW section,
         NarratedDoc(d, e, f, owners, graphics, section), NEW g \in graphics,
         HasFragment(f, ImageAnchor(e, g.image, section, g.item))
  PROVE  LeadsIn(f, ImageAnchor(e, g.image, section, g.item), Shown(d, g.image))
<1> DEFINE k == Shown(d, g.image)
           anchor == ImageAnchor(e, g.image, section, g.item)
<1>1. /\ IsDocument(d) /\ f.from = d.from /\ DOMAIN f.id = DOMAIN d.id /\ DOMAIN e.id = DOMAIN d.id
  BY DEF NarratedDoc, ImagesAnchored, BlocksAnchored
<1>2. k \in DOMAIN d.id /\ (e.id[k] = None => f.id[k] = ImageId(e, g.item, section))
  BY DEF NarratedDoc, ImagesAnchored
<1>3. Distinct(f) /\ anchor \in Ids(f)
  BY DEF HasFragment
<1>4. e.id[k] # None => f.id[k] = e.id[k]
  BY <1>2 DEF NarratedDoc, ImagesAnchored
<1>5. ImageId(e, g.item, section) \notin {None, Blank}
  BY IdForms
<1>6. anchor = IF e.id[k] \notin {None, Blank} THEN e.id[k] ELSE ImageId(e, g.item, section)
  BY DEF NarratedDoc
<1> HIDE DEF k, anchor
<1>7. CASE e.id[k] # Blank
  <2>1. f.id[k] = anchor /\ f.id[k] \notin {None, Blank}
    BY <1>2, <1>4, <1>5, <1>6, <1>7
  <2>2. LeadsIn(f, f.id[k], k)
    BY <1>1, <1>2, <1>3, <2>1, LeadsOnce
  <2>. QED
    BY <2>1, <2>2 DEF k, anchor
<1>8. CASE e.id[k] = Blank
  <2>1. PICK m \in DOMAIN d.id : f.id[m] = ImageId(e, g.item, section)
    BY <1>1, <1>3, <1>6, <1>8 DEF Ids
  <2>2. e.id[m] # ImageId(e, g.item, section)
    BY IdsFresh
  <2>3. e.id[m] = None /\ \E h \in graphics : m = Shown(d, h.image) /\ f.id[m] = ImageId(e, h.item, section)
    BY <2>1, <2>2 DEF NarratedDoc, ImagesAnchored
  <2>4. PICK h \in graphics : m = Shown(d, h.image) /\ f.id[m] = ImageId(e, h.item, section)
    BY <2>3
  <2>5. h.item = g.item
    <3>1. ImageId(e, h.item, section)[1][3] = h.item /\ ImageId(e, g.item, section)[1][3] = g.item
      BY IdForms
    <3>. QED
      BY <2>1, <2>4, <3>1
  <2>6. h = g
    BY <2>5 DEF NarratedDoc
  <2>7. m = k
    BY <2>4, <2>6 DEF k
  <2>. QED
    BY <1>8, <2>3, <2>7, NoneIsNotBlank
<1>. QED
  BY <1>7, <1>8

LEMMA BuiltDocs ==
  ASSUME NEW book, IsBook(book), NEW n
  PROVE  /\ \A x \in DOMAIN book.docs :
              Built(book, n).docs[x] =
                IF x \in Range(SynchronizedDocs(book, n)) THEN Annotated(book, n, x) ELSE book.docs[x]
         /\ \A page \in n.pages :
              Built(book, n).docs[PagePath(UniqueResourceRoot(book.files), page)] = PageXhtml(page.item)
<1> DEFINE root == UniqueResourceRoot(book.files)
           pages == {PagePath(root, page) : page \in n.pages}
           docs == Range(SynchronizedDocs(book, n))
<1>1. \A x \in DOMAIN book.docs : x \notin pages
  <2>1. \A x \in DOMAIN book.docs : x[1] # root
    BY RootFacts
  <2>2. \A page \in n.pages : PagePath(root, page)[1] = root
    BY DEF PagePath
  <2>. QED
    BY <2>1, <2>2
<1>2. Built(book, n).docs =
        [x \in DOMAIN book.docs \cup pages |->
           IF x \in pages THEN PageXhtml(x[3]) ELSE IF x \in docs THEN Annotated(book, n, x) ELSE book.docs[x]]
  BY DEF Built
<1>3. \A page : PagePath(root, page)[3] = page.item
  BY DEF PagePath
<1>4. \A page \in n.pages : PagePath(root, page) \in pages
  OBVIOUS
<1> HIDE DEF root, pages, docs
<1>. QED
  BY <1>1, <1>2, <1>3, <1>4 DEF root, docs

LEMMA PushedKeeps ==
  ASSUME NEW d, IsDocument(d), NEW ids
  PROVE  Keeps(d, PushedAll(d, ids))
<1> DEFINE e == PushedAll(d, ids)
<1>1. "id" \in DOMAIN d
  BY DEF IsDocument
<1>2. /\ DOMAIN e = DOMAIN d
      /\ \A field \in DOMAIN d \ {"id"} : e[field] = d[field]
      /\ DOMAIN e.id = DOMAIN d.id
      /\ \A n \in DOMAIN d.id : d.id[n] \in {None, e.id[n]}
  BY <1>1, PushedAllKeeps
<1> HIDE DEF e
<1>3. [e EXCEPT !.id = None] = [d EXCEPT !.id = None]
  BY <1>2
<1>4. Keeps(d, e)
  BY <1>1, <1>2, <1>3 DEF Keeps
<1>. QED
  BY <1>4 DEF e

LEMMA KeptFields ==
  ASSUME NEW d, IsDocument(d), NEW e, Keeps(d, e)
  PROVE  e.image = d.image /\ e.from = d.from
<1>1. [e EXCEPT !.id = None].image = [d EXCEPT !.id = None].image
  BY DEF Keeps
<1>2. [e EXCEPT !.id = None].from = [d EXCEPT !.id = None].from
  BY DEF Keeps
<1>3. [e EXCEPT !.id = None] = [d EXCEPT !.id = None]
  BY DEF Keeps
<1>4. "image" \in DOMAIN d /\ "from" \in DOMAIN d
  BY DEF IsDocument
<1>5. DOMAIN e = DOMAIN d
  BY <1>3
<1>. QED
  BY <1>1, <1>2, <1>4, <1>5

LEMMA IsNarrated ==
  ASSUME NEW book, IsBook(book), NEW n, IsNarration(n), Extractable(book), Narrates(book, n), Buildable(book, n),
         NEW x \in Range(SynchronizedDocs(book, n))
  PROVE  NarratedDoc(book.docs[x], TextAnnotated(book, n, x), Built(book, n).docs[x],
                     {Owner(book.docs[x], l) : l \in LinesOf(n, x)}, GraphicsOf(n, x), SectionNumber(book, n, x))
<1> DEFINE d == book.docs[x]
           e == TextAnnotated(book, n, x)
           f == Built(book, n).docs[x]
           asked == LinesOf(n, x)
           owners == {Owner(d, l) : l \in asked}
           graphics == GraphicsOf(n, x)
           section == SectionNumber(book, n, x)
<1>1. x \in DOMAIN book.docs
  BY DocsFacts
<1>2. IsDocument(d)
  BY <1>1 DEF IsBook
<1>3. f = WithImageAnchors(e, graphics, section) /\ f = Annotated(book, n, x)
  BY <1>1, BuiltDocs DEF Annotated
<1>4. e = WithBlockAnchors(d, asked, section)
  BY DEF TextAnnotated
<1>5. HasOwners(d, asked) /\ \A g \in graphics : Showing(d, g.image) # {}
  BY DEF Buildable
<1>6. graphics \subseteq n.graphics /\ \A g \in graphics : g.href = x
  BY DEF GraphicsOf
<1>7. Keeps(d, f)
  BY <1>2, <1>3, AnnotatedKeeps DEF IsDocument
<1>8. Keeps(d, e)
  <2>1. \E ids : e = PushedAll(d, ids)
    BY <1>4 DEF WithBlockAnchors
  <2> HIDE DEF d, e
  <2>. QED
    BY <1>2, <2>1, PushedKeeps
<1> HIDE DEF d, e, f, asked, graphics, section
<1>9. f.from = d.from /\ e.from = d.from /\ e.image = d.image
  BY <1>2, <1>7, <1>8, KeptFields
<1>10. BlocksAnchored(d, e, owners, section)
  BY <1>2, <1>4, BlocksGetIds
<1>11. \A g, h \in graphics : (g.image = h.image => g = h) /\ (g.item = h.item => g = h)
  BY <1>6, NarrationFacts
<1>12. ImagesAnchored(d, e, f, graphics, section)
  <2>1. \A g \in graphics : Showing(d, g.image) # {}
    BY <1>5
  <2>2. \A g, h \in graphics : g.image = h.image => g = h
    BY <1>11
  <2>3. ImagesAnchored(d, e, WithImageAnchors(e, graphics, section), graphics, section)
    BY <1>2, <1>8, <2>1, <2>2, ImagesGetIds
  <2>. QED
    BY <1>3, <2>3
<1>13. owners \subseteq Containers(d)
  BY <1>2, <1>5, OwnerFacts DEF HasOwners
<1>14. \A image : Shown(e, image) = Shown(d, image)
  BY <1>9 DEF Shown, Showing
<1>15. \A g \in graphics :
         ImageAnchor(e, g.image, section, g.item) =
           LET k == Shown(d, g.image)
           IN  IF e.id[k] \notin {None, Blank} THEN e.id[k] ELSE ImageId(e, g.item, section)
  BY <1>14 DEF ImageAnchor, ImageId
<1> HIDE DEF owners
<1>16. NarratedDoc(d, e, f, owners, graphics, section)
  BY <1>2, <1>9, <1>10, <1>11, <1>12, <1>13, <1>15 DEF NarratedDoc
<1>. QED
  BY <1>16 DEF d, e, f, asked, owners, graphics, section

(* Every cue names the block it reads out.                                 *)
LEMMA CuesLead == BuiltFromBook => CuesNameTheirBlocks
<1> SUFFICES ASSUME BuiltFromBook, stage = "completed"
             PROVE  /\ \A t \in made.narration.text :
                         LET block == Innermost(Source(t.href), LineStart(Source(t.href), CorpusText, t.line))
                         IN  \/ Plays(t.item, t.href, block)
                             \/ AfterReference(Source(t.href), t.line)
                             \/ Source(t.href).id[block] = Blank /\ Borrowed(t.href)
                    /\ \A g \in made.narration.graphics : Plays(g.item, g.href, Shown(Source(g.href), g.image))
                    /\ \A page \in made.narration.pages : Cardinality(ParsOf(page.item)) = 1
  BY DEF CuesNameTheirBlocks
<1> DEFINE book == made.book
           n == made.narration
           e == made.epub
           root == UniqueResourceRoot(book.files)
<1>1. /\ book \in Books /\ n \in Narrations /\ Extractable(book) /\ Narrates(book, n)
      /\ Buildable(book, n) /\ e = Built(book, n) /\ Valid(e)
  BY DEF BuiltFromBook, BuiltStages
<1>2. IsBook(book) /\ IsNarration(n)
  BY <1>1, BooksAssumption, NarrationsAssumption
<1>3. \A item : ParsOf(item) = PlayedFor(e.smils, item)
  BY DEF ParsOf, PlayedFor
<1>4. \A x : Source(x) = book.docs[x] /\ Candidate(x) = e.docs[x]
  BY DEF Source, Candidate
<1>5. n = made.narration
  OBVIOUS
<1> HIDE DEF book, n, e, root
<1>6. /\ \A t \in n.text : PlayedFor(e.smils, t.item) = {TextPar(book, n, root, t)}
      /\ \A g \in n.graphics : PlayedFor(e.smils, g.item) = {ImagePar(book, n, root, g)}
      /\ \A page \in n.pages : PlayedFor(e.smils, page.item) = {PagePar(root, page)}
  BY <1>1, <1>2, PlayedOnce DEF root
<1>7. /\ \A t \in n.text : HasFragment(e.docs[t.href], TextPar(book, n, root, t).text[2])
      /\ \A g \in n.graphics : HasFragment(e.docs[g.href], ImagePar(book, n, root, g).text[2])
  BY <1>1, <1>2, FragmentsFound DEF root
<1>8. Range(SynchronizedDocs(book, n)) = {t.href : t \in n.text} \cup {g.href : g \in n.graphics}
  BY <1>1, <1>2, DocsFacts
<1>9. \A x \in Range(SynchronizedDocs(book, n)) : x \in DOMAIN book.docs /\ IsDocument(book.docs[x])
  BY <1>1, <1>2, DocsFacts DEF IsBook
<1>10. ASSUME NEW t \in n.text, ~AfterReference(Source(t.href), t.line)
       PROVE  LET block == Innermost(Source(t.href), LineStart(Source(t.href), CorpusText, t.line))
              IN  \/ Plays(t.item, t.href, block)
                  \/ Source(t.href).id[block] = Blank /\ Borrowed(t.href)
  <2> DEFINE x == t.href
             d == book.docs[x]
             section == SectionNumber(book, n, x)
             owners == {Owner(d, l) : l \in LinesOf(n, x)}
             b == Owner(d, t.line)
             anchor == BlockAnchor(d, b, section)
             par == TextPar(book, n, root, t)
  <2>1. x \in Range(SynchronizedDocs(book, n))
    BY <1>8
  <2>2. NarratedDoc(d, TextAnnotated(book, n, x), e.docs[x], owners, GraphicsOf(n, x), section)
    BY <1>1, <1>2, <2>1, IsNarrated
  <2>3. t.line \in 1..LineCount(d, CorpusText)
    BY <1>1 DEF Narrates
  <2>4. b = Innermost(d, LineStart(d, CorpusText, t.line))
    BY <1>4, <1>9, <1>10, <2>1, <2>3, OwnerFound
  <2>5. b \in owners
    BY DEF LinesOf
  <2>6. /\ par.text = <<x, anchor>> /\ par.from = ClipStart(t.item) /\ par.to = ClipEnd(t.item)
    BY DEF TextPar, Par
  <2>7. HasFragment(e.docs[x], anchor)
    BY <1>7, <2>6
  <2>8. ParsOf(t.item) = {par}
    BY <1>3, <1>6
  <2>9. \/ LeadsIn(e.docs[x], anchor, b)
        \/ /\ d.id[b] = Blank
           /\ \E m \in DOMAIN d.id \ Containers(d) : d.id[m] \notin {None, Blank} /\ d.id[m][1][1] = "stl-mo"
    <3> HIDE DEF owners, section, b, d
    <3>. QED
      BY <2>2, <2>5, <2>7, BlockLeads
  <2>10. Source(x) = d /\ Candidate(x) = e.docs[x]
    BY <1>4
  <2> HIDE DEF x, d, section, owners, b, anchor, par
  <2>11. CASE LeadsIn(e.docs[x], anchor, b)
    <3>1. Leads(x, par.text[2], b)
      BY <2>6, <2>10, <2>11 DEF Leads, LeadsIn
    <3>2. Plays(t.item, x, b)
      BY <2>6, <2>8, <3>1 DEF Plays
    <3>. QED
      BY <2>4, <2>10, <3>2 DEF x
  <2>12. CASE /\ d.id[b] = Blank
              /\ \E m \in DOMAIN d.id \ Containers(d) : d.id[m] \notin {None, Blank} /\ d.id[m][1][1] = "stl-mo"
    <3>1. Borrowed(x)
      BY <2>10, <2>12 DEF Borrowed
    <3>. QED
      BY <2>4, <2>10, <2>12, <3>1 DEF x
  <2>. QED
    BY <2>9, <2>11, <2>12
<1>11. ASSUME NEW g \in n.graphics PROVE Plays(g.item, g.href, Shown(Source(g.href), g.image))
  <2> DEFINE x == g.href
             d == book.docs[x]
             section == SectionNumber(book, n, x)
             owners == {Owner(d, l) : l \in LinesOf(n, x)}
             graphics == GraphicsOf(n, x)
             text == TextAnnotated(book, n, x)
             anchor == ImageAnchor(text, g.image, section, g.item)
             par == ImagePar(book, n, root, g)
  <2>1. x \in Range(SynchronizedDocs(book, n))
    BY <1>8
  <2>2. NarratedDoc(d, text, e.docs[x], owners, graphics, section)
    BY <1>1, <1>2, <2>1, IsNarrated
  <2>3. g \in graphics
    BY DEF GraphicsOf
  <2>4. /\ par.text = <<x, anchor>> /\ par.from = ClipStart(g.item) /\ par.to = ClipEnd(g.item)
    BY DEF ImagePar, Par
  <2>5. HasFragment(e.docs[x], anchor)
    BY <1>7, <2>4
  <2>6. ParsOf(g.item) = {par}
    BY <1>3, <1>6
  <2>7. LeadsIn(e.docs[x], anchor, Shown(d, g.image))
    <3> HIDE DEF owners, section, graphics, d, text
    <3>. QED
      BY <2>2, <2>3, <2>5, ImageLeads
  <2>8. Source(x) = d /\ Candidate(x) = e.docs[x]
    BY <1>4
  <2> HIDE DEF x, d, section, owners, graphics, text, anchor, par
  <2>9. Leads(x, par.text[2], Shown(d, g.image))
    BY <2>4, <2>7, <2>8 DEF Leads, LeadsIn
  <2>10. Plays(g.item, x, Shown(d, g.image))
    BY <2>4, <2>6, <2>9 DEF Plays
  <2>. QED
    BY <2>8, <2>10 DEF x
<1>12. ASSUME NEW page \in n.pages PROVE Cardinality(ParsOf(page.item)) = 1
  <2>1. ParsOf(page.item) = {PagePar(root, page)}
    BY <1>3, <1>6
  <2>. QED
    BY <2>1, FS_Singleton
<1>. QED
  BY <1>5, <1>10, <1>11, <1>12

(* In an EPUB that is accepted, of any book and any narration, each        *)
(* narrated line is played once, over the clip of its segment, and the     *)
(* fragment build_combined_smil writes leads to the innermost block of the *)
(* line, which annotate_xhtml_blocks gave its id; so with each image, and  *)
(* each page of introduction or credits is played once.                    *)
THEOREM CuesAreNamed == Spec => []CuesNameTheirBlocks
BY BuiltAlways, CuesLead, PTL

-----------------------------------------------------------------------------
(* What is refused.                                                        *)

LEMMA AtMostOne ==
  ASSUME NEW S, IsFiniteSet(S), ~(Cardinality(S) > 1), NEW x \in S, NEW y \in S
  PROVE  x = y
<1> SUFFICES ASSUME x # y PROVE FALSE
  OBVIOUS
<1>1. IsFiniteSet({x}) /\ Cardinality({x}) = 1
  BY FS_Singleton
<1>2. IsFiniteSet({x} \cup {y}) /\ Cardinality({x} \cup {y}) = 2
  <2>1. Cardinality({x} \cup {y}) = IF y \in {x} THEN Cardinality({x}) ELSE Cardinality({x}) + 1
    BY <1>1, FS_AddElement
  <2>2. IsFiniteSet({x} \cup {y})
    BY <1>1, FS_AddElement
  <2>. QED
    BY <1>1, <2>1, <2>2
<1>3. Cardinality({x} \cup {y}) <= Cardinality(S)
  <2>1. {x} \cup {y} \in SUBSET S
    OBVIOUS
  <2>. QED
    BY <2>1, FS_Subset
<1>4. Cardinality(S) \in Nat
  BY FS_CardinalityType
<1>. QED
  BY <1>2, <1>3, <1>4

LEMMA XhtmlItemsFinite ==
  ASSUME NEW book, IsBook(book), NEW path
  PROVE  IsFiniteSet(XhtmlItems(book, path)) /\ XhtmlItems(book, path) \subseteq DOMAIN book.items
<1>1. XhtmlItems(book, path) \in SUBSET DOMAIN book.items
  BY DEF XhtmlItems, Listed
<1>2. IsFiniteSet(1..Len(book.items))
  BY BookFacts, FS_Interval
<1>. QED
  BY <1>1, <1>2, BookFacts, FS_Subset

(* A document of the corpus is the document of a spine entry.              *)
LEMMA SectionInSpine ==
  ASSUME NEW book, IsBook(book), Extractable(book), NEW x \in Range(Sections(book))
  PROVE  \E r \in Range(book.spine), i \in XhtmlItems(book, x) : book.items[i].id = r.idref
<1> DEFINE T == {r \in Range(book.spine) : Read(book, r)}
           read == Among(book.spine, T)
<1>1. Sections(book) = [i \in DOMAIN read |-> ItemOf(book, read[i].idref).path]
  BY DEF Sections
<1>2. \A r : r \in Range(read) <=> r \in Range(book.spine) /\ r \in T
  <2> HIDE DEF T
  <2>. QED
    BY BookFacts, AmongFacts
<1>3. PICK r \in Range(book.spine) : Read(book, r) /\ x = ItemOf(book, r.idref).path
  <2> HIDE DEF read
  <2>1. PICK i \in DOMAIN read : x = ItemOf(book, read[i].idref).path
    BY <1>1 DEF Range
  <2>2. read[i] \in Range(read)
    BY DEF Range
  <2>. QED
    BY <1>2, <2>1, <2>2
<1>4. r.linear /\ ItemOf(book, r.idref).type = "xhtml"
  BY <1>3 DEF Read
<1>5. r.idref \in ListedIds(book)
  <2>1. PICK k \in DOMAIN book.spine : book.spine[k] = r
    BY DEF Range
  <2>. QED
    BY <1>4, <2>1 DEF Extractable
<1>7. PICK i \in Listed(book) : book.items[i] = ItemOf(book, r.idref) /\ book.items[i].id = r.idref
  BY <1>5, ItemOfFacts
<1>8. i \in XhtmlItems(book, x)
  BY <1>3, <1>4, <1>7 DEF XhtmlItems
<1>. QED
  BY <1>7, <1>8

LEMMA RefusedIsRefusable == BuiltFromBook => (stage = "refused" => Refusable)
<1> SUFFICES ASSUME BuiltFromBook, stage = "refused", ~Refusable PROVE FALSE
  OBVIOUS
<1> DEFINE book == made.book
           n == made.narration
<1>1. /\ book \in Books /\ n \in Narrations /\ Extractable(book) /\ Narrates(book, n) /\ ~Buildable(book, n)
  BY DEF BuiltFromBook, BuiltStages
<1>2. IsBook(book) /\ IsNarration(n)
  BY <1>1, BooksAssumption, NarrationsAssumption
<1>3. /\ Scanned(book) /\ n.text \cup n.graphics # {}
      /\ \A page \in n.pages : ~(Cardinality(XhtmlItems(book, page.href)) > 1)
      /\ \A t \in n.text : ~AfterReference(book.docs[t.href], t.line)
  BY DEF Refusable, Source
<1> HIDE DEF book, n
<1>4. /\ Range(SynchronizedDocs(book, n)) = {t.href : t \in n.text} \cup {g.href : g \in n.graphics}
      /\ \A x \in Range(SynchronizedDocs(book, n)) : x \in DOMAIN book.docs /\ XhtmlItems(book, x) # {}
  BY <1>1, <1>2, DocsFacts
<1>5. SynchronizedDocs(book, n) # << >>
  <2>1. Range(SynchronizedDocs(book, n)) # {}
    BY <1>3, <1>4
  <2>2. Range(<< >>) = {}
    BY DEF Range
  <2>. QED
    BY <2>1, <2>2
<1>6. ASSUME NEW x \in Range(SynchronizedDocs(book, n)) PROVE HasOwners(book.docs[x], LinesOf(n, x))
  <2> SUFFICES ASSUME NEW t \in n.text, t.href = x
               PROVE  t.line \in 1..LineCount(book.docs[x], OwnerText)
    BY DEF HasOwners, LinesOf
  <2>1. IsDocument(book.docs[x])
    BY <1>2, <1>4 DEF IsBook
  <2>2. t.line \in 1..LineCount(book.docs[x], CorpusText)
    BY <1>1 DEF Narrates
  <2>. QED
    BY <1>3, <2>1, <2>2, SameLines
<1>7. \A x : \A g \in GraphicsOf(n, x) : Showing(book.docs[x], g.image) # {}
  BY <1>1 DEF Narrates, Illustrates, GraphicsOf
<1>8. ASSUME NEW page \in n.pages PROVE AnchorInSpine(book, page)
  <2>1. page.href \in Range(Sections(book))
    BY <1>1 DEF Narrates
  <2>2. PICK r \in Range(book.spine), i \in XhtmlItems(book, page.href) : book.items[i].id = r.idref
    BY <1>1, <1>2, <2>1, SectionInSpine
  <2>3. PICK j \in XhtmlItems(book, page.href) : XhtmlId(book, page.href) = book.items[j].id
    BY <1>2, <2>2, XhtmlIdFacts
  <2>4. i = j
    BY <1>2, <1>3, <2>2, <2>3, XhtmlItemsFinite, AtMostOne
  <2>. QED
    BY <2>2, <2>3, <2>4 DEF AnchorInSpine
<1>. QED
  BY <1>1, <1>3, <1>4, <1>5, <1>6, <1>7, <1>8 DEF Buildable

-----------------------------------------------------------------------------
(* What is accepted: a narrated document.                                  *)

NoneBorrowed(d) ==
  \A m \in DOMAIN d.id \ Containers(d) : d.id[m] \notin {None, Blank} => d.id[m][1][1] # "stl-mo"

LEMMA IdsDiffer ==
  ASSUME NEW d, NEW e, NEW f, NEW owners, NEW graphics, NEW section,
         NarratedDoc(d, e, f, owners, graphics, section), Distinct(d), NoneBorrowed(d)
  PROVE  Distinct(f)
<1> DEFINE Own(m) == f.id[m] = d.id[m] /\ e.id[m] = d.id[m]
           Text(m) == d.id[m] = None /\ m \in owners /\ f.id[m] = TextId(d, m, section) /\ e.id[m] = f.id[m]
           Image(m) == /\ d.id[m] = None /\ e.id[m] = None
                       /\ \E g \in graphics : m = Shown(d, g.image) /\ f.id[m] = ImageId(e, g.item, section)
<1>1. IsDocument(d) /\ DOMAIN f.id = DOMAIN d.id /\ owners \subseteq Containers(d)
  BY DEF NarratedDoc, ImagesAnchored
<1>2. \A m \in DOMAIN d.id : Own(m) \/ Text(m) \/ Image(m)
  BY IdsFrom DEF IdFrom
<1>3. ASSUME NEW i \in DOMAIN d.id, NEW m \in DOMAIN d.id, f.id[i] = f.id[m], Own(i), Text(m) PROVE FALSE
  <2>1. d.id[i] = TextId(d, m, section)
    BY <1>3
  <2>2. TextId(d, m, section) \notin {None, Blank} /\ TextId(d, m, section)[1][1] = "stl-mo"
    BY IdForms
  <2>3. i \notin Containers(d)
    BY <2>1, IdsFresh
  <2>. QED
    BY <2>1, <2>2, <2>3 DEF NoneBorrowed
<1>4. ASSUME NEW i \in DOMAIN d.id, NEW m \in DOMAIN d.id, f.id[i] = f.id[m], Own(i) \/ Text(i), Image(m) PROVE FALSE
  <2>1. PICK g \in graphics : f.id[m] = ImageId(e, g.item, section)
    BY <1>4
  <2>2. e.id[i] # ImageId(e, g.item, section)
    BY IdsFresh
  <2>. QED
    BY <1>4, <2>1, <2>2
<1>5. ASSUME NEW i \in DOMAIN d.id, NEW m \in DOMAIN d.id, f.id[i] = f.id[m], Text(i), Text(m) PROVE i = m
  BY <1>1, <1>5, TextIdOnce
<1>6. ASSUME NEW i \in DOMAIN d.id, NEW m \in DOMAIN d.id, f.id[i] = f.id[m], Image(i), Image(m) PROVE i = m
  <2>1. PICK g \in graphics : i = Shown(d, g.image) /\ f.id[i] = ImageId(e, g.item, section)
    BY <1>6
  <2>2. PICK h \in graphics : m = Shown(d, h.image) /\ f.id[m] = ImageId(e, h.item, section)
    BY <1>6
  <2>3. ImageId(e, g.item, section)[1][3] = g.item /\ ImageId(e, h.item, section)[1][3] = h.item
    BY IdForms
  <2>4. g.item = h.item
    BY <1>6, <2>1, <2>2, <2>3
  <2>5. g = h
    BY <2>4 DEF NarratedDoc
  <2>. QED
    BY <2>1, <2>2, <2>5
<1> SUFFICES ASSUME NEW i \in DOMAIN d.id, NEW m \in DOMAIN d.id,
                    f.id[i] = f.id[m], f.id[i] \notin {None, Blank}
             PROVE  i = m
  BY <1>1 DEF Distinct
<1>7. CASE Own(i) /\ Own(m)
  BY <1>7 DEF Distinct
<1> HIDE DEF Own, Text, Image
<1>. QED
  BY <1>2, <1>3, <1>4, <1>5, <1>6, <1>7

LEMMA AnchorsThere ==
  ASSUME NEW d, NEW e, NEW f, NEW owners, NEW graphics, NEW section,
         NarratedDoc(d, e, f, owners, graphics, section)
  PROVE  /\ \A b \in owners : d.id[b] # Blank => BlockAnchor(d, b, section) \in Ids(f)
         /\ \A g \in graphics :
              d.id[Shown(d, g.image)] # Blank => ImageAnchor(e, g.image, section, g.item) \in Ids(f)
<1>1. IsDocument(d) /\ DOMAIN f.id = DOMAIN d.id /\ owners \subseteq Containers(d)
  BY DEF NarratedDoc, ImagesAnchored
<1>2. \A m \in DOMAIN d.id : f.id[m] \notin {None, Blank} => f.id[m] \in Ids(f)
  BY <1>1 DEF Ids
<1>3. \A m \in DOMAIN d.id : e.id[m] # None => f.id[m] = e.id[m]
  BY DEF NarratedDoc, ImagesAnchored
<1>4. \A m \in DOMAIN d.id : e.id[m] = IF m \in owners /\ d.id[m] = None THEN TextId(d, m, section) ELSE d.id[m]
  BY DEF NarratedDoc, BlocksAnchored
<1>5. ASSUME NEW b \in owners, d.id[b] # Blank PROVE BlockAnchor(d, b, section) \in Ids(f)
  <2>1. b \in DOMAIN d.id
    BY <1>1, ElementFacts DEF Containers
  <2>2. BlockAnchor(d, b, section) = IF d.id[b] \notin {None, Blank} THEN d.id[b] ELSE TextId(d, b, section)
    BY DEF BlockAnchor, TextId
  <2>3. TextId(d, b, section) \notin {None, Blank}
    BY IdForms
  <2>4. e.id[b] = BlockAnchor(d, b, section) /\ e.id[b] \notin {None, Blank}
    BY <1>4, <1>5, <2>1, <2>2, <2>3
  <2>. QED
    BY <1>2, <1>3, <2>1, <2>4
<1>6. ASSUME NEW g \in graphics, d.id[Shown(d, g.image)] # Blank
      PROVE  ImageAnchor(e, g.image, section, g.item) \in Ids(f)
  <2> DEFINE k == Shown(d, g.image)
             anchor == ImageAnchor(e, g.image, section, g.item)
  <2>1. k \in DOMAIN d.id /\ (e.id[k] = None => f.id[k] = ImageId(e, g.item, section))
    BY DEF NarratedDoc, ImagesAnchored
  <2>2. anchor = IF e.id[k] \notin {None, Blank} THEN e.id[k] ELSE ImageId(e, g.item, section)
    BY DEF NarratedDoc
  <2>3. TextId(d, k, section) \notin {None, Blank} /\ ImageId(e, g.item, section) \notin {None, Blank}
    BY IdForms
  <2>4. d.id[k] # Blank
    BY <1>6
  <2> HIDE DEF k, anchor
  <2>5. e.id[k] # Blank
    BY <1>4, <2>1, <2>3, <2>4
  <2>6. f.id[k] = anchor /\ f.id[k] \notin {None, Blank}
    BY <1>3, <2>1, <2>2, <2>3, <2>5
  <2>. QED
    BY <1>2, <2>1, <2>6 DEF anchor
<1>. QED
  BY <1>5, <1>6

-----------------------------------------------------------------------------
(* What is accepted: the package.                                          *)

Makes(book, n, root, e) ==
  /\ IsBook(book) /\ IsNarration(n) /\ Extractable(book) /\ Narrates(book, n) /\ Buildable(book, n)
  /\ root = UniqueResourceRoot(book.files) /\ e = Built(book, n)

Sound(book, n) ==
  /\ book.literal /\ \A item \in Range(book.items) : Admitted(item)
  /\ \A i, j \in DOMAIN book.items : book.items[i].id = book.items[j].id => i = j
  /\ \A x \in Range(SynchronizedDocs(book, n)) :
       /\ ~(Cardinality(XhtmlItems(book, x)) > 1)
       /\ Distinct(book.docs[x]) /\ NoneBorrowed(book.docs[x])
       /\ \A l \in LinesOf(n, x) : book.docs[x].id[Owner(book.docs[x], l)] # Blank
       /\ \A g \in GraphicsOf(n, x) : book.docs[x].id[Shown(book.docs[x], g.image)] # Blank

LEMMA MadeParts ==
  ASSUME NEW book, NEW n, NEW root, NEW e, Makes(book, n, root, e)
  PROVE  /\ ManifestOf(e.items, book, n, root) /\ DOMAIN book.items = 1..Len(book.items)
         /\ Enumerates(e.entries, {Mimetype, Package} \cup Range(book.files) \cup NewFiles(book, n, root))
         /\ e.entries # << >> /\ e.entries[1] = Mimetype
         /\ e.metadata = Metadata(book, n) /\ e.total = Total(book, n)
<1>1. /\ IsBook(book) /\ IsNarration(n) /\ Extractable(book) /\ Narrates(book, n)
      /\ root = UniqueResourceRoot(book.files) /\ e = Built(book, n)
  BY DEF Makes
<1>2. /\ e.entries = Entries(book, n, root) /\ e.items = Manifest(book, n, root)
      /\ e.metadata = Metadata(book, n) /\ e.total = Total(book, n)
  BY <1>1 DEF Built
<1>3. ManifestOf(e.items, book, n, root)
  BY <1>1, <1>2, ManifestFacts
<1>4. DOMAIN book.items = 1..Len(book.items)
  BY <1>1, BookFacts
<1>. QED
  BY <1>1, <1>2, <1>3, <1>4, EntriesFacts

LEMMA RewrittenFields ==
  ASSUME NEW book, NEW n, NEW item
  PROVE  /\ Rewritten(book, n, item).id = item.id /\ Rewritten(book, n, item).path = item.path
         /\ Rewritten(book, n, item).type = item.type /\ Rewritten(book, n, item).remote = item.remote
         /\ Rewritten(book, n, item).overlay =
              IF item.type = "xhtml" /\ item.path \in Range(SynchronizedDocs(book, n))
                THEN OverlayId(book, n, item.path) ELSE None
BY DEF Rewritten

LEMMA NewItemForms ==
  ASSUME NEW book, IsBook(book), NEW n, NEW root, NEW item \in NewItems(book, n, root)
  PROVE  /\ item.id \notin UsedIds(book) /\ Admitted(item)
         /\ item.type = "xhtml" => \E page \in n.pages : item = PageItem(book, root, page)
         /\ item.type # "xhtml" => item.overlay = None
<1>1. \A id, path, type, overlay :
        /\ Declared(id, path, type, overlay).id = id /\ Declared(id, path, type, overlay).remote = FALSE
        /\ Declared(id, path, type, overlay).type = type /\ Declared(id, path, type, overlay).overlay = overlay
        /\ id # None /\ path # None /\ type # Untyped => Admitted(Declared(id, path, type, overlay))
  BY DEF Declared, Admitted
<1>7. \A x, page : /\ OverlayId(book, n, x) # None /\ AudioId(book) # None
                   /\ PageId(book, page) # None /\ PageOverlayId(book, page) # None
  BY MadeId DEF OverlayId, AudioId, PageId, PageOverlayId
<1>8. \A x, page : /\ Smil(book, n, root, x) # None /\ Audio(root) # None
                   /\ PagePath(root, page) # None /\ PageSmil(root, page) # None
  <2>1. \A a, b, c : <<a, b, c>> # None
    BY DEF None
  <2>. QED
    BY <2>1 DEF Smil, Audio, PagePath, PageSmil
<1>9. \A type \in {"smil", "audio", "xhtml"} : type # Untyped
  BY DEF Untyped
<1>2. \A x, page : /\ OverlayId(book, n, x) \notin UsedIds(book) /\ AudioId(book) \notin UsedIds(book)
                   /\ PageId(book, page) \notin UsedIds(book) /\ PageOverlayId(book, page) \notin UsedIds(book)
  <2> TAKE x, page
  <2>1. {OverlayId(book, n, x), AudioId(book), PageId(book, page), PageOverlayId(book, page)} \cap UsedIds(book) = {}
    BY PackageIds
  <2>. QED
    BY <2>1
<1>3. CASE item \in {OverlayItem(book, n, root, x) : x \in Range(SynchronizedDocs(book, n))}
  BY <1>1, <1>2, <1>3, <1>7, <1>8, <1>9 DEF OverlayItem
<1>4. CASE item = AudioItem(book, root)
  BY <1>1, <1>2, <1>4, <1>7, <1>8, <1>9 DEF AudioItem
<1>5. CASE item \in {PageItem(book, root, page) : page \in n.pages}
  BY <1>1, <1>2, <1>5, <1>7, <1>8, <1>9 DEF PageItem
<1>6. CASE item \in {PageSmilItem(book, root, page) : page \in n.pages}
  BY <1>1, <1>2, <1>6, <1>7, <1>8, <1>9 DEF PageSmilItem
<1>. QED
  BY <1>3, <1>4, <1>5, <1>6 DEF NewItems

LEMMA ItemIdsDiffer ==
  ASSUME NEW book, NEW n, NEW root, NEW e, Makes(book, n, root, e), Sound(book, n)
  PROVE  \A i, j \in DOMAIN e.items : e.items[i].id = e.items[j].id => i = j
<1> DEFINE m == Len(book.items)
           items == e.items
<1>1. /\ IsBook(book) /\ IsNarration(n) /\ Extractable(book) /\ Narrates(book, n)
  BY DEF Makes
<1>2. /\ Len(items) \in Nat /\ DOMAIN items = 1..Len(items) /\ m \in Nat /\ m <= Len(items)
      /\ \A i \in 1..m : items[i] = Rewritten(book, n, book.items[i])
      /\ \A i \in 1..Len(items) : i > m => items[i] \in NewItems(book, n, root)
      /\ \A i, j \in 1..Len(items) : i > m /\ j > m /\ items[i] = items[j] => i = j
  <2>1. ManifestOf(e.items, book, n, root)
    BY MadeParts
  <2>. QED
    BY <2>1 DEF ManifestOf
<1>3. DOMAIN book.items = 1..m
  BY MadeParts
<1> HIDE DEF m, items
<1>4. \A i \in 1..m : items[i].id = book.items[i].id /\ items[i].id \in UsedIds(book)
  <2> TAKE i \in 1..m
  <2>1. items[i].id = book.items[i].id
    BY <1>2, RewrittenFields
  <2>2. book.items[i] \in Range(book.items)
    BY <1>3 DEF Range
  <2>3. book.items[i].id # None
    BY <2>2 DEF Sound, Admitted
  <2>. QED
    BY <2>1, <2>2, <2>3 DEF UsedIds
<1>5. \A i \in 1..Len(items) : i > m => items[i].id \notin UsedIds(book)
  BY <1>1, <1>2, NewItemForms
<1> SUFFICES ASSUME NEW i \in 1..Len(items), NEW j \in 1..Len(items), items[i].id = items[j].id PROVE i = j
  BY <1>2 DEF items
<1>6. \A k \in 1..Len(items) : k \in 1..m \/ k > m
  BY <1>2
<1>7. CASE i \in 1..m /\ j \in 1..m
  <2>1. book.items[i].id = book.items[j].id
    BY <1>4, <1>7
  <2>. QED
    BY <1>3, <1>7, <2>1 DEF Sound
<1>8. CASE i > m /\ j > m
  <2>1. items[i] = items[j]
    BY <1>1, <1>2, <1>8, NewItemsDiffer
  <2>. QED
    BY <1>2, <1>8, <2>1
<1>. QED
  BY <1>4, <1>5, <1>6, <1>7, <1>8

LEMMA ContainerPasses ==
  ASSUME NEW book, NEW n, NEW root, NEW e, Makes(book, n, root, e), Sound(book, n)
  PROVE  Container(e)
<1>1. /\ Enumerates(e.entries, {Mimetype, Package} \cup Range(book.files) \cup NewFiles(book, n, root))
      /\ e.entries # << >> /\ e.entries[1] = Mimetype
  BY MadeParts
<1>2. e.literal
  <2>1. e.literal = book.literal
    BY DEF Makes, Built
  <2>. QED
    BY <2>1 DEF Sound
<1>. QED
  BY <1>1, <1>2 DEF Container, Enumerates

LEMMA PackagePasses ==
  ASSUME NEW book, NEW n, NEW root, NEW e, Makes(book, n, root, e), Sound(book, n)
  PROVE  PackageAudit(e)
<1> DEFINE m == Len(book.items)
           items == e.items
           docs == Range(SynchronizedDocs(book, n))
           D == Durations(book, n)
           L(page) == Lasts({page.item})
<1>1. /\ IsBook(book) /\ IsNarration(n) /\ Extractable(book) /\ Narrates(book, n)
  BY DEF Makes
<1>2. /\ Len(items) \in Nat /\ DOMAIN items = 1..Len(items) /\ m \in Nat /\ m <= Len(items)
      /\ \A i \in 1..m : items[i] = Rewritten(book, n, book.items[i])
      /\ \A i \in 1..Len(items) : i > m => items[i] \in NewItems(book, n, root)
      /\ \A item \in NewItems(book, n, root) : \E i \in 1..Len(items) : i > m /\ items[i] = item
  <2>1. ManifestOf(e.items, book, n, root)
    BY MadeParts
  <2>. QED
    BY <2>1 DEF ManifestOf
<1>3. DOMAIN book.items = 1..m
  BY MadeParts
<1>4. AudioItem(book, root) \in NewItems(book, n, root)
  BY DEF NewItems
<1>5. \A x, y \in docs : OverlayId(book, n, x) = OverlayId(book, n, y) => x = y
  BY <1>1, NewIdsDiffer
<1>6. \A x, y \in n.pages : PageOverlayId(book, x) = PageOverlayId(book, y) => x = y
  BY <1>1, NewIdsDiffer
<1>7. \A x, y : OverlayId(book, n, x) # PageOverlayId(book, y)
  BY <1>1, NewIdsDiffer
<1>8. e.metadata = {<<OverlayId(book, n, x), D[x]>> : x \in docs} \cup {<<PageOverlayId(book, page), L(page)>> : page \in n.pages}
  BY MadeParts DEF Metadata
<1>9. \A i, j \in DOMAIN items : items[i].id = items[j].id => i = j
  BY ItemIdsDiffer
<1> HIDE DEF items, docs, D, L
<1>10. items # << >>
  <2>1. DOMAIN items # {}
    BY <1>2, <1>4
  <2>2. DOMAIN << >> = {}
    OBVIOUS
  <2>. QED
    BY <2>1, <2>2
<1>11. \A item \in Range(items) : Admitted(item)
  <2> SUFFICES ASSUME NEW i \in 1..Len(items) PROVE Admitted(items[i])
    BY <1>2 DEF Range
  <2>1. CASE i \in 1..m
    <3>1. /\ items[i].id = book.items[i].id /\ items[i].path = book.items[i].path
          /\ items[i].type = book.items[i].type /\ items[i].remote = book.items[i].remote
      BY <1>2, <2>1, RewrittenFields
    <3>2. book.items[i] \in Range(book.items)
      BY <1>3, <2>1 DEF Range
    <3>. QED
      BY <3>1, <3>2 DEF Sound, Admitted
  <2>2. CASE i > m
    BY <1>1, <1>2, <2>2, NewItemForms
  <2>. QED
    BY <1>2, <2>1, <2>2
<1>12. \A p, q \in e.metadata : p[1] = q[1] => p = q
  <2> SUFFICES ASSUME NEW p \in e.metadata, NEW q \in e.metadata, p[1] = q[1] PROVE p = q
    OBVIOUS
  <2>1. \A o \in e.metadata : \/ \E x \in docs : o = <<OverlayId(book, n, x), D[x]>>
                              \/ \E page \in n.pages : o = <<PageOverlayId(book, page), L(page)>>
    BY <1>8
  <2>2. CASE \E x \in docs : p = <<OverlayId(book, n, x), D[x]>>
    <3>1. PICK x \in docs : p = <<OverlayId(book, n, x), D[x]>>
      BY <2>2
    <3>2. CASE \E y \in docs : q = <<OverlayId(book, n, y), D[y]>>
      BY <1>5, <3>1, <3>2
    <3>3. CASE \E page \in n.pages : q = <<PageOverlayId(book, page), L(page)>>
      BY <1>7, <3>1, <3>3
    <3>. QED
      BY <2>1, <3>2, <3>3
  <2>3. CASE \E page \in n.pages : p = <<PageOverlayId(book, page), L(page)>>
    <3>1. PICK page \in n.pages : p = <<PageOverlayId(book, page), L(page)>>
      BY <2>3
    <3>2. CASE \E y \in docs : q = <<OverlayId(book, n, y), D[y]>>
      BY <1>7, <3>1, <3>2
    <3>3. CASE \E y \in n.pages : q = <<PageOverlayId(book, y), L(y)>>
      BY <1>6, <3>1, <3>3
    <3>. QED
      BY <2>1, <3>2, <3>3
  <2>. QED
    BY <2>1, <2>2, <2>3
<1>. QED
  BY <1>9, <1>10, <1>11, <1>12 DEF PackageAudit, items

-----------------------------------------------------------------------------
(* What is accepted: the overlays.                                         *)

(* The items that have an overlay: x's own and those of the pages.         *)
OwnOverlay(book, n, e, i, x) ==
  /\ x \in Range(SynchronizedDocs(book, n)) /\ i \in XhtmlItems(book, x)
  /\ e.items[i].path = x /\ e.items[i].overlay = OverlayId(book, n, x)

LEMMA OverlayCases ==
  ASSUME NEW book, NEW n, NEW root, NEW e, Makes(book, n, root, e), Sound(book, n)
  PROVE  /\ \A i \in OverlayItems(e) : \/ \E x : OwnOverlay(book, n, e, i, x)
                                       \/ \E page \in n.pages : e.items[i] = PageItem(book, root, page)
         /\ \A x \in Range(SynchronizedDocs(book, n)) : \E i \in OverlayItems(e) : OwnOverlay(book, n, e, i, x)
         /\ \A page \in n.pages : \E i \in OverlayItems(e) : e.items[i] = PageItem(book, root, page)
         /\ \A item \in NewItems(book, n, root) : item \in Range(e.items)
         /\ IsFiniteSet(OverlayItems(e)) /\ OverlayItems(e) \subseteq DOMAIN e.items
<1> DEFINE m == Len(book.items)
           items == e.items
           docs == Range(SynchronizedDocs(book, n))
<1>1. /\ IsBook(book) /\ IsNarration(n) /\ Extractable(book) /\ Narrates(book, n)
  BY DEF Makes
<1>2. /\ Len(items) \in Nat /\ DOMAIN items = 1..Len(items) /\ m \in Nat /\ m <= Len(items)
      /\ \A i \in 1..m : items[i] = Rewritten(book, n, book.items[i])
      /\ \A i \in 1..Len(items) : i > m => items[i] \in NewItems(book, n, root)
      /\ \A item \in NewItems(book, n, root) : \E i \in 1..Len(items) : i > m /\ items[i] = item
  <2>1. ManifestOf(e.items, book, n, root)
    BY MadeParts
  <2>. QED
    BY <2>1 DEF ManifestOf
<1>3. DOMAIN book.items = 1..m
  BY MadeParts
<1>4. OverlayItems(e) = {i \in DOMAIN items : items[i].type = "xhtml" /\ items[i].overlay # None}
  BY DEF OverlayItems
<1>5. \A x \in docs : XhtmlItems(book, x) # {}
  BY <1>1, DocsFacts
<1> HIDE DEF m, items, docs
<1>6. ASSUME NEW i \in 1..m, items[i].type = "xhtml", items[i].overlay # None
      PROVE  OwnOverlay(book, n, e, i, items[i].path)
  <2>1. /\ items[i].path = book.items[i].path /\ items[i].type = book.items[i].type
        /\ items[i].overlay = IF book.items[i].type = "xhtml" /\ book.items[i].path \in docs
                                THEN OverlayId(book, n, book.items[i].path) ELSE None
    BY <1>2, RewrittenFields DEF docs
  <2>2. book.items[i].type = "xhtml" /\ items[i].path \in docs /\ items[i].overlay = OverlayId(book, n, items[i].path)
    BY <1>6, <2>1
  <2>3. Admitted(book.items[i])
    BY <1>3 DEF Sound, Range
  <2>4. i \in XhtmlItems(book, items[i].path)
    BY <1>3, <2>1, <2>2, <2>3 DEF XhtmlItems, Listed, Admitted
  <2>. QED
    BY <2>2, <2>4 DEF OwnOverlay, items, docs
<1>7. ASSUME NEW i \in 1..Len(items), i > m, items[i].type = "xhtml"
      PROVE  \E page \in n.pages : items[i] = PageItem(book, root, page)
  BY <1>1, <1>2, <1>7, NewItemForms
<1>8. \A i \in OverlayItems(e) : \/ \E x : OwnOverlay(book, n, e, i, x)
                                 \/ \E page \in n.pages : items[i] = PageItem(book, root, page)
  <2> SUFFICES ASSUME NEW i \in 1..Len(items), items[i].type = "xhtml", items[i].overlay # None
               PROVE  \/ \E x : OwnOverlay(book, n, e, i, x)
                      \/ \E page \in n.pages : items[i] = PageItem(book, root, page)
    BY <1>2, <1>4
  <2>1. i \in 1..m \/ i > m
    BY <1>2
  <2>. QED
    BY <1>6, <1>7, <2>1
<1>9. ASSUME NEW x \in docs PROVE \E i \in OverlayItems(e) : OwnOverlay(book, n, e, i, x)
  <2>1. PICK i \in 1..m : book.items[i].type = "xhtml" /\ book.items[i].path = x
    BY <1>3, <1>5 DEF XhtmlItems, Listed
  <2>2. items[i].type = "xhtml" /\ items[i].path = x /\ items[i].overlay = OverlayId(book, n, x)
    BY <1>2, <2>1, RewrittenFields DEF docs
  <2>3. OverlayId(book, n, x) # None
    BY MadeId DEF OverlayId
  <2>4. i \in 1..Len(items)
    BY <1>2
  <2>5. i \in OverlayItems(e)
    BY <1>2, <1>4, <2>2, <2>3, <2>4
  <2>6. OwnOverlay(book, n, e, i, x)
    BY <1>6, <2>2, <2>3
  <2>. QED
    BY <2>5, <2>6
<1>10. ASSUME NEW page \in n.pages PROVE \E i \in OverlayItems(e) : items[i] = PageItem(book, root, page)
  <2>1. PageItem(book, root, page) \in NewItems(book, n, root)
    BY DEF NewItems
  <2>2. PICK i \in 1..Len(items) : items[i] = PageItem(book, root, page)
    BY <1>2, <2>1
  <2>3. PageItem(book, root, page).type = "xhtml" /\ PageItem(book, root, page).overlay = PageOverlayId(book, page)
    BY DEF PageItem, Declared
  <2>4. PageOverlayId(book, page) # None
    BY MadeId DEF PageOverlayId
  <2>. QED
    BY <1>2, <1>4, <2>2, <2>3, <2>4
<1>11. \A item \in NewItems(book, n, root) : item \in Range(items)
  BY <1>2 DEF Range
<1>12. IsFiniteSet(OverlayItems(e)) /\ OverlayItems(e) \subseteq DOMAIN items
  <2>1. IsFiniteSet(1..Len(items))
    BY <1>2, FS_Interval
  <2>2. OverlayItems(e) \in SUBSET (1..Len(items))
    BY <1>2, <1>4
  <2>. QED
    BY <1>2, <2>1, <2>2, FS_Subset
<1>. QED
  BY <1>8, <1>9, <1>10, <1>11, <1>12 DEF items, docs

LEMMA OverlaysDiffer ==
  ASSUME NEW book, NEW n, NEW root, NEW e, Makes(book, n, root, e), Sound(book, n)
  PROVE  \A i, j \in OverlayItems(e) : e.items[i].overlay = e.items[j].overlay => i = j
<1>1. /\ IsBook(book) /\ IsNarration(n) /\ Extractable(book) /\ Narrates(book, n)
  BY DEF Makes
<1>2. /\ \A x, y \in Range(SynchronizedDocs(book, n)) : OverlayId(book, n, x) = OverlayId(book, n, y) => x = y
      /\ \A x, y \in n.pages : PageOverlayId(book, x) = PageOverlayId(book, y) => x = y
      /\ \A x, y : OverlayId(book, n, x) # PageOverlayId(book, y)
  BY <1>1, NewIdsDiffer
<1>3. \A page : PageItem(book, root, page).overlay = PageOverlayId(book, page)
  BY DEF PageItem, Declared
<1> SUFFICES ASSUME NEW i \in OverlayItems(e), NEW j \in OverlayItems(e), e.items[i].overlay = e.items[j].overlay
             PROVE  i = j
  OBVIOUS
<1>4. \A k \in OverlayItems(e) : \/ \E x : OwnOverlay(book, n, e, k, x)
                                 \/ \E page \in n.pages : e.items[k] = PageItem(book, root, page)
  BY OverlayCases
<1>5. \A k, x : OwnOverlay(book, n, e, k, x) =>
        x \in Range(SynchronizedDocs(book, n)) /\ e.items[k].overlay = OverlayId(book, n, x) /\ k \in XhtmlItems(book, x)
  BY DEF OwnOverlay
<1>6. CASE (\E x : OwnOverlay(book, n, e, i, x)) /\ (\E x : OwnOverlay(book, n, e, j, x))
  <2>1. PICK x : OwnOverlay(book, n, e, i, x)
    BY <1>6
  <2>2. PICK y : OwnOverlay(book, n, e, j, y)
    BY <1>6
  <2>3. x = y
    BY <1>2, <1>5, <2>1, <2>2
  <2>4. i \in XhtmlItems(book, x) /\ j \in XhtmlItems(book, x) /\ ~(Cardinality(XhtmlItems(book, x)) > 1)
    BY <1>5, <2>1, <2>2, <2>3 DEF Sound
  <2>. QED
    BY <1>1, <2>4, XhtmlItemsFinite, AtMostOne
<1>7. CASE /\ \E page \in n.pages : e.items[i] = PageItem(book, root, page)
           /\ \E page \in n.pages : e.items[j] = PageItem(book, root, page)
  <2>1. e.items[i] = e.items[j]
    BY <1>2, <1>3, <1>7
  <2>2. i \in DOMAIN e.items /\ j \in DOMAIN e.items
    BY OverlayCases
  <2>. QED
    BY <2>1, <2>2, ItemIdsDiffer
<1>8. ASSUME NEW k, NEW l, \E x : OwnOverlay(book, n, e, k, x),
             \E page \in n.pages : e.items[l] = PageItem(book, root, page)
      PROVE  e.items[k].overlay # e.items[l].overlay
  BY <1>2, <1>3, <1>5, <1>8
<1>. QED
  BY <1>4, <1>6, <1>7, <1>8

-----------------------------------------------------------------------------
(* What is accepted: how long it lasts.                                    *)

Timed(pars) ==
  /\ IsFiniteSet(pars)
  /\ \A par \in pars : par.item \in Nat \ {0} /\ par.from = ClipStart(par.item) /\ par.to = ClipEnd(par.item)
  /\ \A p, q \in pars : p.item = q.item => p = q

LEMMA ClipLength ==
  ASSUME NEW i \in Nat \ {0}
  PROVE  ClipEnd(i) - ClipStart(i) \in Nat /\ ClipStart(i) < ClipEnd(i)
<1>1. i * i \in Nat
  OBVIOUS
<1> DEFINE s == i * i
<1>2. ClipStart(i) = s /\ ClipEnd(i) = s + 2 * i /\ s \in Nat
  BY <1>1 DEF ClipStart, ClipEnd
<1> HIDE DEF s
<1>. QED
  BY <1>2

LEMMA PlayedLasts ==
  ASSUME NEW smil, Timed(smil.pars)
  PROVE  Played(smil) = Lasts({par.item : par \in smil.pars}) /\ Played(smil) \in Nat
<1> DEFINE pars == smil.pars
           S == {par.item : par \in pars}
           f == [par \in pars |-> par.to - par.from]
           g == [i \in S |-> ClipEnd(i) - ClipStart(i)]
           h == [par \in pars |-> par.item]
<1>1. Played(smil) = SumOf(f) /\ Lasts(S) = SumOf(g)
  BY DEF Played, Lasts
<1>2. /\ IsFiniteSet(pars)
      /\ \A par \in pars : par.item \in Nat \ {0} /\ par.from = ClipStart(par.item) /\ par.to = ClipEnd(par.item)
      /\ \A p, q \in pars : p.item = q.item => p = q
  BY DEF Timed
<1> HIDE DEF pars
<1>3. DOMAIN f = pars /\ DOMAIN g = S /\ h \in [DOMAIN f -> DOMAIN g]
  OBVIOUS
<1>4. \A x, y \in DOMAIN f : h[x] = h[y] => x = y
  BY <1>2
<1>5. \A z \in DOMAIN g : \E x \in DOMAIN f : h[x] = z
  OBVIOUS
<1>6. \A x \in DOMAIN f : f[x] \in Nat /\ g[h[x]] = f[x]
  <2> SUFFICES ASSUME NEW x \in pars PROVE x.to - x.from \in Nat /\ ClipEnd(x.item) - ClipStart(x.item) = x.to - x.from
    OBVIOUS
  <2>. QED
    BY <1>2, ClipLength
<1> HIDE DEF f, g, h, S
<1>7. SumOf(f) = SumOf(g)
  BY <1>2, <1>3, <1>4, <1>5, <1>6, SumSame
<1>8. SumOf(f) \in Nat
  BY <1>2, <1>3, <1>6, SumFinite
<1>. QED
  BY <1>1, <1>7, <1>8 DEF S, pars

(* What is read out in a document.                                         *)
ReadOut(n, x) == {t.item : t \in {t \in n.text : t.href = x}} \cup {g.item : g \in GraphicsOf(n, x)}

LEMMA SectionTimed ==
  ASSUME NEW n, IsNarration(n), NEW book, NEW root, NEW x
  PROVE  /\ Timed(SectionSmil(book, n, x, Audio(root)).pars)
         /\ {par.item : par \in SectionSmil(book, n, x, Audio(root)).pars} = ReadOut(n, x)
<1> DEFINE T == {t \in n.text : t.href = x}
           G == GraphicsOf(n, x)
           F == [t \in T |-> TextPar(book, n, root, t)]
           H == [g \in G |-> ImagePar(book, n, root, g)]
           A == {F[t] : t \in T}
           B == {H[g] : g \in G}
           pars == SectionSmil(book, n, x, Audio(root)).pars
<1>1. pars = A \cup B
  <2>1. A = {TextPar(book, n, root, t) : t \in T} /\ B = {ImagePar(book, n, root, g) : g \in G}
    OBVIOUS
  <2> HIDE DEF A, B
  <2>. QED
    BY <2>1, SectionPars
<1>2. T \in SUBSET n.text /\ G \in SUBSET n.graphics
  BY DEF GraphicsOf
<1>3. IsFiniteSet(T) /\ IsFiniteSet(G)
  BY <1>2, NarrationFacts, FS_Subset
<1>4. DOMAIN F = T /\ DOMAIN H = G
  OBVIOUS
<1>5. /\ \A t \in T : F[t].item = t.item /\ F[t].from = ClipStart(t.item) /\ F[t].to = ClipEnd(t.item)
      /\ \A g \in G : H[g].item = g.item /\ H[g].from = ClipStart(g.item) /\ H[g].to = ClipEnd(g.item)
  BY DEF TextPar, ImagePar, Par
<1> HIDE DEF T, G, F, H, pars
<1>6. IsFiniteSet(A) /\ IsFiniteSet(B)
  BY <1>3, <1>4, ImageFinite
<1>7. \A par \in pars : (\E t \in T : par = F[t]) \/ \E g \in G : par = H[g]
  BY <1>1
<1>8. {par.item : par \in pars} = {t.item : t \in T} \cup {g.item : g \in G}
  BY <1>1, <1>5
<1>9. IsFiniteSet(pars)
  <2> HIDE DEF A, B
  <2>. QED
    BY <1>1, <1>6, FS_Union
<1>10. ASSUME NEW par \in pars
       PROVE  par.item \in Nat \ {0} /\ par.from = ClipStart(par.item) /\ par.to = ClipEnd(par.item)
  <2>1. \A z \in n.text \cup n.graphics : z.item \in Nat \ {0}
    BY NarrationFacts
  <2>. QED
    BY <1>2, <1>5, <1>7, <2>1
<1>11. ASSUME NEW p \in pars, NEW q \in pars, p.item = q.item PROVE p = q
  <2>1. \A y, z \in n.text : y.item = z.item => y = z
    BY NarrationFacts
  <2>2. \A y, z \in n.graphics : y.item = z.item => y = z
    BY NarrationFacts
  <2>3. \A y \in n.text, z \in n.graphics : y.item # z.item
    BY NarrationFacts
  <2>4. CASE \E t \in T : p = F[t]
    BY <1>2, <1>5, <1>7, <1>11, <2>1, <2>3, <2>4
  <2>5. CASE \E g \in G : p = H[g]
    BY <1>2, <1>5, <1>7, <1>11, <2>2, <2>3, <2>5
  <2>. QED
    BY <1>7, <2>4, <2>5
<1>12. Timed(pars)
  BY <1>9, <1>10, <1>11 DEF Timed
<1>. QED
  BY <1>8, <1>12 DEF pars, T, G, ReadOut

-----------------------------------------------------------------------------
(* What is accepted: each overlay and the whole.                           *)

LEMMA ItemById ==
  ASSUME NEW book, NEW n, NEW root, NEW e, Makes(book, n, root, e), Sound(book, n), NEW item \in Range(e.items)
  PROVE  /\ \A other \in Range(e.items) : other.id = item.id => other = item
         /\ (CHOOSE other \in Range(e.items) : other.id = item.id) = item
<1>1. \A other \in Range(e.items) : other.id = item.id => other = item
  BY ItemIdsDiffer DEF Range
<1>. QED
  BY <1>1

(* The sound is there, and an anchor in every document.                    *)
LEMMA ParPasses ==
  ASSUME NEW book, NEW n, NEW root, NEW e, Makes(book, n, root, e), Sound(book, n), NEW path, NEW par,
         par.text[1] = path, HasFragment(e.docs[path], par.text[2]), par.audio = Audio(root),
         par.item \in Nat \ {0}, par.from = ClipStart(par.item), par.to = ClipEnd(par.item)
  PROVE  ParAudit(e, par, path)
<1>1. AudioItem(book, root) \in Range(e.items)
  <2>1. AudioItem(book, root) \in NewItems(book, n, root)
    BY DEF NewItems
  <2>. QED
    BY <2>1, OverlayCases
<1>2. AudioItem(book, root).type = "audio" /\ AudioItem(book, root).path = Audio(root)
  BY DEF AudioItem, Declared
<1>3. Audio(root) \in AudioPaths(e)
  BY <1>1, <1>2 DEF AudioPaths
<1>4. Audio(root) \in Range(e.entries)
  <2>1. Audio(root) \in NewFiles(book, n, root)
    BY DEF NewFiles
  <2>2. Enumerates(e.entries, {Mimetype, Package} \cup Range(book.files) \cup NewFiles(book, n, root))
    BY MadeParts
  <2>. QED
    BY <2>1, <2>2 DEF Enumerates
<1>5. par.from < par.to
  BY ClipLength
<1>. QED
  BY <1>3, <1>4, <1>5 DEF ParAudit

LEMMA SectionPasses ==
  ASSUME NEW book, NEW n, NEW root, NEW e, Makes(book, n, root, e), Sound(book, n),
         NEW x \in Range(SynchronizedDocs(book, n))
  PROVE  SmilAudit(e, SectionSmil(book, n, x, Audio(root)), x)
<1> DEFINE smil == SectionSmil(book, n, x, Audio(root))
           d == book.docs[x]
           text == TextAnnotated(book, n, x)
           f == e.docs[x]
           section == SectionNumber(book, n, x)
           owners == {Owner(d, l) : l \in LinesOf(n, x)}
           graphics == GraphicsOf(n, x)
<1>1. /\ IsBook(book) /\ IsNarration(n) /\ Extractable(book) /\ Narrates(book, n) /\ Buildable(book, n)
      /\ e = Built(book, n)
  BY DEF Makes
<1>2. NarratedDoc(d, text, f, owners, graphics, section)
  BY <1>1, IsNarrated
<1>3. /\ Distinct(d) /\ NoneBorrowed(d)
      /\ \A b \in owners : d.id[b] # Blank
      /\ \A g \in graphics : d.id[Shown(d, g.image)] # Blank
  BY DEF Sound
<1>4. Distinct(f)
  <2> HIDE DEF d, text, f, owners, graphics, section
  <2>. QED
    BY <1>2, <1>3, IdsDiffer
<1>5. /\ \A b \in owners : BlockAnchor(d, b, section) \in Ids(f)
      /\ \A g \in graphics : ImageAnchor(text, g.image, section, g.item) \in Ids(f)
  <2> HIDE DEF d, text, f, owners, graphics, section
  <2>. QED
    BY <1>2, <1>3, AnchorsThere
<1>6. ASSUME NEW t \in n.text, t.href = x PROVE ParAudit(e, TextPar(book, n, root, t), x)
  <2> DEFINE par == TextPar(book, n, root, t)
  <2>1. /\ par.text = <<x, BlockAnchor(d, Owner(d, t.line), section)>> /\ par.audio = Audio(root) /\ par.item = t.item
        /\ par.from = ClipStart(t.item) /\ par.to = ClipEnd(t.item)
    BY <1>6 DEF TextPar, Par
  <2>2. Owner(d, t.line) \in owners
    BY <1>6 DEF LinesOf
  <2>3. HasFragment(f, par.text[2])
    BY <1>4, <1>5, <2>1, <2>2 DEF HasFragment
  <2>4. t.item \in Nat \ {0}
    BY <1>1, NarrationFacts
  <2>5. par.text[1] = x
    BY <2>1
  <2> HIDE DEF par
  <2>. QED
    BY <2>1, <2>3, <2>4, <2>5, ParPasses DEF par
<1>7. ASSUME NEW g \in graphics PROVE ParAudit(e, ImagePar(book, n, root, g), x)
  <2> DEFINE par == ImagePar(book, n, root, g)
  <2>1. g.href = x /\ g \in n.graphics
    BY <1>7 DEF GraphicsOf
  <2>2. /\ par.text = <<x, ImageAnchor(text, g.image, section, g.item)>> /\ par.audio = Audio(root) /\ par.item = g.item
        /\ par.from = ClipStart(g.item) /\ par.to = ClipEnd(g.item)
    BY <2>1 DEF ImagePar, Par
  <2>3. HasFragment(f, par.text[2])
    BY <1>4, <1>5, <2>2 DEF HasFragment
  <2>4. g.item \in Nat \ {0}
    BY <1>1, <2>1, NarrationFacts
  <2>5. par.text[1] = x
    BY <2>2
  <2> HIDE DEF par
  <2>. QED
    BY <2>2, <2>3, <2>4, <2>5, ParPasses DEF par
<1>8. /\ smil.textref = x
      /\ smil.pars = {TextPar(book, n, root, t) : t \in {t \in n.text : t.href = x}}
                     \cup {ImagePar(book, n, root, g) : g \in graphics}
  BY SectionPars
<1>9. (\E t \in n.text : t.href = x) \/ graphics # {}
  <2>1. x \in {t.href : t \in n.text} \cup {g.href : g \in n.graphics}
    BY <1>1, DocsFacts
  <2>. QED
    BY <2>1 DEF GraphicsOf
<1> HIDE DEF smil, graphics
<1>10. smil.pars # {}
  BY <1>8, <1>9
<1>11. \A par \in smil.pars : ParAudit(e, par, x)
  BY <1>6, <1>7, <1>8
<1>. QED
  BY <1>8, <1>10, <1>11 DEF SmilAudit, smil

LEMMA PagePasses ==
  ASSUME NEW book, NEW n, NEW root, NEW e, Makes(book, n, root, e), Sound(book, n), NEW page \in n.pages
  PROVE  /\ SmilAudit(e, PageOverlay(root, page), PagePath(root, page)) /\ Timed(PageOverlay(root, page).pars)
         /\ Played(PageOverlay(root, page)) = Lasts({page.item})
<1> DEFINE par == PagePar(root, page)
           smil == PageOverlay(root, page)
           f == PageXhtml(page.item)
<1>1. IsBook(book) /\ IsNarration(n) /\ root = UniqueResourceRoot(book.files) /\ e = Built(book, n)
  BY DEF Makes
<1>2. smil.textref = PagePath(root, page) /\ smil.pars = {par}
  BY DEF PageOverlay
<1>3. /\ par.text = <<PagePath(root, page), PageAnchor(page.item)>> /\ par.audio = Audio(root) /\ par.item = page.item
      /\ par.from = ClipStart(page.item) /\ par.to = ClipEnd(page.item)
  BY DEF PagePar, Par
<1>4. page.item \in Nat \ {0}
  BY <1>1, NarrationFacts
<1>5. e.docs[PagePath(root, page)] = f
  BY <1>1, BuiltDocs
<1>6. HasFragment(f, PageAnchor(page.item))
  <2>1. f.id = <<None, None, None, PageAnchor(page.item)>>
    BY DEF PageXhtml
  <2>2. PageAnchor(page.item) \notin {None, Blank}
    <3>1. Len(PageAnchor(page.item)) = 2 /\ Len(None) = 0 /\ Len(Blank) = 1
      BY DEF PageAnchor, None, Blank
    <3>. QED
      BY <3>1
  <2> DEFINE a == PageAnchor(page.item)
             id == f.id
  <2> HIDE DEF a
  <2>3. DOMAIN id = 1..4 /\ id[1] = None /\ id[2] = None /\ id[3] = None /\ id[4] = a
    BY <2>1 DEF a
  <2> HIDE DEF id, f
  <2>4. \A k \in DOMAIN id : k # 4 => id[k] = None
    BY <2>3
  <2>5. Distinct(f)
    BY <2>4 DEF Distinct, id
  <2>6. a \in Ids(f)
    BY <2>2, <2>3 DEF Ids, id, a
  <2>. QED
    BY <2>5, <2>6 DEF HasFragment, a
<1> HIDE DEF par, smil, f
<1>7. par.text[1] = PagePath(root, page) /\ HasFragment(e.docs[PagePath(root, page)], par.text[2])
  BY <1>3, <1>5, <1>6
<1>8. ParAudit(e, par, PagePath(root, page))
  BY <1>3, <1>4, <1>7, ParPasses
<1>9. SmilAudit(e, smil, PagePath(root, page))
  BY <1>2, <1>8 DEF SmilAudit
<1>10. Timed(smil.pars)
  <2>1. IsFiniteSet(smil.pars)
    BY <1>2, FS_Singleton
  <2>2. \A p \in smil.pars : p = par
    BY <1>2
  <2>. QED
    BY <1>3, <1>4, <2>1, <2>2 DEF Timed
<1>11. {p.item : p \in smil.pars} = {page.item}
  BY <1>2, <1>3
<1>12. Played(smil) = Lasts({page.item})
  BY <1>10, <1>11, PlayedLasts
<1>. QED
  BY <1>9, <1>10, <1>12 DEF smil

(* The item smil is the overlay of the item at i, and passes.              *)
Overlaid(e, i, smil) ==
  /\ smil \in Range(e.items) /\ smil.id = e.items[i].overlay /\ smil.type = "smil"
  /\ e.items[i].path \in Range(e.entries) /\ smil.path \in Range(e.entries)
  /\ SmilAudit(e, e.smils[smil.path], e.items[i].path)
  /\ Played(e.smils[smil.path]) \in Nat
  /\ <<e.items[i].overlay, Played(e.smils[smil.path])>> \in e.metadata

LEMMA OwnPasses ==
  ASSUME NEW book, NEW n, NEW root, NEW e, Makes(book, n, root, e), Sound(book, n),
         NEW i \in OverlayItems(e), NEW x, OwnOverlay(book, n, e, i, x)
  PROVE  Overlaid(e, i, OverlayItem(book, n, root, x))
<1> DEFINE smil == OverlayItem(book, n, root, x)
           audited == SectionSmil(book, n, x, Audio(root))
<1>1. /\ IsBook(book) /\ IsNarration(n) /\ Extractable(book) /\ Narrates(book, n)
      /\ root = UniqueResourceRoot(book.files) /\ e = Built(book, n)
  BY DEF Makes
<1>2. /\ x \in Range(SynchronizedDocs(book, n)) /\ e.items[i].path = x
      /\ e.items[i].overlay = OverlayId(book, n, x)
  BY DEF OwnOverlay
<1>3. smil.id = OverlayId(book, n, x) /\ smil.type = "smil" /\ smil.path = Smil(book, n, root, x)
  BY DEF OverlayItem, Declared
<1>4. smil \in Range(e.items)
  <2>1. smil \in NewItems(book, n, root)
    BY <1>2 DEF NewItems
  <2>. QED
    BY <2>1, OverlayCases
<1>5. x \in Range(e.entries) /\ smil.path \in Range(e.entries)
  <2>1. x \in Range(book.files)
    BY <1>1, <1>2, DocsFacts, RootFacts
  <2>2. Smil(book, n, root, x) \in NewFiles(book, n, root)
    BY <1>2 DEF NewFiles
  <2>3. Enumerates(e.entries, {Mimetype, Package} \cup Range(book.files) \cup NewFiles(book, n, root))
    BY MadeParts
  <2>. QED
    BY <1>3, <2>1, <2>2, <2>3 DEF Enumerates
<1>6. e.smils[smil.path] = audited
  BY <1>1, <1>2, <1>3, SmilsFacts
<1>7. SmilAudit(e, audited, x)
  BY <1>2, SectionPasses
<1>8. Played(audited) = Durations(book, n)[x] /\ Played(audited) \in Nat
  <2>1. Timed(audited.pars)
    BY <1>1, SectionTimed
  <2>2. {par.item : par \in audited.pars} = ReadOut(n, x)
    BY <1>1, SectionTimed
  <2> HIDE DEF audited
  <2>3. Played(audited) = Lasts({par.item : par \in audited.pars}) /\ Played(audited) \in Nat
    BY <2>1, PlayedLasts
  <2>4. Durations(book, n)[x] = Lasts(ReadOut(n, x))
    BY <1>2 DEF Durations, ReadOut
  <2>. QED
    BY <2>2, <2>3, <2>4
<1>9. <<OverlayId(book, n, x), Durations(book, n)[x]>> \in e.metadata
  <2>1. e.metadata = Metadata(book, n)
    BY MadeParts
  <2>. QED
    BY <1>2, <2>1 DEF Metadata
<1> HIDE DEF smil, audited
<1>. QED
  BY <1>2, <1>3, <1>4, <1>5, <1>6, <1>7, <1>8, <1>9 DEF Overlaid, smil

LEMMA PageOverlayPasses ==
  ASSUME NEW book, NEW n, NEW root, NEW e, Makes(book, n, root, e), Sound(book, n),
         NEW i \in OverlayItems(e), NEW page \in n.pages, e.items[i] = PageItem(book, root, page)
  PROVE  Overlaid(e, i, PageSmilItem(book, root, page))
<1> DEFINE smil == PageSmilItem(book, root, page)
           audited == PageOverlay(root, page)
<1>1. /\ IsBook(book) /\ IsNarration(n) /\ Extractable(book) /\ Narrates(book, n)
      /\ root = UniqueResourceRoot(book.files) /\ e = Built(book, n)
  BY DEF Makes
<1>2. e.items[i].path = PagePath(root, page) /\ e.items[i].overlay = PageOverlayId(book, page)
  BY DEF PageItem, Declared
<1>3. smil.id = PageOverlayId(book, page) /\ smil.type = "smil" /\ smil.path = PageSmil(root, page)
  BY DEF PageSmilItem, Declared
<1>4. smil \in Range(e.items)
  <2>1. smil \in NewItems(book, n, root)
    BY DEF NewItems
  <2>. QED
    BY <2>1, OverlayCases
<1>5. PagePath(root, page) \in Range(e.entries) /\ PageSmil(root, page) \in Range(e.entries)
  <2>1. PagePath(root, page) \in NewFiles(book, n, root) /\ PageSmil(root, page) \in NewFiles(book, n, root)
    BY DEF NewFiles
  <2>2. Enumerates(e.entries, {Mimetype, Package} \cup Range(book.files) \cup NewFiles(book, n, root))
    BY MadeParts
  <2>. QED
    BY <2>1, <2>2 DEF Enumerates
<1>6. e.smils[smil.path] = audited
  BY <1>1, <1>3, SmilsFacts
<1>7. SmilAudit(e, audited, PagePath(root, page)) /\ Timed(audited.pars) /\ Played(audited) = Lasts({page.item})
  BY PagePasses
<1>8. Played(audited) \in Nat
  BY <1>7, PlayedLasts
<1>9. <<PageOverlayId(book, page), Lasts({page.item})>> \in e.metadata
  <2>1. e.metadata = Metadata(book, n)
    BY MadeParts
  <2>. QED
    BY <2>1 DEF Metadata
<1> HIDE DEF smil, audited
<1>. QED
  BY <1>2, <1>3, <1>4, <1>5, <1>6, <1>7, <1>8, <1>9 DEF Overlaid, smil

LEMMA OverlayPasses ==
  ASSUME NEW book, NEW n, NEW root, NEW e, Makes(book, n, root, e), Sound(book, n), NEW i \in OverlayItems(e)
  PROVE  \E smil \in Range(e.items) :
           /\ Overlaid(e, i, smil) /\ {other \in Range(e.items) : other.id = e.items[i].overlay} = {smil}
           /\ (CHOOSE other \in Range(e.items) : other.id = e.items[i].overlay) = smil
<1>1. \E smil : Overlaid(e, i, smil)
  BY OverlayCases, OwnPasses, PageOverlayPasses
<1>2. PICK smil : Overlaid(e, i, smil)
  BY <1>1
<1>3. smil \in Range(e.items) /\ smil.id = e.items[i].overlay
  BY <1>2 DEF Overlaid
<1>4. /\ \A other \in Range(e.items) : other.id = smil.id => other = smil
      /\ (CHOOSE other \in Range(e.items) : other.id = smil.id) = smil
  BY <1>3, ItemById
<1>. QED
  BY <1>2, <1>3, <1>4

LEMMA TotalPasses ==
  ASSUME NEW book, NEW n, NEW root, NEW e, Makes(book, n, root, e), Sound(book, n)
  PROVE  e.total = SumOf([i \in OverlayItems(e) |->
           Played(e.smils[(CHOOSE s \in Range(e.items) : s.id = e.items[i].overlay).path])])
<1> DEFINE I == OverlayItems(e)
           f == [i \in I |-> Played(e.smils[(CHOOSE s \in Range(e.items) : s.id = e.items[i].overlay).path])]
           g == [m \in Metadata(book, n) |-> m[2]]
           h == [i \in I |-> <<e.items[i].overlay, f[i]>>]
<1>1. e.total = SumOf(g) /\ e.metadata = Metadata(book, n)
  BY MadeParts DEF Total
<1>2. DOMAIN f = I /\ DOMAIN g = e.metadata /\ IsFiniteSet(I) /\ DOMAIN h = I
  BY <1>1, OverlayCases
<1>3. ASSUME NEW i \in I PROVE f[i] \in Nat /\ <<e.items[i].overlay, f[i]>> \in e.metadata
  <2>1. PICK smil \in Range(e.items) :
          /\ Overlaid(e, i, smil) /\ (CHOOSE other \in Range(e.items) : other.id = e.items[i].overlay) = smil
    BY OverlayPasses
  <2>2. f[i] = Played(e.smils[smil.path])
    BY <2>1
  <2> HIDE DEF f
  <2>. QED
    BY <2>1, <2>2 DEF Overlaid
<1>4. \A i, j \in I : e.items[i].overlay = e.items[j].overlay => i = j
  BY OverlaysDiffer
<1>5. \A m, o \in e.metadata : m[1] = o[1] => m = o
  BY PackagePasses DEF PackageAudit
<1>6. ASSUME NEW m \in e.metadata PROVE \E i \in I : e.items[i].overlay = m[1]
  <2>1. \/ \E x \in Range(SynchronizedDocs(book, n)) : m[1] = OverlayId(book, n, x)
        \/ \E page \in n.pages : m[1] = PageOverlayId(book, page)
    <3> DEFINE D == Durations(book, n)
               L(page) == Lasts({page.item})
    <3>1. m \in {<<OverlayId(book, n, x), D[x]>> : x \in Range(SynchronizedDocs(book, n))}
                \cup {<<PageOverlayId(book, page), L(page)>> : page \in n.pages}
      BY <1>1, <1>6 DEF Metadata
    <3> HIDE DEF D, L
    <3>. QED
      BY <3>1
  <2>2. CASE \E x \in Range(SynchronizedDocs(book, n)) : m[1] = OverlayId(book, n, x)
    <3>1. PICK x \in Range(SynchronizedDocs(book, n)) : m[1] = OverlayId(book, n, x)
      BY <2>2
    <3>2. PICK i \in I : OwnOverlay(book, n, e, i, x)
      BY OverlayCases
    <3>. QED
      BY <3>1, <3>2 DEF OwnOverlay
  <2>3. CASE \E page \in n.pages : m[1] = PageOverlayId(book, page)
    <3>1. PICK page \in n.pages : m[1] = PageOverlayId(book, page)
      BY <2>3
    <3>2. PICK i \in I : e.items[i] = PageItem(book, root, page)
      BY OverlayCases
    <3>3. PageItem(book, root, page).overlay = PageOverlayId(book, page)
      BY DEF PageItem, Declared
    <3>. QED
      BY <3>1, <3>2, <3>3
  <2>. QED
    BY <2>1, <2>2, <2>3
<1>7. \A i \in I : h[i] = <<e.items[i].overlay, f[i]>>
  OBVIOUS
<1>8. \A m \in e.metadata : g[m] = m[2]
  BY <1>1
<1> HIDE DEF I, f, g, h
<1>9. h \in [DOMAIN f -> DOMAIN g]
  <2>1. \A i \in I : h[i] \in e.metadata
    BY <1>3, <1>7
  <2>2. h = [i \in I |-> h[i]]
    BY <1>7 DEF h
  <2>. QED
    BY <1>2, <2>1, <2>2
<1>10. \A x, y \in DOMAIN f : h[x] = h[y] => x = y
  BY <1>2, <1>4, <1>7
<1>11. ASSUME NEW z \in DOMAIN g PROVE \E x \in DOMAIN f : h[x] = z
  <2>1. PICK i \in I : e.items[i].overlay = z[1]
    BY <1>2, <1>6
  <2>2. h[i] \in e.metadata /\ h[i][1] = z[1]
    BY <1>3, <1>7, <2>1
  <2>. QED
    BY <1>2, <1>5, <2>2
<1>12. \A x \in DOMAIN f : f[x] \in Nat /\ g[h[x]] = f[x]
  BY <1>2, <1>3, <1>7, <1>8
<1>13. SumOf(f) = SumOf(g)
  BY <1>2, <1>9, <1>10, <1>11, <1>12, SumSame
<1>. QED
  BY <1>1, <1>13 DEF f, I

LEMMA ValidIfSound ==
  ASSUME NEW book, NEW n, NEW root, NEW e, Makes(book, n, root, e), Sound(book, n)
  PROVE  Valid(e)
<1>1. Container(e) /\ PackageAudit(e)
  BY ContainerPasses, PackagePasses
<1>2. OverlayItems(e) # {}
  <2>1. SynchronizedDocs(book, n) # << >>
    BY DEF Makes, Buildable
  <2>2. /\ IsBook(book) /\ IsNarration(n) /\ Extractable(book) /\ Narrates(book, n)
    BY DEF Makes
  <2>3. SynchronizedDocs(book, n) \in Seq(DOMAIN book.docs)
    BY <2>2, DocsFacts
  <2>4. PICK x : x \in Range(SynchronizedDocs(book, n))
    <3> DEFINE s == SynchronizedDocs(book, n)
    <3>1. 1 \in DOMAIN s
      <4> HIDE DEF s
      <4>. QED
        BY <2>1, <2>3 DEF s
    <3>. QED
      BY <3>1 DEF Range
  <2>. QED
    BY <2>4, OverlayCases
<1>3. AudioPaths(e) # {}
  <2>1. AudioItem(book, root) \in NewItems(book, n, root)
    BY DEF NewItems
  <2>2. AudioItem(book, root) \in Range(e.items)
    BY <2>1, OverlayCases
  <2>3. AudioItem(book, root).type = "audio"
    BY DEF AudioItem, Declared
  <2>. QED
    BY <2>2, <2>3 DEF AudioPaths
<1>4. \A i, j \in OverlayItems(e) : e.items[i].overlay = e.items[j].overlay => i = j
  BY OverlaysDiffer
<1>5. ASSUME NEW i \in OverlayItems(e) PROVE OverlayAudit(e, e.items[i])
  <2> DEFINE smils == {other \in Range(e.items) : other.id = e.items[i].overlay}
  <2>1. PICK smil \in Range(e.items) : Overlaid(e, i, smil) /\ smils = {smil}
    BY OverlayPasses
  <2> HIDE DEF smils
  <2>2. /\ smil.type = "smil" /\ {e.items[i].path, smil.path} \subseteq Range(e.entries)
        /\ SmilAudit(e, e.smils[smil.path], e.items[i].path)
        /\ <<e.items[i].overlay, Played(e.smils[smil.path])>> \in e.metadata
    BY <2>1 DEF Overlaid
  <2>. QED
    BY <2>1, <2>2 DEF OverlayAudit, smils
<1>6. e.total = SumOf([i \in OverlayItems(e) |->
        Played(e.smils[(CHOOSE s \in Range(e.items) : s.id = e.items[i].overlay).path])])
  BY TotalPasses
<1>. QED
  BY <1>1, <1>2, <1>3, <1>4, <1>5, <1>6 DEF Valid

LEMMA RejectedIsDefective == BuiltFromBook => (stage = "rejected" => Defective)
<1> SUFFICES ASSUME BuiltFromBook, stage = "rejected", ~Defective PROVE FALSE
  OBVIOUS
<1> DEFINE book == made.book
           n == made.narration
           e == made.epub
           root == UniqueResourceRoot(book.files)
<1>1. /\ book \in Books /\ n \in Narrations /\ Extractable(book) /\ Narrates(book, n) /\ Buildable(book, n)
      /\ e = Built(book, n) /\ ~Valid(e)
  BY DEF BuiltFromBook, BuiltStages
<1>2. IsBook(book) /\ IsNarration(n)
  BY <1>1, BooksAssumption, NarrationsAssumption
<1>3. /\ book.literal /\ \A item \in Range(book.items) : Admitted(item)
      /\ \A i, j \in DOMAIN book.items : book.items[i].id = book.items[j].id => i = j
      /\ \A x \in Synchronized : ~(Cardinality(XhtmlItems(book, x)) > 1)
      /\ \A x \in Synchronized : Distinct(Source(x)) /\ ~Borrowed(x) /\ \A m \in Anchored(x) : Source(x).id[m] # Blank
  BY DEF Defective
<1>4. Synchronized = Range(SynchronizedDocs(book, n)) /\ \A x : Source(x) = book.docs[x]
  BY DEF Synchronized, Source
<1>5. \A x : ~Borrowed(x) => NoneBorrowed(book.docs[x])
  BY <1>4 DEF Borrowed, NoneBorrowed
<1>6. \A x : /\ \A l \in LinesOf(n, x) : Owner(book.docs[x], l) \in Anchored(x)
             /\ \A g \in GraphicsOf(n, x) : Shown(book.docs[x], g.image) \in Anchored(x)
  BY <1>4 DEF Anchored
<1> HIDE DEF book, n, e
<1>7. Sound(book, n)
  BY <1>3, <1>4, <1>5, <1>6 DEF Sound
<1>8. Makes(book, n, root, e)
  BY <1>1, <1>2 DEF Makes
<1>. QED
  BY <1>1, <1>7, <1>8, ValidIfSound

(* Whatever the source has of ids and files, of any book whose package has *)
(* the shape IsBook says and for any narration: run_build_epub refuses it  *)
(* only for one of the reasons that are named, and what it builds passes   *)
(* run_validate, unless the source has one of the defects that are named.  *)
THEOREM FinishedOrDefective == Spec => []FinishedUnlessDefective
<1>1. BuiltFromBook => FinishedUnlessDefective
  BY RefusedIsRefusable, RejectedIsDefective DEF FinishedUnlessDefective
<1>. QED
  BY <1>1, BuiltAlways, PTL
=============================================================================
