--------------------------- MODULE CommandRunner ---------------------------
(***************************************************************************)
(* run_cancellable_command (crates/storyteller-core/src/command.rs): one   *)
(* external program, two threads that read what it writes, a channel from  *)
(* them to the caller, and a token that somebody may set at any time.      *)
(*                                                                         *)
(* A line is only counted.  A pipe holds few of them, so the program may   *)
(* have to wait for its reader.  A process the program has started itself  *)
(* (an heir) keeps the pipes open after the program has ended.             *)
(***************************************************************************)
EXTENDS Naturals

CONSTANTS
  MaxLines,   (* bound: lines written to one stream                         *)
  PipeSize,   (* lines a pipe holds                                         *)
  Heirs       (* whether programs leave processes behind                    *)

ASSUME CommandAssumption == MaxLines \in Nat /\ PipeSize \in Nat \ {0} /\ Heirs \in BOOLEAN

VARIABLES
  call,       (* the step of the caller                                     *)
  why,        (* how the call will end: "ok" or a CommandRunError           *)
  child,      (* the program: "none", "running", "exited", or "reaped"      *)
  success,    (* its exit status                                            *)
  heir,       (* a process it left behind holds the pipes                   *)
  written,    (* lines written to each stream so far                        *)
  piped,      (* of these, the lines in the pipe                            *)
  sent,       (* lines in the channel                                       *)
  told,       (* lines captured and given to on_line                        *)
  reader,     (* the thread of each stream                                  *)
  broken,     (* the streams whose error is in the channel                  *)
  cancelled   (* the CancellationToken                                      *)

cvars == <<call, why, child, success, heir, written, piped, sent, told, reader, broken, cancelled>>
lines == <<written, piped, sent, told>>

Streams == {"stdout", "stderr"}
NoLines == [s \in Streams |-> 0]

-----------------------------------------------------------------------------
(* The program and what it leaves behind.                                  *)

Fork ==
  /\ Heirs /\ child = "running" /\ heir' = TRUE
  /\ UNCHANGED <<call, why, child, success, lines, reader, broken, cancelled>>

HeirEnds ==
  /\ heir /\ heir' = FALSE
  /\ UNCHANGED <<call, why, child, success, lines, reader, broken, cancelled>>

Write(s) ==
  /\ child = "running" \/ heir
  /\ written[s] < MaxLines /\ piped[s] < PipeSize /\ reader[s] = "reading"
  /\ written' = [written EXCEPT ![s] = @ + 1] /\ piped' = [piped EXCEPT ![s] = @ + 1]
  /\ UNCHANGED <<call, why, child, success, heir, sent, told, reader, broken, cancelled>>

Exit(status) ==
  /\ child = "running" /\ child' = "exited" /\ success' = status
  /\ UNCHANGED <<call, why, heir, lines, reader, broken, cancelled>>

(* CancellationToken::request, from another thread.                        *)
Cancel ==
  /\ ~cancelled /\ cancelled' = TRUE
  /\ UNCHANGED <<call, why, child, success, heir, lines, reader, broken>>

-----------------------------------------------------------------------------
(* read_stream, once for each stream.                                      *)

ReadLine(s) ==
  /\ reader[s] = "reading" /\ piped[s] > 0
  /\ piped' = [piped EXCEPT ![s] = @ - 1] /\ sent' = [sent EXCEPT ![s] = @ + 1]
  /\ UNCHANGED <<call, why, child, success, heir, written, told, reader, broken, cancelled>>

(* Ok(0): the pipe is empty and nobody holds its other end.                *)
ReadEnd(s) ==
  /\ reader[s] = "reading" /\ piped[s] = 0 /\ child # "running" /\ ~heir
  /\ reader' = [reader EXCEPT ![s] = "ended"]
  /\ UNCHANGED <<call, why, child, success, heir, lines, broken, cancelled>>

ReadFails(s) ==
  /\ reader[s] = "reading"
  /\ reader' = [reader EXCEPT ![s] = "failed"] /\ broken' = broken \cup {s}
  /\ UNCHANGED <<call, why, child, success, heir, lines, cancelled>>

-----------------------------------------------------------------------------
(* The caller.                                                             *)

(* kill and wait, then the two joins.                                      *)
GiveUp(reason) == child' = "reaped" /\ call' = "join stdout" /\ why' = reason

Start ==
  /\ call = "called"
  /\ \/ /\ call' = "returned" /\ why' = "spawn" /\ UNCHANGED <<child, reader>>
     \/ /\ call' = "drain" /\ child' = "running"
        /\ reader' = [s \in Streams |-> "reading"] /\ UNCHANGED why
     \/ (* the thread of stdout does not start *)
        /\ child' = "reaped" /\ call' = "returned" /\ why' = "spawn" /\ UNCHANGED reader
     \/ (* the thread of stderr does not start *)
        /\ GiveUp("spawn") /\ reader' = [reader EXCEPT !["stdout"] = "reading"]
  /\ UNCHANGED <<success, heir, lines, broken, cancelled>>

(* drain_messages: all that is in the channel.                             *)
DrainMessages ==
  /\ told' = [s \in Streams |-> told[s] + sent[s]] /\ sent' = NoLines /\ broken' = {}
  /\ UNCHANGED <<written, piped>>

Drain ==
  /\ call = "drain" /\ DrainMessages
  /\ \/ broken # {} /\ GiveUp("stream")
     \/ broken = {} /\ call' = "check" /\ UNCHANGED <<child, why>>
  /\ UNCHANGED <<success, heir, reader, cancelled>>

Check_LetRun ==
  /\ call = "check" /\ call' = "wait" /\ UNCHANGED <<child, why>>
  /\ UNCHANGED <<success, heir, lines, reader, broken, cancelled>>
Check ==
  /\ call = "check"
  /\ \/ cancelled /\ GiveUp("cancelled")
     \/ ~cancelled /\ call' = "wait" /\ UNCHANGED <<child, why>>
  /\ UNCHANGED <<success, heir, lines, reader, broken, cancelled>>

TryWait ==
  /\ call = "wait"
  /\ \/ child = "exited" /\ GiveUp("ok")
     \/ child = "running" /\ call' = "drain" /\ UNCHANGED <<child, why>>
     \/ GiveUp("wait")
  /\ UNCHANGED <<success, heir, lines, reader, broken, cancelled>>

Joinable_Never(s) == TRUE
Joinable(s) == reader[s] # "reading"

Join ==
  /\ \/ call = "join stdout" /\ Joinable("stdout") /\ call' = "join stderr"
     \/ call = "join stderr" /\ Joinable("stderr") /\ call' = "last"
  /\ UNCHANGED <<why, child, success, heir, lines, reader, broken, cancelled>>

(* What came after the last round is drained; only Ok looks at errors.     *)
Return ==
  /\ call = "last" /\ call' = "returned"
  /\ IF why \in {"ok", "cancelled"} THEN DrainMessages ELSE UNCHANGED <<lines, broken>>
  /\ why' = IF why = "ok" /\ broken # {} THEN "stream" ELSE why
  /\ UNCHANGED <<child, success, heir, reader, cancelled>>

Caller == Start \/ Drain \/ Check \/ TryWait \/ Join \/ Return
Reading(s) == ReadLine(s) \/ ReadEnd(s)
Outside == Fork \/ HeirEnds \/ (\E s \in Streams : Write(s)) \/ (\E status \in BOOLEAN : Exit(status))

CommandInit ==
  /\ call = "called" /\ why = "ok" /\ child = "none" /\ success = FALSE /\ heir = FALSE
  /\ written = NoLines /\ piped = NoLines /\ sent = NoLines /\ told = NoLines
  /\ reader = [s \in Streams |-> "none"] /\ broken = {} /\ cancelled = FALSE

CommandNext ==
  \/ Caller \/ Outside \/ Cancel
  \/ \E s \in Streams : Reading(s) \/ ReadFails(s)

CommandSpec == CommandInit /\ [][CommandNext]_cvars

-----------------------------------------------------------------------------
(* Properties.                                                             *)

(* When the call returns, the program is not running any more and neither  *)
(* thread is; and Ok means that every line the program wrote was given to  *)
(* the caller, however late it was written and in whatever order exit,     *)
(* output and cancellation came.                                           *)
CommandReturns ==
  call = "returned" =>
    /\ child \in {"none", "reaped"}
    /\ \A s \in Streams : reader[s] # "reading"
    /\ why = "ok" => told = written

(* A call ends once its program has ended or is cancelled, and a program   *)
(* is not kept waiting for ever by a full pipe - provided that no process  *)
(* the program has left behind holds the pipes for ever.                   *)
CommandEnds ==
  <>[]~heir =>
    /\ (call # "called" /\ (cancelled \/ child = "exited")) ~> (call = "returned")
    /\ \A s \in Streams :
         (reader[s] = "reading" /\ piped[s] = PipeSize)
           ~> (piped[s] < PipeSize \/ reader[s] # "reading")
=============================================================================
