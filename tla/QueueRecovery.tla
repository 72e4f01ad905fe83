--------------------------- MODULE QueueRecovery ---------------------------
(***************************************************************************)
(* The recovery snapshot on disk: write_queue_recovery and                 *)
(* read_queue_recovery (crates/storyteller-core/src/job_recovery.rs), the  *)
(* quarantine of recovery_state.rs and the start of the controller.        *)
(*                                                                         *)
(* One thread saves, but every file operation may fail and the process may *)
(* end between any two of them.  A snapshot is opaque here: which books it *)
(* holds is the business of module Controller, where a save is one step.   *)
(***************************************************************************)
EXTENDS Naturals

CONSTANTS
  Snapshots,  (* contents with at least one open book                       *)
  NoOpenBook, (* the queue without an open book                             *)
  Absent,     (* no such file                                               *)
  Bad         (* a file that is torn, damaged or of an unknown version      *)

ASSUME QueueRecoveryAssumption ==
  /\ NoOpenBook \notin Snapshots /\ Absent \notin Snapshots /\ Bad \notin Snapshots
  /\ NoOpenBook # Absent /\ NoOpenBook # Bad /\ Absent # Bad

VARIABLES
  primary, backup, temp,  (* queue-recovery.json, .bak and .tmp             *)
  pc,                     (* the next file operation of the save            *)
  target,                 (* the queue being saved                          *)
  rotated,                (* rotated_primary                                *)
  session,                (* "down", "up", or "blocked" (recovery_blocked)  *)
  acceptable,             (* history: what a start may bring back           *)
  damaged                 (* history: damaged since the last complete save  *)

files        == <<primary, backup, temp>>
snapshotVars == <<primary, backup, temp, pc, target, rotated, session, acceptable, damaged>>

File  == Snapshots \cup {Absent, Bad}
Steps == {"idle", "removePrimary", "removeBackup", "writeTemp", "dropBackup", "rotate",
          "publish", "restore", "cleanBackup"}

(* The file read_queue_recovery reads, and what a start makes of it.       *)
Source   == IF primary # Absent THEN primary ELSE backup
Recovers == IF Source = Absent THEN NoOpenBook ELSE Source

-----------------------------------------------------------------------------
(* write_queue_recovery, one file operation at a time.                     *)

Unchanging == UNCHANGED <<target, session, damaged>>

(* The save returns Err: the queue stays dirty, the files as they are.     *)
Fails == pc' = "idle" /\ UNCHANGED <<files, rotated, acceptable>>

Complete == pc' = "idle" /\ acceptable' = {target} /\ damaged' = FALSE

BeginSave(s) ==
  /\ session = "up" /\ pc = "idle"
  /\ target' = s /\ acceptable' = acceptable \cup {s}
  /\ pc' = IF s = NoOpenBook THEN "removePrimary" ELSE "writeTemp"
  /\ UNCHANGED <<files, rotated, session, damaged>>

RemovePrimary ==
  /\ pc = "removePrimary"
  /\ \/ primary' = Absent /\ pc' = "removeBackup" /\ UNCHANGED <<backup, temp, rotated, acceptable>>
     \/ primary # Absent /\ Fails
  /\ Unchanging

RemoveBackup ==
  /\ pc = "removeBackup"
  /\ \/ backup' = Absent /\ Complete /\ UNCHANGED <<primary, temp, target, rotated, session>>
     \/ backup # Absent /\ Fails /\ Unchanging

(* Remove a stale .tmp, create it, write it, flush it.                     *)
WriteTemp_Torn ==
  /\ pc = "writeTemp"
  /\ \/ temp' \in {Bad, target} /\ pc' = "dropBackup" /\ UNCHANGED <<primary, backup, rotated, acceptable>>
     \/ Fails
  /\ Unchanging
WriteTemp ==
  /\ pc = "writeTemp"
  /\ \/ temp' = target /\ pc' = "dropBackup" /\ UNCHANGED <<primary, backup, rotated, acceptable>>
     \/ temp' \in {temp, target, Absent, Bad} /\ pc' = "idle" /\ UNCHANGED <<primary, backup, rotated, acceptable>>
  /\ Unchanging

(* Only a primary that exists is rotated; a backup in its way goes first.  *)
DropBackup ==
  /\ pc = "dropBackup"
  /\ \/ primary = Absent /\ pc' = "publish" /\ rotated' = FALSE /\ UNCHANGED <<files, acceptable>>
     \/ primary # Absent /\ backup' = Absent /\ pc' = "rotate" /\ UNCHANGED <<primary, temp, rotated, acceptable>>
     \/ primary # Absent /\ backup # Absent /\ Fails
  /\ Unchanging

Rotate ==
  /\ pc = "rotate"
  /\ \/ /\ backup' = primary /\ primary' = Absent /\ rotated' = TRUE
        /\ pc' = "publish" /\ UNCHANGED <<temp, acceptable>>
     \/ Fails
  /\ Unchanging

Publish ==
  /\ pc = "publish"
  /\ \/ primary' = temp /\ temp' = Absent /\ pc' = "cleanBackup" /\ UNCHANGED <<backup, rotated, acceptable>>
     \/ rotated /\ backup # Absent /\ pc' = "restore" /\ UNCHANGED <<files, rotated, acceptable>>
     \/ ~rotated /\ Fails
  /\ Unchanging

Restore ==
  /\ pc = "restore"
  /\ \/ primary' = backup /\ backup' = Absent /\ pc' = "idle" /\ UNCHANGED <<temp, rotated, acceptable>>
     \/ Fails
  /\ Unchanging

(* "let _ = fs::remove_file(&backup)": the save is Ok either way.          *)
CleanBackup ==
  /\ pc = "cleanBackup"
  /\ backup' \in {backup, Absent}
  /\ Complete
  /\ UNCHANGED <<primary, temp, target, rotated, session>>

SaveStep ==
  \/ RemovePrimary \/ RemoveBackup
  \/ WriteTemp \/ DropBackup \/ Rotate \/ Publish \/ Restore \/ CleanBackup

-----------------------------------------------------------------------------
(* The process ends, wherever the save was, also while it was writing.     *)
ProcessEnds ==
  /\ session # "down"
  /\ session' = "down" /\ pc' = "idle"
  /\ temp' \in IF pc = "writeTemp" THEN {temp, target, Absent, Bad} ELSE {temp}
  /\ UNCHANGED <<primary, backup, target, rotated, acceptable, damaged>>

(* Something else spoils the file the next start would read.               *)
FileSpoiled ==
  /\ session = "down" /\ Source # Absent
  /\ IF primary # Absent THEN primary' = Bad /\ backup' = backup
                         ELSE backup' = Bad /\ primary' = primary
  /\ damaged' = TRUE
  /\ UNCHANGED <<temp, pc, target, rotated, session, acceptable>>

(* A start that finds books, or none; the controller saves books it found  *)
(* again (a BeginSave).                                                    *)
Recover ==
  /\ session = "down" /\ Source # Bad
  /\ session' = "up" /\ acceptable' = {Recovers}
  /\ UNCHANGED <<files, pc, target, rotated, damaged>>

(* quarantine_recovery_candidates renames the unreadable file aside.       *)
Quarantine ==
  /\ session = "down" /\ Source = Bad
  /\ IF primary # Absent THEN primary' = Absent /\ backup' = backup
                         ELSE backup' = Absent /\ primary' = primary
  /\ session' = "up" /\ acceptable' = {NoOpenBook}
  /\ UNCHANGED <<temp, pc, target, rotated, damaged>>

(* "automatic recovery saving is disabled for this session".               *)
QuarantineFails_Ignored ==
  /\ session = "down" /\ Source = Bad
  /\ session' = "up"
  /\ UNCHANGED <<files, pc, target, rotated, acceptable, damaged>>
QuarantineFails ==
  /\ session = "down" /\ Source = Bad
  /\ session' = "blocked"
  /\ UNCHANGED <<files, pc, target, rotated, acceptable, damaged>>

SnapshotInit ==
  /\ primary = Absent /\ backup = Absent /\ temp = Absent
  /\ pc = "idle" /\ target = NoOpenBook /\ rotated = FALSE
  /\ session = "down" /\ acceptable = {NoOpenBook} /\ damaged = FALSE

SnapshotNext ==
  \/ \E s \in Snapshots \cup {NoOpenBook} : BeginSave(s)
  \/ SaveStep
  \/ ProcessEnds \/ FileSpoiled \/ Recover \/ Quarantine \/ QuarantineFails

SnapshotSpec == SnapshotInit /\ [][SnapshotNext]_snapshotVars

-----------------------------------------------------------------------------
(* Properties.                                                             *)

(* Files hold what they can hold; only the temporary file is ever torn by  *)
(* the program itself.                                                     *)
SnapshotTypeOK ==
  /\ {primary, backup, temp} \subseteq File
  /\ pc \in Steps
  /\ target \in Snapshots \cup {NoOpenBook}
  /\ {rotated, damaged} \subseteq BOOLEAN
  /\ session \in {"down", "up", "blocked"}
  /\ acceptable \subseteq Snapshots \cup {NoOpenBook}

(* Whatever operation fails and wherever the process ends, a start brings  *)
(* back the last complete save, or the one that was being made: saved work *)
(* is never lost, and no torn or older file is read in its place.  A queue *)
(* without an open book is excepted: its primary is removed before its     *)
(* backup, and a backup that is left over comes back (job_recovery.rs:70). *)
RecoversSavedWork ==
  ~damaged /\ NoOpenBook \notin acceptable => Recovers \in acceptable

(* "Malformed recovery state is preserved instead of being silently        *)
(* overwritten or deleted": an unreadable snapshot goes only by being set  *)
(* aside.                                                                  *)
UnreadableSetAside == [][Source = Bad /\ Source' # Bad => Quarantine]_snapshotVars
=============================================================================
