------------------------- MODULE PublicationProofs -------------------------
(***************************************************************************)
(* What Publication promises holds for any number of books and contents.   *)
(* CommitRecoverable is not inductive: it needs to know that an attempt    *)
(* which found the path free has recorded its intent before it commits,    *)
(* and that nobody of ours owns a file there meanwhile.                    *)
(***************************************************************************)
EXTENDS Publication, TLAPS

Writing == {"stage", "record", "commit"}

WritingUnowned   == pc \in Writing => owner = None
StagedIsChecked  == pc \in {"record", "commit"} => staged = validated
IntentFirst      == pc = "commit" => prior = validated /\ intent[book] \in {validated, Corrupt}
PriorIsTheIntent == pc = "verify" /\ prior # None => intent[book] \in {prior, Corrupt}
OwnedExists      == owner # None => output # None

IInv ==
  /\ TypeOK
  /\ CommitRecoverable
  /\ WritingUnowned /\ StagedIsChecked /\ IntentFirst /\ PriorIsTheIntent /\ OwnedExists

(* The initial state satisfies the inductive invariant.                    *)
LEMMA InitInv == Init => IInv
  BY PublicationAssumption
     DEF Init, IInv, TypeOK, CommitRecoverable, WritingUnowned, StagedIsChecked, IntentFirst,
         PriorIsTheIntent, OwnedExists, Writing

(* An attempt that ends without touching files keeps the invariant.        *)
LEMMA EndsInv ==
  ASSUME IInv, NEW outcome \in {"Completed", "Cancelled", "Failed"}, pc # "idle",
         Ends(outcome), UNCHANGED <<candidate, intent, output, owner>>
  PROVE  IInv'
  BY PublicationAssumption
     DEF Ends, Idle, IInv, TypeOK, CommitRecoverable, WritingUnowned, StagedIsChecked, IntentFirst,
         PriorIsTheIntent, OwnedExists, Writing

(* So does one that fails or is cancelled.                                 *)
LEMMA FailsInv == ASSUME IInv, pc # "idle", Fails PROVE IInv'
  <1>1. (IF cancel THEN "Cancelled" ELSE "Failed") \in {"Completed", "Cancelled", "Failed"}
    OBVIOUS
  <1> QED BY <1>1, EndsInv DEF Fails

(* Every step keeps the inductive invariant: one step per action.          *)
LEMMA NextInv == IInv /\ [Next]_vars => IInv'
  <1> SUFFICES ASSUME IInv, [Next]_vars PROVE IInv'
    OBVIOUS
  <1> USE PublicationAssumption
  <1> USE DEF IInv, TypeOK, CommitRecoverable, WritingUnowned, StagedIsChecked, IntentFirst,
          PriorIsTheIntent, OwnedExists, Writing
  <1>1. ASSUME NEW b \in Books, Validate(b) PROVE IInv'
    BY <1>1 DEF Validate
  <1>2. ASSUME NEW b \in Books, Rebuild(b) PROVE IInv'
    BY <1>2 DEF Rebuild, local
  <1>3. CASE Inspect
    <2>1. CASE Fails BY <2>1, <1>3, FailsInv DEF Inspect
    <2>2. CASE ~cancel /\ intent[book] # Corrupt /\ prior' = intent[book]
               /\ Goes(IF output = None THEN "stage" ELSE "verify")
               /\ UNCHANGED <<intent, staged>>
      BY <2>2, <1>3 DEF Inspect, Goes
    <2> QED BY <1>3, <2>1, <2>2 DEF Inspect
  <1>4. CASE Stage
    <2>1. CASE Fails BY <2>1, <1>4, FailsInv DEF Stage
    <2>2. CASE staged' = validated /\ Goes("record") /\ UNCHANGED <<intent, prior>>
      BY <2>2, <1>4 DEF Stage, Goes
    <2> QED BY <1>4, <2>1, <2>2 DEF Stage
  <1>5. CASE RecordIntent
    <2>1. CASE Fails BY <2>1, <1>5, FailsInv DEF RecordIntent
    <2>2. CASE /\ intent' = [intent EXCEPT ![book] = validated] /\ prior' = validated
               /\ Goes("commit") /\ UNCHANGED staged
      BY <2>2, <1>5 DEF RecordIntent, Goes
    <2> QED BY <1>5, <2>1, <2>2 DEF RecordIntent
  <1>6. CASE Commit
    <2>1. CASE Fails BY <2>1, <1>6, FailsInv DEF Commit
    <2>2. CASE output = None /\ output' = staged /\ owner' = book /\ Published
      BY <2>2, <1>6 DEF Commit, Published
    <2>3. CASE Goes("verify") /\ UNCHANGED <<intent, prior, staged>>
      BY <2>3, <1>6 DEF Commit, Goes
    <2> QED BY <1>6, <2>1, <2>2, <2>3 DEF Commit
  <1>7. CASE VerifyExisting
    <2>1. CASE Fails BY <2>1, <1>7, FailsInv DEF VerifyExisting
    <2>2. CASE UNCHANGED <<output, owner>> /\ Published
      BY <2>2, <1>7 DEF VerifyExisting, Published
    <2> QED BY <1>7, <2>1, <2>2 DEF VerifyExisting
  <1>8. CASE RequestCancel
    BY <1>8 DEF RequestCancel
  <1>9. ASSUME NEW b \in Books, Crash(b) PROVE IInv'
    BY <1>9 DEF Crash, Idle
  <1>10. CASE Tampers
    BY <1>10 DEF Tampers, local
  <1>11. ASSUME NEW b \in Books, DamagesIntent(b) PROVE IInv'
    BY <1>11 DEF DamagesIntent, local
  <1>12. CASE TouchesOutput
    BY <1>12 DEF TouchesOutput, local
  <1>13. CASE Complete
    <2>1. pc # "idle" /\ Ends("Completed") /\ UNCHANGED <<candidate, intent, output, owner>>
      BY <1>13 DEF Complete
    <2> QED BY <2>1, EndsInv
  <1>14. CASE UNCHANGED vars
    BY <1>14 DEF vars
  <1> QED
    BY <1>1, <1>2, <1>3, <1>4, <1>5, <1>6, <1>7, <1>8, <1>9, <1>10, <1>11, <1>12, <1>13, <1>14
       DEF Next, Attempt, Outside

(* The inductive invariant holds in every reachable state.                 *)
THEOREM Inductive == Spec => []IInv
  BY InitInv, NextInv, PTL DEF Spec

(* Every reachable state has the declared types.                           *)
THEOREM TypeCorrect == Spec => []TypeOK
  BY Inductive, PTL DEF IInv

(* A crash after the commit never leaves the output without the intent     *)
(* that lets the next attempt recognise it.                                *)
THEOREM CommitAlwaysRecoverable == Spec => []CommitRecoverable
  BY Inductive, PTL DEF IInv

(* Publishing never replaces a file that exists at the output path.        *)
THEOREM NoOverwrite == Spec => NeverOverwrites
  <1>1. [Next]_vars => [output # None /\ output' # output => Outside]_vars
    BY DEF Next, Attempt, Validate, Rebuild, Inspect, Stage, RecordIntent, Commit, VerifyExisting,
           Complete, Published, Fails, Ends, Idle, Goes, RequestCancel, Crash, vars
  <1> QED BY <1>1, PTL DEF Spec, NeverOverwrites

(* A Completed book had its validated bytes at the output.                 *)
THEOREM CompletedIsPublished == Spec => CompletedMeansPublished
  <1> DEFINE Entering == output' = validated /\ (owner' = book \/ intent[book] \in {validated, Corrupt})
             Leaving(b) == pc = "published" /\ b = book
             Fact == /\ pc # "published" /\ pc' = "published" => Entering
                     /\ \A b \in Books : ended[b] # "Completed" /\ ended'[b] = "Completed" => Leaving(b)
  <1>1. IInv /\ [Next]_vars => [Fact]_vars
    <2> SUFFICES ASSUME IInv, Next PROVE Fact
      BY DEF vars
    <2> USE DEF IInv, TypeOK
    <2>1. ASSUME pc # "published", pc' = "published" PROVE Entering
      <3>1. CASE Commit
        BY <2>1, <3>1 DEF Commit, Fails, Ends, Idle, Goes, StagedIsChecked
      <3>2. CASE VerifyExisting
        <4>1. prior = validated /\ output = validated /\ pc = "verify" /\ UNCHANGED output
          BY <2>1, <3>2 DEF VerifyExisting, Fails, Ends, Idle
        <4> QED BY <4>1, PublicationAssumption DEF PriorIsTheIntent
      <3>3. ~(Inspect \/ Stage \/ RecordIntent \/ Complete)
        BY <2>1 DEF Inspect, Stage, RecordIntent, Complete, Goes, Fails, Ends, Idle
      <3>4. ASSUME NEW c \in Books PROVE ~Validate(c) /\ ~Rebuild(c) /\ ~DamagesIntent(c) /\ ~Crash(c)
        BY <2>1 DEF Validate, Rebuild, DamagesIntent, Crash, Idle, local
      <3>5. ~(RequestCancel \/ Tampers \/ TouchesOutput)
        BY <2>1 DEF RequestCancel, Tampers, TouchesOutput, local
      <3> QED BY <3>1, <3>2, <3>3, <3>4, <3>5 DEF Next, Attempt, Outside
    <2>2. ASSUME NEW b \in Books, ended[b] # "Completed", ended'[b] = "Completed" PROVE Leaving(b)
      <3>1. CASE Complete
        BY <2>2, <3>1 DEF Complete, Ends
      <3>2. ~Fails
        BY <2>2 DEF Fails, Ends
      <3>3. ~(Inspect \/ Stage \/ RecordIntent \/ Commit \/ VerifyExisting)
        BY <2>2, <3>2 DEF Inspect, Stage, RecordIntent, Commit, VerifyExisting, Goes, Published
      <3>4. ASSUME NEW c \in Books PROVE ~Validate(c) /\ ~Rebuild(c) /\ ~DamagesIntent(c) /\ ~Crash(c)
        BY <2>2 DEF Validate, Rebuild, DamagesIntent, Crash
      <3>5. ~(RequestCancel \/ Tampers \/ TouchesOutput)
        BY <2>2 DEF RequestCancel, Tampers, TouchesOutput
      <3> QED BY <3>1, <3>3, <3>4, <3>5 DEF Next, Attempt, Outside
    <2> QED BY <2>1, <2>2
  <1> QED BY <1>1, Inductive, PTL DEF Spec, CompletedMeansPublished

(* An attempt past its commit point ends as Completed or with the process. *)
THEOREM CommittedStaysReported == Spec => CommitIsFinal
  <1> DEFINE Fact == pc = "published" /\ pc' # "published"
                       => ended'[book] = "Completed" \/ \E b \in Books : Crash(b)
  <1>1. IInv /\ [Next]_vars => [Fact]_vars
    <2> SUFFICES ASSUME IInv, Next, pc = "published", pc' # "published",
                        \A b \in Books : ~Crash(b)
                 PROVE  ended'[book] = "Completed"
      BY DEF vars
    <2>1. CASE Complete
      BY <2>1 DEF Complete, Ends, IInv, TypeOK
    <2>2. ~(Inspect \/ Stage \/ RecordIntent \/ Commit \/ VerifyExisting)
      BY DEF Inspect, Stage, RecordIntent, Commit, VerifyExisting
    <2>3. ASSUME NEW c \in Books PROVE ~Validate(c) /\ ~Rebuild(c) /\ ~DamagesIntent(c)
      BY DEF Validate, Rebuild, DamagesIntent, local
    <2>4. ~(RequestCancel \/ Tampers \/ TouchesOutput)
      BY DEF RequestCancel, Tampers, TouchesOutput, local
    <2> QED BY <2>1, <2>2, <2>3, <2>4 DEF Next, Attempt, Outside
  <1> QED BY <1>1, Inductive, PTL DEF Spec, CommitIsFinal
=============================================================================
