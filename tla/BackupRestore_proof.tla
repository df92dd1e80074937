------------------------- MODULE BackupRestore_proof -------------------------
(***************************************************************************)
(* Proofs about BackupRestore, for any number of commits, backups and      *)
(* restores.                                                               *)
(***************************************************************************)
EXTENDS BackupRestore, TLAPS

(***************************************************************************)
(* The inductive invariant.  A snapshot that will get, or has, its         *)
(* manifest is what was backed up (SnapshotsTrue); a restore under way     *)
(* works on such a snapshot, in a stopped service, and the database file   *)
(* it found is the one that is there until it is replaced                  *)
(* (RestoreInOrder).                                                       *)
(***************************************************************************)
SnapshotTrue(b) ==
  /\ backup[b].written /\ ~backup[b].manifest => backup[b].file = backup[b].taken
  /\ backup[b].manifest => backup[b].written /\ backup[b].hash = backup[b].taken

SnapshotsTrue == \A b \in Backups : SnapshotTrue(b)

Stopped == restore.stage # "idle" => service = "stopped"

StagingTrue ==
  restore.stage \in {"staged", "verified", "saved", "logGone"} => restore.staging = restore.from

LogDropped == restore.stage \in {"logGone", "done"} => wal = NoLog

Replaced == restore.stage = "done" => target = restore.from

Untouched == restore.stage \notin {"idle", "done"} => settled = target

Saved ==
  restore.stage \in {"saved", "logGone", "done"} => settled = {} \/ settled \in safety

RestoreInOrder ==
  Stopped /\ StagingTrue /\ LogDropped /\ Replaced /\ Untouched /\ Saved

BInv == BackupTypeOK /\ SnapshotsTrue /\ RestoreInOrder /\ LogBelongsToFile

-----------------------------------------------------------------------------
LEMMA InitInv == BackupInit => BInv
<1> SUFFICES ASSUME BackupInit PROVE BInv
  OBVIOUS
<1> {} \in Content /\ 0 \in 0..MaxCommits
  BY CommitsAssumption DEF Content
<1>1. /\ service \in {"up", "stopped"} /\ commits \in 0..MaxCommits /\ target \in Content
      /\ wal \in [base : Content, added : Content]
      /\ restore \in [stage : Stages, staging : Content, from : Content]
      /\ safety \in SUBSET Content /\ before \in Content /\ settled \in Content
  BY DEF BackupInit, NoLog, NoRestore, Stages
<1>2. backup \in [Backups -> [written : BOOLEAN, file : Content, manifest : BOOLEAN,
                              hash : Content, taken : Content]]
  BY DEF BackupInit, NoBackup
<1>3. SnapshotsTrue
  BY DEF BackupInit, NoBackup, SnapshotsTrue, SnapshotTrue
<1>4. RestoreInOrder /\ LogBelongsToFile
  BY DEF BackupInit, RestoreInOrder, Stopped, StagingTrue, LogDropped, Replaced, Untouched,
     Saved, LogBelongsToFile, NoLog, NoRestore
<1> QED BY <1>1, <1>2, <1>3, <1>4 DEF BInv, BackupTypeOK

\* The service changes files and log, but no restore is under way then.
LEMMA ServiceInv ==
  ASSUME BInv, Commit \/ Checkpoint \/ Stop \/ Die \/ StartService
  PROVE  BInv'
<1> USE DEF BInv
<1>1. BackupTypeOK'
  <2> {} \in Content /\ Live \in Content
    BY DEF BackupTypeOK, Live, Content
  <2>1. CASE Commit
    <3>1. commits' \in 0..MaxCommits /\ {commits + 1} \in Content
      BY <2>1, CommitsAssumption DEF Commit, BackupTypeOK, Content
    <3>2. wal' \in [base : Content, added : Content]
      BY <2>1, <3>1 DEF Commit, BackupTypeOK, Content
    <3> QED BY <2>1, <3>1, <3>2 DEF Commit, BackupTypeOK, Scripts
  <2>2. CASE Checkpoint \/ Stop
    <3>1. NoLog \in [base : Content, added : Content]
      BY DEF NoLog
    <3>2. target' \in Content /\ wal' \in [base : Content, added : Content]
      BY <2>2, <3>1 DEF Checkpoint, Stop, Checkpointed
    <3>3. service' \in {"up", "stopped"}
      BY <2>2 DEF Checkpoint, Stop, BackupTypeOK
    <3>4. UNCHANGED commits /\ UNCHANGED Scripts
      BY <2>2 DEF Checkpoint, Stop
    <3> QED BY <3>2, <3>3, <3>4 DEF BackupTypeOK, Scripts
  <2>3. CASE Die
    BY <2>3 DEF Die, BackupTypeOK, Files, Scripts
  <2>4. CASE StartService
    <3>1. NoRestore \in [stage : Stages, staging : Content, from : Content]
      BY DEF NoRestore, Stages
    <3> QED BY <2>4, <3>1 DEF StartService, BackupTypeOK, Files
  <2> QED BY <2>1, <2>2, <2>3, <2>4
<1>2. SnapshotsTrue'
  BY DEF SnapshotsTrue, SnapshotTrue, Commit, Checkpoint, Stop, Die, StartService, Scripts
<1>3. RestoreInOrder'
  BY DEF RestoreInOrder, Stopped, StagingTrue, LogDropped, Replaced, Untouched, Saved,
     BackupTypeOK, Commit, Checkpoint, Stop, Die, StartService, Checkpointed, Files,
     Scripts, NoRestore
<1>4. LogBelongsToFile'
  BY DEF LogBelongsToFile, Commit, Checkpoint, Stop, Die, StartService, Checkpointed,
     Files, NoLog
<1> QED BY <1>1, <1>2, <1>3, <1>4

\* A backup touches its own entry only.
LEMMA BackupInv ==
  ASSUME BInv, NEW b \in Backups, Vacuum(b) \/ WriteManifest(b) \/ Damage(b)
  PROVE  BInv'
<1> USE DEF BInv
<1>1. UNCHANGED <<service, commits, target, wal, restore, safety, before, settled>>
  BY DEF Vacuum, WriteManifest, Damage, OnlyBackup, Files
<1>2. \A c \in Backups : c # b => backup'[c] = backup[c]
  BY DEF Vacuum, WriteManifest, Damage, BackupTypeOK
<1>3. /\ backup' \in [Backups -> [written : BOOLEAN, file : Content, manifest : BOOLEAN,
                                   hash : Content, taken : Content]]
      /\ SnapshotTrue(b)'
  <2>1. CASE Vacuum(b)
    <3>1. Live \in Content /\ {} \in Content
      BY DEF Live, BackupTypeOK, Content
    <3>2. PICK file \in SUBSET Live : backup' = [backup EXCEPT ![b] =
             [NoBackup EXCEPT !.written = (file = Live), !.file = file, !.taken = Live]]
      BY <2>1 DEF Vacuum
    <3>3. file \in Content
      BY <3>1, <3>2 DEF Content
    <3>4. backup'[b] = [written |-> (file = Live), file |-> file, manifest |-> FALSE,
                        hash |-> {}, taken |-> Live]
      BY <3>2 DEF BackupTypeOK, NoBackup
    <3>5. backup'[b] \in [written : BOOLEAN, file : Content, manifest : BOOLEAN,
                          hash : Content, taken : Content]
      BY <3>1, <3>3, <3>4
    <3>6. backup' \in [Backups -> [written : BOOLEAN, file : Content, manifest : BOOLEAN,
                                   hash : Content, taken : Content]]
      BY <1>2, <3>2, <3>5 DEF BackupTypeOK
    <3> QED BY <3>4, <3>6 DEF SnapshotTrue
  <2>2. CASE WriteManifest(b)
    BY <2>2 DEF WriteManifest, BackupTypeOK, SnapshotsTrue, SnapshotTrue
  <2>3. CASE Damage(b)
    BY <2>3 DEF Damage, BackupTypeOK, SnapshotsTrue, SnapshotTrue, Content
  <2> QED BY <2>1, <2>2, <2>3
<1>4. SnapshotsTrue'
  BY <1>2, <1>3 DEF SnapshotsTrue, SnapshotTrue
<1> QED
  BY <1>1, <1>3, <1>4 DEF BackupTypeOK, RestoreInOrder, Stopped, StagingTrue, LogDropped,
     Replaced, Untouched, Saved, LogBelongsToFile

\* A restore that begins has a snapshot that is what was backed up.
LEMMA StageInv ==
  ASSUME BInv, NEW b \in Backups, Stage(b)
  PROVE  BInv'
<1> USE DEF BInv
<1>1. backup[b].file = backup[b].taken
  BY DEF Stage, Valid, SnapshotsTrue, SnapshotTrue
<1>2. BackupTypeOK'
  BY DEF BackupTypeOK, Stage, Live, Files, Stages, Content
<1>3. RestoreInOrder'
  BY <1>1 DEF Stage, Files, RestoreInOrder, Stopped, StagingTrue, LogDropped, Replaced,
     Untouched, Saved
<1>4. SnapshotsTrue' /\ LogBelongsToFile'
  BY DEF Stage, Files, SnapshotsTrue, SnapshotTrue, LogBelongsToFile
<1> QED BY <1>2, <1>3, <1>4

\* Its steps, in their order, or its end at any of them.
LEMMA RestoreInv ==
  ASSUME BInv, Verify \/ SaveTarget \/ DropLog \/ Swap \/ Abort \/ Killed
  PROVE  BInv'
<1> USE DEF BInv
<1>1. UNCHANGED <<service, commits, backup, before, settled>>
  BY DEF Verify, SaveTarget, DropLog, Swap, Abort, Killed, OnlyRestore
<1>2. BackupTypeOK'
  BY <1>1 DEF BackupTypeOK, Verify, SaveTarget, DropLog, Swap, Abort, Killed, Step, Files,
     NoRestore, NoLog, Stages, Content
<1>3. RestoreInOrder'
  <2>1. CASE Verify
    BY <1>1, <2>1 DEF Verify, Step, Files, BackupTypeOK, RestoreInOrder, Stopped,
       StagingTrue, LogDropped, Replaced, Untouched, Saved
  <2>2. CASE SaveTarget
    BY <1>1, <2>2 DEF SaveTarget, Step, Files, BackupTypeOK, RestoreInOrder, Stopped,
       StagingTrue, LogDropped, Replaced, Untouched, Saved
  <2>3. CASE DropLog
    BY <1>1, <2>3 DEF DropLog, Step, BackupTypeOK, RestoreInOrder, Stopped,
       StagingTrue, LogDropped, Replaced, Untouched, Saved
  <2>4. CASE Swap
    BY <1>1, <2>4 DEF Swap, Step, BackupTypeOK, RestoreInOrder, Stopped,
       StagingTrue, LogDropped, Replaced, Untouched, Saved
  <2>5. CASE Abort \/ Killed
    BY <1>1, <2>5 DEF Abort, Killed, Running, NoRestore, Files, RestoreInOrder, Stopped,
       StagingTrue, LogDropped, Replaced, Untouched, Saved
  <2> QED BY <2>1, <2>2, <2>3, <2>4, <2>5
<1>4. SnapshotsTrue'
  BY <1>1 DEF SnapshotsTrue, SnapshotTrue
<1>5. LogBelongsToFile'
  BY DEF Verify, SaveTarget, DropLog, Swap, Abort, Killed, Files, NoLog, LogBelongsToFile,
     RestoreInOrder, LogDropped
<1> QED BY <1>2, <1>3, <1>4, <1>5

LEMMA StepInv == BInv /\ [BackupNext]_brVars => BInv'
<1> SUFFICES ASSUME BInv, [BackupNext]_brVars PROVE BInv'
  OBVIOUS
<1>1. CASE UNCHANGED brVars
  BY <1>1 DEF brVars, BInv, BackupTypeOK, SnapshotsTrue, SnapshotTrue, RestoreInOrder,
     Stopped, StagingTrue, LogDropped, Replaced, Untouched, Saved, LogBelongsToFile
<1>2. CASE BackupNext
  BY <1>2, ServiceInv, BackupInv, StageInv, RestoreInv DEF BackupNext
<1> QED BY <1>1, <1>2

-----------------------------------------------------------------------------
\* The files, backups and restores stay in their order.
THEOREM OrderKept == BackupSpec => []BInv
  BY InitInv, StepInv, PTL DEF BackupSpec

\* A restore that completes brings back exactly what was backed up, whatever
\* was damaged, and wherever other scripts and the service died before.
THEOREM RestoreTrue == BackupSpec => []RestoresTheBackup
<1>1. BInv => RestoresTheBackup
  BY DEF BInv, RestoreInOrder, Replaced, LogDropped, RestoresTheBackup, Live, NoLog
<1> QED BY <1>1, OrderKept, PTL

\* Whatever a restore comes to, what the database file held is still there.
THEOREM SettledKept == BackupSpec => []NothingSettledIsLost
<1>1. BInv => NothingSettledIsLost
  BY DEF BInv, RestoreInOrder, Untouched, Saved, NothingSettledIsLost, Live
<1> QED BY <1>1, OrderKept, PTL

\* SQLite never applies a log to a file it was not written for.
THEOREM LogsBelong == BackupSpec => []LogBelongsToFile
<1>1. BInv => LogBelongsToFile
  BY DEF BInv
<1> QED BY <1>1, OrderKept, PTL

=============================================================================
