---------------------------- MODULE BackupRestore ----------------------------
(***************************************************************************)
(* scripts/backup.mjs and scripts/restore.mjs on the files of one          *)
(* database, beside the service that writes it.                            *)
(*                                                                         *)
(* The database is a file and its write-ahead log: what is committed is in *)
(* one of the two.  A service that ends in order leaves the file alone     *)
(* behind; one that dies leaves the log too.  Every step of a script may   *)
(* fail, and the script may die between any two.                           *)
(*                                                                         *)
(* A content is the set of the commits it consists of.                     *)
(***************************************************************************)
EXTENDS Naturals, FiniteSets

CONSTANTS
  MaxCommits,   \* bound on the commits
  Backups       \* the names of backups, one for each run of backup.mjs

ASSUME CommitsAssumption == MaxCommits \in Nat

VARIABLES
  service,    \* is the service running?
  commits,    \* history: how many commits were made
  target,     \* the database file, empty if there is none
  wal,        \* its log: what it adds, and to which file it belongs
  backup,     \* backup[b]: the snapshot and its manifest
  restore,    \* the restore that runs
  safety,     \* the contents of the *.pre-restore-* files
  before,     \* history: what was committed when the last restore began
  settled     \* history: the part of it that the file itself held

brVars == <<service, commits, target, wal, backup, restore, safety, before, settled>>

Content == SUBSET (1..MaxCommits)
NoLog   == [base |-> {}, added |-> {}]

\* The database as SQLite opens it.
Live == target \cup wal.added

Stages == {"idle", "staged", "verified", "saved", "logGone", "done", "aborted", "killed"}

NoBackup == [written |-> FALSE, file |-> {}, manifest |-> FALSE, hash |-> {}, taken |-> {}]
NoRestore == [stage |-> "idle", staging |-> {}, from |-> {}]

BackupTypeOK ==
  /\ service \in {"up", "stopped"}
  /\ commits \in 0..MaxCommits
  /\ target \in Content
  /\ wal \in [base : Content, added : Content]
  /\ backup \in [Backups -> [written : BOOLEAN, file : Content, manifest : BOOLEAN,
                             hash : Content, taken : Content]]
  /\ restore \in [stage : Stages, staging : Content, from : Content]
  /\ safety \in SUBSET Content
  /\ before \in Content /\ settled \in Content

BackupInit ==
  /\ service = "up"
  /\ commits = 0
  /\ target = {} /\ wal = NoLog
  /\ backup = [b \in Backups |-> NoBackup]
  /\ restore = NoRestore
  /\ safety = {}
  /\ before = {} /\ settled = {}

Files    == <<target, wal>>
Scripts  == <<backup, restore, safety, before, settled>>

-----------------------------------------------------------------------------
\* The service.

Commit ==
  /\ service = "up" /\ commits < MaxCommits
  /\ commits' = commits + 1
  /\ wal' = [base |-> target, added |-> wal.added \cup {commits + 1}]
  /\ UNCHANGED <<service, target>> /\ UNCHANGED Scripts

\* SQLite moves the log into the file, now and then or when the last
\* connection is closed.
Checkpointed == target' = Live /\ wal' = NoLog

Checkpoint ==
  /\ service = "up" /\ wal # NoLog
  /\ Checkpointed
  /\ UNCHANGED <<service, commits>> /\ UNCHANGED Scripts

\* shutdown(): the server drains, the repository is closed.
Stop ==
  /\ service = "up"
  /\ service' = "stopped"
  /\ Checkpointed
  /\ UNCHANGED commits /\ UNCHANGED Scripts

\* Killed, stopped by a second signal, or stopped in order while the vector
\* index, which shutdown() does not close, keeps a connection of its own.
Die ==
  /\ service = "up"
  /\ service' = "stopped"
  /\ UNCHANGED <<commits, Files>> /\ UNCHANGED Scripts

Running == restore.stage \notin {"idle", "done", "aborted", "killed"}

\* The operator starts the service when no restore is under way, also after
\* one that died.
StartService ==
  /\ service = "stopped" /\ ~Running
  /\ service' = "up"
  /\ restore' = NoRestore
  /\ UNCHANGED <<commits, Files, backup, safety, before, settled>>

-----------------------------------------------------------------------------
\* backup.mjs: VACUUM INTO reads what is committed, log included, and does
\* not write the source; the manifest comes last, after the snapshot was
\* opened and checked.

OnlyBackup == UNCHANGED <<service, commits, Files, restore, safety, before, settled>>

\* The snapshot is whole, or the script died in the middle of it.
Vacuum(b) ==
  /\ backup[b] = NoBackup /\ Live # {}
  /\ \E file \in SUBSET Live :
       backup' = [backup EXCEPT ![b] =
         [NoBackup EXCEPT !.written = (file = Live), !.file = file, !.taken = Live]]
  /\ OnlyBackup

WriteManifest(b) ==
  /\ backup[b].written /\ ~backup[b].manifest
  /\ backup' = [backup EXCEPT ![b] = [backup[b] EXCEPT !.manifest = TRUE, !.hash = backup[b].file]]
  /\ OnlyBackup

\* The medium loses part of a snapshot.
Damage(b) ==
  /\ backup[b].manifest
  /\ \E file \in SUBSET backup[b].file \ {backup[b].file} :
       backup' = [backup EXCEPT ![b] = [backup[b] EXCEPT !.file = file]]
  /\ OnlyBackup

-----------------------------------------------------------------------------
\* restore.mjs, with the service stopped as its documentation asks.

Step(stage) == restore' = [restore EXCEPT !.stage = stage]

\* The manifest is there and its hash is the hash of the file.
Valid(b) == backup[b].manifest /\ backup[b].hash = backup[b].file

\* An invalid backup ends the script before it touches anything.
Stage(b) ==
  /\ service = "stopped" /\ ~Running
  /\ Valid(b)
  /\ restore' = [stage |-> "staged", staging |-> backup[b].file, from |-> backup[b].taken]
  /\ before' = Live /\ settled' = target
  /\ UNCHANGED <<service, commits, Files, backup, safety>>

OnlyRestore == UNCHANGED <<service, commits, backup, before, settled>>

\* The staged copy is migrated and checked.
Verify ==
  /\ restore.stage = "staged"
  /\ Step("verified")
  /\ UNCHANGED <<Files, safety>> /\ OnlyRestore

\* Mutant of SaveTarget: no safety copy.
SaveNothing ==
  /\ restore.stage = "verified"
  /\ Step("saved")
  /\ UNCHANGED safety
  /\ UNCHANGED Files /\ OnlyRestore

\* The file of the target is copied, if there is one; its log is not copied.
SaveTarget ==
  /\ restore.stage = "verified"
  /\ Step("saved")
  /\ safety' = safety \cup ({target} \ {{}})
  /\ UNCHANGED Files /\ OnlyRestore

\* Mutant of DropLog: the log stays.
KeepLog ==
  /\ restore.stage = "saved"
  /\ Step("logGone")
  /\ UNCHANGED <<Files, safety>> /\ OnlyRestore

DropLog ==
  /\ restore.stage = "saved"
  /\ Step("logGone")
  /\ wal' = NoLog
  /\ UNCHANGED <<target, safety>> /\ OnlyRestore

\* rename is atomic.
Swap ==
  /\ restore.stage = "logGone"
  /\ Step("done")
  /\ target' = restore.staging
  /\ UNCHANGED <<wal, safety>> /\ OnlyRestore

\* A step fails: the staged copy is removed, "the target is not affected".
Abort ==
  /\ Running
  /\ restore' = [NoRestore EXCEPT !.stage = "aborted"]
  /\ UNCHANGED <<Files, safety>> /\ OnlyRestore

\* The script dies; its staged copy stays behind, and nobody looks at it.
Killed ==
  /\ Running
  /\ restore' = [NoRestore EXCEPT !.stage = "killed"]
  /\ UNCHANGED <<Files, safety>> /\ OnlyRestore

BackupNext ==
  \/ Commit \/ Checkpoint \/ Stop \/ Die \/ StartService
  \/ \E b \in Backups : Vacuum(b) \/ WriteManifest(b) \/ Damage(b) \/ Stage(b)
  \/ Verify \/ SaveTarget \/ DropLog \/ Swap \/ Abort \/ Killed

BackupSpec == BackupInit /\ [][BackupNext]_brVars

-----------------------------------------------------------------------------
\* A restore that completes brings back what was committed when the backup
\* was taken, all of it and nothing else.
RestoresTheBackup == restore.stage = "done" => Live = restore.from

\* A log is never read with a file it does not belong to, wherever a restore
\* stops.
LogBelongsToFile == wal.added # {} => wal.base = target

\* Whatever a restore comes to, what the file of the target held before is
\* still there: in the target or in a safety copy.
NothingSettledIsLost ==
  restore.stage # "idle" => settled \subseteq Live \/ settled \in safety

\* A restore of the wrong backup can be undone, as docs/operations.md says:
\* what was committed when it began is in the restored database or in a
\* safety copy.  It fails for what only the log held, which is not copied and
\* then removed.
WrongRestoreCanBeUndone ==
  restore.stage = "done" => \E copy \in safety \cup {Live} : before \subseteq copy

=============================================================================
