SPECIFICATION BackupSpec
CONSTANTS
  MaxCommits = 2
  Backups = {b1}
INVARIANT WrongRestoreCanBeUndone
CHECK_DEADLOCK FALSE
