SPECIFICATION BackupSpec
CONSTANTS
  MaxCommits = 3
  Backups = {b1, b2}
INVARIANTS
  RestoresTheBackup
  NothingSettledIsLost
CHECK_DEADLOCK FALSE
