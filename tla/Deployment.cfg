SPECIFICATION FairSpec
CONSTANTS
  MaxCrashes = 3
  SpawnMayFail = TRUE
  RecoveryRuns = TRUE
INVARIANTS
  AtMostOneRollback
  JournalTellsTheTarget
  RunTellsTheJournal
PROPERTIES
  Settles
  ImplementsContract
CHECK_DEADLOCK FALSE
