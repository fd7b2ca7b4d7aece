SPECIFICATION Spec
CONSTANTS
  Payload <- MCPayload
  Tampered = Tampered
  Sessions <- MCSessions
  Safety = {2, 3}
  Bare = {3}
  ThreadOf <- MCThreadOf
  EntryOf <- MCEntryOf
  ScoreOf <- MCScoreOf
  Entries = 2
  ThreadRows = 3
  NoScore = NoScore
  NoTarget = NoTarget
  NoFile = NoFile
  MaxCommands = 3
  MaxFaults = 1
  MaxAppends = 1
INVARIANTS
  RevertRestores
  AbortUndoesAll
  BackupsCover
  VerdictIsTrue
CHECK_DEADLOCK FALSE
