SPECIFICATION ConformanceSpec
CONSTANTS
  MaxTurns = 2
  MaxMishaps = 2
  MinSessions = 1
INVARIANTS
  PageTellsTheTurn
  OnlyGapsMislead
CHECK_DEADLOCK FALSE
