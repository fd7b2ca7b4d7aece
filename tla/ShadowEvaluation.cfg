SPECIFICATION Spec
CONSTANTS
  Step = {"s1", "s2"}
  Version = {"v1", "v2"}
  FirstVersion = "v1"
  NoVersion = NoVersion
  ThresholdsOf <- MCThresholdsOf
  Process = {"p1"}
  Home = "p1"
  Responses <- MCResponses
  InlineResults <- MCInlineResults
  ShadowResults <- MCShadowResults
  MaxMishaps = 1
INVARIANTS
  BadgeOnlyWorsens
  CoherentRow
  EscalationHasTask
  SameThresholds
  LatestHasResults
PROPERTY
  ResultsArrive
CHECK_DEADLOCK FALSE
