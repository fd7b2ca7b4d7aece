SPECIFICATION Spec
SYMMETRY Symmetry
CONSTANTS
  User = {u1}
  Client = {x1, x2}
  Worker = {w1}
  Chunk = {c1, c2}
  Scored = {c1}
  Step = {1}
  Whole = Whole
  Label <- MCLabel
  Bare = Bare
  Weighs <- MCWeighs
  Asked = {"THUMBS_UP", "THUMBS_DOWN", "MODIFY", "flag"}
  MaxRefs = 1
  MaxAttempts = 2
  MaxCalls = 2
  MaxDrops = 1
INVARIANTS
  VerdictAsAsked
  ScoreIsExact
PROPERTIES
  RetractedStays
  LinkedStayLinked
