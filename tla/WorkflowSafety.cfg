SPECIFICATION Spec
CONSTANTS
  lockout = lockout
  MaxTurns = 2
  Instruction = {lockout}
  NoText = NoText
INVARIANTS
  PlanIsGrounded
  RiskIsHeeded
  RowsTraceable
  UndisturbedTurnsConform
PROPERTIES
  FollowsProcessModel
CHECK_DEADLOCK FALSE
