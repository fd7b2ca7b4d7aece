SPECIFICATION Spec
CONSTANTS
  lockout = lockout
  MaxTurns = 1
  Instruction = {lockout}
  NoText = NoText
INVARIANTS
  SafetyBlindSentBack
CHECK_DEADLOCK FALSE
