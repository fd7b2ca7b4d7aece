SPECIFICATION Spec
CONSTANTS
  Payload <- MCPayload
  Tampered = Tampered
  MaxEntries = 4
  Histories <- MCHistories
INVARIANTS
  ChangesLocated
CHECK_DEADLOCK FALSE
