SPECIFICATION FairSpec
CONSTANTS
  w1 = w1
  w2 = w2
  e1 = e1
  e2 = e2
  Writer = {w1, w2}
  Payload = {e1, e2}
  Tampered = Tampered
  MaxAttempts = 2
INVARIANTS
  EveryEntryDescends
PROPERTIES
  OnlyOverlapForks
  CallsEnd
CHECK_DEADLOCK FALSE
