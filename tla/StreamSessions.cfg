SPECIFICATION Spec
CONSTANTS
  Routes = {"troubleshoot", "followup"}
  s1 = s1
  s2 = s2
  t1 = t1
  t2 = t2
  Stream = {s1, s2}
  Thread = {t1, t2}
  NoThread = NoThread
  NoStream = NoStream
  MaxAttempts = 2
  MaxMishaps = 2
INVARIANTS
  OnlyOverlapMixes
  ChainsVerify
  RecordsLoggedOnce
  AttributedToOwn
  OutcomeIsTold
SYMMETRY Symmetry
CHECK_DEADLOCK FALSE
