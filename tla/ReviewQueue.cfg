SPECIFICATION Spec
CONSTANTS
  e1 = e1
  e2 = e2
  t1 = t1
  Expert = {e1, e2}
  Task = {t1}
  NoExpert = NoExpert
  MaxTime = 1
  MaxEdits = 2
INVARIANTS
  OneOwner
  HiddenOnlyByStaleWrite
  ReviewerAsked
PROPERTY SerialContract
SYMMETRY Symmetry
