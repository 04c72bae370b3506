SPECIFICATION Spec
CONSTANTS
  t1 = t1
  t2 = t2
  t3 = t3
  Task <- MCTask
  Threshold = 2
  Timeout = 2
INVARIANTS TypeOK ClosedBelowThreshold
PROPERTIES NoCallTooSoon NeverLockedOut
