SPECIFICATION Spec
CONSTANTS
  t1 = t1
  t2 = t2
  w1 = w1
  w2 = w2
  NoOutline = NoOutline
  Nowhere = Nowhere
  Task = {t1, t2}
  Worker = {w1, w2}
  Chapter = {0, 1}
  Outlines <- MCOutlines
  Requests <- MCRequests
  MaxShells = 1
  MaxCalls = 3
  MaxFalls = 1
SYMMETRY MCSymmetry
CHECK_DEADLOCK FALSE
INVARIANTS CompletedArePushed Recoverable NoChapterLost Attended
