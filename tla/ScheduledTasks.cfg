SPECIFICATION Spec
CONSTANTS
  k1 = k1
  k2 = k2
  w1 = w1
  w2 = w2
  Task = {k1, k2}
  Worker = {w1, w2}
  Tables <- MCTables
  Limit = 1
  MaxFalls = 1
  MaxLost = 1
INVARIANTS ExtraRunsBounded CancelledSoonStops ActiveWillRun
PROPERTY Served
CHECK_DEADLOCK FALSE
