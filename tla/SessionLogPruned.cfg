SPECIFICATION Spec
CONSTANTS
  t1 = t1
  t2 = t2
  t3 = t3
  c1 = c1
  c2 = c2
  noId = noId
  Turn <- MCTwoTurns
  Tool <- MCTool
  NoId = noId
  Calls <- MCOneCall
  PruneKind = {"any"}
  KeepsNewest = FALSE
INVARIANTS NothingMissed
CHECK_DEADLOCK FALSE
