SPECIFICATION Spec
CONSTANTS
  t1 = t1
  t2 = t2
  t3 = t3
  c1 = c1
  c2 = c2
  noId = noId
  Turn <- MCTwoTurns
  Tool <- MCTool
  NoId = noId
  Calls <- MCCalls
  PruneKind = {"any", "user_message"}
  KeepsNewest = TRUE
INVARIANTS TypeOK NothingMissed TurnsRecorded NoGhostCalls
PROPERTIES ImplementsInMemory
CHECK_DEADLOCK FALSE
SYMMETRY MCSymmetry
