SPECIFICATION Spec
CONSTANTS
  MachineNum = 3
  Vertex = {1,2,3,4,5}
  Owner <- PairOwner
  Ngh <- ViaNgh
  PreTop <- PairPre
  Origin = 0
  Ef = 8
  Knn = 2
  CandGroup = 2
  SyncBar = 2
  InlineDegBar = 1
  Thieves = 0
  Garbage = {9}
INVARIANTS SearchOver
CHECK_DEADLOCK FALSE
