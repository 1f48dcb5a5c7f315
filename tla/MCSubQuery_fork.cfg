SPECIFICATION Spec
CONSTANTS
  MachineNum = 3
  Vertex = {1,2,3,4,5}
  Owner <- PairOwner
  Ngh <- PairNgh
  PreTop <- PairPre
  Origin = 2
  Ef = 8
  Knn = 2
  CandGroup = 2
  SyncBar = 2
  InlineDegBar = 1
  Thieves = 0
  Garbage = {9}
INVARIANTS ResultBest
CHECK_DEADLOCK FALSE
