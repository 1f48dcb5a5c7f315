SPECIFICATION Spec
CONSTANTS
  MachineNum = 4
  Vertex = {1,2,3}
  Owner <- RingOwner
  Ngh <- RingNgh
  PreTop = {1,2,3}
  Origin = 0
  Ef = 8
  Knn = 2
  CandGroup = 2
  SyncBar = 4
  InlineDegBar = 1
  Thieves = 0
  Garbage = {9}
INVARIANTS NoFault
CHECK_DEADLOCK FALSE
