SPECIFICATION FairSpec
CONSTANTS
  MachineNum = 4
  Vertex = {1, 2, 3, 4, 5, 6}
  Owner <- FourOwner
  Ngh <- FourNgh
  PreTop <- FourPre
  Origin = 0
  Ef = 4
  Knn = 2
  CandGroup = 2
  SyncBar = 2
  InlineDegBar = 1
  Thieves = 1
  Garbage = {9}
INVARIANTS TypeOK AnswersDue QueuedOnce OneToken SearchOver ResultBest NoFault
PROPERTIES QueryReturned
CHECK_DEADLOCK FALSE
