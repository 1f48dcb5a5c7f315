SPECIFICATION FairSpec
CONSTANTS
  MachineNum = 2
  MaxWriteNum = 8
  ReleaseBlock = 4
  MaxWcNum = 2
  MaxSend = 8
  MaxBatch = 1
  MaxLate = 1
INVARIANTS TypeOK SlotOwnership SlotsDistinct ReserveAvailable
PROPERTIES SendCompletes ResetCompletes
CHECK_DEADLOCK FALSE
