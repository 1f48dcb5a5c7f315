SPECIFICATION FairSpec
CONSTANTS
  MachineNum = 2
  MaxWriteNum = 4
  ReleaseBlock = 2
  MaxWcNum = 1
  MaxSend = 2
  MaxBatch = 2
  MaxLate = 0
PROPERTY ResetCompletes
CHECK_DEADLOCK FALSE
