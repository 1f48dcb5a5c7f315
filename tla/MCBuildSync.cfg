SPECIFICATION FairSpec
CONSTANTS
  MachineNum = 3
  MaxRound = 2
  MaxCrash = 1
INVARIANTS TypeOK NoSyncLost
PROPERTIES Refines Completes NeverStuck
CHECK_DEADLOCK FALSE
