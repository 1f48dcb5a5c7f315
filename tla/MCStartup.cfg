SPECIFICATION StartupSpec
CONSTANTS
  MachineNum = 3
  ActiveMtu = 4096
  UserMtu = 1024
  GidTable <- Gids
  MaxFault = 1
  MaxGen = 2
  MaxFlush = 1
INVARIANTS PeersMatch NoMutualWait
CHECK_DEADLOCK FALSE
