SPECIFICATION Spec
CONSTANTS
  MaxThreads = 3
  Hosts <- MCHosts
  ChunkSize = 1
  MaxItems = 3
  Lengths = {0, 1, 3}
  MaxLoops = 2
  MaxPauses = 1
  Sizes = {1, 2, 3}
  MaxStorages = 2
  PtAllocSize = 8
  MaxSize = 4
  WeakFails = FALSE
INVARIANTS ItemsOnce BehindBarrier AllBack TopologyRight SocketShared StoragesApart
