SPECIFICATION ServeSpec
CONSTANTS
  Deployments <- TwoBatches
  Knn = 1
  MaxCacheVec = 3
  GroupSize = 2
  QueryGroup = 2
  MaxWcNum = 2
  KmeansBatch = 2
  MaxLoop = 2
  InitPool = 1
  MaxDoubling = 2
INVARIANTS TermKept
