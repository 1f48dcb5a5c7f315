SPECIFICATION Spec
CONSTANTS
  MachineNum = 3
  PointNum = 6
  Coord <- Line6
  Unit = 60
  SampleMin = 6
  MaxReps = 3
  BlockSize = 3
  ChunkSize = 2
  Lambdas = {1}
  Garbage = {6}
  GraphTypes = {"SCALA_V3", "SharedNothing", "KmeansSharedNothing"}
  DataTypes = {"uint8"}
  BuildGraph <- Hub
  MaxDegree = 3
  MaxTrans = 2
  InlineDegBar = 1
  TopThreads = 2
  TopMin = 5
INVARIANTS ShardsRight IndexRight LabelsRight NoAbort OffsetsAgree LoadedRight
