SPECIFICATION FairSpec
CONSTANTS
  Kinds = {"regular", "generated"}
  Options = {"none", "clobber", "continue"}
  MaxSize = 3
  MaxLocal = 4
  MaxFaults = 2
  ChunkMax = 2
INVARIANTS
  LocalIsPrefix
  OkMeansWhole
PROPERTY ContinuesToTheEnd
