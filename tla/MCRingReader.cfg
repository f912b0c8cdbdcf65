SPECIFICATION FairSpec
CONSTANTS
  SampleCap = 3
  BlockCap = 2
  MaxIndex = 5
  BlockLens = {1, 2}
  Provenances = {p1}
  OutLens = {1, 2}
  Limits = {3, 9}
  NoLimit = 9
  Starts = {0, 2}
INVARIANTS
  EveryIndexAccounted
  ClosedMeansDrained
PROPERTIES
  ChunkIsNext
  OverrunOnlyIfGone
  DrainsToClosed
