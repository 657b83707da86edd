SPECIFICATION FairSpec
CONSTANTS
  ChunkCols = 2
  SecChunks = 2
  RegionSecs = 2
  DetailLevels = 3
  Level0Seqs <- MCLevel0
INVARIANTS
  TypeOK
  Coverage
  Pyramid
  HeightsCover
PROPERTY Stage3Ends
