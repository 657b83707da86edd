SPECIFICATION Spec
CONSTANTS
  ChunkCols = 2
  SecChunks = 2
  RegionSecs = 2
  Workers = {w1}
  TaskSeqs <- MCSeaBed
  Boxes <- MCWhole
  NoSection = NoSection
INVARIANT MinYBounds
