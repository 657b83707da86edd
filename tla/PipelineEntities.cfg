SPECIFICATION Spec
CONSTANTS
  ChunkCols = 4
  RegionChunks = 4
  SecChunks = 2
  IntHalf = 128
  NoPos = NoPos
  NoRow = NoRow
  NoBatch = NoBatch
  Sessions <- MCSaved
  Keys <- MCKeys
INVARIANT TerrainShown
