SPECIFICATION FairSpec
CONSTANTS
  ChunkCols = 2
  SecChunks = 2
  RegionSecs = 2
  Workers = {w1, w2}
  TaskSeqs <- MCTaskSeqs
  Boxes <- MCBoxes
  NoSection = NoSection
INVARIANTS
  TypeOK
  ClaimedOnce
  Assembled
  JoinDeterministic
  SameAsBuildLevel0
  HeightsBound
PROPERTY Stage2Ends
