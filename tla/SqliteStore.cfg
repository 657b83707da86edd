SPECIFICATION FairSpec
CONSTANTS
  s1 = s1
  s2 = s2
  h1 = h1
  h2 = h2
  Keys <- MCKeys
  Batches <- MCBatches
  NoBatch = NoBatch
  Missing = Missing
  Script <- MCScript
  RowColumns <- MCRowColumns
  Catalogs <- MCCatalogs
  CacheRows = 3
  MaxRuns = 2
INVARIANTS
  TypeOK
  SuccessIsComplete
  SchemaSound
PROPERTIES
  OnlyBatchRows
  FailureKeepsRows
  RunEnds
  RefinesBatchStore
