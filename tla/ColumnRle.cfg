SPECIFICATION Spec
CONSTANTS
  c1 = c1
  c2 = c2
  SecHeight = 3
  Columns <- MCColumns
  MinStart = 6
  MaxStart <- MCMaxStart
  Registrations <- MCRegistrations
  Chunks <- MCChunks
INVARIANTS
  Lossless
  SortedRuns
  HeightsTight
