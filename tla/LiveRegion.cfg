SPECIFICATION FairSpec
CONSTANTS
  Slots = 2
  MaxSectors = 5
  MaxSize = 2
  MaxSaves = 4
INVARIANTS
  ReadsInside
  UntouchedExact
PROPERTY WalkEnds
