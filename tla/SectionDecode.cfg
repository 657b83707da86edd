SPECIFICATION DecodeSpec
CONSTANTS
  Blocks = 8
  BiomeCells = 4
  LongBits = 8
  MinBits = 2
  HashRange = 65536
  Absent = Absent
  Worlds <- MCWorlds
INVARIANTS
  BlocksFaithful
  BiomesFaithful
  HashIgnoresPacking
