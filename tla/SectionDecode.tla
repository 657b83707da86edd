---------------------------- MODULE SectionDecode ----------------------------
(***************************************************************************)
(* parse_chunk_nbt over the sections of a chunk in each of the storage     *)
(* formats it supports, the packed arrays BitArrayUnpacker unpacks, and    *)
(* the chunk hash stage 2 computes from the result.                        *)
(*                                                                         *)
(* fastnbt has turned the chunk into records.  A raw section has           *)
(*   y           its height                                                *)
(*   states      1.18 and later: [palette, data], or Absent                *)
(*   palette     1.13 to 1.17: Palette, or Absent                          *)
(*   longs       BlockStates beside it, or Absent                          *)
(*   blocks      1.2 to 1.12: Blocks, or Absent                            *)
(*   data, add   half-byte arrays beside it, empty if absent               *)
(*   biomes      [palette, data], or Absent                                *)
(* and fields no code reads, what the game saved:                          *)
(*   saved, saved_biomes          the names at every block and cell        *)
(*   index, cells                 their places in a palette, or Absent     *)
(*   ids, metas                   the numeric blocks of 1.2 to 1.12        *)
(***************************************************************************)
EXTENDS Integers, Sequences, FiniteSetsExt, SequencesExt, Levels

CONSTANTS
  Blocks,     \* 4096 blocks of a section
  BiomeCells, \* 64
  LongBits,   \* 64
  MinBits,    \* 4, the least width of a block index
  HashRange,  \* 2^32, the values of the chunk hash
  Absent,     \* the None of an optional tag
  Worlds      \* the chunks to parse: sequences of sequences of raw sections

VARIABLES
  raw,       \* the chunks as fastnbt gives them, fixed
  sections,  \* the sections parsed so far of the chunk in work
  parsed,    \* the chunks parsed
  hashes     \* their hashes

decoding == <<raw, sections, parsed, hashes>>

BlockIdx == 0 .. Blocks - 1
Cells == 0 .. BiomeCells - 1

-----------------------------------------------------------------------------
(* is_air_name, the namespace taken off. *)
is_air_name(name) == name \in {"air", "cave_air", "void_air"}

(* Bits of an index into a palette of p_len entries. *)
BitsFor(p_len, least) ==
  IF p_len <= 1 THEN 0 ELSE Min({b \in least .. LongBits : p_len <= Pow2[b]})

CeilDiv(n, d) == (n + d - 1) \div d
Long(packed, k) == IF k < Len(packed) THEN packed[k + 1] ELSE 0
Zeros(n) == [i \in 0 .. n - 1 |-> 0]

(* 1.16 and later: an entry does not cross a long; the bits left over at   *)
(* the end of a long are unused.                                           *)
Aligned(bits, packed, n) ==
  LET per == LongBits \div bits
  IN  [i \in 0 .. n - 1 |-> (Long(packed, i \div per) \div Pow2[bits * (i % per)]) % Pow2[bits]]

(* 1.13 to 1.15: one stream of bits; an entry may lie in two longs.        *)
SpanningEntry(bits, packed, bit) ==
  LET start == bit \div LongBits
      end == (bit + bits - 1) \div LongBits
      offset == bit % LongBits
      low == Long(packed, start) \div Pow2[offset]
  IN  IF start = end THEN low % Pow2[bits]
      ELSE (low + Long(packed, end) * Pow2[LongBits - offset]) % Pow2[bits]
Spanning(bits, packed, n) == [i \in 0 .. n - 1 |-> SpanningEntry(bits, packed, i * bits)]

(* Which packing an array has shows in its length only. *)
IsAlignedBySpan(bits, packed) == Len(packed) >= CeilDiv(Blocks * bits, LongBits)
IsAligned(bits, packed) == Len(packed) >= CeilDiv(Blocks, LongBits \div bits)

Unpack4096(bits, packed) ==
  IF bits = 0 \/ packed = <<>> THEN Zeros(Blocks)
  ELSE IF IsAligned(bits, packed) THEN Aligned(bits, packed, Blocks) ELSE Spanning(bits, packed, Blocks)

Unpack64(bits, packed) ==
  IF bits = 0 \/ packed = <<>> THEN Zeros(BiomeCells) ELSE Aligned(bits, packed, BiomeCells)

EmptyAir(s) == [y |-> s.y, is_empty_air |-> TRUE, palette |-> <<>>, block_indices |-> Zeros(Blocks),
                biomes |-> <<>>, biome_indices |-> Zeros(BiomeCells)]

(* A biome index may be a single bit wide. *)
BlockBits(names) == BitsFor(Len(names), MinBits)
BiomeBitsOfBlocks(names) == BlockBits(names)
BiomeBits(names) == BitsFor(Len(names), 1)

(* Biomes are read for sections with blocks only; an empty palette means   *)
(* plains.                                                                 *)
WithBiomes(s, section) ==
  IF s.biomes = Absent THEN section
  ELSE LET names == IF s.biomes.palette = <<>> THEN <<"plains">> ELSE s.biomes.palette
       IN  [section EXCEPT
              !.biomes = names,
              !.biome_indices = IF s.biomes.data = Absent THEN @
                                ELSE Unpack64(BiomeBits(names), s.biomes.data)]

Section(s, names, indices) ==
  WithBiomes(s, [EmptyAir(s) EXCEPT !.is_empty_air = FALSE, !.palette = names, !.block_indices = indices])

OnlyAir(names) == names = <<>> \/ (Len(names) = 1 /\ is_air_name(names[1]))

(* A palette and a packed array, as both later formats have. *)
FromPalette(s, names, data) ==
  IF OnlyAir(names) THEN EmptyAir(s)
  ELSE Section(s, names, IF data = Absent THEN Zeros(Blocks) ELSE Unpack4096(BlockBits(names), data))

(* Half-bytes: the even block of a pair is the low half. *)
NibbleHighFirst(bytes, i) ==
  IF i \div 2 >= Len(bytes) THEN 0
  ELSE IF i % 2 = 1 THEN bytes[(i \div 2) + 1] % 16 ELSE bytes[(i \div 2) + 1] \div 16
Nibble(bytes, i) ==
  IF i \div 2 >= Len(bytes) THEN 0
  ELSE IF i % 2 = 0 THEN bytes[(i \div 2) + 1] % 16 ELSE bytes[(i \div 2) + 1] \div 16

(* A ByteArray holds i8: the cast to u16 extends the sign, and the bits of *)
(* the high half disappear under it.                                       *)
FullBlockId(s, i) ==
  LET low == IF i < Len(s.blocks) THEN s.blocks[i + 1] ELSE 0
  IN  IF low >= 128 THEN low + 65280 ELSE Nibble(s.add, i) * 256 + low

(* legacy_id_to_name: names that depend on the whole half-byte, on its low *)
(* two bits, or not at all stand for the entries of their kind; any id     *)
(* without an entry is stone.                                              *)
legacy_id_to_name(id, meta) ==
  CASE id = 0 -> "air"
    [] id = 1 -> IF meta = 1 THEN "granite" ELSE IF meta = 3 THEN "diorite" ELSE "stone"
    [] id = 2 -> "grass_block"
    [] id \in {8, 9} -> "water"
    [] id = 17 -> IF meta % 4 = 1 THEN "spruce_log" ELSE "oak_log"
    [] OTHER -> "stone"

(* The palette is made of the names in the order they come up. *)
UniqueNames(name) ==
  LET upto[n \in 0 .. Blocks] ==
        IF n = 0 THEN <<>>
        ELSE IF Contains(upto[n - 1], name[n - 1]) THEN upto[n - 1] ELSE Append(upto[n - 1], name[n - 1])
  IN  upto[Blocks]
IndicesIn(names, name) == [i \in BlockIdx |-> (CHOOSE k \in DOMAIN names : names[k] = name[i]) - 1]
BlockNames(s) == [i \in BlockIdx |-> legacy_id_to_name(FullBlockId(s, i), Nibble(s.data, i))]
FromBlocks(s) ==
  LET name == BlockNames(s)
      names == UniqueNames(name)
  IN  IF OnlyAir(names) THEN [EmptyAir(s) EXCEPT !.palette = names]
      ELSE Section(s, names, IndicesIn(names, name))
-----------------------------------------------------------------------------
(***************************************************************************)
(* What the game writes.                                                   *)
(***************************************************************************)
(* An index into a palette takes the least number of bits that will do.    *)
SavedBits(names, least) == Min({b \in least .. LongBits : Len(names) <= Pow2[b]})

(* count entries of index, those from from on, the first in the low bits.  *)
PackLong(bits, index, from, count) ==
  LET acc[n \in 0 .. count] == IF n = 0 THEN 0 ELSE acc[n - 1] + index[from + n - 1] * Pow2[bits * (n - 1)]
  IN  acc[count]
PackAligned(bits, index, n) ==
  LET per == LongBits \div bits
  IN  [k \in 1 .. CeilDiv(n, per) |-> PackLong(bits, index, (k - 1) * per, Min({per, n - (k - 1) * per}))]
PackSpanning(bits, index, n) ==
  [k \in 1 .. CeilDiv(n * bits, LongBits) |->
     (PackLong(bits, index, 0, n) \div Pow2[LongBits * (k - 1)]) % Pow2[LongBits]]

(* A palette, and what its names are at every block.  One name needs no    *)
(* array: whatever stands there is not read.                               *)
IsPalette(names) == names \in Seq(Range(names)) /\ Len(names) \in 1 .. Pow2[LongBits]
Named(s, names) ==
  /\ IsPalette(names)
  /\ s.index # Absent /\ s.index \in [BlockIdx -> 0 .. Len(names) - 1]
  /\ s.saved = [i \in BlockIdx |-> IF OnlyAir(names) THEN "air" ELSE names[s.index[i] + 1]]
IsArray(names, data, arrays) == Len(names) > 1 => data # Absent /\ data \in arrays

WrittenModern(s) ==
  LET names == s.states.palette
  IN  /\ s.states # Absent
      /\ Named(s, names)
      /\ IsArray(names, s.states.data, {PackAligned(SavedBits(names, MinBits), s.index, Blocks)})

(* The packing changed with 1.16, the tags did not. *)
WrittenFlattened(s) ==
  LET bits == SavedBits(s.palette, MinBits)
  IN  /\ s.states = Absent /\ s.palette # Absent
      /\ Named(s, s.palette)
      /\ IsArray(s.palette, s.longs, {PackAligned(bits, s.index, Blocks), PackSpanning(bits, s.index, Blocks)})

(* Numeric ids of 12 bits; the array of the high bits is left out if they  *)
(* are all 0.                                                              *)
NumericIds == 0 .. 4095
HalfBytes == 0 .. 15
Halves(f) == [n \in 1 .. Blocks \div 2 |-> f[2 * n - 2] + 16 * f[2 * n - 1]]
LowBytes(ids) == [n \in 1 .. Blocks |-> ids[n - 1] % 256]
HighHalves(ids) == Halves([i \in BlockIdx |-> ids[i] \div 256])
NoHighHalves(ids) == \A i \in BlockIdx : ids[i] < 256
WrittenAnvil(s) ==
  /\ s.states = Absent /\ s.palette = Absent /\ s.blocks # Absent /\ s.index = Absent
  /\ s.ids \in [BlockIdx -> NumericIds] /\ s.metas \in [BlockIdx -> HalfBytes]
  /\ s.blocks = LowBytes(s.ids)
  /\ s.data = Halves(s.metas)
  /\ s.add = HighHalves(s.ids) \/ (s.add = <<>> /\ NoHighHalves(s.ids))
  /\ s.saved = [i \in BlockIdx |-> legacy_id_to_name(s.ids[i], s.metas[i])]

WrittenNoBlocks(s) ==
  /\ s.states = Absent /\ s.palette = Absent /\ s.blocks = Absent /\ s.index = Absent
  /\ s.saved = [i \in BlockIdx |-> "air"]

WrittenBiomes(s) ==
  LET names == s.biomes.palette
  IN  s.biomes # Absent =>
        /\ IsPalette(names)
        /\ s.cells \in [Cells -> 0 .. Len(names) - 1]
        /\ s.saved_biomes = [i \in Cells |-> names[s.cells[i] + 1]]
        /\ IsArray(names, s.biomes.data, {PackAligned(SavedBits(names, 1), s.cells, BiomeCells)})

Written(s) ==
  /\ WrittenModern(s) \/ WrittenFlattened(s) \/ WrittenAnvil(s) \/ WrittenNoBlocks(s)
  /\ WrittenBiomes(s)

(* Where the packings differ, so do the lengths: with 4096 blocks and      *)
(* longs of 64 bits an aligned array is longer for every width.            *)
ASSUME DecodeAssumption ==
  /\ Blocks \in Nat \ {0} /\ Blocks % 2 = 0 /\ BiomeCells \in Nat \ {0}
  /\ MinBits \in Nat \ {0} /\ LongBits \in Nat /\ LongBits >= MinBits
  /\ HashRange \in Nat \ {0}
  /\ \A bits \in MinBits .. LongBits :
       LongBits % bits # 0 => CeilDiv(Blocks * bits, LongBits) < CeilDiv(Blocks, LongBits \div bits)

ASSUME WorldsAssumption ==
  \A world \in Worlds :
    /\ world \in Seq(Range(world))
    /\ \A chunk \in Range(world) : chunk \in Seq(Range(chunk)) /\ \A s \in Range(chunk) : Written(s)
-----------------------------------------------------------------------------
DecodeInit ==
  /\ raw \in Worlds
  /\ sections = <<>>
  /\ parsed = <<>>
  /\ hashes = <<>>
Parsing == Len(parsed) < Len(raw)
Chunk == raw[Len(parsed) + 1]
Reading == Parsing /\ Len(sections) < Len(Chunk)
RawSection == Chunk[Len(sections) + 1]
Push(section) ==
  /\ sections' = Append(sections, section)
  /\ UNCHANGED <<raw, parsed, hashes>>

ParseModern ==
  /\ Reading
  /\ RawSection.states # Absent
  /\ Push(FromPalette(RawSection, RawSection.states.palette, RawSection.states.data))

ParseFlattened ==
  /\ Reading
  /\ RawSection.states = Absent
  /\ RawSection.palette # Absent
  /\ Push(FromPalette(RawSection, RawSection.palette, RawSection.longs))

ParseAnvil ==
  /\ Reading
  /\ RawSection.states = Absent /\ RawSection.palette = Absent
  /\ RawSection.blocks # Absent
  /\ Push(FromBlocks(RawSection))

ParseNoBlocks ==
  /\ Reading
  /\ RawSection.states = Absent /\ RawSection.palette = Absent /\ RawSection.blocks = Absent
  /\ Push(EmptyAir(RawSection))

(* h.wrapping_mul(31).wrapping_add(idx), over all sections. *)
HashIndices(h, indices) ==
  FoldLeft(LAMBDA g, i : (g * 31 + indices[i]) % HashRange, h, [n \in 1 .. Blocks |-> n - 1])
HashOf(chunk) == FoldLeft(HashIndices, 1, [n \in DOMAIN chunk |-> chunk[n].block_indices])

ChunkParsed ==
  /\ Parsing
  /\ Len(sections) = Len(Chunk)
  /\ parsed' = Append(parsed, sections)
  /\ hashes' = Append(hashes, HashOf(sections))
  /\ sections' = <<>>
  /\ UNCHANGED raw

AllParsed == ~Parsing /\ UNCHANGED decoding

DecodeNext == ParseModern \/ ParseFlattened \/ ParseAnvil \/ ParseNoBlocks \/ ChunkParsed \/ AllParsed
DecodeSpec == DecodeInit /\ [][DecodeNext]_decoding
-----------------------------------------------------------------------------
(* A place in a palette is one of its places and has the name expected: an *)
(* index out of reach would be no name at all, and the voxelizer would put *)
(* the first one there.                                                    *)
PointsTo(palette, index, name) == index + 1 \in DOMAIN palette /\ palette[index + 1] = name

BlockIs(section, i, name) ==
  IF section.is_empty_air THEN name = "air"
  ELSE PointsTo(section.palette, section.block_indices[i], name)

(* Every section decodes to the blocks the game saved, in all formats: the *)
(* packing is recognized by the length of the array alone, entries cut by  *)
(* a long boundary are put together, half-bytes come from the right half.  *)
BlocksFaithful ==
  \A n \in DOMAIN sections : \A i \in BlockIdx :
    BlockIs(sections[n], i, Chunk[n].saved[i])

(* ... and to the biomes it saved.                                         *)
BiomesFaithful ==
  \A n \in DOMAIN sections : ~sections[n].is_empty_air /\ Chunk[n].biomes # Absent =>
    \A i \in Cells :
      PointsTo(sections[n].biomes, sections[n].biome_indices[i], Chunk[n].saved_biomes[i])

SameSaved(a, b) ==
  /\ Len(raw[a]) = Len(raw[b])
  /\ \A n \in DOMAIN raw[a] : raw[a][n].saved = raw[b][n].saved /\ raw[a][n].index = raw[b][n].index

(* A chunk the game saves again, in another format or with other biomes,   *)
(* keeps its hash as long as its palettes list the names in the same       *)
(* order: the hash does not depend on how indices are packed.              *)
HashIgnoresPacking ==
  \A a, b \in DOMAIN parsed : SameSaved(a, b) => hashes[a] = hashes[b]
==============================================================================
