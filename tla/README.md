# mca2lod, verified

A TLA+ model of minecraft-lod-engine (`mca2lod`), the program that turns the
Anvil region files of a Minecraft world into a `DistantHorizons.sqlite`
database. Modules are checked with TLC on small instances; the theorems about
discovery, stages 2, 3 and 4, the region reader, the section decoder, the
column encoder, the blends, the blob codec and the composition over repeated
calls are proved with TLAPS for every instance: every safety invariant and
action property that a passing run checks is a theorem.

## 1. The system

One run is one pass through `run_pipeline` (crates/cli/src/pipeline.rs):

    arguments -> bounding box -> stage 1 discovery -> stage 2 bake -> join
              -> stage 3 octree, level by level -> stage 4 SQLite -> exit

Each stage starts when the one before is over. Concurrency lives inside the
stages: rayon workers in stages 2, 3 and the encoding of stage 4, and outside
of the program: a server that writes the region files, a kill, another run on
the same database.

| component | state | operations | talks to | correct when |
|---|---|---|---|---|
| discovery (pipeline.rs) | folders being read, tasks found | scan folder, read archive | file system; hands `region_tasks` to stage 2 | each overlapping region file is a task once |
| region baking (pipeline.rs) | per worker: the closure's locals; shared: counter, results | claim, scan a slot, place a chunk, return, join | region reader, scratch, parser, voxelizer | every block column of every accepted chunk is at its place, whatever the schedule |
| region reader (region.rs) | bytes or memory map | locate, payload, list | a file a server may be writing | no read out of the mapping; a chunk nobody saves meanwhile is read as it is |
| decompression (decompress.rs) | one buffer per thread | clear and fill | reader, parser | no byte of an earlier chunk survives |
| NBT parser (nbt.rs), bit arrays (bit_array.rs) | the section in work | three formats, biomes | fastnbt | a section decodes to the blocks saved |
| material table (palette_lut.rs) | constant table | lookup by name, guess from fragments of the name | voxelizer | a solid block gets a solid material |
| column encoder (heightmap.rs) | runs per column, height range | encode, merge | material table | runs are the solid voxels, sorted, minimal |
| octree (octree.rs, pipeline.rs) | section list, level, parents in work | group, merge a child, append | blend or GPU | level by level, no gap, no duplicate, same terrain |
| blend (simd_blend.rs), GPU (metal_compute.rs) | none | average of samples | CPU features, Metal | implementations agree |
| blob codec (blob_codec.rs) | none | encode, checksum | zstd | every column can be decoded from the bytes; the checksum sees a changed byte |
| schema and writer (schema.rs, writer.rs) | database file, transaction | open, schema, encode, insert, commit, finish | SQLite, disk | success means all rows, nothing else is touched |
| command line, exit (main.rs, config.rs) | arguments, exit code | parse, run the stages in order | all of the above | success means the terrain within the radius is in the database, whatever earlier calls left there |
| profiler, CI, crate facades | - | - | - | not modelled |

What is hard: workers that share files and reuse thread-local buffers; silent
partial failure (an unreadable file or chunk is left out and the run still
reports success); floor division, shifts and masks at negative coordinates;
the value 0 that also means "not set"; a hash map with a random order between
two levels; three implementations of one blend; packed arrays whose format is
guessed from their length; a database without a journal, killed or full at any
point, and run again on what is left. `PROJECT.json` lists each of these at
its line under `hazards`, with the properties that watch it.

## 2. Modules

| module | models | abstraction |
|---|---|---|
| `LodGrid` | geometry, `LodSection`, placement of a chunk, `build_level_0` | 16, 4 and 8 are constants; a column's runs are their provenance: the block columns they come from |
| `RegionBake` | stage 2 | a region file is what the reader meets at each slot |
| `LiveRegion` | the region reader, next to a server that saves chunks | a file is a sequence of sectors, known by who wrote them |
| `Octree` | stage 3, CPU and GPU | provenance as above |
| `Downsample` | what merging does to runs and colours | alpha and one channel; 4 columns a side |
| `BlobCodec` | `encode_dh_fulldata_v2` and a reference decoder | bytes of a smaller range; no zstd |
| `EncodedLevel` | every level of `Downsample` through `BlobCodec` | - |
| `PaletteLut` | `GlobalPaletteLut`: the table, its lookup, the guesses | a name is namespace, rest, and which fragments occur in it |
| `ColumnRle` | `ChunkVoxelGrid::from_chunk_data`, over `PaletteLut` | a material is what runs are compared by |
| `SectionDecode` | `parse_chunk_nbt`, `BitArrayUnpacker`, chunk hash | widths are constants; names are a few strings; fastnbt has run |
| `Discovery` | bounding box and stage 1 | a file is its folder, extension, parsed position |
| `BatchStore` | what a run promises of the database | abstract specification |
| `SqliteStore` | stage 4: writer and schema over a file without journal | a row is the run and place in the batch that wrote it; a schema is a set of names |
| `Pipeline` | all stages from the command line to the exit code, call after call | stages 2 to 4 by their results; a section is the set of chunks it shows |
| `Levels` | the width of a section of a level, powers of two | - |
| `RegionBakeProofs`, `OctreeProofs`, `SqliteStoreProofs`, `ColumnRleProofs` | theorems about the module each is named after | - |
| `McaParserProofs` | theorems about `LiveRegion` and `SectionDecode`, the crate mca_parser | - |
| `DownsampleProofs` | theorems about `EncodedLevel`, that is about `Downsample` and `BlobCodec` | - |
| `PipelineProofs` | theorems about `Pipeline`, and about `Discovery` as it runs there | - |
| `SharedLemmas` | division, least and greatest of a set, induction, recursive functions, folds, flattened lists | - |

How they compose. `LodGrid` is shared by `RegionBake` and `Octree`;
`ColumnRle` extends `PaletteLut`; `EncodedLevel` joins `Downsample` and
`BlobCodec`. `SqliteStore` implements `BatchStore` (INSTANCE with a refinement
mapping), and `Pipeline` uses `BatchStore`, not `SqliteStore`, for stage 4: what
is checked of the pipeline rests on that refinement. `Pipeline` takes the
actions of `Discovery` as they are (INSTANCE over its own variables); stages 2
and 3 are one step each (one per level), which `RegionBake` justifies by
`Assembled` and `JoinDeterministic`, and `Octree` by `Coverage` and `Pyramid`.

`MCx` instantiates module `x` for TLC (`MCDownsample` extends `EncodedLevel`;
the constants of `LiveRegion` are numbers in its cfg). An operator whose name
extends that of another defined right below it (`ClaimShared` above `Claim`) is
a plausible mistake, used only to show that a property notices it.

### How state and actions correspond

`RegionBake`: `job[w]` holds the locals of the closure on worker `w` (the task
index, the position in the header walk, `local_sections`, `hashes`,
`chunk_count`), `scratch[w]` the thread-local buffer, `results` the vector
`collect()` fills, `total` the atomic counter. `OpenRegion` and `OpenFails`
take a task; `SkipUnread`, `SkipUnparsable` and `PlaceChunk` are the loop
body's exits and its body; `FinishRegion` ends the closure; `Collect` is the
join. What is parsed is what stands at the front of the scratch buffer, so a
stale buffer would show.

`LiveRegion`: `Open`, `get_chunk_location` (one step per header slot),
`Payload` and `PayloadRefused` (the bounds checks), `ReadSector` (the borrowed
bytes, read when they are decompressed) and `Decompress` are the reader. The
server is external: `Create`, `BeginSave`, `WriteSector`, `SaveListed`. It is
taken to write a save into sectors nothing uses, then the header entry, after
which the old sectors are free, and never to shorten a file. A server that
overwrites a chunk in place is not modelled. A header entry, a length word and
a sector are each read in more than one step by the code: a read that overlaps
a write of the same entry (`LocationRewritten`) may point anywhere, one that
overlaps the write of its sector (`BeingWritten`) gives any length, or bytes
that are no chunk. `from_bytes` runs the same checks over bytes nobody writes
to, which is the reader without the server.

`Octree`: `GroupChildren` is the hash map of parents, `AddChild(k)` one
iteration of the loop over children in the closure of parent `k` (closures
interleave), `EndLevel` the append in any order of the hash map.

`Downsample`: one step is one level, for a grid of columns as a whole.
`EncodedLevel` has no step of its own: it states what the bytes of each level
must decode to.

`ColumnRle`: `VoxelizeSection` is one iteration over active sections, with the
palette of the section looked up by `get_material_by_name`, `Merge` everything
after.

`SectionDecode`: one action per storage format and one for the end of a chunk.
A raw section carries beside the tags the code reads what the game saved
(`saved`, `saved_biomes`, and the palette places or numeric ids they come from);
no action looks at those. `Written` says which tags the game makes of them:
`PackAligned`, `PackSpanning` and `Halves` are its side of the format, external
to this repository, and share with the parser's side only arithmetic and what a
block is called (the table of numeric ids, the names of air), so a mistake about
the format in one is not repeated in the other.

`Discovery`: the recursion is a stack of folders; `read_dir` order is free. It
is run as part of `Pipeline`.

`SqliteStore`: `Start` (stage 4 is reached), `OpenOrCreate`, one
`ExecuteSchema` per statement, `SchemaRefused` when an index names a column the
table of an older file lacks, `EncodeAll`, one `InsertRow` per row, `Commit`,
one `FlushPage` per row, `Finish`; `Spill` is the pager writing early when the
cache is full; every fallible step has its `...Fails`, `Kill` ends a run
between any two steps. `catalog` is the schema in the file: `CREATE ... IF NOT
EXISTS` adds what is not there and leaves an older table as it is, `INSERT OR
IGNORE` records a migration.

`Pipeline`: `Call` starts a process with nothing but its arguments; `Discover`
and `DiscoverFails` are `Discovery`; `NothingFound` is the early return;
`Bake`, `BuildLevel`, `OpenDatabase`, `Ingest`, `IngestFails` the rest of
`run_pipeline`; `Exit` is the end of `main`. `Kill` may end a call in any
stage. The database is all that outlives a call.

## 3. Runs

| run | question | bounds |
|---|---|---|
| `RegionBake` | is stage 2 complete, in place and deterministic? | 2 workers, 2-3 region files, 16 slots each, 2 boxes |
| `RegionBakeMinY` | is `min_y` a lower bound? no | 1 worker, two files |
| `LiveRegion` | what does the reader get from a file that is written to? | 2 slots, the header and 4 sectors for chunks, chunks of 1-2 sectors, 4 saves |
| `Octree` | does each section show the level-0 terrain below it, within its heights? | 3 levels, up to 4 sections, both backends |
| `Downsample` | what survives averaging, do the blends agree, can each level be decoded, does its checksum see a change? | 4 x 4 columns, 6 kinds in all combinations in one quadrant, bytes of 4 bits; checksums of all streams of 1-2 bytes, of two whole sections and of blobs up to 9 bytes |
| `ColumnRle` | are runs exactly the solid voxels? | sections of 3 blocks, all contents of 2 sections over 3 materials |
| `ColumnRleStairs` | is a block that is not air kept? no | a palette with stairs |
| `SectionDecode` | does every format decode to what was saved? | 8 blocks, longs of 8 bits, palettes of 1-8 names |
| `SqliteStore` | what does a run leave in the database? | 4 keys, 2 runs, cache of 3 rows, 4 schemas to start from |
| `SqliteAtomic` | all or nothing? no | as above, cache of 5 rows |
| `Pipeline` | is the terrain asked for in the database after a success, and nothing else touched? | 8-bit integers, 7 boxes on a folder, an archive and no map; 4 sessions of 2-3 calls |
| `PipelineEntities` | the same for a world with entity files: no | one call on a world with region/ and entities/ |

Why the bounds are enough. Two of everything that is indexed (columns of a
chunk, chunks of a section, sections of a region, on both axes) tells quotient
from remainder and x from z; positions lie on both sides of the origin. Two
workers and three files let a worker take a second file with a used buffer,
and files end out of order. Three levels let a parent's parent be built from
sections at odd and negative positions. In `SectionDecode` widths of 2 and 3
bits in longs of 8 divide and do not divide a long. A byte of 4 bits makes a
column of nine runs take two bytes of the size table and puts heights on both
sides of the sign. In `SqliteStore` the cache of 3 rows overflows for one
batch and not for the other, one batch inserts a key twice, and the second run
starts from anything the first left; the schemas are none, complete, and two
older ones, one of which the script gets past and one not. Four saves over two
chunks let a sector be freed and written again while the reader still holds
its position, four sectors let the file grow after it is mapped, and a torn
entry or length may name any sector from the header to one behind the file. In
`Pipeline` a box with a radius near the width of an integer wraps (the
properties about the box are stated for boxes that fit; all others hold for
wrapped ones too), and sessions cover a growing box, disjoint boxes, and three
calls with a failure or a kill in each. `MaxRuns` bounds the runs of
`SqliteStore`, `MaxSectors`, `MaxSize` and `MaxSaves` the server of
`LiveRegion`, the length of a session the calls of `Pipeline`, `VarintMax` the
bytes of a size in the reference decoder; no other variable is unbounded.
`ChecksumSeesChange` costs a checksum for each value of each byte, so TLC
evaluates it on the byte streams `Streams` (whole sections of several columns
and of a column of nine runs among them) and on blobs of `BlobBound` bytes at
most; the theorem is about all of them.

The four violation runs show disagreements with what the repository says;
`findings` in `PROJECT.json` quotes it:

- `MinYBounds`: height 0 also means "not set", so `min_y` may be too high.
- `AllOrNothing`: "a single atomic transaction", without a journal.
- `TerrainShown`: in a folder of a world as the game saves it, entity files
  yield sections too, under the keys of the terrain, and the one inserted last
  stays. The archive branch filters them out, and in `Pipeline` the archive
  has an entities file that does no harm.
- `NonAirKept`: a name outside the table that contains "air" is air; "stairs"
  contains "air".

### Fairness

`RegionBake` is weakly fair for every worker and for the join, `Octree` for
its steps as a whole, `SqliteStore` and `Pipeline` for the steps that go well
(`Proceed`), `LiveRegion` for the reader: threads are scheduled by the
operating system, rayon parks no worker while its pool has tasks, and each
stage is a plain loop with no waiting on anything else. The server of
`LiveRegion` is under no obligation: the reader ends whether it saves or
stops in the middle of a save. A failure, a kill and another call are never
forced, except that `Pipeline` is also fair to the failure of a `--map` that
does not exist, so no stage ends only because something failed. Nothing
stronger than weak fairness is used, and TLC checks that no state but the
intended end is without a successor: each module ends in an explicit
`Finished`, `Stopped`, `AllParsed` or `AllCalled` step, and no configuration
turns the deadlock check off.

## 4. Proofs

Each theorem is of the form `Spec => []P` or `Spec => [][A]_vars` (`DecodeSpec`
in `SectionDecode`, whose proofs share a module with another `Spec`) and holds for
all values of the constants that satisfy the assumptions; TLC evaluates every
assumption in the runs. The names are those under `theorems` in
`PROJECT.json`.

| module | proved | assumed |
|---|---|---|
| `RegionBakeProofs` | `TypeOK`, `ClaimedOnce`, `Assembled`, `JoinDeterministic`, `HeightsBound`, `SameAsBuildLevel0` | `GridAssumption`: the three sizes are positive; `BakeAssumption`: tasks and boxes have their types |
| `McaParserProofs` | `ReadsInside`, `UntouchedExact`; `BlocksFaithful`, `BiomesFaithful`, `HashIgnoresPacking` | `LiveRegionAssumption`: the bounds are positive; `DecodeAssumption`: sizes are positive, blocks come in pairs, and where an index width does not divide a long the aligned array is the longer one; `WorldsAssumption`: chunks are as the game writes them |
| `OctreeProofs` | `TypeOK`, `Pyramid`, `Coverage`, `HeightsCover` | `GridAssumption`; `OctreeAssumption`: a section has an even number of columns along a side, the input is a list of level-0 sections |
| `SqliteStoreProofs` | `TypeOK`, `SchemaSound`, `SuccessIsComplete`, `OnlyBatchRows`, `FailureKeepsRows`, `RefinesBatchStore` | `StoreAssumption`: types; `SchemaAssumption`: what init_dh_database_schema's script and the files it may meet look like |
| `ColumnRleProofs` | `Lossless`, `SortedRuns`, `HeightsTight` | `RleAssumption`: sizes are positive, air is not solid; `ChunksAssumption`: sections have different heights, indices point into the palette |
| `DownsampleProofs` | `TypeOK`, `OutlineKept`, `ColorKept`, `BackendsAgree`, `SimdAgrees`, `BlobRoundTrip`, `ChecksumSeesChange` | `SideAssumption`: the side of a section is a power of two, which every level halves; `GridsAssumption`: columns are sorted lists of visible runs, as `ColumnRle` makes them; `StorableAssumption`: their fields fit the types of ColumnVoxelPoint; `StreamsAssumption`: streams are lists of bytes; `CodecAssumption`: see below |
| `PipelineProofs` | `FindsOverlapping`, `OnlyBoxReplaced`, `RerunHeals`, `TerrainShown` | `PipelineAssumption`: sizes are positive, a region is a whole number of sections, options have their types; `MapsAssumption`: folders form a tree, chunks are at places of a header; for `TerrainShown` also `Unshared` and `TerrainInRegions`, see below |

### The arguments

**Stage 2.** `IInv` in `RegionBakeProofs`. `Assembled` speaks of files that are
done; it is inductive only with what holds inside a file (`Baked`: the sections
are those of the slots before the current one), the types, `ClaimedOnce` (a
finishing worker writes a result nobody has) and `OnlyOpened` (a worker is only
on a file that opened).

1. `Sizes`, `SlotCorrect`, `SlotInjective`: slots number the chunks of a region
   one to one, so the chunks before slot n grow by one.
2. `OneCover`, `SectionCover`, `CoverUnique`, `CoverInSection`: at most one
   chunk of a region covers a block column, in the section the column lies in.
3. `PlaceCorrect`: the copy loop at the offset the code computes changes
   exactly the columns of that chunk; `SkipCorrect` and `StartCorrect` for a
   chunk that is refused and for none.
4. `HeightsBound`: `Baked` also has the height range so far (`SpansChunks`),
   which says the same of the chunks placed up to a slot, and of 0 before the
   first. While no chunk has its minimum at 0, that of the section is never 0
   again once set, so it is only ever lowered; once one has, any chunk may set
   it, and it is still that of a chunk.
5. `JoinDeterministic`: `Hashed` says that the list on a worker is the
   reference list up to its slot (`HashesRecursive`, that list is a recursive
   function), and the counter the length of the lists of the files done;
   replacing one empty list in a flattened one adds its length
   (`FlattenReplace`). `Collected` is the same for the joined list.
6. `SameAsBuildLevel0`: `build_level_0` over a list with one more grid is the
   result for the list with that grid placed (`BuildAppend`); the list of
   accepted grids up to a slot grows by one or not at all (`PresentPlaced`).

**Region reader.** `IInv` has the types and bounds (`Typed`), the server's side
(`FileInv`: a header entry's sectors hold that chunk; those of two entries, and
of the save in progress, are disjoint), the walk over the header, `ReadsInside`,
and for each chunk not saved since its entry was read `Known`: the reader's copy
of the entry is the file's, and what it has read is that chunk's. `Known` of a
chunk is not disturbed by a save of another one because sectors are disjoint;
that is the whole reason why a mapping that changes underneath can be read.

**Section decoder.** A packed array is a number: `PackedEntries`, by induction
over the entries, says that the sum `PackLong` gives each entry back by a
division and a remainder (`AddHigh` is its step). An aligned array is one such
number per long (`AlignedArray`). A spanning array is one number for the whole
section, cut into longs (`SpanningArray`); an entry lies in one of them
(`DigitInLong`) or across two (`DigitInTwo`), and `SpanningReads` says that the
code's shifts put it together in both cases. Nothing in a section tells the two
packings apart but the length. `UnpackedBlocks` shows that the length is enough:
where the width divides a long the two arrays are the same (`AlignedReads`),
and where it does not the aligned one is longer. That last fact is part of
`DecodeAssumption`, since it depends on the numbers: of 4096 blocks in longs of
64 bits it is true for every width, but not of any two numbers.
`WidthIs`, `SameWidth` and `IndexFits`: the parser's width holds every index and
is the one the game packed with. In the numeric format `HalfOf` reads a
half-byte back, `IdNamed` and `SignedIdNamed` treat an id whose low byte extends
its sign: it loses its high half, and is stone either way because the table
has no entry above 127. `NamesListed`: the palette made up on the way has each
name once, so an index finds its name.

Both faithfulness properties also say that every index is a place of its
palette (`PointsTo`, from `InPalette`): the voxelizer takes the first name for
one that is not (heightmap.rs:110), which would hide a wrong width.

`ParsedIs` joins these for a section of any format: its blocks, its biomes, and
its indices, which are a function of what was saved alone (`IndexOf`).
`DecodeIInv` then is short: each section of the chunk in work and of those done
is `Parsed` of the raw one at its place, and each hash that of its chunk.
`HashIgnoresPacking` follows since the hash reads indices only (`SameHash`).

**Column encoder.** `IInv` has `Lossless` of the sections taken so far and
`InOrder`: the runs are sorted, and what is still to come lies above every run
there is, because sections come in ascending order and no two have one height.
Without it neither is inductive. A section is a fold over its blocks: the fold
is a recursive function (`SectionFolds`), and each step (`AddBlockKeeps`)
leaves the runs sorted, below the next block, and holding exactly the solid
blocks seen. The merge is another fold (`MergeFolds`, `MergedKeeps`): it keeps
the voxels and leaves no two neighbours that touch (`Apart`). The height range
is that of the voxels taken and of the two values it starts from (`InRange`),
which `HeightsTight` turns into an exact statement: a chunk wholly above 320 or
below -64 keeps that value as one end of its range, no other chunk does.

**Blends.** `IInv` has `TypeOK`, the width of the level (`Widths`) and, as
`OutlineKept` and `ColorKept` of a level follow only from those of the level
below, both. `MeanBetween`: a mean of samples, rounded down, lies between the
least and the greatest of them, which is a bound on a sum lane by lane
(`SumAtLeast`, `SumAtMost`). `CpuMerges` is what that and `LowOf`, `HighOf`
make of `downsample_2x2_columns`; `GpuIsCpuOfTops` reduces the kernel to the
CPU's column of the top runs, so `MergeKeeps` treats both. What is under a
parent is what is under its four children (`UnderParent`). The SIMD blends are
the same sums in other orders (`Avx2Agrees`, `AcrossIsSum`, `NeonAgrees`).

**Blob.** `Fits`, an invariant next to `IInv`: every field of every run fits
its type, at every level. `WordIs` and `SignedWord`: two bytes hold a word, and
a negative one by its two's complement. `VarintFits`: a size below two bytes'
range takes `VarintMax` bytes at most; `LengthFits`: a sorted column cannot
have more runs than that. `ReadSize`, by strong induction over the size,
`ReadSizes` over the columns: the size table is read to its end and not
beyond, whatever comes after it. `Stacked` (`FlattenAt`) says where each part
of a flattened list begins, `DecodedIs` that the reader computes these places,
and `ReadPoint` that it finds each run there. The checksum is a fold; a step of
it can be undone (`RolledKeepsCheck`: 31 has an inverse), and two different
bytes in one place give different checksums from there on (`RolledKeepsByte`),
so a change is never lost on the way (`OtherByteOtherCheck`). The theorem states
it of every list of bytes in `Streams`, a parameter, and of the blob of every
level without a bound on its length (`StreamSeen`, `CheckedIInv`).
`CodecAssumption` is what this needs of 256 and 2^32.

**Stage 3.** `IInv`: the input is kept at the head of the list, the groups are
those of the previous level, each level has one section at each ancestor
(`Levels`), all of them show what is below (`Coverage`), with their heights
(`Covering`, `Heights`), and so does a parent in work for the children merged
so far. The shift of the code is a floor division, and floor divisions commute
(`DivDiv`, `ShrinkTwice`), so an ancestor by one step at a time is the ancestor
by one division, at negative positions too. `OneChild` (a quadrant belongs to
one child) and `MergedReaches` show that merging fills what it should and
nothing else, in any order. `HeightsCover` shows where the order of the hash map
can reach a row: the minimum of a section depends on it only if the least
minimum below is 0, and even then it is the minimum of a section below.

**Stage 4.** `IInv` says row by row what the cache and the file hold of the
batch (`Rowwise`, `Numbered`), that nothing has been written early while the
batch fits the cache (`NothingSpilled`), and statement by statement what a
schema has (`Schemed`). What a recorded migration has not brought is exactly
what `LeftOut` names: the columns a table lacks that was in the file before the
first run, because `CREATE TABLE IF NOT EXISTS` passes it by and the record is
written all the same (schema.rs:89-94). `Implements` maps each step to `BatchStore`: flushing
and spilling are stutters, since the abstract store shows the content before
the run until the run ends; `Finish` is `Succeed`; any other end is `Abandon`,
with the rows that reached the file as its witness. This is what `Pipeline`
takes for granted.

**Stage 1.** `Searching` says what has been taken: the files wanted among those
visited. The visited part of a tree is given by the folders entered
(`Explored`); when nothing is left on the stack those folders are closed under
sub-folders and contain the root, so they are all folders of the tree. Apart
from that, the region range computed with wrapping arithmetic and two floor
divisions is the set of regions with a chunk in the radius (`WrapFits`,
`ReachesRegion`, `RangeOverlaps`).

**Pipeline.** `IInv` names what each call puts into the database by its
configuration alone: `Chosen`, the chunks it reads, `Solid`, those with terrain,
`WritesKey`, the keys it writes, `ShowsOf`, what it shows at a position. `Phase`
says that the sections built so far are those of the levels below `lvl`
(`LevelZeroIs`, `BakeBuilds`, `ParentsBuilt`), `Handed` that the batch is
exactly the keys of the call (`BatchReady`), `Rows` that every row is of a key
some call up to now writes, and after a success every key of the call has a row
of this run. Then

- `OnlyBoxReplaced`: a key the call writes is that of a section over a chunk in
  the box (`KeyInReach`);
- `RerunHeals`: a call that covers another writes all keys of it (`CoversKeys`);
- `TerrainShown`: a chunk of terrain in the radius is in `Solid`, its section at
  each level has a key of the call, and the row shows it.

`RerunHeals` needs the condition that earlier radii are not negative: without
it, it is false. Nothing in the code rejects a negative radius, and then the
corners of the box are the wrong way round, except where one of them wraps: the
box is then a strip at the far end of the integers, which no box that fits
covers.

`TerrainShown` is proved for maps on which no two files that are taken have one
region position (`Unshared`), and where an archive has its terrain under
`region` (`TerrainInRegions`). The maps of the run `Pipeline` are of this kind.
On a map with entity files the property does not hold, which is what the run
`PipelineEntities` shows. That a batch consists of keys of the constant `Keys`
is part of `BatchStore`'s `Begin`; the runs check with deadlock detection that
it stops nobody.

### Only model-checked

- Liveness (`Stage2Ends`, `Stage3Ends`, `RunEnds`, `WalkEnds`, `RunExits`): out of the prover's reach, as is ENABLED.
- The sections and rows of `Pipeline` against those of `RegionBake` and
  `Octree`: that a step of `Pipeline` computes what these modules compute is an
  abstraction argued in section 2, not a refinement that is checked.

## 5. Not modelled

- The entries of the material table and their colours: a constant of
  `PaletteLut`, of which the runs give a few. Which of the game's names fall
  through to a guess is a matter of the game's version.
- The bytes of a region file below the sector, codecs, fastnbt, zstd, zip:
  outcomes only. In particular which LZ4 framing the game uses is a matter of
  its own format.
- Servers that overwrite a chunk in place, or truncate a file that is mapped.
- A database open in the mod while it is written.
- SQLite's pages: a file without a journal may be corrupt after a kill, not
  only mixed; rows are the unit here, so the model's outcomes are the mild ones.
- What a chunk hash is compared with: the code hashes the indices of a
  section's blocks and not its palette, so two sections that differ only in
  the names of their palettes hash alike (of air and of dirt, say), although writer.rs:22 speaks of a
  hash of block states. `HashIgnoresPacking` says what does hold.
- Symbolic links among the folders of a map: the trees in `Pipeline` are
  finite. The scan follows links, so one back to a folder above it is entered
  again until the operating system refuses the path; `RunExits` does not speak
  of that.
- The colour of tall columns: the blend of the CPU takes the first eight
  samples from the bottom up (octree.rs:147), so that of a column with many
  runs comes from underground. `ColorKept` says only that it lies between the
  colours below it.
- The GPU in `Pipeline`, and the number of threads: `Octree` and `RegionBake`
  have them.
- Logging, the progress bar, the profiler (it repeats the stages with timers),
  unit tests, CI.
- `blend_8_colors` is documented as alpha-weighted and averages with equal
  weights (simd_blend.rs:12); `Downsample` models the code.

## 6. Plan

The modules, runs and theorems planned for this project are written. Its
assumptions are where more could be shown next, the ones that carry most first:

1. `Pipeline`'s stage steps as a refinement of `RegionBake` and `Octree`. The
   theorems both sides need are there (`Assembled`, `Coverage`, `Pyramid`;
   `LevelZeroIs`, `ParentsBuilt`); what is missing is a module that runs the
   detailed stages on the maps of `Pipeline`.
2. `GridsAssumption` from `ColumnRle`: that sorted lists of visible runs are
   what the encoder returns is proved (`SortedRuns`), but the two modules are
   not composed.
3. A server that overwrites in place or truncates: what `LiveRegion` promises
   would have to be weakened to what the checks in region.rs can still ensure.
4. The pages of the SQLite file under a kill, instead of its rows.
