------------------------------ MODULE ColumnRle ------------------------------
(***************************************************************************)
(* ChunkVoxelGrid::from_chunk_data: the sections of a chunk, in ascending  *)
(* order, become vertical runs of one material in each column, first       *)
(* within a section, then merged across sections; the chunk's height range *)
(* is collected on the way.                                                *)
(*                                                                         *)
(* A palette holds the names of blocks; PaletteLut gives their materials,  *)
(* Air being everything the code skips, an air flag or a zero colour.      *)
(***************************************************************************)
EXTENDS PaletteLut

CONSTANTS
  SecHeight,   \* 16 blocks of a section
  Columns,     \* 16 x 16 columns
  MinStart,    \* 320, what min_chunk_y starts from
  MaxStart,    \* -64, what max_chunk_y starts from
  Chunks       \* the sections of a chunk, as parse_chunk_nbt returns them

ASSUME RleAssumption ==
  /\ SecHeight \in Nat \ {0}
  /\ MinStart \in Int /\ MaxStart \in Int /\ MinStart > MaxStart

Heights == 0 .. SecHeight - 1

(* A section has its place in the world, and an index into its palette for *)
(* every block; no two sections of a chunk with blocks have one place.     *)
ASSUME ChunksAssumption ==
  \A sections \in Chunks :
    /\ sections \in Seq(Range(sections))
    /\ \A section \in Range(sections) :
         /\ section.y \in Int /\ section.is_empty_air \in BOOLEAN
         /\ section.block \in [Columns -> [Heights -> Nat]]
    /\ \A i, j \in DOMAIN sections :
         sections[i].y = sections[j].y => i = j \/ sections[i].is_empty_air \/ sections[j].is_empty_air

VARIABLES
  chunk,    \* chunk.sections: a sequence, fixed
  todo,     \* indices of the active sections not voxelized yet
  columns,  \* column -> runs so far
  min_y, max_y,
  phase     \* "voxelize", "merge" or "done"

vars == <<chunk, todo, columns, min_y, max_y, phase>>

Run(lo, hi, material) == [lo |-> lo, hi |-> hi, material |-> material]

Init ==
  /\ chunk \in Chunks
  /\ todo = {i \in DOMAIN chunk : ~chunk[i].is_empty_air}
  /\ columns = [c \in Columns |-> <<>>]
  /\ min_y = MinStart
  /\ max_y = MaxStart
  /\ phase = "voxelize"
-----------------------------------------------------------------------------
(* active_sections.sort_by_key(|s| s.y): a stable sort. *)
FirstOfFile(i) == i \in todo /\ \A j \in todo : i <= j
First(i) == i \in todo /\ \A j \in todo : \/ chunk[i].y < chunk[j].y
                                          \/ chunk[i].y = chunk[j].y /\ i <= j

Material(section, k) == get_material_by_name(section.palette[k])

(* An index beyond the palette means its first entry; without a palette    *)
(* nothing is there.                                                       *)
MaterialAt(section, c, rel) ==
  LET palette == section.palette
      idx == section.block[c][rel]
  IN  IF palette = <<>> THEN Air
      ELSE Material(section, IF idx < Len(palette) THEN idx + 1 ELSE 1)

(* The runs of one column of one section, from bottom to top: a block of   *)
(* the run's material extends it, another material starts one, air ends it.*)
AddBlockAcrossAir(state, abs_y, material) ==
  IF material = Air THEN state
  ELSE IF state.open /\ Last(state.runs).material = material
       THEN [state EXCEPT !.runs = Append(Front(@), [Last(@) EXCEPT !.hi = abs_y])]
       ELSE [open |-> TRUE, runs |-> Append(state.runs, Run(abs_y, abs_y, material))]
AddBlock(state, abs_y, material) ==
  IF material = Air THEN [state EXCEPT !.open = FALSE]
  ELSE IF state.open /\ Last(state.runs).material = material
       THEN [state EXCEPT !.runs = Append(Front(@), [Last(@) EXCEPT !.hi = abs_y])]
       ELSE [open |-> TRUE, runs |-> Append(state.runs, Run(abs_y, abs_y, material))]

SectionRuns(section, c) ==
  FoldLeft(LAMBDA state, rel : AddBlock(state, section.y * SecHeight + rel, MaterialAt(section, c, rel)),
           [open |-> FALSE, runs |-> <<>>],
           [n \in 1 .. SecHeight |-> n - 1]).runs

(* One solid material fills the section: a run as high as the section in   *)
(* every column, whatever the block indices say.                           *)
Uniform(section) == Len(section.palette) = 1 /\ Material(section, 1) # Air
UniformRuns(section) ==
  <<Run(section.y * SecHeight, section.y * SecHeight + SecHeight - 1, Material(section, 1))>>

NewRuns(section) ==
  [c \in Columns |-> IF Uniform(section) THEN UniformRuns(section) ELSE SectionRuns(section, c)]

Runs(section) == UNION {Range(NewRuns(section)[c]) : c \in Columns}

LowestOf(runs, start) == Min({start} \cup {run.lo : run \in runs})
HighestOfBottoms(runs, start) == Max({start} \cup {run.lo : run \in runs})
HighestOf(runs, start) == Max({start} \cup {run.hi : run \in runs})

VoxelizeSection ==
  /\ phase = "voxelize"
  /\ \E i \in todo :
       /\ First(i)
       /\ todo' = todo \ {i}
       /\ columns' = [c \in Columns |-> columns[c] \o NewRuns(chunk[i])[c]]
       /\ min_y' = LowestOf(Runs(chunk[i]), min_y)
       /\ max_y' = HighestOf(Runs(chunk[i]), max_y)
  /\ UNCHANGED <<chunk, phase>>

(* Runs of one material that touch, across sections, become one. *)
Touches(last, run) == last.material = run.material /\ last.hi + 1 = run.lo
MergeRuns(runs) ==
  FoldLeft(LAMBDA merged, run :
             IF merged # <<>> /\ Touches(Last(merged), run)
             THEN Append(Front(merged), [Last(merged) EXCEPT !.hi = run.hi])
             ELSE Append(merged, run),
           <<>>, runs)

(* All sections are in: merge, and a chunk without a voxel is at height 0. *)
Merge ==
  /\ phase = "voxelize"
  /\ todo = {}
  /\ columns' = [c \in Columns |-> MergeRuns(columns[c])]
  /\ min_y' = IF min_y > max_y THEN 0 ELSE min_y
  /\ max_y' = IF min_y > max_y THEN 0 ELSE max_y
  /\ phase' = "done"
  /\ UNCHANGED <<chunk, todo>>

Finished == phase = "done" /\ UNCHANGED vars

Next == VoxelizeSection \/ Merge \/ Finished
Spec == Init /\ [][Next]_vars
-----------------------------------------------------------------------------
(***************************************************************************)
(* The reference: the set of voxels <<y, material>> of a column, block by  *)
(* block.                                                                  *)
(***************************************************************************)
Voxels(c, sections) ==
  {<<chunk[i].y * SecHeight + rel, MaterialAt(chunk[i], c, rel)>> :
      i \in {j \in sections : ~chunk[j].is_empty_air}, rel \in Heights}
SolidVoxels(c, sections) == {v \in Voxels(c, sections) : v[2] # Air}
Taken == DOMAIN chunk \ todo

VoxelsOfRuns(runs) ==
  UNION {{<<y, runs[n].material>> : y \in runs[n].lo .. runs[n].hi} : n \in DOMAIN runs}

(* The runs of a column hold the solid voxels of the sections done so far, *)
(* each with its material, and no other: run-length encoding and merging   *)
(* lose and invent nothing, in whatever order the file lists its sections. *)
Lossless == \A c \in Columns : VoxelsOfRuns(columns[c]) = SolidVoxels(c, Taken)

(* Run segments are sorted from bottom to top and do not overlap, and once *)
(* merged no two neighbours could still be one: the column is minimal.     *)
SortedRuns ==
  \A c \in Columns : \A n \in 1 .. Len(columns[c]) - 1 :
    LET low == columns[c][n]
        high == columns[c][n + 1]
    IN  /\ low.hi < high.lo
        /\ phase = "done" => ~(low.hi + 1 = high.lo /\ low.material = high.material)

AllVoxels == UNION {SolidVoxels(c, DOMAIN chunk) : c \in Columns}

SolidHeights == {v[1] : v \in AllVoxels}

Least(y, S) == y \in S /\ \A z \in S : y <= z
Greatest(y, S) == y \in S /\ \A z \in S : z <= y

(* The height range of a chunk goes from its lowest voxel to its highest,  *)
(* and never starts above 320 or ends below -64, where the search starts:  *)
(* a chunk wholly beyond one of these keeps it as an end.  A chunk without *)
(* voxels has 0 .. 0.                                                      *)
HeightsTight ==
  phase = "done" =>
    IF SolidHeights = {} THEN min_y = 0 /\ max_y = 0
    ELSE Least(min_y, SolidHeights \cup {MinStart}) /\ Greatest(max_y, SolidHeights \cup {MaxStart})

BlockName(section, c, rel) ==
  section.palette[IF section.block[c][rel] < Len(section.palette) THEN section.block[c][rel] + 1 ELSE 1]
KnownAir(name) == InTable(name) /\ get_material_by_name(name) = Air

(* Doc comment of ChunkVoxelGrid: "Maximum non-air block Y coordinate."    *)
(* No block is above it, unless the table says the block is air.           *)
NonAirKept ==
  phase = "done" =>
    \A i \in {j \in DOMAIN chunk : chunk[j].palette # <<>>} : \A c \in Columns, rel \in Heights :
      ~KnownAir(BlockName(chunk[i], c, rel)) => chunk[i].y * SecHeight + rel <= max_y
==============================================================================
