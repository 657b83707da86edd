------------------------------- MODULE LodGrid -------------------------------
(***************************************************************************)
(* The geometry every stage of the baker shares: blocks, chunks, regions   *)
(* and LOD sections, the section record of octree.rs, and the placement of *)
(* one voxelized chunk into its detail-level-0 section.                    *)
(*                                                                         *)
(* The literals of the code are constants here, so that TLC can run on a   *)
(* small grid and the proofs hold for every grid:                          *)
(*     ChunkCols  = 16   columns along a side of a chunk                   *)
(*     SecChunks  =  4   chunks along a side of a section (>> 2, & 3)      *)
(*     RegionSecs =  8   sections along a side of a region file            *)
(*                                                                         *)
(* A flat array index such as x * 64 + z is the pair <<x, z>> here.  The   *)
(* run list of a column is abstracted to its provenance: the set of block  *)
(* columns of input files whose voxels it was computed from; the empty run *)
(* list is {}.                                                             *)
(***************************************************************************)
EXTENDS Integers, SequencesExt

CONSTANTS ChunkCols, SecChunks, RegionSecs

ASSUME GridAssumption ==
  /\ ChunkCols  \in Nat \ {0}
  /\ SecChunks  \in Nat \ {0}
  /\ RegionSecs \in Nat \ {0}

SecCols      == SecChunks * ChunkCols     \* 64 columns along a section
RegionChunks == RegionSecs * SecChunks    \* 32 chunks along a region

Cols     == (0 .. SecCols - 1) \X (0 .. SecCols - 1)
GridCols == (0 .. ChunkCols - 1) \X (0 .. ChunkCols - 1)
Locals   == (0 .. RegionChunks - 1) \X (0 .. RegionChunks - 1)
SecIdx   == (0 .. RegionSecs - 1) \X (0 .. RegionSecs - 1)

(* LodSection::new_empty *)
NewEmpty(level, x, z) ==
  [detail_level |-> level, pos_x |-> x, pos_z |-> z,
   min_y |-> 0, max_y |-> 0, columns |-> [p \in Cols |-> {}]]

(* The row of FullData a section is stored in. *)
KeyOf(sec) == <<sec.detail_level, sec.pos_x, sec.pos_z>>

(* How a section takes over the height range of a chunk or of a child.     *)
(* Zero doubles as "not set yet" for min_y.                                *)
LowerMinUnmarked(cur, new) == IF new < cur THEN new ELSE cur
LowerMin(cur, new) == IF new < cur \/ cur = 0 THEN new ELSE cur
RaiseMaxLast(cur, new) == new
RaiseMax(cur, new) == IF new > cur THEN new ELSE cur

WithHeights(sec, other) ==
  [sec EXCEPT !.min_y = LowerMin(@, other.min_y),
              !.max_y = RaiseMax(@, other.max_y)]

(* What taking over the ranges of parts one by one, in any order, comes    *)
(* to: the maximum is theirs or the 0 it starts from, and the minimum is   *)
(* that of a part, the least one unless the least one is 0.                *)
SpansParts(sec, parts) ==
  /\ \A part \in parts : part.max_y <= sec.max_y
  /\ sec.max_y = 0 \/ \E part \in parts : part.max_y = sec.max_y
  /\ \E part \in parts : part.min_y = sec.min_y
  /\ \/ \A part \in parts : sec.min_y <= part.min_y
     \/ (\E part \in parts : part.min_y = 0) /\ \A part \in parts : 0 <= part.min_y

(* The 16 x 16 copy loop: the columns of a chunk land at the chunk's       *)
(* offset inside the section, all other columns stay.                      *)
PlaceColumns(columns, rel_x, rel_z, grid) ==
  [p \in Cols |->
     LET cx == p[1] - rel_x * ChunkCols
         cz == p[2] - rel_z * ChunkCols
     IN  IF <<cx, cz>> \in GridCols THEN grid[<<cx, cz>>] ELSE columns[p]]

PlaceGrid(sec, rel_x, rel_z, voxel_grid) ==
  [WithHeights(sec, voxel_grid) EXCEPT
     !.columns = PlaceColumns(@, rel_x, rel_z, voxel_grid.columns)]

(* LodSection::build_level_0: the same assembly from whole ChunkVoxelGrid  *)
(* values, addressed by absolute chunk position; one grid, then all.       *)
Level0With(sections, grid) ==
  LET sec_x == grid.chunk_x \div SecChunks
      sec_z == grid.chunk_z \div SecChunks
      old == {sec \in sections : sec.pos_x = sec_x /\ sec.pos_z = sec_z}
      base == IF old = {} THEN NewEmpty(0, sec_x, sec_z) ELSE CHOOSE sec \in old : TRUE
  IN  (sections \ old) \cup
        {PlaceGrid(base, grid.chunk_x % SecChunks, grid.chunk_z % SecChunks, grid)}

BuildLevel0(grids) ==
  LET upTo[n \in 0 .. Len(grids)] ==
        IF n = 0 THEN {} ELSE Level0With(upTo[n - 1], grids[n])
  IN  upTo[Len(grids)]
==============================================================================
