---------------------------- MODULE MCRegionBake ----------------------------
(* Small worlds for RegionBake: 2 x 2 columns to a chunk, 2 x 2 chunks to   *)
(* a section, 2 x 2 sections to a region.                                   *)
EXTENDS RegionBake

Empty(state) == [state |-> state, min_y |-> 0, max_y |-> 0, solid |-> {}]
Solid(lo, hi, columns) == [state |-> "ok", min_y |-> lo, max_y |-> hi, solid |-> columns]

At(chunks) == [l \in Locals |-> IF l \in DOMAIN chunks THEN chunks[l] ELSE Empty("absent")]
RegionAt(x, z, chunks) == [rx |-> x, rz |-> z, opens |-> TRUE, chunk |-> At(chunks)]

(* Chunks of two sections, every way of failing among the readable ones,   *)
(* and a chunk of a single, off-diagonal column.                           *)
Plains == RegionAt(0, 0,
  (<<0, 0>> :> Solid(3, 9, GridCols)) @@ (<<1, 0>> :> Empty("bad_payload")) @@
  (<<2, 0>> :> Empty("bad_stream")) @@ (<<1, 1>> :> Solid(-7, 2, {<<0, 1>>})) @@
  (<<3, 1>> :> Solid(5, 6, GridCols)) @@ (<<2, 2>> :> Empty("bad_nbt")))

(* A neighbour at negative coordinates, with an empty but valid chunk. *)
Hills == RegionAt(-1, 0,
  (<<3, 0>> :> Solid(-4, 8, {<<1, 0>>, <<1, 1>>})) @@ (<<2, 3>> :> Empty("ok")) @@
  (<<3, 3>> :> Solid(1, 4, GridCols)))

(* Terrain whose lowest voxel is at height 0, next to higher ground. *)
SeaBed == RegionAt(0, -1,
  (<<0, 3>> :> Solid(0, 4, GridCols)) @@ (<<1, 3>> :> Solid(5, 8, GridCols)))

Broken == [Hills EXCEPT !.rz = 1, !.opens = FALSE]

MCTaskSeqs == {<<Plains, Hills>>, <<Hills, Broken, Plains>>}
MCSeaBed == {<<SeaBed, Hills>>}

Whole == [min_cx |-> -8, max_cx |-> 8, min_cz |-> -8, max_cz |-> 8]
Cut == [min_cx |-> -1, max_cx |-> 1, min_cz |-> 0, max_cz |-> 1]
MCBoxes == {Whole, Cut}
MCWhole == {Whole}
=============================================================================
