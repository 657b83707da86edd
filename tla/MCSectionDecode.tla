--------------------------- MODULE MCSectionDecode ---------------------------
(* Chunks for SectionDecode as the game writes them: 8 blocks to a section, *)
(* longs of 8 bits, indices of at least 2, so that palettes of up to 4      *)
(* names pack alike in all versions and larger ones do not.                 *)
EXTENDS SectionDecode

Names == <<"stone", "air", "dirt", "water", "sand", "ice", "snow", "oak_log">>
Palette(m) == SubSeq(Names, 1, m)

(* Contents that reach every bit of every entry. *)
Contents(m, n) == {[i \in 0 .. n - 1 |-> (a * i + b) % m] : a, b \in 0 .. m - 1}

Raw(y, saved) ==
  [y |-> y, states |-> Absent, palette |-> Absent, longs |-> Absent, blocks |-> Absent,
   data |-> <<>>, add |-> <<>>, biomes |-> Absent, saved |-> saved, index |-> Absent,
   saved_biomes |-> Absent, cells |-> Absent, ids |-> Absent, metas |-> Absent]

Indexed(y, m, index) == [Raw(y, [i \in BlockIdx |-> Palette(m)[index[i] + 1]]) EXCEPT !.index = index]
Bits(m) == SavedBits(Palette(m), MinBits)

Modern(y, m, index) ==
  [Indexed(y, m, index) EXCEPT
     !.states = [palette |-> Palette(m), data |-> PackAligned(Bits(m), index, Blocks)]]
Flat16(y, m, index) ==
  [Indexed(y, m, index) EXCEPT !.palette = Palette(m), !.longs = PackAligned(Bits(m), index, Blocks)]
Flat13(y, m, index) ==
  [Indexed(y, m, index) EXCEPT !.palette = Palette(m), !.longs = PackSpanning(Bits(m), index, Blocks)]

(* One name fills the section: no array, and before 1.18 an array of zeros. *)
Filled(y, name) ==
  [Raw(y, [i \in BlockIdx |-> IF is_air_name(name) THEN "air" ELSE name]) EXCEPT !.index = Zeros(Blocks)]
Solid(y, name) ==
  [Filled(y, name) EXCEPT !.states = [palette |-> <<name>>, data |-> Absent]]
SolidFlat(y, name) ==
  [Filled(y, name) EXCEPT !.palette = <<name>>, !.longs = <<0, 0>>]

(* Ids with and without half-bytes, among them one above 127 and 257. *)
Anvil(y, pattern) ==
  LET At(seq) == [i \in BlockIdx |-> seq[((pattern * i) % 8) + 1]]
      ids == At(<<0, 1, 17, 2, 1, 130, 8, 257>>)
      metas == At(<<0, 3, 5, 0, 1, 1, 7, 0>>)
  IN  [Raw(y, [i \in BlockIdx |-> legacy_id_to_name(ids[i], metas[i])]) EXCEPT
         !.ids = ids, !.metas = metas,
         !.blocks = LowBytes(ids), !.data = Halves(metas),
         !.add = IF \E i \in BlockIdx : ids[i] > 255 THEN HighHalves(ids) ELSE @]

Climates(m) == SubSeq(<<"plains", "desert", "taiga">>, 1, m)
WithCells(section, m, index) ==
  [section EXCEPT !.biomes = [palette |-> Climates(m), data |-> PackAligned(SavedBits(Climates(m), 1), index, BiomeCells)],
                  !.cells = index, !.saved_biomes = [i \in Cells |-> Climates(m)[index[i] + 1]]]

AirAlone == Raw(3, [i \in BlockIdx |-> "air"])

(* A chunk in two packings, one after the other. *)
Resaved == UNION {{<<<<Flat13(0, m, x)>>, <<Flat16(0, m, x)>>, <<Modern(0, m, x)>>>> : x \in Contents(m, Blocks)} :
                  m \in 2 .. 8}
Stacked == {<<<<Anvil(0, k), AirAlone, Anvil(1, 9 - k)>>>> : k \in 0 .. 8}
Striped == [i \in BlockIdx |-> i % 3]
Biomed == UNION {{<<<<WithCells(Modern(0, 3, Striped), m, x), Solid(1, "air"), WithCells(Solid(2, "ice"), m, x)>>>> :
                    x \in Contents(m, BiomeCells)} : m \in {2, 3}}
Plain == {<<<<Solid(0, name), SolidFlat(1, name)>>, <<SolidFlat(0, "cave_air")>>>> : name \in {"stone", "air", "void_air"}}

MCWorlds == Resaved \cup Stacked \cup Biomed \cup Plain
==============================================================================
