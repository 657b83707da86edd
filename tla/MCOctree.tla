------------------------------ MODULE MCOctree ------------------------------
(* Small section lists for Octree: 2 x 2 columns to a chunk, 2 x 2 chunks   *)
(* to a section, sections on both sides of the origin.                      *)
EXTENDS Octree

(* Section <<x, z>>: column p shows its own block unless p is in bare. *)
SectionAt(x, z, lo, hi, bare) ==
  [detail_level |-> 0, pos_x |-> x, pos_z |-> z, min_y |-> lo, max_y |-> hi,
   columns |-> [p \in Cols |->
      IF p \in bare THEN {} ELSE {<<x * SecCols + p[1], z * SecCols + p[2]>>}]]

Left == {p \in Cols : p[1] < 2}
Quarter == {p \in Cols : p[1] < 2 /\ p[2] >= 2}

Around == <<SectionAt(0, 0, 1, 9, {}), SectionAt(1, 0, -3, 4, Left), SectionAt(-1, 0, 2, 7, Quarter),
            SectionAt(-1, -1, 5, 6, {<<3, 0>>})>>
Deep == <<SectionAt(-5, 3, 4, 5, Quarter), SectionAt(-3, 2, 0, 12, Cols), SectionAt(2, 2, -8, -1, Left), 
          SectionAt(3, 3, 3, 30, {<<0, 0>>, <<3, 3>>})>>

(* Two files of the same region: the second section of a row comes later. *)
Twice == <<SectionAt(0, 1, 1, 3, Left), SectionAt(0, 1, 2, 5, Cols)>>

MCLevel0 == {Around, Deep, Twice, <<>>}
=============================================================================
