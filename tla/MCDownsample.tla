---------------------------- MODULE MCDownsample ----------------------------
(* Grids for Downsample: 4 x 4 columns, two levels above them.  Any four    *)
(* columns in one quadrant, a few patterns in the others.                   *)
EXTENDS EncodedLevel

R(lo, hi, a, c, flags) == [lo |-> lo, hi |-> hi, color |-> [a |-> a, c |-> c], flags |-> flags]

Hole == <<>>
Rock == <<R(-2, 5, 15, 7, 1)>>
Lake == <<R(-2, 1, 15, 6, 1), R(2, 4, 12, 13, 18)>>
Cave == <<R(-4, -3, 15, 2, 1), R(0, 2, 15, 9, 0), R(5, 7, 15, 11, 9)>>
Pane == <<R(1, 1, 2, 15, 0)>>

Scaffold == [n \in 1 .. 9 |-> R(2 * n - 12, 2 * n - 12, 15, 10, 1)]

Kinds == {Hole, Rock, Lake, Cave, Pane, Scaffold}
Quads == [1 .. 4 -> Kinds]
Patterns == {<<Cave, Lake, Rock, Pane>>, <<Hole, Hole, Hole, Hole>>}

At(quad, p) == quad[(p[1] % 2) * 2 + (p[2] % 2) + 1]
Grid(free, x, z) ==
  [p \in Square(4) |-> IF p[1] < 2 /\ p[2] < 2 THEN At(free, p)
                       ELSE IF p[1] < 2 THEN At(x, p)
                       ELSE IF p[2] < 2 THEN At(z, p) ELSE At(<<Rock, Hole, Lake, Cave>>, p)]

MCGrids == {Grid(free, x, z) : free \in Quads, x \in Patterns, z \in Patterns}

(* Every stream of one or two bytes, and the bytes of whole lists of columns. *)
MCStreams ==
  LET bytes == 0 .. ByteRange - 1
      lists == {<<Scaffold>>, <<Lake, Hole, Cave, Rock>>}
  IN  {<<b>> : b \in bytes} \cup {<<a, b>> : a, b \in bytes} \cup {RawBytes(columns) : columns \in lists}
==============================================================================
