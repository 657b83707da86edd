----------------------------- MODULE Downsample -----------------------------
(***************************************************************************)
(* What happens to the voxels when stage 3 merges four columns into one:   *)
(* downsample_2x2_columns and blend_8_colors on the CPU, the Metal kernel  *)
(* on the GPU, over as many levels as the grid has.                        *)
(*                                                                         *)
(* A colour is its alpha and one channel: red, green and blue are treated  *)
(* alike and independently.  Where the columns of a child land in its      *)
(* parent is the subject of Octree.                                        *)
(***************************************************************************)
EXTENDS Integers, Sequences, FiniteSetsExt, SequencesExt, Levels

CONSTANTS
  Side,  \* columns along the grid, a power of two; 64 in the code
  Grids  \* the columns of level 0

Square(n) == (0 .. n - 1) \X (0 .. n - 1)

(* A voxel without alpha is no voxel. *)
Points == [lo : Int, hi : Int, color : [a : Nat \ {0}, c : Nat], flags : Nat]

(* A column as the encoder leaves it (ColumnRle): from bottom to top, no   *)
(* run upside down, none over another.                                     *)
Sorted(column) ==
  \A n \in DOMAIN column : /\ column[n].lo <= column[n].hi
                           /\ n > 1 => column[n - 1].hi < column[n].lo

ASSUME SideAssumption == \E n \in 0 .. Side : Side = Pow2[n]
ASSUME GridsAssumption ==
  \A grid \in Grids :
    /\ grid \in [Square(Side) -> Seq(Points)]
    /\ \A p \in Square(Side) : Sorted(grid[p])

VARIABLES
  gpu,     \* metal_downsample_quadrant instead of downsample_from_children
  leaves,  \* the columns of level 0, fixed
  side,    \* columns along the grid of the current level
  cols     \* its columns: lists of runs, from bottom to top

vars == <<gpu, leaves, side, cols>>

Init ==
  /\ gpu \in BOOLEAN
  /\ leaves \in Grids
  /\ side = Side
  /\ cols = leaves
-----------------------------------------------------------------------------
(* blend_8_colors: an alpha of 0 marks an unused sample. *)
Samples == 8
NoColor == [a |-> 0, c |-> 0]

(* Lane by lane, those that count. *)
Sum(f, lanes) ==
  LET upto[n \in 0 .. Samples] == IF n = 0 THEN 0 ELSE upto[n - 1] + IF n \in lanes THEN f[n] ELSE 0
  IN  upto[Samples]
Count(lanes) == Sum([i \in 1 .. Samples |-> 1], lanes)
Field(colors, field) == [i \in 1 .. Samples |-> colors[i][field]]

MeanOfAll(sum, count) == sum \div Samples
Mean(sum, count) == sum \div count

(* The scalar loop adds up the samples that have an alpha. *)
BlendScalar(colors) ==
  LET solid == {i \in 1 .. Samples : colors[i].a > 0}
      Avg(field) == Mean(Sum(Field(colors, field), solid), Count(solid))
  IN  IF solid = {} THEN NoColor ELSE [a |-> Avg("a"), c |-> Avg("c")]

(* AVX2 takes the channels apart in eight lanes and sets a count of 0 or 1 *)
(* in each; the sums run over the lanes with a count.                      *)
BlendAvx2(colors) ==
  LET cnt == [i \in 1 .. Samples |-> IF colors[i].a > 0 THEN 1 ELSE 0]
      count == Sum(cnt, 1 .. Samples)
      Avg(field) == Mean(Sum(Field(colors, field), {i \in 1 .. Samples : cnt[i] > 0}), count)
  IN  IF count = 0 THEN NoColor ELSE [a |-> Avg("a"), c |-> Avg("c")]

(* NEON has two vectors of four lanes.  A channel is masked by its lane's  *)
(* alpha, the vectors are added lane by lane and then across.              *)
MaskedLowOnly(lane, colors, i) == IF i > 4 \/ colors[i].a > 0 THEN lane[i] ELSE 0
Masked(lane, colors, i) == IF colors[i].a > 0 THEN lane[i] ELSE 0
BlendNeon(colors) ==
  LET Across(lane) == Sum([i \in 1 .. 4 |-> Masked(lane, colors, i) + Masked(lane, colors, i + 4)], 1 .. 4)
      total_valid == Across([i \in 1 .. Samples |-> 1])
      Avg(field) == Mean(Across(Field(colors, field)), total_valid)
  IN  IF total_valid = 0 THEN NoColor ELSE [a |-> Avg("a"), c |-> Avg("c")]

(* The first eight runs, in column order, bottom up, are the samples. *)
SamplesOf(runs) == [i \in 1 .. Samples |-> IF i <= Len(runs) THEN runs[i].color ELSE NoColor]

LowOf(runs) == Min({runs[n].lo : n \in DOMAIN runs})
HighOf(runs) == Max({runs[n].hi : n \in DOMAIN runs})

(* rep_flags: those of the first run that has any. *)
Flagged(runs) == {n \in DOMAIN runs : runs[n].flags # 0}
FlagsOfLast(runs) == IF Flagged(runs) = {} THEN 0 ELSE runs[Max(Flagged(runs))].flags
FlagsOf(runs) == IF Flagged(runs) = {} THEN 0 ELSE runs[Min(Flagged(runs))].flags

(* all_points *)
Together(four) == four[1] \o four[2] \o four[3] \o four[4]

(* downsample_2x2_columns: one run from the lowest to the highest voxel. *)
CpuColumn(four) ==
  LET runs == Together(four)
  IN  IF runs = <<>> THEN <<>>
      ELSE <<[lo |-> LowOf(runs), hi |-> HighOf(runs),
              color |-> BlendScalar(SamplesOf(runs)), flags |-> FlagsOf(runs)]>>

(* The GPU sees only the last run of a column, the top one. *)
TopRunFirst(column) == IF column = <<>> THEN <<>> ELSE <<Head(column)>>
TopRun(column) == IF column = <<>> THEN <<>> ELSE <<Last(column)>>

(* downsample_quadrant_2x2 and the loop that reads its result back. *)
GpuColumn(four) ==
  LET runs == Together([i \in 1 .. 4 |-> TopRun(four[i])])
      solid == {i \in DOMAIN runs : runs[i].color.a > 0}
      Avg(field) == Mean(Sum([i \in DOMAIN runs |-> runs[i].color[field]], solid), Count(solid))
  IN  IF solid = {} THEN <<>>
      ELSE <<[lo |-> LowOf(runs), hi |-> HighOf(runs),
              color |-> [a |-> Avg("a"), c |-> Avg("c")],
              flags |-> IF Flagged(runs) = {} THEN 0 ELSE runs[Min(Flagged(runs))].flags]>>

(* c00, c01, c10, c11 *)
Four(p) == [i \in 1 .. 4 |-> cols[<<2 * p[1] + ((i - 1) \div 2), 2 * p[2] + ((i - 1) % 2)>>]]

NextLevel ==
  /\ side > 1
  /\ side' = side \div 2
  /\ cols' = [p \in Square(side') |-> IF gpu THEN GpuColumn(Four(p)) ELSE CpuColumn(Four(p))]
  /\ UNCHANGED <<gpu, leaves>>

Finished == side = 1 /\ UNCHANGED vars

Next == NextLevel \/ Finished
Spec == Init /\ [][Next]_vars
-----------------------------------------------------------------------------
Between(n, S) == (\E m \in S : m <= n) /\ (\E m \in S : n <= m)

(* Columns are sorted runs of visible voxels, one run at most above level 0. *)
TypeOK ==
  /\ cols \in [Square(side) -> Seq(Points)]
  /\ \A p \in Square(side) : Sorted(cols[p]) /\ (side < Side => Len(cols[p]) <= 1)

(* The level-0 columns below column p, and their runs. *)
LeavesBelow(p) ==
  LET scale == Side \div side
  IN  {q \in Square(Side) : q[1] \div scale = p[1] /\ q[2] \div scale = p[2]}
RunsBelow(p) == UNION {{leaves[q][n] : n \in DOMAIN leaves[q]} : q \in LeavesBelow(p)}

(* At every level a column is empty exactly where all the terrain below it *)
(* is, its top is the top of the highest column below, and on the CPU path *)
(* it reaches down to the lowest voxel below: the outline against the sky  *)
(* survives any number of levels on both paths, and no level of the CPU's  *)
(* opens a gap under the terrain.                                          *)
OutlineKept ==
  \A p \in Square(side) :
    /\ cols[p] = <<>> <=> RunsBelow(p) = {}
    /\ cols[p] # <<>> =>
         /\ \E run \in RunsBelow(p) : run.hi = Last(cols[p]).hi
         /\ \A run \in RunsBelow(p) : run.hi <= Last(cols[p]).hi /\ (gpu \/ cols[p][1].lo <= run.lo)

(* Averages of averages, rounded down at every level, never leave the      *)
(* range of the level-0 colours below: no channel overflows into the next, *)
(* no colour drifts towards black because of missing samples.              *)
ColorKept ==
  \A p \in Square(side) : \A n \in DOMAIN cols[p] :
    /\ Between(cols[p][n].color.a, {run.color.a : run \in RunsBelow(p)})
    /\ Between(cols[p][n].color.c, {run.color.c : run \in RunsBelow(p)})

Parents == IF side = 1 THEN {} ELSE Square(side \div 2)

(* Where columns have one run at most, as at every level above 0, the GPU  *)
(* kernel and the CPU loop compute the same column, flags included.        *)
BackendsAgree ==
  \A p \in Parents : (\A i \in 1 .. 4 : Len(Four(p)[i]) <= 1) => CpuColumn(Four(p)) = GpuColumn(Four(p))

(* Doc comment of simd_blend: "seamless scalar fallback".  The AVX2 and    *)
(* the NEON blend give the scalar result, for translucent and for missing  *)
(* samples too.                                                            *)
SimdAgrees ==
  \A p \in Parents :
    LET colors == SamplesOf(Together(Four(p)))
    IN  BlendAvx2(colors) = BlendScalar(colors) /\ BlendNeon(colors) = BlendScalar(colors)
==============================================================================
