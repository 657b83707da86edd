--------------------------- MODULE ColumnRleProofs ---------------------------
(***************************************************************************)
(* Theorems about the column encoder, for every height of a section, every *)
(* set of columns, every table of materials and every chunk.               *)
(***************************************************************************)
EXTENDS ColumnRle, SharedLemmas, TLAPS

(* The runs of one material. *)
RunOf(M) == [lo : Int, hi : Int, material : M]
Filled(run) == {<<y, run.material>> : y \in run.lo .. run.hi}

(* Runs from bottom to top without overlap, none upside down. *)
Ascending(runs) ==
  /\ \A n \in 1 .. Len(runs) : runs[n].lo <= runs[n].hi
  /\ \A n \in 1 .. Len(runs) - 1 : runs[n].hi < runs[n + 1].lo
Above(runs, low) == \A n \in 1 .. Len(runs) : low <= runs[n].lo
Below(runs, high) == \A n \in 1 .. Len(runs) : runs[n].hi < high
-----------------------------------------------------------------------------
(* The voxels of a list of runs when a run is added, or its last run is    *)
(* extended.                                                               *)
LEMMA VoxelsIn ==
  ASSUME NEW M, NEW runs \in Seq(RunOf(M)), NEW v
  PROVE  v \in VoxelsOfRuns(runs) <=> \E n \in 1 .. Len(runs) : v \in Filled(runs[n])
BY DEF VoxelsOfRuns, Filled

LEMMA AppendRun ==
  ASSUME NEW M, NEW runs \in Seq(RunOf(M)), NEW run \in RunOf(M)
  PROVE  /\ Append(runs, run) \in Seq(RunOf(M))
         /\ VoxelsOfRuns(Append(runs, run)) = VoxelsOfRuns(runs) \cup Filled(run)
<1> DEFINE N == Len(runs)
           new == Append(runs, run)
<1>1. /\ N \in Nat /\ new \in Seq(RunOf(M)) /\ Len(new) = N + 1
      /\ new[N + 1] = run /\ \A n \in 1 .. N : new[n] = runs[n]
  BY AppendProperties
<1> HIDE DEF N, new
<1>2. \A n \in 1 .. N + 1 : n \in 1 .. N \/ n = N + 1
  BY <1>1
<1>3. \A n \in 1 .. N : n \in 1 .. N + 1
  BY <1>1
<1>4. N + 1 \in 1 .. N + 1
  BY <1>1
<1>5. ASSUME NEW v PROVE v \in VoxelsOfRuns(new) <=> v \in VoxelsOfRuns(runs) \cup Filled(run)
  <2>1. v \in VoxelsOfRuns(runs) <=> \E n \in 1 .. N : v \in Filled(runs[n])
    BY VoxelsIn DEF N
  <2>2. v \in VoxelsOfRuns(new) <=> \E n \in 1 .. N + 1 : v \in Filled(new[n])
    BY <1>1, VoxelsIn
  <2> QED
    BY <1>1, <1>2, <1>3, <1>4, <2>1, <2>2
<1> QED
  BY <1>1, <1>5 DEF new

(* Append(Front(runs), ...) replaces the last run. *)
Extended(runs, high) == Append(Front(runs), [Last(runs) EXCEPT !.hi = high])
LEMMA ExtendType ==
  ASSUME NEW M, NEW runs \in Seq(RunOf(M)), runs # <<>>, NEW high \in Int
  PROVE  /\ Extended(runs, high) \in Seq(RunOf(M)) /\ Len(Extended(runs, high)) = Len(runs)
         /\ \A n \in 1 .. Len(runs) - 1 : Extended(runs, high)[n] = runs[n]
         /\ Last(runs) = runs[Len(runs)] /\ Last(runs) \in RunOf(M)
         /\ Len(runs) \in Nat \ {0} /\ Len(runs) \in 1 .. Len(runs)
         /\ Extended(runs, high)[Len(runs)] = [Last(runs) EXCEPT !.hi = high]
         /\ [Last(runs) EXCEPT !.hi = high] \in RunOf(M)
<1> DEFINE N == Len(runs)
           last == runs[N]
           longer == [last EXCEPT !.hi = high]
           new == Extended(runs, high)
<1>1. N \in Nat \ {0} /\ N \in 1 .. N /\ \A n \in 1 .. N : runs[n] \in RunOf(M)
  BY EmptySeq, ElementOfSeq
<1>2. Last(runs) = last
  BY DEF Last
<1>3. last \in RunOf(M) /\ longer \in RunOf(M) /\ longer.lo = last.lo /\ longer.hi = high /\ longer.material = last.material
  BY <1>1 DEF RunOf
<1>4. Front(runs) \in Seq(RunOf(M)) /\ Len(Front(runs)) = N - 1 /\ \A n \in 1 .. N - 1 : Front(runs)[n] = runs[n]
  <2>1. Front(runs) = SubSeq(runs, 1, N - 1)
    BY DEF Front
  <2>2. 1 \in Int /\ N - 1 \in Int /\ \A n \in 1 .. N - 1 : runs[n] \in RunOf(M)
    BY <1>1
  <2> HIDE DEF N
  <2>3. /\ SubSeq(runs, 1, N - 1) \in Seq(RunOf(M))
        /\ Len(SubSeq(runs, 1, N - 1)) = IF 1 <= N - 1 THEN N - 1 - 1 + 1 ELSE 0
        /\ \A n \in 1 .. N - 1 - 1 + 1 : SubSeq(runs, 1, N - 1)[n] = runs[1 + n - 1]
    BY <2>2, SubSeqProperties
  <2>4. N - 1 - 1 + 1 = N - 1 /\ (~(1 <= N - 1) => N - 1 = 0) /\ \A n \in 1 .. N - 1 : 1 + n - 1 = n
    <3>1. N \in Int /\ N >= 1
      BY <1>1 DEF N
    <3> QED
      BY <3>1
  <2>5. Len(Front(runs)) = N - 1
    BY <2>1, <2>3, <2>4
  <2>6. \A n \in 1 .. N - 1 : SubSeq(runs, 1, N - 1)[n] = runs[n]
    BY <2>3, <2>4
  <2> QED
    BY <2>1, <2>3, <2>5, <2>6
<1>5. /\ new \in Seq(RunOf(M)) /\ Len(new) = N /\ new[N] = longer
      /\ \A n \in 1 .. N - 1 : new[n] = runs[n]
  <2> DEFINE front == Front(runs)
  <2>1. new = Append(front, longer)
    BY <1>2 DEF Extended
  <2> HIDE DEF new, front, longer
  <2>2. /\ Append(front, longer) \in Seq(RunOf(M)) /\ Len(Append(front, longer)) = Len(front) + 1
        /\ Append(front, longer)[Len(front) + 1] = longer
        /\ \A n \in 1 .. Len(front) : Append(front, longer)[n] = front[n]
    BY <1>3, <1>4, AppendProperties DEF front
  <2>3. Len(front) = N - 1 /\ Len(front) + 1 = N
    BY <1>1, <1>4 DEF front
  <2> QED
    BY <1>4, <2>1, <2>2, <2>3 DEF front
<1> HIDE DEF longer, last
<1>6. Extended(runs, high) \in Seq(RunOf(M)) /\ Len(Extended(runs, high)) = N /\ \A n \in 1 .. N - 1 : Extended(runs, high)[n] = runs[n]
  BY <1>5
<1> QED
  BY <1>1, <1>2, <1>3, <1>5, <1>6 DEF longer, last

LEMMA ExtendRun ==
  ASSUME NEW M, NEW runs \in Seq(RunOf(M)), runs # <<>>, NEW high \in Int,
         Last(runs).lo <= Last(runs).hi, Last(runs).hi <= high
  PROVE  VoxelsOfRuns(Extended(runs, high)) =
           VoxelsOfRuns(runs) \cup {<<y, Last(runs).material>> : y \in Last(runs).hi + 1 .. high}
<1> DEFINE N == Len(runs)
           last == runs[N]
           longer == [last EXCEPT !.hi = high]
           new == Extended(runs, high)
<1>1. N \in Nat \ {0} /\ N \in 1 .. N /\ \A n \in 1 .. N : runs[n] \in RunOf(M)
  BY ExtendType, ElementOfSeq
<1>2. Last(runs) = last
  BY DEF Last
<1>3. last \in RunOf(M) /\ longer \in RunOf(M) /\ longer.lo = last.lo /\ longer.hi = high /\ longer.material = last.material
  BY <1>1 DEF RunOf
<1>5. /\ new \in Seq(RunOf(M)) /\ Len(new) = N /\ new[N] = longer
      /\ \A n \in 1 .. N - 1 : new[n] = runs[n]
  BY <1>2, ExtendType
<1> HIDE DEF new
<1>6. Filled(longer) = Filled(last) \cup {<<y, last.material>> : y \in last.hi + 1 .. high}
  <2>1. last.lo \in Int /\ last.hi \in Int /\ last.lo <= last.hi /\ last.hi <= high
    BY <1>2, <1>3 DEF RunOf
  <2>2. last.lo .. high = (last.lo .. last.hi) \cup (last.hi + 1 .. high)
    BY <2>1
  <2>3. Filled(longer) = {<<y, last.material>> : y \in last.lo .. high}
    BY <1>3 DEF Filled
  <2> HIDE DEF last
  <2> QED
    BY <2>2, <2>3 DEF Filled
<1>7. ASSUME NEW v
      PROVE  v \in VoxelsOfRuns(new) <=>
               v \in VoxelsOfRuns(runs) \cup {<<y, last.material>> : y \in last.hi + 1 .. high}
  <2>1. v \in VoxelsOfRuns(runs) <=> \E n \in 1 .. N : v \in Filled(runs[n])
    BY VoxelsIn
  <2>2. v \in VoxelsOfRuns(new) <=> \E n \in 1 .. N : v \in Filled(new[n])
    BY <1>5, VoxelsIn
  <2>3. \A n \in 1 .. N : n \in 1 .. N - 1 \/ n = N
    BY <1>1
  <2>4. \A n \in 1 .. N - 1 : n \in 1 .. N
    BY <1>1
  <2> DEFINE added == {<<y, last.material>> : y \in last.hi + 1 .. high}
  <2>5. v \in Filled(longer) <=> v \in Filled(last) \/ v \in added
    BY <1>6
  <2> HIDE DEF longer, added, N
  <2>6. (\E n \in 1 .. N : v \in Filled(new[n])) <=> (\E n \in 1 .. N : v \in Filled(runs[n])) \/ v \in added
    BY <1>1, <1>5, <2>3, <2>4, <2>5 DEF N
  <2> QED
    BY <2>1, <2>2, <2>6 DEF added
<1>8. VoxelsOfRuns(new) = VoxelsOfRuns(runs) \cup {<<y, last.material>> : y \in last.hi + 1 .. high}
  <2> HIDE DEF last
  <2> QED
    BY <1>7
<1> QED
  BY <1>2, <1>8 DEF new
-----------------------------------------------------------------------------
(* Merging, run by run.                                                    *)
Merged(merged, run) ==
  IF merged # <<>> /\ Touches(Last(merged), run) THEN Extended(merged, run.hi) ELSE Append(merged, run)
Merging(runs, f) ==
  /\ f[0] = <<>>
  /\ \A n \in 1 .. Len(runs) : f[n] = Merged(f[n - 1], runs[n])

LEMMA MergeFolds ==
  ASSUME NEW M, NEW runs \in Seq(RunOf(M))
  PROVE  \E f : Merging(runs, f) /\ MergeRuns(runs) = f[Len(runs)]
<1> DEFINE N == Len(runs)
           V == Seq(RunOf(M))
           F == [p \in V \X Nat |-> IF p[2] \in 1 .. N THEN Merged(p[1], runs[p[2]]) ELSE p[1]]
           Is(h) == h = [s \in SUBSET (1 .. N) |-> IF s = {} THEN <<>> ELSE Merged(h[s \ {Max(s)}], runs[Max(s)])]
           c == CHOOSE h : Is(h)
<1>1. N \in Nat /\ DOMAIN runs = 1 .. N /\ \A n \in 1 .. N : runs[n] \in RunOf(M) /\ runs[n].hi \in Int
  <2>1. N \in Nat /\ DOMAIN runs = 1 .. N /\ \A n \in 1 .. N : runs[n] \in RunOf(M)
    BY ElementOfSeq, LenProperties
  <2>2. \A r \in RunOf(M) : r.hi \in Int
    BY DEF RunOf
  <2> QED
    BY <2>1, <2>2
<1>2. \A m \in V, n \in 1 .. N : Merged(m, runs[n]) \in V
  <2> TAKE m \in V, n \in 1 .. N
  <2>1. runs[n] \in RunOf(M) /\ runs[n].hi \in Int
    BY <1>1
  <2>2. Append(m, runs[n]) \in V
    BY <2>1, AppendProperties
  <2>3. m # <<>> => Extended(m, runs[n].hi) \in V
    BY <2>1, ExtendType
  <2> HIDE DEF V
  <2> QED
    BY <2>2, <2>3 DEF Merged
<1>3. F \in [V \X Nat -> V]
  <2> HIDE DEF V, N
  <2> QED
    BY <1>2
<1>4. <<>> \in V
  OBVIOUS
<1> HIDE DEF V, F
<1>5. PICK h \in [SUBSET (1 .. N) -> V] : Folding(<<>>, F, N, h)
  BY <1>1, <1>3, <1>4, FoldingExists
<1>6. Is(h)
  <2>1. ASSUME NEW s \in SUBSET (1 .. N)
        PROVE  h[s] = IF s = {} THEN <<>> ELSE Merged(h[s \ {Max(s)}], runs[Max(s)])
    <3>1. CASE s # {}
      <4>1. Max(s) \in 1 .. N /\ Max(s) \in Nat
        <5>1. Max(s) \in s
          BY <1>1, <3>1, MaxIsIn
        <5>2. \A y \in s : y \in 1 .. N /\ y \in Nat
          OBVIOUS
        <5> QED
          BY <5>1, <5>2
      <4>2. <<h[s \ {Max(s)}], Max(s)>> \in V \X Nat
        BY <1>5, <4>1
      <4>3. h[s] = F[<<h[s \ {Max(s)}], Max(s)>>]
        BY <1>5, <3>1 DEF Folding
      <4>4. \A p \in V \X Nat : F[p] = IF p[2] \in 1 .. N THEN Merged(p[1], runs[p[2]]) ELSE p[1]
        BY DEF F
      <4> DEFINE m == Max(s)
                 before == h[s \ {m}]
      <4>5. F[<<before, m>>] = IF m \in 1 .. N THEN Merged(before, runs[m]) ELSE before
        <5> HIDE DEF m, before, N
        <5> QED
          BY <4>2, <4>4 DEF m, before
      <4> QED
        BY <3>1, <4>1, <4>3, <4>5
    <3>2. CASE s = {}
      BY <1>5, <3>2 DEF Folding
    <3> QED
      BY <3>1, <3>2
  <2>2. h = [s \in SUBSET (1 .. N) |-> h[s]]
    BY <1>5
  <2> QED
    BY <2>1, <2>2
<1> HIDE DEF Is
<1>7. Is(c)
  BY <1>6
<1> HIDE DEF c
<1> DEFINE f == [n \in 0 .. N |-> c[1 .. n]]
<1>8. Merging(runs, f)
  <2>1. f[0] = <<>>
    <3>1. 1 .. 0 \in SUBSET (1 .. N) /\ 1 .. 0 = {} /\ 0 \in 0 .. N
      BY <1>1
    <3> QED
      BY <1>7, <3>1 DEF Is
  <2>2. ASSUME NEW n \in 1 .. N PROVE f[n] = Merged(f[n - 1], runs[n])
    <3>1. n - 1 \in Nat /\ (n - 1) + 1 = n /\ n \in 0 .. N /\ n - 1 \in 0 .. N /\ 1 .. n \in SUBSET (1 .. N)
      BY <1>1
    <3>2. Max(1 .. n) = n /\ (1 .. n) \ {Max(1 .. n)} = 1 .. n - 1 /\ 1 .. n # {}
      BY <3>1, MaxOfInterval
    <3>3. c[1 .. n] = Merged(c[(1 .. n) \ {Max(1 .. n)}], runs[Max(1 .. n)])
      BY <1>7, <3>1, <3>2 DEF Is
    <3> QED
      BY <3>1, <3>2, <3>3
  <2> QED
    BY <2>1, <2>2 DEF Merging
<1>9. MergeRuns(runs) = c[1 .. N]
  BY <1>1 DEF MergeRuns, FoldLeft, MapThenFoldSet, Merged, Extended, c, Is
<1> QED
  BY <1>1, <1>8, <1>9

(* Encoding a column of a section, block by block.                         *)
State(M) == {s \in [open : BOOLEAN, runs : Seq(RunOf(M))] : s.open => s.runs # <<>>}
Start == [open |-> FALSE, runs |-> <<>>]
Placed(section, c, state, rel) == AddBlock(state, section.y * SecHeight + rel, MaterialAt(section, c, rel))
Encoding(section, c, f) ==
  /\ f[0] = Start
  /\ \A n \in 1 .. SecHeight : f[n] = Placed(section, c, f[n - 1], n - 1)

LEMMA AddBlockType ==
  ASSUME NEW M, NEW state \in State(M), NEW abs_y \in Int, NEW material \in M
  PROVE  AddBlock(state, abs_y, material) \in State(M)
<1>1. state.runs \in Seq(RunOf(M)) /\ state.open \in BOOLEAN /\ (state.open => state.runs # <<>>)
      /\ state \in [open : BOOLEAN, runs : Seq(RunOf(M))]
  BY DEF State
<1>2. CASE material = Air
  BY <1>1, <1>2 DEF AddBlock, State
<1>3. CASE material # Air /\ state.open /\ Last(state.runs).material = material
  <2>1. AddBlock(state, abs_y, material) = [state EXCEPT !.runs = Extended(state.runs, abs_y)]
    BY <1>1, <1>3 DEF AddBlock, Extended
  <2>2. Extended(state.runs, abs_y) \in Seq(RunOf(M)) /\ Len(Extended(state.runs, abs_y)) # 0
    <3> DEFINE runs == state.runs
    <3>1. runs \in Seq(RunOf(M)) /\ runs # <<>>
      BY <1>1, <1>3
    <3> HIDE DEF runs
    <3>2. Extended(runs, abs_y) \in Seq(RunOf(M)) /\ Len(Extended(runs, abs_y)) # 0
      BY <3>1, ExtendType
    <3> QED
      BY <3>2 DEF runs
  <2>3. Extended(state.runs, abs_y) # <<>>
    BY <2>2
  <2> QED
    BY <1>1, <2>1, <2>2, <2>3 DEF State
<1>4. CASE material # Air /\ ~(state.open /\ Last(state.runs).material = material)
  <2> DEFINE run == Run(abs_y, abs_y, material)
             longer == Append(state.runs, run)
  <2>1. AddBlock(state, abs_y, material) = [open |-> TRUE, runs |-> longer]
    BY <1>4 DEF AddBlock
  <2>2. run \in RunOf(M)
    BY DEF Run, RunOf
  <2> HIDE DEF run
  <2>3. longer \in Seq(RunOf(M)) /\ longer # <<>>
    BY <1>1, <2>2, AppendProperties
  <2> HIDE DEF longer
  <2> QED
    BY <2>1, <2>3 DEF State
<1> QED
  BY <1>2, <1>3, <1>4

LEMMA SectionFolds ==
  ASSUME NEW M, NEW section, section.y \in Int, NEW column,
         \A rel \in Heights : MaterialAt(section, column, rel) \in M
  PROVE  \E f : Encoding(section, column, f) /\ SectionRuns(section, column) = f[SecHeight].runs
<1> DEFINE N == SecHeight
           rels == [n \in 1 .. N |-> n - 1]
           V == State(M)
           F == [p \in V \X Nat |-> IF p[2] \in 1 .. N THEN Placed(section, column, p[1], rels[p[2]]) ELSE p[1]]
           Is(h) == h = [s \in SUBSET (1 .. N) |->
                           IF s = {} THEN Start ELSE Placed(section, column, h[s \ {Max(s)}], rels[Max(s)])]
           c == CHOOSE h : Is(h)
<1>1. N \in Nat /\ DOMAIN rels = 1 .. N /\ \A n \in 1 .. N : rels[n] = n - 1 /\ n - 1 \in Heights
  BY RleAssumption DEF Heights
<1>2. \A m \in V, n \in 1 .. N : Placed(section, column, m, rels[n]) \in V
  <2> TAKE m \in V, n \in 1 .. N
  <2>1. rels[n] = n - 1 /\ n - 1 \in Heights /\ N \in Int
    BY <1>1
  <2>2. n - 1 \in Int /\ section.y * N + (n - 1) \in Int
    BY <2>1
  <2>3. MaterialAt(section, column, n - 1) \in M
    BY <2>1
  <2> HIDE DEF rels
  <2> QED
    BY <2>1, <2>2, <2>3, AddBlockType DEF Placed
<1> HIDE DEF rels
<1>3. F \in [V \X Nat -> V]
  <2> HIDE DEF V, N
  <2> QED
    BY <1>2
<1>4. Start \in V
  BY EmptySeq DEF State, Start
<1> HIDE DEF V, F
<1>5. PICK h \in [SUBSET (1 .. N) -> V] : Folding(Start, F, N, h)
  BY <1>1, <1>3, <1>4, FoldingExists
<1>6. Is(h)
  <2>1. ASSUME NEW s \in SUBSET (1 .. N)
        PROVE  h[s] = IF s = {} THEN Start ELSE Placed(section, column, h[s \ {Max(s)}], rels[Max(s)])
    <3>1. CASE s # {}
      <4>1. Max(s) \in 1 .. N /\ Max(s) \in Nat
        <5>1. Max(s) \in s
          BY <1>1, <3>1, MaxIsIn
        <5>2. \A y \in s : y \in 1 .. N /\ y \in Nat
          OBVIOUS
        <5> QED
          BY <5>1, <5>2
      <4>2. <<h[s \ {Max(s)}], Max(s)>> \in V \X Nat
        BY <1>5, <4>1
      <4>3. h[s] = F[<<h[s \ {Max(s)}], Max(s)>>]
        BY <1>5, <3>1 DEF Folding
      <4>4. \A p \in V \X Nat : F[p] = IF p[2] \in 1 .. N THEN Placed(section, column, p[1], rels[p[2]]) ELSE p[1]
        BY DEF F
      <4> DEFINE m == Max(s)
                 before == h[s \ {m}]
      <4>5. F[<<before, m>>] = IF m \in 1 .. N THEN Placed(section, column, before, rels[m]) ELSE before
        <5> HIDE DEF m, before, N
        <5> QED
          BY <4>2, <4>4 DEF m, before
      <4> QED
        BY <3>1, <4>1, <4>3, <4>5
    <3>2. CASE s = {}
      BY <1>5, <3>2 DEF Folding
    <3> QED
      BY <3>1, <3>2
  <2>2. h = [s \in SUBSET (1 .. N) |-> h[s]]
    BY <1>5
  <2> QED
    BY <2>1, <2>2
<1> HIDE DEF Is
<1>7. Is(c)
  BY <1>6
<1> HIDE DEF c
<1> DEFINE f == [n \in 0 .. N |-> c[1 .. n]]
<1>8. Encoding(section, column, f)
  <2>1. f[0] = Start
    <3>1. 1 .. 0 \in SUBSET (1 .. N) /\ 1 .. 0 = {} /\ 0 \in 0 .. N
      BY <1>1
    <3> QED
      BY <1>7, <3>1 DEF Is
  <2>2. ASSUME NEW n \in 1 .. N PROVE f[n] = Placed(section, column, f[n - 1], n - 1)
    <3>1. n - 1 \in Nat /\ (n - 1) + 1 = n /\ n \in 0 .. N /\ n - 1 \in 0 .. N /\ 1 .. n \in SUBSET (1 .. N)
      BY <1>1
    <3>2. Max(1 .. n) = n /\ (1 .. n) \ {Max(1 .. n)} = 1 .. n - 1 /\ 1 .. n # {}
      BY <3>1, MaxOfInterval
    <3>3. c[1 .. n] = Placed(section, column, c[(1 .. n) \ {Max(1 .. n)}], rels[Max(1 .. n)])
      BY <1>7, <3>1, <3>2 DEF Is
    <3> QED
      BY <1>1, <3>1, <3>2, <3>3
  <2> QED
    BY <2>1, <2>2 DEF Encoding
<1>9. SectionRuns(section, column) = c[1 .. N].runs
  BY <1>1 DEF SectionRuns, FoldLeft, MapThenFoldSet, Placed, Start, c, Is, rels
<1>10. N \in 0 .. N
  BY <1>1
<1> QED
  BY <1>8, <1>9, <1>10
-----------------------------------------------------------------------------
(* A run on top of a column, or a longer last run, keep it in order.       *)
LEMMA AppendAscending ==
  ASSUME NEW M, NEW runs \in Seq(RunOf(M)), NEW run \in RunOf(M), NEW low \in Int, NEW high \in Int,
         Ascending(runs), Above(runs, low), Below(runs, run.lo),
         low <= run.lo, run.lo <= run.hi, run.hi < high
  PROVE  Ascending(Append(runs, run)) /\ Above(Append(runs, run), low) /\ Below(Append(runs, run), high)
<1> DEFINE N == Len(runs)
           new == Append(runs, run)
<1>1. /\ N \in Nat /\ new \in Seq(RunOf(M)) /\ Len(new) = N + 1
      /\ new[N + 1] = run /\ \A n \in 1 .. N : new[n] = runs[n]
  BY AppendProperties
<1>2. run.lo \in Int /\ run.hi \in Int /\ \A n \in 1 .. N : runs[n].lo \in Int /\ runs[n].hi \in Int
  <2>1. \A n \in 1 .. N : runs[n] \in RunOf(M)
    BY ElementOfSeq
  <2>2. \A r \in RunOf(M) : r.lo \in Int /\ r.hi \in Int
    BY DEF RunOf
  <2> QED
    BY <2>1, <2>2
<1>3. \A n \in 1 .. N : /\ runs[n].lo <= runs[n].hi /\ low <= runs[n].lo /\ runs[n].hi < run.lo
                        /\ (n < N => runs[n].hi < runs[n + 1].lo)
  BY <1>1 DEF Ascending, Above, Below
<1> HIDE DEF N, new
<1>4. ASSUME NEW n \in 1 .. N + 1
      PROVE  new[n].lo <= new[n].hi /\ low <= new[n].lo /\ new[n].hi < high
  <2>1. CASE n = N + 1
    BY <1>1, <2>1
  <2>2. CASE n # N + 1
    <3>1. n \in 1 .. N /\ new[n] = runs[n]
      BY <1>1, <2>2
    <3>2. runs[n].lo <= runs[n].hi /\ low <= runs[n].lo /\ runs[n].hi < run.lo /\ runs[n].lo \in Int /\ runs[n].hi \in Int
      BY <1>2, <1>3, <3>1
    <3> QED
      BY <1>2, <3>1, <3>2
  <2> QED
    BY <2>1, <2>2
<1>5. ASSUME NEW n \in 1 .. N PROVE new[n].hi < new[n + 1].lo
  <2>1. CASE n = N
    BY <1>1, <1>3, <2>1
  <2>2. CASE n # N
    <3>1. n + 1 \in 1 .. N /\ n < N
      BY <1>1, <2>2
    <3> QED
      BY <1>1, <1>3, <3>1
  <2> QED
    BY <2>1, <2>2
<1>6. Len(new) - 1 = N
  BY <1>1
<1> QED
  BY <1>1, <1>4, <1>5, <1>6 DEF Ascending, Above, Below, new

LEMMA ExtendAscending ==
  ASSUME NEW M, NEW runs \in Seq(RunOf(M)), runs # <<>>, NEW low \in Int, NEW high \in Int, NEW top \in Int,
         Ascending(runs), Above(runs, low), Last(runs).hi <= top, top < high
  PROVE  /\ Ascending(Extended(runs, top)) /\ Above(Extended(runs, top), low) /\ Below(Extended(runs, top), high)
<1> DEFINE N == Len(runs)
           new == Extended(runs, top)
<1>1. /\ N \in Nat \ {0} /\ N \in 1 .. N /\ new \in Seq(RunOf(M)) /\ Len(new) = N
      /\ new[N] = [runs[N] EXCEPT !.hi = top] /\ \A n \in 1 .. N - 1 : new[n] = runs[n]
      /\ Last(runs) = runs[N]
  <2>1. Last(runs) = runs[N] /\ new[N] = [Last(runs) EXCEPT !.hi = top]
    BY ExtendType
  <2>2. new[N] = [runs[N] EXCEPT !.hi = top]
    BY <2>1
  <2> HIDE DEF new
  <2> QED
    BY <2>1, <2>2, ExtendType DEF new
<1>2. \A n \in 1 .. N : runs[n] \in RunOf(M)
  BY ElementOfSeq
<1>3. \A n \in 1 .. N : runs[n].lo \in Int /\ runs[n].hi \in Int
  <2>1. \A r \in RunOf(M) : r.lo \in Int /\ r.hi \in Int
    BY DEF RunOf
  <2> QED
    BY <1>2, <2>1
<1>4. new[N].lo = runs[N].lo /\ new[N].hi = top
  <2>1. runs[N] \in RunOf(M)
    BY <1>1, <1>2
  <2> QED
    BY <1>1, <2>1 DEF RunOf
<1>5. \A n \in 1 .. N : runs[n].lo <= runs[n].hi /\ low <= runs[n].lo
  BY DEF Ascending, Above
<1>6. \A n \in 1 .. N - 1 : runs[n].hi < runs[n + 1].lo
  BY DEF Ascending
<1> HIDE DEF N, new
<1>7. ASSUME NEW n \in 1 .. N - 1 PROVE runs[n].hi < runs[N].lo
  <2> DEFINE T == {k \in Nat : n + 1 + k \in 1 .. N => runs[n].hi < runs[n + 1 + k].lo}
  <2>1. 0 \in T
    BY <1>6
  <2>2. ASSUME NEW k \in Nat, k \in T PROVE k + 1 \in T
    <3>1. ASSUME n + 1 + (k + 1) \in 1 .. N PROVE runs[n].hi < runs[n + 1 + (k + 1)].lo
      <4> DEFINE m == n + 1 + k
      <4>1. m \in 1 .. N /\ m \in 1 .. N - 1 /\ m + 1 = n + 1 + (k + 1) /\ m + 1 \in 1 .. N /\ n \in 1 .. N
        <5>1. N \in Int /\ n \in Int /\ k \in Int /\ n + 1 + (k + 1) <= N /\ n >= 1 /\ k >= 0
          BY <1>1, <2>2, <3>1
        <5> QED
          BY <5>1
      <4>2. runs[n].hi < runs[m].lo
        BY <2>2, <4>1
      <4> HIDE DEF m
      <4>3. runs[m].lo <= runs[m].hi /\ runs[m].hi < runs[m + 1].lo
        BY <1>5, <1>6, <4>1
      <4>4. runs[n].hi \in Int /\ runs[m].lo \in Int /\ runs[m].hi \in Int /\ runs[m + 1].lo \in Int
        BY <1>3, <4>1
      <4>5. runs[n].hi < runs[m + 1].lo
        BY <4>2, <4>3, <4>4
      <4> QED
        BY <4>1, <4>5
    <3> QED
      BY <3>1
  <2>3. N - n - 1 \in Nat /\ n + 1 + (N - n - 1) = N
    BY <1>1
  <2> HIDE DEF T
  <2>4. N - n - 1 \in T
    BY <2>1, <2>2, <2>3, SetInduction
  <2> QED
    BY <1>1, <2>3, <2>4 DEF T
<1>8. ASSUME NEW n \in 1 .. N
      PROVE  new[n].lo <= new[n].hi /\ low <= new[n].lo /\ new[n].hi < high
  <2>1. CASE n = N
    <3>1. runs[N].lo \in Int /\ runs[N].hi \in Int /\ runs[N].lo <= runs[N].hi /\ runs[N].hi <= top /\ low <= runs[N].lo
      BY <1>1, <1>3, <1>5
    <3>2. new[N].lo <= new[N].hi /\ low <= new[N].lo /\ new[N].hi < high
      BY <1>4, <3>1
    <3> QED
      BY <2>1, <3>2
  <2>2. CASE n # N
    <3>1. n \in 1 .. N - 1 /\ new[n] = runs[n]
      BY <1>1, <2>2
    <3>2. runs[n].lo <= runs[n].hi /\ low <= runs[n].lo /\ runs[n].hi < runs[N].lo /\ runs[N].lo <= runs[N].hi
      BY <1>1, <1>5, <1>7, <3>1
    <3> QED
      BY <1>1, <1>3, <3>1, <3>2
  <2> QED
    BY <2>1, <2>2
<1>9. ASSUME NEW n \in 1 .. N - 1 PROVE new[n].hi < new[n + 1].lo
  <2>1. CASE n + 1 = N
    BY <1>1, <1>4, <1>6, <2>1
  <2>2. CASE n + 1 # N
    <3>1. n + 1 \in 1 .. N - 1
      BY <1>1, <2>2
    <3> QED
      BY <1>1, <1>6, <3>1
  <2> QED
    BY <2>1, <2>2
<1> QED
  BY <1>1, <1>8, <1>9 DEF Ascending, Above, Below, new
-----------------------------------------------------------------------------
(* What one block does to a column of a section that is encoded up to y.   *)
UpTo(state, low, y) ==
  /\ Ascending(state.runs) /\ Above(state.runs, low) /\ Below(state.runs, y)
  /\ state.open => Last(state.runs).hi = y - 1

LEMMA AddBlockKeeps ==
  ASSUME NEW M, NEW state \in State(M), NEW low \in Int, NEW y \in Int, NEW material \in M,
         UpTo(state, low, y), low <= y
  PROVE  /\ UpTo(AddBlock(state, y, material), low, y + 1)
         /\ VoxelsOfRuns(AddBlock(state, y, material).runs) =
              VoxelsOfRuns(state.runs) \cup (IF material = Air THEN {} ELSE {<<y, material>>})
<1> DEFINE runs == state.runs
           new == AddBlock(state, y, material)
<1>1. runs \in Seq(RunOf(M)) /\ state.open \in BOOLEAN /\ (state.open => runs # <<>>)
      /\ state \in [open : BOOLEAN, runs : Seq(RunOf(M))]
  BY DEF State
<1>2. Ascending(runs) /\ Above(runs, low) /\ Below(runs, y) /\ (state.open => Last(runs).hi = y - 1)
  BY DEF UpTo
<1>3. y < y + 1 /\ y - 1 <= y /\ y <= y /\ y + 1 \in Int
  OBVIOUS
<1>4. CASE material = Air
  <2>1. new.runs = runs /\ new.open = FALSE
    BY <1>1, <1>4 DEF AddBlock
  <2>2. Below(runs, y + 1)
    <3>1. ASSUME NEW n \in 1 .. Len(runs) PROVE runs[n].hi < y + 1
      <4>1. runs[n].hi \in Int
        <5> HIDE DEF runs
        <5>1. runs[n] \in RunOf(M)
          BY <1>1, ElementOfSeq
        <5> QED
          BY <5>1 DEF RunOf
      <4>2. runs[n].hi < y
        BY <1>2 DEF Below
      <4> QED
        BY <4>1, <4>2
    <3> QED
      BY <3>1 DEF Below
  <2> QED
    BY <1>2, <1>4, <2>1, <2>2 DEF UpTo
<1>5. CASE material # Air /\ state.open /\ Last(runs).material = material
  <2> DEFINE longer == Extended(runs, y)
  <2>1. new = [state EXCEPT !.runs = longer]
    BY <1>1, <1>5 DEF AddBlock, Extended
  <2>2. new.runs = longer /\ runs # <<>> /\ Last(runs).hi = y - 1
    BY <1>1, <1>2, <1>5, <2>1
  <2> HIDE DEF runs, new
  <2>3. Last(runs) = runs[Len(runs)] /\ Len(runs) \in 1 .. Len(runs)
    BY <1>1, <2>2, ExtendType
  <2>4. Last(runs).lo <= Last(runs).hi
    BY <1>2, <2>3 DEF Ascending
  <2>5. Last(runs).hi <= y
    BY <1>3, <2>2
  <2>6. VoxelsOfRuns(longer) = VoxelsOfRuns(runs) \cup {<<z, Last(runs).material>> : z \in Last(runs).hi + 1 .. y}
    BY <1>1, <2>2, <2>4, <2>5, ExtendRun
  <2>7. Last(runs).hi + 1 .. y = {y}
    <3>1. Last(runs).hi + 1 = y
      BY <2>2
    <3>2. y .. y = {y}
      OBVIOUS
    <3> QED
      BY <3>1, <3>2
  <2>8. VoxelsOfRuns(longer) = VoxelsOfRuns(runs) \cup {<<y, material>>}
    BY <1>5, <2>6, <2>7
  <2>9. Ascending(longer) /\ Above(longer, low) /\ Below(longer, y + 1)
    BY <1>1, <1>2, <1>3, <2>2, <2>5, ExtendAscending
  <2>10. Last(longer).hi = y
    <3>1. Len(longer) = Len(runs) /\ longer[Len(runs)] = [Last(runs) EXCEPT !.hi = y] /\ Last(runs) \in RunOf(M)
      BY <1>1, <2>2, ExtendType
    <3> HIDE DEF longer
    <3>2. longer[Len(runs)].hi = y
      BY <3>1 DEF RunOf
    <3> QED
      BY <3>1, <3>2 DEF Last
  <2>11. (y + 1) - 1 = y
    OBVIOUS
  <2> HIDE DEF longer
  <2> QED
    BY <1>5, <2>2, <2>8, <2>9, <2>10, <2>11 DEF UpTo, new, runs
<1>6. CASE material # Air /\ ~(state.open /\ Last(runs).material = material)
  <2> DEFINE run == Run(y, y, material)
             longer == Append(runs, run)
  <2>1. new = [open |-> TRUE, runs |-> longer]
    BY <1>6 DEF AddBlock
  <2>2. new.runs = longer
    BY <2>1
  <2>3. run \in RunOf(M) /\ run.lo = y /\ run.hi = y /\ run.material = material
    BY DEF Run, RunOf
  <2> HIDE DEF runs, new, run
  <2>4. Filled(run) = {<<y, material>>}
    <3>1. y .. y = {y}
      OBVIOUS
    <3> QED
      BY <2>3, <3>1 DEF Filled
  <2>5. VoxelsOfRuns(longer) = VoxelsOfRuns(runs) \cup {<<y, material>>}
    BY <1>1, <2>3, <2>4, AppendRun
  <2>6. Ascending(longer) /\ Above(longer, low) /\ Below(longer, y + 1)
    <3>1. Below(runs, run.lo) /\ low <= run.lo /\ run.lo <= run.hi /\ run.hi < y + 1
      BY <1>2, <1>3, <2>3
    <3> QED
      BY <1>1, <1>2, <1>3, <2>3, <3>1, AppendAscending
  <2>7. Last(longer).hi = y
    <3>1. Len(longer) = Len(runs) + 1 /\ longer[Len(runs) + 1] = run
      BY <1>1, <2>3, AppendProperties
    <3> HIDE DEF longer
    <3> QED
      BY <2>3, <3>1 DEF Last
  <2>8. (y + 1) - 1 = y
    OBVIOUS
  <2> HIDE DEF longer
  <2> QED
    BY <1>6, <2>2, <2>5, <2>6, <2>7, <2>8 DEF UpTo, new, runs
<1> QED
  BY <1>4, <1>5, <1>6

(* A column of a section: all its solid blocks, in order, within the       *)
(* section.                                                                *)
Base(section) == section.y * SecHeight
Solid(section, column, rels) ==
  {<<Base(section) + r, MaterialAt(section, column, r)>> : r \in {q \in rels : MaterialAt(section, column, q) # Air}}

LEMMA SectionColumn ==
  ASSUME NEW M, NEW section, section.y \in Int, NEW column,
         \A rel \in Heights : MaterialAt(section, column, rel) \in M
  PROVE  /\ SectionRuns(section, column) \in Seq(RunOf(M))
         /\ VoxelsOfRuns(SectionRuns(section, column)) = Solid(section, column, Heights)
         /\ Ascending(SectionRuns(section, column))
         /\ Above(SectionRuns(section, column), Base(section))
         /\ Below(SectionRuns(section, column), Base(section) + SecHeight)
<1>1. PICK f : Encoding(section, column, f) /\ SectionRuns(section, column) = f[SecHeight].runs
  BY SectionFolds
<1> DEFINE N == SecHeight
           low == Base(section)
           Good(n) == /\ f[n] \in State(M) /\ UpTo(f[n], low, low + n)
                      /\ VoxelsOfRuns(f[n].runs) = Solid(section, column, 0 .. n - 1)
           T == {n \in Nat : n \in 0 .. N => Good(n)}
<1>2. N \in Nat /\ N \in Int /\ low \in Int /\ Heights = 0 .. N - 1
  BY RleAssumption DEF Heights, Base
<1>3. 0 \in T
  <2>1. f[0] = Start
    BY <1>1 DEF Encoding
  <2>2. Start \in State(M) /\ Start.runs = <<>> /\ Start.open = FALSE
    BY EmptySeq DEF State, Start
  <2>3. UpTo(Start, low, low + 0)
    BY <2>2 DEF UpTo, Ascending, Above, Below
  <2>4. VoxelsOfRuns(<<>>) = {} /\ Solid(section, column, 0 .. 0 - 1) = {}
    BY DEF VoxelsOfRuns, Solid
  <2> QED
    BY <2>1, <2>2, <2>3, <2>4
<1>4. ASSUME NEW n \in Nat, n \in T PROVE n + 1 \in T
  <2>1. ASSUME n + 1 \in 0 .. N PROVE Good(n + 1)
    <3>1. n \in 0 .. N /\ n \in Heights /\ n + 1 \in 1 .. N /\ (n + 1) - 1 = n
      BY <1>2, <2>1
    <3> DEFINE y == low + n
               material == MaterialAt(section, column, n)
    <3>2. f[n + 1] = AddBlock(f[n], y, material)
      BY <1>1, <3>1 DEF Encoding, Placed, Base
    <3>3. y \in Int /\ material \in M /\ low <= y /\ y + 1 = low + (n + 1)
      BY <1>2, <3>1
    <3>4. Good(n)
      BY <1>4, <3>1
    <3> HIDE DEF y, material, low
    <3>5. f[n] \in State(M) /\ UpTo(f[n], low, y) /\ VoxelsOfRuns(f[n].runs) = Solid(section, column, 0 .. n - 1)
      BY <3>4 DEF y
    <3> HIDE DEF Good
    <3>6. /\ UpTo(AddBlock(f[n], y, material), low, y + 1)
          /\ VoxelsOfRuns(AddBlock(f[n], y, material).runs) =
               VoxelsOfRuns(f[n].runs) \cup (IF material = Air THEN {} ELSE {<<y, material>>})
      BY <1>2, <3>3, <3>5, AddBlockKeeps
    <3>7. AddBlock(f[n], y, material) \in State(M)
      BY <3>3, <3>5, AddBlockType
    <3>8. Solid(section, column, 0 .. (n + 1) - 1) =
            Solid(section, column, 0 .. n - 1) \cup (IF material = Air THEN {} ELSE {<<y, material>>})
      <4>1. 0 .. (n + 1) - 1 = (0 .. n - 1) \cup {n}
        BY <3>1
      <4>2. ASSUME NEW v
            PROVE  v \in Solid(section, column, (0 .. n - 1) \cup {n}) <=>
                     v \in Solid(section, column, 0 .. n - 1) \/ (material # Air /\ v = <<y, material>>)
        BY DEF Solid, y, material, low
      <4> HIDE DEF N
      <4> QED
        BY <4>1, <4>2
    <3> QED
      BY <3>2, <3>3, <3>5, <3>6, <3>7, <3>8 DEF Good
  <2> QED
    BY <2>1
<1> HIDE DEF T
<1>5. Good(N)
  <2>1. N \in 0 .. N
    BY <1>2
  <2>2. N \in T
    BY <1>2, <1>3, <1>4, SetInduction
  <2> QED
    BY <2>1, <2>2 DEF T
<1> HIDE DEF low
<1> QED
  BY <1>1, <1>2, <1>5 DEF State, UpTo, low

(* So does the run of a section of one material.                           *)
LEMMA NewColumn ==
  ASSUME NEW M, NEW section, section.y \in Int, section.block \in [Columns -> [Heights -> Nat]], NEW column \in Columns,
         \A rel \in Heights : MaterialAt(section, column, rel) \in M
  PROVE  /\ NewRuns(section)[column] \in Seq(RunOf(M))
         /\ VoxelsOfRuns(NewRuns(section)[column]) = Solid(section, column, Heights)
         /\ Ascending(NewRuns(section)[column])
         /\ Above(NewRuns(section)[column], Base(section))
         /\ Below(NewRuns(section)[column], Base(section) + SecHeight)
<1>1. CASE ~Uniform(section)
  <2>1. NewRuns(section)[column] = SectionRuns(section, column)
    BY <1>1 DEF NewRuns
  <2> QED
    BY <2>1, SectionColumn
<1>2. CASE Uniform(section)
  <2> DEFINE material == Material(section, 1)
             low == Base(section)
             run == Run(low, low + SecHeight - 1, material)
  <2>1. NewRuns(section)[column] = <<run>>
    BY <1>2 DEF NewRuns, UniformRuns, Base
  <2>2. SecHeight \in Nat \ {0} /\ low \in Int /\ Heights = 0 .. SecHeight - 1 /\ 0 \in Heights
    BY RleAssumption DEF Heights, Base
  <2>3. \A rel \in Heights : MaterialAt(section, column, rel) = material
    <3> TAKE rel \in Heights
    <3>1. section.palette # <<>> /\ Len(section.palette) = 1
      <4>1. Len(section.palette) = 1 /\ Len(<<>>) = 0
        BY <1>2, EmptySeq DEF Uniform
      <4>2. ASSUME section.palette = <<>> PROVE FALSE
        <5> DEFINE palette == section.palette
        <5>1. palette = <<>> /\ Len(palette) = 1
          BY <4>1, <4>2
        <5> HIDE DEF palette
        <5>2. Len(palette) = 0
          BY <5>1, EmptySeq
        <5> QED
          BY <5>1, <5>2
      <4> QED
        BY <4>1, <4>2
    <3>2. section.block[column][rel] \in Nat
      OBVIOUS
    <3> DEFINE idx == section.block[column][rel]
    <3>3. (IF idx < 1 THEN idx + 1 ELSE 1) = 1
      BY <3>2
    <3>4. MaterialAt(section, column, rel) = Material(section, IF idx < 1 THEN idx + 1 ELSE 1)
      BY <3>1 DEF MaterialAt
    <3> QED
      BY <3>3, <3>4
  <2>4. material \in M /\ material # Air
    BY <1>2, <2>2, <2>3 DEF Uniform
  <2>5. run \in RunOf(M) /\ run.lo = low /\ run.hi = low + SecHeight - 1 /\ run.material = material
    BY <2>2, <2>4 DEF Run, RunOf
  <2> HIDE DEF run
  <2>6. <<run>> \in Seq(RunOf(M)) /\ Len(<<run>>) = 1 /\ <<run>>[1] = run
    BY <2>5
  <2>7. Filled(run) = Solid(section, column, Heights)
    <3>1. ASSUME NEW v PROVE v \in Filled(run) <=> v \in Solid(section, column, Heights)
      <4>1. v \in Filled(run) <=> \E y \in low .. low + SecHeight - 1 : v = <<y, material>>
        BY <2>5 DEF Filled
      <4>2. v \in Solid(section, column, Heights) <=> \E r \in Heights : v = <<low + r, material>>
        BY <2>3, <2>4 DEF Solid
      <4> HIDE DEF low, material
      <4>3. \A y \in low .. low + SecHeight - 1 : y - low \in Heights /\ low + (y - low) = y
        BY <2>2
      <4>4. \A r \in Heights : low + r \in low .. low + SecHeight - 1
        BY <2>2
      <4> QED
        BY <4>1, <4>2, <4>3, <4>4
    <3> QED
      BY <3>1
  <2>8. VoxelsOfRuns(<<run>>) = Filled(run)
    <3>1. ASSUME NEW v PROVE v \in VoxelsOfRuns(<<run>>) <=> v \in Filled(run)
      <4>1. v \in VoxelsOfRuns(<<run>>) <=> \E n \in 1 .. 1 : v \in Filled(<<run>>[n])
        BY <2>6, VoxelsIn
      <4>2. 1 .. 1 = {1}
        OBVIOUS
      <4> QED
        BY <2>6, <4>1, <4>2
    <3> QED
      BY <3>1
  <2>9. run.lo <= run.hi /\ low <= run.lo /\ run.hi < low + SecHeight
    BY <2>2, <2>5
  <2>10. Ascending(<<run>>) /\ Above(<<run>>, low) /\ Below(<<run>>, low + SecHeight)
    <3> DEFINE runs == <<run>>
    <3>1. \A n \in 1 .. Len(runs) : runs[n] = run
      BY <2>6
    <3>2. ~ \E n \in 1 .. Len(runs) - 1 : TRUE
      BY <2>6
    <3> HIDE DEF runs
    <3>3. Ascending(runs) /\ Above(runs, low) /\ Below(runs, low + SecHeight)
      BY <2>9, <3>1, <3>2 DEF Ascending, Above, Below
    <3> QED
      BY <3>3 DEF runs
  <2> QED
    BY <2>1, <2>6, <2>7, <2>8, <2>10
<1> QED
  BY <1>1, <1>2

(* A section goes on top of those below it.                                *)
LEMMA Stack ==
  ASSUME NEW M, NEW runs \in Seq(RunOf(M)), NEW new \in Seq(RunOf(M)), NEW low \in Int, NEW high \in Int, NEW top \in Int,
         Ascending(runs), Below(runs, low), Ascending(new), Above(new, low), Below(new, high)
  PROVE  /\ runs \o new \in Seq(RunOf(M))
         /\ VoxelsOfRuns(runs \o new) = VoxelsOfRuns(runs) \cup VoxelsOfRuns(new)
         /\ Ascending(runs \o new)
         /\ Below(runs, top) /\ high <= top => Below(runs \o new, top)
<1> DEFINE N == Len(runs)
           K == Len(new)
           both == runs \o new
<1>1. /\ N \in Nat /\ K \in Nat /\ both \in Seq(RunOf(M)) /\ Len(both) = N + K
      /\ \A n \in 1 .. N + K : both[n] = IF n <= N THEN runs[n] ELSE new[n - N]
  BY ConcatProperties, LenProperties
<1>2. /\ \A n \in 1 .. N : runs[n].lo \in Int /\ runs[n].hi \in Int
      /\ \A n \in 1 .. K : new[n].lo \in Int /\ new[n].hi \in Int
  <2>1. (\A n \in 1 .. N : runs[n] \in RunOf(M)) /\ (\A n \in 1 .. K : new[n] \in RunOf(M))
    BY ElementOfSeq
  <2>2. \A r \in RunOf(M) : r.lo \in Int /\ r.hi \in Int
    BY DEF RunOf
  <2> QED
    BY <2>1, <2>2
<1>3. \A n \in 1 .. N : /\ runs[n].lo <= runs[n].hi /\ runs[n].hi < low
                        /\ (n \in 1 .. N - 1 => runs[n].hi < runs[n + 1].lo)
                        /\ (Below(runs, top) => runs[n].hi < top)
  BY DEF Ascending, Below
<1>4. \A n \in 1 .. K : /\ new[n].lo <= new[n].hi /\ low <= new[n].lo /\ new[n].hi < high
                        /\ (n \in 1 .. K - 1 => new[n].hi < new[n + 1].lo)
  BY DEF Ascending, Above, Below
<1> HIDE DEF N, K, both
<1>5. ASSUME NEW n \in 1 .. N + K
      PROVE  both[n].lo <= both[n].hi /\ (Below(runs, top) /\ high <= top => both[n].hi < top)
  <2>1. CASE n <= N
    <3>1. n \in 1 .. N /\ both[n] = runs[n]
      BY <1>1, <2>1
    <3> QED
      BY <1>3, <3>1
  <2>2. CASE ~(n <= N)
    <3>1. n - N \in 1 .. K /\ both[n] = new[n - N]
      BY <1>1, <2>2
    <3>2. new[n - N].hi \in Int /\ new[n - N].hi < high /\ new[n - N].lo <= new[n - N].hi
      BY <1>2, <1>4, <3>1
    <3> QED
      BY <3>1, <3>2
  <2> QED
    BY <2>1, <2>2
<1>6. ASSUME NEW n \in 1 .. N + K - 1 PROVE both[n].hi < both[n + 1].lo
  <2>0. n \in 1 .. N + K /\ n + 1 \in 1 .. N + K
    BY <1>1
  <2>1. CASE n + 1 <= N
    <3>1. n \in 1 .. N - 1 /\ n \in 1 .. N /\ both[n] = runs[n] /\ both[n + 1] = runs[n + 1]
      BY <1>1, <2>0, <2>1
    <3> QED
      BY <1>3, <3>1
  <2>2. CASE n = N
    <3>1. n \in 1 .. N /\ n + 1 - N = 1 /\ 1 \in 1 .. K /\ ~(n + 1 <= N) /\ n <= N
      BY <1>1, <2>0, <2>2
    <3>2. both[n] = runs[n] /\ both[n + 1] = new[1]
      BY <1>1, <2>0, <3>1
    <3>3. runs[n].hi \in Int /\ new[1].lo \in Int /\ runs[n].hi < low /\ low <= new[1].lo
      BY <1>2, <1>3, <1>4, <3>1
    <3> QED
      BY <3>2, <3>3
  <2>3. CASE n > N
    <3> DEFINE m == n - N
    <3>1. m \in 1 .. K - 1 /\ m \in 1 .. K /\ n + 1 - N = m + 1 /\ ~(n + 1 <= N) /\ ~(n <= N)
      BY <1>1, <2>0, <2>3
    <3>2. both[n] = new[m] /\ both[n + 1] = new[n + 1 - N]
      BY <1>1, <2>0, <3>1
    <3> HIDE DEF m
    <3>3. new[m].hi < new[m + 1].lo
      BY <1>4, <3>1
    <3> QED
      BY <3>1, <3>2, <3>3
  <2> QED
    BY <1>1, <2>1, <2>2, <2>3
<1>7. ASSUME NEW v PROVE v \in VoxelsOfRuns(both) <=> v \in VoxelsOfRuns(runs) \/ v \in VoxelsOfRuns(new)
  <2>1. v \in VoxelsOfRuns(runs) <=> \E n \in 1 .. N : v \in Filled(runs[n])
    BY VoxelsIn DEF N
  <2>2. v \in VoxelsOfRuns(new) <=> \E n \in 1 .. K : v \in Filled(new[n])
    BY VoxelsIn DEF K
  <2>3. v \in VoxelsOfRuns(both) <=> \E n \in 1 .. N + K : v \in Filled(both[n])
    BY <1>1, VoxelsIn
  <2>4. \A n \in 1 .. N : n \in 1 .. N + K /\ both[n] = runs[n]
    BY <1>1
  <2>5. \A n \in 1 .. K : n + N \in 1 .. N + K /\ both[n + N] = new[n]
    <3> TAKE n \in 1 .. K
    <3>1. n + N \in 1 .. N + K /\ ~(n + N <= N) /\ n + N - N = n
      BY <1>1
    <3> QED
      BY <1>1, <3>1
  <2>6. \A n \in 1 .. N + K : \/ n \in 1 .. N /\ both[n] = runs[n]
                              \/ n - N \in 1 .. K /\ both[n] = new[n - N]
    BY <1>1
  <2> QED
    BY <2>1, <2>2, <2>3, <2>4, <2>5, <2>6
<1>8. VoxelsOfRuns(both) = VoxelsOfRuns(runs) \cup VoxelsOfRuns(new)
  BY <1>7
<1>9. Ascending(both)
  <2>1. Len(both) = N + K /\ Len(both) - 1 = N + K - 1
    BY <1>1
  <2> QED
    BY <1>5, <1>6, <2>1 DEF Ascending
<1>10. Below(runs, top) /\ high <= top => Below(both, top)
  BY <1>1, <1>5 DEF Below
<1> QED
  BY <1>1, <1>8, <1>9, <1>10 DEF both
-----------------------------------------------------------------------------
(* Merging keeps the voxels and leaves no two runs that could be one.      *)
Apart(runs) == \A n \in 1 .. Len(runs) - 1 : ~Touches(runs[n], runs[n + 1])
FilledTo(runs, n) == UNION {Filled(runs[k]) : k \in 1 .. n}

LEMMA MergedKeeps ==
  ASSUME NEW M, NEW merged \in Seq(RunOf(M)), NEW run \in RunOf(M), NEW low \in Int,
         Ascending(merged), Above(merged, low), Apart(merged), merged # <<>> => Last(merged).hi < run.lo,
         low <= run.lo, run.lo <= run.hi
  PROVE  /\ Merged(merged, run) \in Seq(RunOf(M)) /\ Merged(merged, run) # <<>>
         /\ Last(Merged(merged, run)).hi = run.hi
         /\ VoxelsOfRuns(Merged(merged, run)) = VoxelsOfRuns(merged) \cup Filled(run)
         /\ Ascending(Merged(merged, run)) /\ Above(Merged(merged, run), low) /\ Apart(Merged(merged, run))
<1> DEFINE N == Len(merged)
           new == Merged(merged, run)
<1>1. N \in Nat /\ run.lo \in Int /\ run.hi \in Int /\ run.hi < run.hi + 1 /\ run.hi + 1 \in Int
  BY DEF RunOf
<1>2. ASSUME merged # <<>>
      PROVE  /\ N \in Nat \ {0} /\ N \in 1 .. N /\ Last(merged) = merged[N] /\ Last(merged) \in RunOf(M)
             /\ Last(merged).lo \in Int /\ Last(merged).hi \in Int /\ Last(merged).hi < run.lo
             /\ Last(merged).lo <= Last(merged).hi
  <2>1. N \in Nat \ {0} /\ N \in 1 .. N /\ Last(merged) = merged[N] /\ Last(merged) \in RunOf(M)
    BY <1>1, <1>2, ExtendType
  <2>2. \A r \in RunOf(M) : r.lo \in Int /\ r.hi \in Int
    BY DEF RunOf
  <2>3. merged[N].lo <= merged[N].hi
    BY <2>1 DEF Ascending
  <2> HIDE DEF N
  <2> QED
    BY <1>2, <2>1, <2>2, <2>3
<1>3. CASE merged # <<>> /\ Touches(Last(merged), run)
  <2> DEFINE last == Last(merged)
  <2>1. new = Extended(merged, run.hi)
    BY <1>3 DEF Merged
  <2>2. last.material = run.material /\ last.hi + 1 = run.lo /\ last.hi <= run.hi /\ last.lo <= last.hi
    BY <1>1, <1>2, <1>3 DEF Touches
  <2>3. /\ new \in Seq(RunOf(M)) /\ Len(new) = N /\ new[N] = [last EXCEPT !.hi = run.hi]
        /\ \A n \in 1 .. N - 1 : new[n] = merged[n]
    BY <1>1, <1>3, <2>1, ExtendType
  <2>4. VoxelsOfRuns(new) = VoxelsOfRuns(merged) \cup {<<y, last.material>> : y \in last.hi + 1 .. run.hi}
    BY <1>1, <1>3, <2>1, <2>2, ExtendRun
  <2>5. {<<y, last.material>> : y \in last.hi + 1 .. run.hi} = Filled(run)
    <3> HIDE DEF last
    <3> QED
      BY <2>2 DEF Filled
  <2>6. Ascending(new) /\ Above(new, low)
    BY <1>1, <1>3, <2>1, <2>2, ExtendAscending
  <2> HIDE DEF new
  <2>7. new[N].hi = run.hi /\ new[N].lo = last.lo /\ new[N].material = last.material
    <3>1. last \in RunOf(M)
      BY <1>2, <1>3
    <3> HIDE DEF last
    <3> QED
      BY <2>3, <3>1 DEF RunOf
  <2>8. new # <<>> /\ Last(new).hi = run.hi
    BY <1>2, <1>3, <2>3, <2>7 DEF Last
  <2>9. ASSUME NEW n \in 1 .. N - 1 PROVE ~Touches(new[n], new[n + 1])
    <3>1. ~Touches(merged[n], merged[n + 1])
      BY DEF Apart
    <3>2. CASE n + 1 = N
      <4>1. new[n] = merged[n] /\ merged[n + 1] = last /\ new[n + 1].lo = last.lo /\ new[n + 1].material = last.material
        BY <1>2, <1>3, <2>3, <2>7, <3>2
      <4> HIDE DEF last
      <4> QED
        BY <3>1, <4>1 DEF Touches
    <3>3. CASE n + 1 # N
      <4>1. n + 1 \in 1 .. N - 1
        BY <1>1, <3>3
      <4> QED
        BY <2>3, <3>1, <4>1
    <3> QED
      BY <3>2, <3>3
  <2>10. Apart(new)
    BY <2>3, <2>9 DEF Apart
  <2> QED
    BY <2>3, <2>4, <2>5, <2>6, <2>8, <2>10 DEF new
<1>4. CASE ~(merged # <<>> /\ Touches(Last(merged), run))
  <2>1. new = Append(merged, run)
    BY <1>4 DEF Merged
  <2>2. new \in Seq(RunOf(M)) /\ VoxelsOfRuns(new) = VoxelsOfRuns(merged) \cup Filled(run)
    BY <2>1, AppendRun
  <2>3. Len(new) = N + 1 /\ new[N + 1] = run /\ \A n \in 1 .. N : new[n] = merged[n]
    BY <2>1, AppendProperties
  <2>4. new # <<>> /\ Last(new).hi = run.hi
    <3>1. new # <<>>
      BY <1>1, <2>3
    <3> HIDE DEF new
    <3> QED
      BY <2>3, <3>1 DEF Last
  <2>5. Below(merged, run.lo)
    <3>1. CASE merged = <<>>
      BY <3>1 DEF Below
    <3>2. CASE merged # <<>>
      <4> DEFINE longer == Extended(merged, Last(merged).hi)
      <4>1. Below(longer, run.lo)
        <5> DEFINE top == Last(merged).hi
        <5>1. top \in Int /\ Last(merged).hi <= top /\ top < run.lo
          BY <1>2, <3>2
        <5> HIDE DEF top
        <5>2. Below(Extended(merged, top), run.lo)
          BY <1>1, <3>2, <5>1, ExtendAscending
        <5> QED
          BY <5>2 DEF top
      <4>2. Len(longer) = N /\ \A n \in 1 .. N - 1 : longer[n] = merged[n]
        BY <1>2, <3>2, ExtendType
      <4> HIDE DEF longer
      <4>3. ASSUME NEW n \in 1 .. N PROVE merged[n].hi < run.lo
        <5>1. CASE n = N
          BY <1>2, <3>2, <5>1
        <5>2. CASE n # N
          <6>1. n \in 1 .. N - 1
            BY <1>1, <5>2
          <6> QED
            BY <4>1, <4>2, <6>1 DEF Below
        <5> QED
          BY <5>1, <5>2
      <4> QED
        BY <4>3 DEF Below
    <3> QED
      BY <3>1, <3>2
  <2>6. Ascending(new) /\ Above(new, low)
    BY <1>1, <2>1, <2>5, AppendAscending
  <2> HIDE DEF new
  <2>7. ASSUME NEW n \in 1 .. N PROVE ~Touches(new[n], new[n + 1])
    <3>1. CASE n = N
      <4>1. merged # <<>> /\ Last(merged) = merged[N]
        <5>1. N # 0
          BY <1>1, <3>1
        <5>2. merged # <<>>
          BY <5>1
        <5> QED
          BY <1>2, <5>2
      <4>2. new[n] = Last(merged) /\ new[n + 1] = run
        BY <2>3, <3>1, <4>1
      <4> QED
        BY <1>4, <4>1, <4>2
    <3>2. CASE n # N
      <4>1. n \in 1 .. N - 1 /\ n + 1 \in 1 .. N
        BY <1>1, <3>2
      <4>2. new[n] = merged[n] /\ new[n + 1] = merged[n + 1]
        BY <2>3, <4>1
      <4> QED
        BY <4>1, <4>2 DEF Apart
    <3> QED
      BY <3>1, <3>2
  <2>8. Apart(new)
    <3>1. Len(new) - 1 = N
      BY <1>1, <2>3
    <3> QED
      BY <2>7, <3>1 DEF Apart
  <2> QED
    BY <2>2, <2>4, <2>6, <2>8 DEF new
<1> QED
  BY <1>3, <1>4

LEMMA MergeColumn ==
  ASSUME NEW M, NEW runs \in Seq(RunOf(M)), NEW low \in Int, Ascending(runs), Above(runs, low)
  PROVE  /\ MergeRuns(runs) \in Seq(RunOf(M))
         /\ VoxelsOfRuns(MergeRuns(runs)) = VoxelsOfRuns(runs)
         /\ Ascending(MergeRuns(runs)) /\ Apart(MergeRuns(runs))
<1>1. PICK f : Merging(runs, f) /\ MergeRuns(runs) = f[Len(runs)]
  BY MergeFolds
<1> DEFINE N == Len(runs)
           Good(n) == /\ f[n] \in Seq(RunOf(M)) /\ Ascending(f[n]) /\ Above(f[n], low) /\ Apart(f[n])
                      /\ f[n] # <<>> => n \in 1 .. N /\ Last(f[n]).hi = runs[n].hi
                      /\ VoxelsOfRuns(f[n]) = FilledTo(runs, n)
           T == {n \in Nat : n \in 0 .. N => Good(n)}
<1>2. N \in Nat /\ \A n \in 1 .. N : runs[n] \in RunOf(M)
  BY ElementOfSeq
<1>3. 0 \in T
  <2>1. f[0] = <<>>
    BY <1>1 DEF Merging
  <2>2. Ascending(<<>>) /\ Above(<<>>, low) /\ Apart(<<>>) /\ <<>> \in Seq(RunOf(M))
    BY EmptySeq DEF Ascending, Above, Apart
  <2>3. VoxelsOfRuns(<<>>) = {} /\ FilledTo(runs, 0) = {}
    BY DEF VoxelsOfRuns, FilledTo
  <2> QED
    BY <2>1, <2>2, <2>3
<1>4. ASSUME NEW n \in Nat, n \in T PROVE n + 1 \in T
  <2>1. ASSUME n + 1 \in 0 .. N PROVE Good(n + 1)
    <3> DEFINE run == runs[n + 1]
    <3>1. n \in 0 .. N /\ n + 1 \in 1 .. N /\ (n + 1) - 1 = n /\ (n \in 1 .. N => n \in 1 .. N - 1)
      BY <1>2, <2>1
    <3>2. f[n + 1] = Merged(f[n], run)
      BY <1>1, <3>1 DEF Merging
    <3>3. run \in RunOf(M) /\ low <= run.lo /\ run.lo <= run.hi
      BY <1>2, <3>1 DEF Above, Ascending
    <3>4. Good(n)
      BY <1>4, <3>1
    <3>5. f[n] # <<>> => Last(f[n]).hi < run.lo
      BY <3>1, <3>4 DEF Ascending
    <3>6. /\ f[n] \in Seq(RunOf(M)) /\ Ascending(f[n]) /\ Above(f[n], low) /\ Apart(f[n])
          /\ VoxelsOfRuns(f[n]) = FilledTo(runs, n)
      BY <3>4
    <3> DEFINE old == f[n]
               new == Merged(old, run)
    <3> HIDE DEF Good, old, run, new
    <3>7. /\ new \in Seq(RunOf(M)) /\ new # <<>> /\ Last(new).hi = run.hi
          /\ VoxelsOfRuns(new) = VoxelsOfRuns(old) \cup Filled(run)
          /\ Ascending(new) /\ Above(new, low) /\ Apart(new)
      BY <3>3, <3>5, <3>6, MergedKeeps DEF new, old
    <3>8. FilledTo(runs, n + 1) = FilledTo(runs, n) \cup Filled(run)
      <4>1. 1 .. n + 1 = (1 .. n) \cup {n + 1}
        OBVIOUS
      <4>2. ASSUME NEW v
            PROVE  v \in FilledTo(runs, n + 1) <=> v \in FilledTo(runs, n) \/ v \in Filled(run)
        BY <4>1 DEF FilledTo, run
      <4> QED
        BY <4>2
    <3>9. f[n + 1] = new /\ VoxelsOfRuns(new) = FilledTo(runs, n + 1) /\ run = runs[n + 1]
      BY <3>2, <3>6, <3>7, <3>8 DEF old, new, run
    <3> QED
      BY <3>1, <3>7, <3>9 DEF Good
  <2> QED
    BY <2>1
<1> HIDE DEF T
<1>5. Good(N)
  <2>1. N \in 0 .. N
    BY <1>2
  <2>2. N \in T
    BY <1>2, <1>3, <1>4, SetInduction
  <2> QED
    BY <2>1, <2>2 DEF T
<1>6. FilledTo(runs, N) = VoxelsOfRuns(runs)
  <2>1. ASSUME NEW v PROVE v \in FilledTo(runs, N) <=> v \in VoxelsOfRuns(runs)
    BY VoxelsIn DEF FilledTo
  <2> QED
    BY <2>1
<1> QED
  BY <1>1, <1>5, <1>6
-----------------------------------------------------------------------------
(***************************************************************************)
(* The chunk.  What the invariant adds to the three properties: the runs   *)
(* of a column end below every section that is still to come, and the      *)
(* height range holds from the first section on.                           *)
(***************************************************************************)
Sections == UNION {Range(sections) : sections \in Chunks}
Materials == {MaterialAt(section, c, rel) : section \in Sections, c \in Columns, rel \in Heights}
Active == {i \in DOMAIN chunk : ~chunk[i].is_empty_air}
TakenVoxels == UNION {SolidVoxels(c, Taken) : c \in Columns}

TypeOK ==
  /\ chunk \in Chunks /\ todo \in SUBSET Active
  /\ columns \in [Columns -> Seq(RunOf(Materials))]
  /\ min_y \in Int /\ max_y \in Int
  /\ phase \in {"voxelize", "done"}

InOrder ==
  \A c \in Columns :
    /\ Ascending(columns[c])
    /\ \A i \in todo : Below(columns[c], Base(chunk[i]))
    /\ phase = "done" => Apart(columns[c])

InRange ==
  phase = "voxelize" =>
    /\ \A v \in TakenVoxels : min_y <= v[1] /\ v[1] <= max_y
    /\ min_y = MinStart \/ (min_y <= MinStart /\ \E v \in TakenVoxels : v[1] = min_y)
    /\ max_y = MaxStart \/ (MaxStart <= max_y /\ \E v \in TakenVoxels : v[1] = max_y)

IInv ==
  /\ TypeOK /\ Lossless /\ InOrder /\ InRange /\ HeightsTight
  /\ phase = "done" => todo = {}

(* A chunk's sections, and where they stand.                               *)
LEMMA ChunkFacts ==
  ASSUME TypeOK
  PROVE  /\ chunk \in Seq(Range(chunk)) /\ DOMAIN chunk = 1 .. Len(chunk) /\ Len(chunk) \in Nat
         /\ \A i \in DOMAIN chunk :
              /\ chunk[i] \in Sections /\ chunk[i].y \in Int /\ chunk[i].is_empty_air \in BOOLEAN
              /\ chunk[i].block \in [Columns -> [Heights -> Nat]] /\ Base(chunk[i]) \in Int
              /\ \A c \in Columns, rel \in Heights : MaterialAt(chunk[i], c, rel) \in Materials
         /\ \A i, j \in Active : chunk[i].y = chunk[j].y => i = j
<1>1. chunk \in Chunks
  BY DEF TypeOK
<1>2. chunk \in Seq(Range(chunk))
  BY <1>1, ChunksAssumption
<1>3. DOMAIN chunk = 1 .. Len(chunk) /\ Len(chunk) \in Nat
  BY <1>2, LenProperties
<1>4. ASSUME NEW i \in DOMAIN chunk
      PROVE  /\ chunk[i] \in Sections /\ chunk[i].y \in Int /\ chunk[i].is_empty_air \in BOOLEAN
             /\ chunk[i].block \in [Columns -> [Heights -> Nat]] /\ Base(chunk[i]) \in Int
             /\ \A c \in Columns, rel \in Heights : MaterialAt(chunk[i], c, rel) \in Materials
  <2>1. chunk[i] \in Range(chunk)
    BY DEF Range
  <2>2. chunk[i] \in Sections
    BY <1>1, <2>1 DEF Sections
  <2>3. chunk[i].y \in Int /\ chunk[i].is_empty_air \in BOOLEAN /\ chunk[i].block \in [Columns -> [Heights -> Nat]]
    BY <1>1, <2>1, ChunksAssumption
  <2>4. Base(chunk[i]) \in Int
    BY <2>3, RleAssumption DEF Base
  <2>5. \A c \in Columns, rel \in Heights : MaterialAt(chunk[i], c, rel) \in Materials
    BY <2>2 DEF Materials
  <2> QED
    BY <2>2, <2>3, <2>4, <2>5
<1>5. \A i, j \in Active : chunk[i].y = chunk[j].y => i = j
  BY <1>1, ChunksAssumption DEF Active
<1> QED
  BY <1>2, <1>3, <1>4, <1>5

(* The reference, a section at a time.                                     *)
LEMMA SolidVoxelsOf ==
  ASSUME NEW c, NEW sections, NEW v
  PROVE  v \in SolidVoxels(c, sections) <=>
           \E i \in sections : ~chunk[i].is_empty_air /\ v \in Solid(chunk[i], c, Heights)
BY DEF SolidVoxels, Voxels, Solid, Base

LEMMA SolidVoxelsWith ==
  ASSUME NEW c, NEW sections, NEW i, ~chunk[i].is_empty_air
  PROVE  SolidVoxels(c, sections \cup {i}) = SolidVoxels(c, sections) \cup Solid(chunk[i], c, Heights)
<1>1. ASSUME NEW v
      PROVE  v \in SolidVoxels(c, sections \cup {i}) <=> v \in SolidVoxels(c, sections) \/ v \in Solid(chunk[i], c, Heights)
  BY SolidVoxelsOf
<1> QED
  BY <1>1

(* The heights of a section with voxels.                                   *)
LEMMA SectionHeights ==
  ASSUME NEW section, section.y \in Int, section.block \in [Columns -> [Heights -> Nat]],
         \A c \in Columns, rel \in Heights : MaterialAt(section, c, rel) \in Materials
  PROVE  /\ \A c \in Columns : \A v \in Solid(section, c, Heights) :
              /\ v[1] \in Int
              /\ \E run \in Runs(section) : run.lo <= v[1] /\ v[1] <= run.hi
         /\ \A run \in Runs(section) :
              /\ run.lo \in Int /\ run.hi \in Int
              /\ Base(section) <= run.lo /\ run.hi <= Base(section) + SecHeight
              /\ \E c \in Columns : <<run.lo, run.material>> \in Solid(section, c, Heights)
              /\ \E c \in Columns : <<run.hi, run.material>> \in Solid(section, c, Heights)
<1>1. ASSUME NEW c \in Columns
      PROVE  /\ NewRuns(section)[c] \in Seq(RunOf(Materials))
             /\ VoxelsOfRuns(NewRuns(section)[c]) = Solid(section, c, Heights)
             /\ Ascending(NewRuns(section)[c])
             /\ Above(NewRuns(section)[c], Base(section))
             /\ Below(NewRuns(section)[c], Base(section) + SecHeight)
  BY NewColumn
<1>2. ASSUME NEW c \in Columns, NEW v \in Solid(section, c, Heights)
      PROVE  v[1] \in Int /\ \E run \in Runs(section) : run.lo <= v[1] /\ v[1] <= run.hi
  <2> DEFINE runs == NewRuns(section)[c]
  <2>1. PICK n \in 1 .. Len(runs) : v \in Filled(runs[n])
    BY <1>1, VoxelsIn
  <2>2. runs[n] \in RunOf(Materials) /\ runs[n] \in Range(runs)
    <3>1. runs \in Seq(RunOf(Materials))
      BY <1>1
    <3> HIDE DEF runs
    <3>2. DOMAIN runs = 1 .. Len(runs)
      BY <3>1, LenProperties
    <3> QED
      BY <3>1, <3>2, ElementOfSeq DEF Range
  <2>3. runs[n] \in Runs(section)
    BY <2>2 DEF Runs
  <2> DEFINE run == runs[n]
  <2> HIDE DEF run
  <2>4. run.lo \in Int /\ run.hi \in Int
    BY <2>2 DEF RunOf, run
  <2>5. PICK y \in run.lo .. run.hi : v = <<y, run.material>>
    BY <2>1 DEF Filled, run
  <2>6. v[1] = y /\ y \in Int /\ run.lo <= y /\ y <= run.hi
    BY <2>4, <2>5
  <2> QED
    BY <2>3, <2>6 DEF run
<1>3. ASSUME NEW run \in Runs(section)
      PROVE  /\ run.lo \in Int /\ run.hi \in Int
             /\ Base(section) <= run.lo /\ run.hi <= Base(section) + SecHeight
             /\ \E c \in Columns : <<run.lo, run.material>> \in Solid(section, c, Heights)
             /\ \E c \in Columns : <<run.hi, run.material>> \in Solid(section, c, Heights)
  <2>1. PICK c \in Columns : run \in Range(NewRuns(section)[c])
    BY DEF Runs
  <2> DEFINE runs == NewRuns(section)[c]
  <2>2. /\ runs \in Seq(RunOf(Materials)) /\ VoxelsOfRuns(runs) = Solid(section, c, Heights) /\ Ascending(runs)
        /\ Above(runs, Base(section)) /\ Below(runs, Base(section) + SecHeight) /\ run \in Range(runs)
    BY <1>1, <2>1
  <2> HIDE DEF runs
  <2>3. PICK n \in 1 .. Len(runs) : run = runs[n]
    BY <2>2, LenProperties DEF Range
  <2>4. run \in RunOf(Materials)
    BY <2>2, <2>3, ElementOfSeq
  <2>5. run.lo \in Int /\ run.hi \in Int /\ run.lo <= run.hi /\ Base(section) <= run.lo /\ run.hi < Base(section) + SecHeight
    BY <2>2, <2>3, <2>4 DEF RunOf, Ascending, Above, Below
  <2>6. <<run.lo, run.material>> \in Filled(run) /\ <<run.hi, run.material>> \in Filled(run)
    <3>1. run.lo \in run.lo .. run.hi /\ run.hi \in run.lo .. run.hi
      BY <2>5
    <3> QED
      BY <3>1 DEF Filled
  <2>7. <<run.lo, run.material>> \in VoxelsOfRuns(runs) /\ <<run.hi, run.material>> \in VoxelsOfRuns(runs)
    BY <2>2, <2>3, <2>6, VoxelsIn
  <2>8. Base(section) + SecHeight \in Int
    BY RleAssumption DEF Base
  <2>9. run.hi <= Base(section) + SecHeight
    BY <2>5, <2>8
  <2> QED
    BY <2>2, <2>5, <2>7, <2>9
<1> QED
  BY <1>2, <1>3
-----------------------------------------------------------------------------
LEMMA InitIInv == Init => IInv
<1> SUFFICES ASSUME Init PROVE IInv
  OBVIOUS
<1>1. /\ chunk \in Chunks /\ todo = Active /\ min_y = MinStart /\ max_y = MaxStart /\ phase = "voxelize"
      /\ columns = [c \in Columns |-> <<>>]
  BY DEF Init, Active
<1>2. \A c \in Columns : columns[c] = <<>>
  BY <1>1
<1>3. TypeOK
  <2>1. <<>> \in Seq(RunOf(Materials))
    BY EmptySeq
  <2>2. columns \in [Columns -> Seq(RunOf(Materials))]
    BY <1>1, <2>1
  <2> QED
    BY <1>1, <2>2, RleAssumption DEF TypeOK
<1>4. \A c \in Columns : SolidVoxels(c, Taken) = {}
  <2>1. \A i \in Taken : chunk[i].is_empty_air
    <3>1. \A i \in Taken : i \in DOMAIN chunk /\ i \notin Active
      BY <1>1 DEF Taken
    <3> QED
      BY <3>1 DEF Active
  <2>2. ASSUME NEW c \in Columns, NEW v PROVE v \notin SolidVoxels(c, Taken)
    BY <2>1, SolidVoxelsOf
  <2> QED
    BY <2>2
<1>5. Lossless
  <2>1. VoxelsOfRuns(<<>>) = {}
    BY DEF VoxelsOfRuns
  <2> QED
    BY <1>2, <1>4, <2>1 DEF Lossless
<1>6. InOrder
  <2>1. Ascending(<<>>) /\ \A high : Below(<<>>, high)
    BY DEF Ascending, Below
  <2> QED
    BY <1>1, <1>2, <2>1 DEF InOrder
<1>7. TakenVoxels = {}
  BY <1>4 DEF TakenVoxels
<1>8. InRange /\ HeightsTight
  BY <1>1, <1>7 DEF InRange, HeightsTight
<1> QED
  BY <1>1, <1>3, <1>5, <1>6, <1>8 DEF IInv

(* The ends of the range over the runs of one more section.                *)
LEMMA LowestFacts ==
  ASSUME NEW runs, NEW start \in Int, NEW low \in Int, \A run \in runs : run.lo \in Int /\ low <= run.lo
  PROVE  /\ LowestOf(runs, start) \in Int /\ LowestOf(runs, start) <= start
         /\ \A run \in runs : LowestOf(runs, start) <= run.lo
         /\ LowestOf(runs, start) = start \/ \E run \in runs : LowestOf(runs, start) = run.lo
<1> DEFINE S == {start} \cup {run.lo : run \in runs}
           bound == IF low <= start THEN low ELSE start
<1>1. S \in SUBSET Int /\ S # {} /\ bound \in Int /\ \A x \in S : bound <= x
  <2>1. bound \in Int /\ bound <= low /\ bound <= start
    OBVIOUS
  <2>2. \A run \in runs : bound <= run.lo
    <3> HIDE DEF bound
    <3> QED
      BY <2>1
  <2> HIDE DEF bound
  <2> QED
    BY <2>1, <2>2
<1>2. Min(S) \in S /\ \A y \in S : Min(S) <= y
  <2> HIDE DEF S, bound
  <2> QED
    BY <1>1, LeastOf
<1>3. LowestOf(runs, start) = Min(S)
  BY DEF LowestOf
<1>4. start \in S /\ \A run \in runs : run.lo \in S
  OBVIOUS
<1>5. \A x \in S : x = start \/ \E run \in runs : x = run.lo
  OBVIOUS
<1> HIDE DEF S
<1> QED
  BY <1>1, <1>2, <1>3, <1>4, <1>5

LEMMA HighestFacts ==
  ASSUME NEW runs, NEW start \in Int, NEW high \in Int, \A run \in runs : run.hi \in Int /\ run.hi <= high
  PROVE  /\ HighestOf(runs, start) \in Int /\ start <= HighestOf(runs, start)
         /\ \A run \in runs : run.hi <= HighestOf(runs, start)
         /\ HighestOf(runs, start) = start \/ \E run \in runs : HighestOf(runs, start) = run.hi
<1> DEFINE S == {start} \cup {run.hi : run \in runs}
           bound == IF start <= high THEN high ELSE start
<1>1. S \in SUBSET Int /\ S # {} /\ bound \in Int /\ \A x \in S : x <= bound
  <2>1. bound \in Int /\ high <= bound /\ start <= bound
    OBVIOUS
  <2>2. \A run \in runs : run.hi <= bound
    <3> HIDE DEF bound
    <3> QED
      BY <2>1
  <2> HIDE DEF bound
  <2> QED
    BY <2>1, <2>2
<1>2. Max(S) \in S /\ \A y \in S : y <= Max(S)
  <2> HIDE DEF S, bound
  <2> QED
    BY <1>1, GreatestOf
<1>3. HighestOf(runs, start) = Max(S)
  BY DEF HighestOf
<1>4. start \in S /\ \A run \in runs : run.hi \in S
  OBVIOUS
<1>5. \A x \in S : x = start \/ \E run \in runs : x = run.hi
  OBVIOUS
<1> HIDE DEF S
<1> QED
  BY <1>1, <1>2, <1>3, <1>4, <1>5

LEMMA VoxelizeSectionIInv ==
  ASSUME IInv, VoxelizeSection
  PROVE  IInv'
<1>1. PICK i \in todo :
        /\ First(i)
        /\ todo' = todo \ {i}
        /\ columns' = [c \in Columns |-> columns[c] \o NewRuns(chunk[i])[c]]
        /\ min_y' = LowestOf(Runs(chunk[i]), min_y)
        /\ max_y' = HighestOf(Runs(chunk[i]), max_y)
        /\ phase = "voxelize" /\ phase' = phase /\ chunk' = chunk
  BY DEF VoxelizeSection
<1>2. TypeOK /\ Lossless /\ InOrder /\ InRange
  BY DEF IInv
<1> DEFINE section == chunk[i]
           new(c) == NewRuns(section)[c]
<1>3. i \in DOMAIN chunk /\ ~section.is_empty_air /\ i \in Active /\ todo \in SUBSET Active
  BY <1>2 DEF TypeOK, Active
<1>4. /\ section.y \in Int /\ section.block \in [Columns -> [Heights -> Nat]] /\ Base(section) \in Int
      /\ \A c \in Columns, rel \in Heights : MaterialAt(section, c, rel) \in Materials
  BY <1>2, <1>3, ChunkFacts
<1>5. Base(section) + SecHeight \in Int
  BY <1>4, RleAssumption
<1> HIDE DEF section
<1>6. ASSUME NEW c \in Columns
      PROVE  /\ new(c) \in Seq(RunOf(Materials))
             /\ VoxelsOfRuns(new(c)) = Solid(section, c, Heights)
             /\ Ascending(new(c)) /\ Above(new(c), Base(section)) /\ Below(new(c), Base(section) + SecHeight)
  BY <1>4, NewColumn
<1> HIDE DEF new
<1>7. ASSUME NEW c \in Columns
      PROVE  columns[c] \in Seq(RunOf(Materials)) /\ Ascending(columns[c]) /\ Below(columns[c], Base(section))
  BY <1>1, <1>2 DEF TypeOK, InOrder, section
<1>8. ASSUME NEW c \in Columns, NEW top \in Int
      PROVE  /\ columns[c] \o new(c) \in Seq(RunOf(Materials))
             /\ VoxelsOfRuns(columns[c] \o new(c)) = VoxelsOfRuns(columns[c]) \cup VoxelsOfRuns(new(c))
             /\ Ascending(columns[c] \o new(c))
             /\ Below(columns[c], top) /\ Base(section) + SecHeight <= top => Below(columns[c] \o new(c), top)
  BY <1>4, <1>5, <1>6, <1>7, Stack
<1>9. \A c \in Columns : columns'[c] = columns[c] \o new(c)
  BY <1>1 DEF new, section
<1>10. columns' \in [Columns -> Seq(RunOf(Materials))]
  <2>1. columns' = [c \in Columns |-> columns[c] \o new(c)]
    BY <1>1 DEF new, section
  <2> QED
    BY <1>4, <1>8, <2>1
<1>11. /\ \A c \in Columns : \A v \in Solid(section, c, Heights) :
            v[1] \in Int /\ \E run \in Runs(section) : run.lo <= v[1] /\ v[1] <= run.hi
       /\ \A run \in Runs(section) :
            /\ run.lo \in Int /\ run.hi \in Int
            /\ Base(section) <= run.lo /\ run.hi <= Base(section) + SecHeight
            /\ \E c \in Columns : <<run.lo, run.material>> \in Solid(section, c, Heights)
            /\ \E c \in Columns : <<run.hi, run.material>> \in Solid(section, c, Heights)
  BY <1>4, SectionHeights
<1>12. min_y \in Int /\ max_y \in Int
  BY <1>2 DEF TypeOK
<1>13. /\ min_y' \in Int /\ min_y' <= min_y /\ \A run \in Runs(section) : min_y' <= run.lo
       /\ min_y' = min_y \/ \E run \in Runs(section) : min_y' = run.lo
  <2>1. min_y' = LowestOf(Runs(section), min_y)
    BY <1>1 DEF section
  <2> QED
    BY <1>4, <1>11, <1>12, <2>1, LowestFacts
<1>14. /\ max_y' \in Int /\ max_y <= max_y' /\ \A run \in Runs(section) : run.hi <= max_y'
       /\ max_y' = max_y \/ \E run \in Runs(section) : max_y' = run.hi
  <2>1. max_y' = HighestOf(Runs(section), max_y)
    BY <1>1 DEF section
  <2> QED
    BY <1>5, <1>11, <1>12, <2>1, HighestFacts
<1>15. TypeOK'
  <2>1. Active' = Active
    BY <1>1 DEF Active
  <2> QED
    BY <1>1, <1>2, <1>10, <1>13, <1>14, <2>1 DEF TypeOK
<1>16. Taken' = Taken \cup {i}
  BY <1>1, <1>3 DEF Taken
<1>17. ASSUME NEW c \in Columns
       PROVE  SolidVoxels(c, Taken)' = SolidVoxels(c, Taken) \cup Solid(section, c, Heights)
  <2>1. SolidVoxels(c, Taken)' = SolidVoxels(c, Taken \cup {i})
    BY <1>1, <1>16 DEF SolidVoxels, Voxels
  <2> QED
    BY <1>3, <2>1, SolidVoxelsWith DEF section
<1>18. Lossless'
  <2>1. ASSUME NEW c \in Columns PROVE VoxelsOfRuns(columns'[c]) = SolidVoxels(c, Taken)'
    <3>1. VoxelsOfRuns(columns[c]) = SolidVoxels(c, Taken)
      BY <1>2 DEF Lossless
    <3>2. VoxelsOfRuns(columns[c] \o new(c)) = VoxelsOfRuns(columns[c]) \cup VoxelsOfRuns(new(c))
      BY <1>4, <1>8
    <3> QED
      BY <1>6, <1>9, <1>17, <3>1, <3>2
  <2> QED
    BY <2>1 DEF Lossless
<1>19. InOrder'
  <2>1. ASSUME NEW c \in Columns, NEW j \in todo' PROVE Below(columns'[c], Base(chunk[j]))
    <3>1. j \in todo /\ j # i /\ j \in DOMAIN chunk /\ j \in Active
      BY <1>1, <1>3 DEF Active
    <3>2. chunk[j].y \in Int /\ Base(chunk[j]) \in Int /\ chunk[j].y # section.y
      BY <1>2, <1>3, <3>1, ChunkFacts DEF section
    <3>3. section.y < chunk[j].y
      BY <1>1, <3>1, <3>2 DEF First, section
    <3>4. Base(section) + SecHeight <= Base(chunk[j])
      <4> DEFINE a == section.y
                 b == chunk[j].y
      <4>1. a \in Int /\ b \in Int /\ a + 1 <= b /\ SecHeight \in Nat
        BY <1>4, <3>2, <3>3, RleAssumption
      <4> HIDE DEF a, b
      <4>2. PICK d \in Nat : b = a + 1 + d
        <5>1. b - (a + 1) \in Nat /\ b = a + 1 + (b - (a + 1))
          BY <4>1
        <5> QED
          BY <5>1
      <4>3. b * SecHeight = a * SecHeight + SecHeight + d * SecHeight
        BY <4>1, <4>2
      <4>4. d * SecHeight \in Nat /\ a * SecHeight \in Int
        BY <4>1, <4>2
      <4>5. a * SecHeight + SecHeight <= b * SecHeight
        BY <4>1, <4>3, <4>4
      <4> QED
        BY <4>5 DEF Base, a, b
    <3>5. Below(columns[c], Base(chunk[j]))
      BY <1>2, <3>1 DEF InOrder
    <3> QED
      BY <1>8, <1>9, <3>2, <3>4, <3>5
  <2>2. ASSUME NEW c \in Columns PROVE Ascending(columns'[c])
    BY <1>4, <1>8, <1>9
  <2>3. \A j : Base(chunk[j])' = Base(chunk[j])
    BY <1>1 DEF Base
  <2>4. phase' # "done"
    BY <1>1
  <2> QED
    BY <1>1, <2>1, <2>2, <2>4 DEF InOrder
<1>20. InRange'
  <2> DEFINE V == TakenVoxels
             W == TakenVoxels'
  <2>1. \A v : v \in W <=> v \in V \/ \E c \in Columns : v \in Solid(section, c, Heights)
    BY <1>17 DEF TakenVoxels
  <2>2. /\ \A v \in V : min_y <= v[1] /\ v[1] <= max_y
        /\ min_y = MinStart \/ (min_y <= MinStart /\ \E v \in V : v[1] = min_y)
        /\ max_y = MaxStart \/ (MaxStart <= max_y /\ \E v \in V : v[1] = max_y)
    BY <1>1, <1>2 DEF InRange
  <2>3. \A v \in V : v[1] \in Int
    <3>1. ASSUME NEW v \in V PROVE v[1] \in Int
      <4>1. PICK c \in Columns, j \in Taken : ~chunk[j].is_empty_air /\ v \in Solid(chunk[j], c, Heights)
        BY SolidVoxelsOf DEF TakenVoxels
      <4>2. j \in DOMAIN chunk
        BY DEF Taken
      <4>3. Base(chunk[j]) \in Int
        BY <1>2, <4>2, ChunkFacts
      <4>4. PICK r \in Heights : v = <<Base(chunk[j]) + r, MaterialAt(chunk[j], c, r)>>
        BY <4>1 DEF Solid
      <4>5. r \in Int
        BY DEF Heights
      <4> QED
        BY <4>3, <4>4, <4>5
    <3> QED
      BY <3>1
  <2> HIDE DEF V, W
  <2>4. ASSUME NEW v \in W PROVE min_y' <= v[1] /\ v[1] <= max_y'
    <3>1. CASE v \in V
      <4>1. min_y <= v[1] /\ v[1] <= max_y /\ v[1] \in Int
        BY <2>2, <2>3, <3>1
      <4> QED
        BY <1>12, <1>13, <1>14, <4>1
    <3>2. CASE \E c \in Columns : v \in Solid(section, c, Heights)
      <4>1. PICK run \in Runs(section) : v[1] \in Int /\ run.lo <= v[1] /\ v[1] <= run.hi
        BY <1>11, <3>2
      <4>2. run.lo \in Int /\ run.hi \in Int /\ min_y' <= run.lo /\ run.hi <= max_y'
        BY <1>11, <1>13, <1>14
      <4> QED
        BY <1>13, <1>14, <4>1, <4>2
    <3> QED
      BY <2>1, <3>1, <3>2
  <2>5. min_y' = MinStart \/ (min_y' <= MinStart /\ \E v \in W : v[1] = min_y')
    <3>1. CASE min_y' = min_y
      BY <2>1, <2>2, <3>1
    <3>2. CASE min_y' # min_y
      <4>1. PICK run \in Runs(section) : min_y' = run.lo
        BY <1>13, <3>2
      <4>2. PICK c \in Columns : <<run.lo, run.material>> \in Solid(section, c, Heights)
        BY <1>11
      <4>3. <<run.lo, run.material>> \in W
        BY <2>1, <4>2
      <4>4. min_y <= MinStart /\ MinStart \in Int
        BY <1>12, <2>2, RleAssumption
      <4>5. min_y' <= MinStart
        BY <1>12, <1>13, <4>4
      <4> QED
        BY <4>1, <4>3, <4>5
    <3> QED
      BY <3>1, <3>2
  <2>6. max_y' = MaxStart \/ (MaxStart <= max_y' /\ \E v \in W : v[1] = max_y')
    <3>1. CASE max_y' = max_y
      BY <2>1, <2>2, <3>1
    <3>2. CASE max_y' # max_y
      <4>1. PICK run \in Runs(section) : max_y' = run.hi
        BY <1>14, <3>2
      <4>2. PICK c \in Columns : <<run.hi, run.material>> \in Solid(section, c, Heights)
        BY <1>11
      <4>3. <<run.hi, run.material>> \in W
        BY <2>1, <4>2
      <4>4. MaxStart <= max_y /\ MaxStart \in Int
        BY <1>12, <2>2, RleAssumption
      <4>5. MaxStart <= max_y'
        BY <1>12, <1>14, <4>4
      <4> QED
        BY <4>1, <4>3, <4>5
    <3> QED
      BY <3>1, <3>2
  <2> QED
    BY <2>4, <2>5, <2>6 DEF InRange, W
<1>21. HeightsTight' /\ (phase = "done" => todo = {})'
  BY <1>1 DEF HeightsTight
<1> QED
  BY <1>15, <1>18, <1>19, <1>20, <1>21 DEF IInv

LEMMA MergeIInv ==
  ASSUME IInv, Merge
  PROVE  IInv'
<1>1. /\ phase = "voxelize" /\ todo = {} /\ chunk' = chunk /\ todo' = todo /\ phase' = "done"
      /\ columns' = [c \in Columns |-> MergeRuns(columns[c])]
      /\ min_y' = IF min_y > max_y THEN 0 ELSE min_y
      /\ max_y' = IF min_y > max_y THEN 0 ELSE max_y
  BY DEF Merge
<1>2. TypeOK /\ Lossless /\ InOrder /\ InRange
  BY DEF IInv
<1>3. min_y \in Int /\ max_y \in Int /\ MinStart \in Int /\ MaxStart \in Int /\ MinStart > MaxStart
  BY <1>2, RleAssumption DEF TypeOK
<1>4. TakenVoxels = AllVoxels /\ AllVoxels' = AllVoxels
  <2>1. Taken = DOMAIN chunk
    BY <1>1 DEF Taken
  <2>2. \A c \in Columns : SolidVoxels(c, DOMAIN chunk)' = SolidVoxels(c, DOMAIN chunk)
    BY <1>1 DEF SolidVoxels, Voxels
  <2> QED
    BY <2>1, <2>2 DEF TakenVoxels, AllVoxels
<1>5. /\ \A v \in AllVoxels : min_y <= v[1] /\ v[1] <= max_y
      /\ min_y = MinStart \/ (min_y <= MinStart /\ \E v \in AllVoxels : v[1] = min_y)
      /\ max_y = MaxStart \/ (MaxStart <= max_y /\ \E v \in AllVoxels : v[1] = max_y)
  BY <1>1, <1>2, <1>4 DEF InRange
<1>6. ASSUME NEW v \in AllVoxels PROVE v[1] \in Int
  <2>1. PICK c \in Columns, j \in DOMAIN chunk : ~chunk[j].is_empty_air /\ v \in Solid(chunk[j], c, Heights)
    BY SolidVoxelsOf DEF AllVoxels
  <2>2. Base(chunk[j]) \in Int
    BY <1>2, ChunkFacts
  <2>3. PICK r \in Heights : v = <<Base(chunk[j]) + r, MaterialAt(chunk[j], c, r)>>
    BY <2>1 DEF Solid
  <2>4. r \in Int
    BY DEF Heights
  <2> QED
    BY <2>2, <2>3, <2>4
<1>7. ASSUME NEW c \in Columns
      PROVE  /\ columns'[c] \in Seq(RunOf(Materials))
             /\ VoxelsOfRuns(columns'[c]) = VoxelsOfRuns(columns[c])
             /\ Ascending(columns'[c]) /\ Apart(columns'[c])
  <2> DEFINE runs == columns[c]
  <2>1. runs \in Seq(RunOf(Materials)) /\ Ascending(runs) /\ VoxelsOfRuns(runs) = SolidVoxels(c, Taken)
    BY <1>2 DEF TypeOK, InOrder, Lossless
  <2>2. columns'[c] = MergeRuns(runs)
    BY <1>1
  <2>3. \A v \in VoxelsOfRuns(runs) : v \in TakenVoxels
    BY <2>1 DEF TakenVoxels
  <2> HIDE DEF runs
  <2>4. Above(runs, min_y)
    <3>1. ASSUME NEW n \in 1 .. Len(runs) PROVE min_y <= runs[n].lo
      <4>1. runs[n] \in RunOf(Materials) /\ runs[n].lo <= runs[n].hi
        BY <2>1, ElementOfSeq DEF Ascending
      <4> DEFINE run == runs[n]
                 v == <<run.lo, run.material>>
      <4> HIDE DEF run
      <4>2. run.lo \in Int /\ run.hi \in Int /\ run.lo <= run.hi
        BY <4>1 DEF RunOf, run
      <4>3. run.lo \in run.lo .. run.hi
        BY <4>2
      <4>4. v \in Filled(run)
        BY <4>3 DEF Filled
      <4>5. v \in VoxelsOfRuns(runs)
        BY <2>1, <4>4, VoxelsIn DEF run
      <4>6. min_y <= v[1]
        BY <1>4, <1>5, <2>3, <4>5
      <4> QED
        BY <4>6 DEF run
    <3> QED
      BY <3>1 DEF Above
  <2> QED
    BY <1>3, <2>1, <2>2, <2>4, MergeColumn DEF runs
<1>8. TypeOK'
  <2>1. columns' \in [Columns -> Seq(RunOf(Materials))]
    BY <1>1, <1>7
  <2>2. Active' = Active
    BY <1>1 DEF Active
  <2>3. min_y' \in Int /\ max_y' \in Int
    BY <1>1, <1>3
  <2> QED
    BY <1>1, <1>2, <2>1, <2>2, <2>3 DEF TypeOK
<1>9. Lossless'
  <2>1. Taken' = Taken
    BY <1>1 DEF Taken
  <2>2. \A c \in Columns : SolidVoxels(c, Taken)' = SolidVoxels(c, Taken)
    BY <1>1, <2>1 DEF SolidVoxels, Voxels
  <2> QED
    BY <1>2, <1>7, <2>2 DEF Lossless
<1>10. InOrder'
  BY <1>1, <1>7 DEF InOrder
<1>11. HeightsTight'
  <2>1. CASE AllVoxels = {}
    <3>1. min_y = MinStart /\ max_y = MaxStart
      BY <1>5, <2>1
    <3>2. min_y' = 0 /\ max_y' = 0
      BY <1>1, <1>3, <3>1
    <3> QED
      BY <1>4, <2>1, <3>2 DEF HeightsTight, SolidHeights
  <2>2. CASE AllVoxels # {}
    <3>1. PICK w \in AllVoxels : TRUE
      BY <2>2
    <3>2. min_y <= w[1] /\ w[1] <= max_y /\ w[1] \in Int
      BY <1>5, <1>6
    <3>3. min_y' = min_y /\ max_y' = max_y
      BY <1>1, <1>3, <3>2
    <3>4. Least(min_y, SolidHeights \cup {MinStart})
      <4>1. min_y \in SolidHeights \cup {MinStart} /\ min_y <= MinStart
        BY <1>3, <1>5 DEF SolidHeights
      <4>2. \A y \in SolidHeights : min_y <= y
        BY <1>5 DEF SolidHeights
      <4> QED
        BY <4>1, <4>2 DEF Least
    <3>5. Greatest(max_y, SolidHeights \cup {MaxStart})
      <4>1. max_y \in SolidHeights \cup {MaxStart} /\ MaxStart <= max_y
        BY <1>3, <1>5 DEF SolidHeights
      <4>2. \A y \in SolidHeights : y <= max_y
        BY <1>5 DEF SolidHeights
      <4> QED
        BY <4>1, <4>2 DEF Greatest
    <3>6. SolidHeights # {} /\ SolidHeights' = SolidHeights
      BY <1>4, <3>1 DEF SolidHeights
    <3> QED
      BY <3>3, <3>4, <3>5, <3>6 DEF HeightsTight, Least, Greatest
  <2> QED
    BY <2>1, <2>2
<1>12. InRange'
  BY <1>1 DEF InRange
<1> QED
  BY <1>1, <1>8, <1>9, <1>10, <1>11, <1>12 DEF IInv

LEMMA StutterIInv ==
  ASSUME IInv, UNCHANGED vars
  PROVE  IInv'
<1>1. AllVoxels' = AllVoxels /\ UNCHANGED vars
  BY DEF AllVoxels, SolidVoxels, Voxels, vars
<1>2. SolidHeights' = SolidHeights
  BY <1>1 DEF SolidHeights
<1>3. HeightsTight'
  BY <1>1, <1>2 DEF IInv, vars, HeightsTight, Least, Greatest
<1>4. TypeOK' /\ Lossless' /\ InOrder' /\ InRange' /\ (phase = "done" => todo = {})'
  BY <1>1 DEF IInv, vars, TypeOK, Active, Lossless, SolidVoxels, Voxels, Taken, InOrder, Base, InRange, TakenVoxels
<1> QED
  BY <1>3, <1>4 DEF IInv

LEMMA NextIInv == IInv /\ [Next]_vars => IInv'
BY VoxelizeSectionIInv, MergeIInv, StutterIInv DEF Next, Finished

LEMMA SpecIInv == Spec => []IInv
BY InitIInv, NextIInv, PTL DEF Spec

(* Encoding and merging lose and invent no block: the runs of a column     *)
(* hold the solid blocks of the sections done so far, each with its        *)
(* material, whatever the order of the sections in the file.               *)
THEOREM SpecLossless == Spec => []Lossless
<1>1. IInv => Lossless
  BY DEF IInv
<1> QED
  BY <1>1, SpecIInv, PTL

(* The runs of a column rise without overlap, and once merged none of them *)
(* touches one of its material: what readers of a column rely on.          *)
THEOREM SpecSortedRuns == Spec => []SortedRuns
<1>1. IInv => SortedRuns
  <2> SUFFICES ASSUME IInv, NEW c \in Columns, NEW n \in 1 .. Len(columns[c]) - 1
               PROVE  /\ columns[c][n].hi < columns[c][n + 1].lo
                      /\ phase = "done" => ~(/\ columns[c][n].hi + 1 = columns[c][n + 1].lo
                                             /\ columns[c][n].material = columns[c][n + 1].material)
    BY DEF SortedRuns
  <2>1. Ascending(columns[c]) /\ (phase = "done" => Apart(columns[c]))
    BY DEF IInv, InOrder
  <2> QED
    BY <2>1 DEF Ascending, Apart, Touches
<1> QED
  BY <1>1, SpecIInv, PTL

(* The height range of an encoded chunk goes from the lowest of its voxels *)
(* and 320 to the highest of them and -64, and is 0 .. 0 without a voxel.  *)
THEOREM SpecHeightsTight == Spec => []HeightsTight
<1>1. IInv => HeightsTight
  BY DEF IInv
<1> QED
  BY <1>1, SpecIInv, PTL
==============================================================================
