--------------------------- MODULE DownsampleProofs ---------------------------
(***************************************************************************)
(* Theorems about merging columns level by level and blending their        *)
(* colours, for every width of the grid that is a power of two and every   *)
(* grid of columns, on the CPU and on the GPU.                             *)
(***************************************************************************)
EXTENDS EncodedLevel, SharedLemmas, TLAPS

(* A sum is taken lane by lane.                                            *)
Lane(f, lanes, n) == IF n \in lanes THEN f[n] ELSE 0
Summing(f, lanes, t) ==
  /\ t \in [0 .. Samples -> Int]
  /\ t[0] = 0
  /\ \A n \in 1 .. Samples : t[n] = t[n - 1] + Lane(f, lanes, n)
Summable(f, lanes) == \A n \in 1 .. Samples : n \in lanes => f[n] \in Int

LEMMA SumIsRecursive ==
  ASSUME NEW f, NEW lanes, Summable(f, lanes)
  PROVE  \E t : Summing(f, lanes, t) /\ Sum(f, lanes) = t[Samples]
<1> DEFINE N == Samples
           F == [p \in Int \X Nat |-> IF p[2] \in 1 .. N THEN p[1] + Lane(f, lanes, p[2]) ELSE p[1]]
           Is(h) == h = [n \in 0 .. N |-> IF n = 0 THEN 0 ELSE h[n - 1] + Lane(f, lanes, n)]
           c == CHOOSE h : Is(h)
<1>1. N \in Nat /\ \A n \in 1 .. N : Lane(f, lanes, n) \in Int
  BY DEF Samples, Summable, Lane
<1>2. F \in [Int \X Nat -> Int]
  <2> HIDE DEF N
  <2> QED
    BY <1>1
<1> HIDE DEF F
<1>3. PICK t : Recursive(Int, 0, F, t, N)
  <2>1. 0 \in Int
    OBVIOUS
  <2> HIDE DEF N
  <2> QED
    BY <1>1, <1>2, <2>1, RecursionExists
<1>4. t \in [0 .. N -> Int] /\ t[0] = 0
  BY <1>3 DEF Recursive
<1>5. ASSUME NEW n \in 1 .. N PROVE t[n] = t[n - 1] + Lane(f, lanes, n)
  <2>1. n \in Nat /\ n - 1 \in 0 .. N
    BY <1>1
  <2>2. <<t[n - 1], n>> \in Int \X Nat
    BY <1>4, <2>1
  <2>3. t[n] = F[<<t[n - 1], n>>]
    BY <1>3 DEF Recursive
  <2> HIDE DEF N
  <2> QED
    BY <2>2, <2>3 DEF F
<1>6. Is(t)
  <2>1. ASSUME NEW n \in 0 .. N
        PROVE  t[n] = IF n = 0 THEN 0 ELSE t[n - 1] + Lane(f, lanes, n)
    <3>1. CASE n = 0
      BY <1>4, <3>1
    <3>2. CASE n # 0
      <4>1. n \in 1 .. N
        BY <1>1, <3>2
      <4> QED
        BY <1>5, <3>2, <4>1
    <3> QED
      BY <3>1, <3>2
  <2>2. t = [n \in 0 .. N |-> t[n]]
    BY <1>4
  <2> HIDE DEF N
  <2> QED
    BY <2>1, <2>2
<1>7. Is(c)
  BY <1>6
<1>8. Sum(f, lanes) = c[N]
  BY DEF Sum, Lane
<1>9. c = t
  <2>1. c = [n \in 0 .. N |-> IF n = 0 THEN 0 ELSE c[n - 1] + Lane(f, lanes, n)]
    BY <1>7
  <2> HIDE DEF c, Is, N
  <2>2. \A n \in 0 .. N : c[n] = IF n = 0 THEN 0 ELSE c[n - 1] + Lane(f, lanes, n)
    BY <2>1
  <2> DEFINE T == {n \in Nat : n \in 0 .. N => c[n] = t[n]}
  <2>3. 0 \in T
    BY <1>1, <1>4, <2>2
  <2>4. ASSUME NEW n \in Nat, n \in T PROVE n + 1 \in T
    <3>1. ASSUME n + 1 \in 0 .. N PROVE c[n + 1] = t[n + 1]
      <4>1. n \in 0 .. N /\ n + 1 \in 1 .. N /\ (n + 1) - 1 = n /\ n + 1 # 0
        BY <1>1, <3>1
      <4>2. c[n] = t[n]
        BY <2>4, <4>1
      <4>3. c[n + 1] = c[n] + Lane(f, lanes, n + 1)
        BY <2>2, <3>1, <4>1
      <4>4. t[n + 1] = t[n] + Lane(f, lanes, n + 1)
        BY <1>5, <4>1
      <4> QED
        BY <4>2, <4>3, <4>4
    <3> QED
      BY <3>1
  <2> HIDE DEF T
  <2>5. Nat \subseteq T
    BY <2>3, <2>4, SetInduction
  <2>6. \A n \in 0 .. N : c[n] = t[n]
    BY <1>1, <2>5 DEF T
  <2>7. t = [n \in 0 .. N |-> t[n]]
    BY <1>4
  <2>8. c = [n \in 0 .. N |-> c[n]]
    BY <2>1
  <2> QED
    BY <2>6, <2>7, <2>8
<1>10. Summing(f, lanes, t)
  BY <1>4, <1>5 DEF Summing
<1> QED
  BY <1>8, <1>9, <1>10

(* Eight lanes, written out.                                               *)
LEMMA SumOfLanes ==
  ASSUME NEW f, NEW lanes, Summable(f, lanes)
  PROVE  /\ \A n \in 1 .. 8 : Lane(f, lanes, n) \in Int
         /\ Sum(f, lanes) = Lane(f, lanes, 1) + Lane(f, lanes, 2) + Lane(f, lanes, 3) + Lane(f, lanes, 4)
                          + Lane(f, lanes, 5) + Lane(f, lanes, 6) + Lane(f, lanes, 7) + Lane(f, lanes, 8)
<1>1. \A n \in 1 .. 8 : Lane(f, lanes, n) \in Int
  BY DEF Samples, Summable, Lane
<1>2. PICK t : Summing(f, lanes, t) /\ Sum(f, lanes) = t[8]
  BY SumIsRecursive DEF Samples
<1>3. /\ \A n \in 0 .. 8 : t[n] \in Int
      /\ t[0] = 0 /\ \A n \in 1 .. 8 : t[n] = t[n - 1] + Lane(f, lanes, n)
  BY <1>2 DEF Summing, Samples
<1>4. /\ t[1] = t[0] + Lane(f, lanes, 1) /\ t[2] = t[1] + Lane(f, lanes, 2)
      /\ t[3] = t[2] + Lane(f, lanes, 3) /\ t[4] = t[3] + Lane(f, lanes, 4)
      /\ t[5] = t[4] + Lane(f, lanes, 5) /\ t[6] = t[5] + Lane(f, lanes, 6)
      /\ t[7] = t[6] + Lane(f, lanes, 7) /\ t[8] = t[7] + Lane(f, lanes, 8)
  BY <1>3
<1>5. \A n \in 0 .. 8 : t[n] \in Int
  BY <1>3
<1>6. t[1] \in Int /\ t[2] \in Int /\ t[3] \in Int /\ t[4] \in Int /\ t[5] \in Int /\ t[6] \in Int /\ t[7] \in Int
  BY <1>5
<1> QED
  BY <1>1, <1>2, <1>3, <1>4, <1>6

LEMMA CountOfLanes ==
  ASSUME NEW lanes
  PROVE  /\ Count(lanes) \in Nat
         /\ Count(lanes) = 0 <=> ~ \E n \in 1 .. Samples : n \in lanes
<1> DEFINE one == [i \in 1 .. Samples |-> 1]
           L(n) == IF n \in lanes THEN 1 ELSE 0
<1>1. Summable(one, lanes)
  BY DEF Summable
<1>2. \A n \in 1 .. 8 : Lane(one, lanes, n) = L(n)
  BY DEF Lane, Samples
<1>3. Count(lanes) = L(1) + L(2) + L(3) + L(4) + L(5) + L(6) + L(7) + L(8)
  <2>1. Count(lanes) = Sum(one, lanes)
    BY DEF Count
  <2> HIDE DEF one, L
  <2> QED
    BY <1>1, <1>2, <2>1, SumOfLanes
<1>4. (\E n \in 1 .. Samples : n \in lanes) <=>
        1 \in lanes \/ 2 \in lanes \/ 3 \in lanes \/ 4 \in lanes \/ 5 \in lanes \/ 6 \in lanes \/ 7 \in lanes \/ 8 \in lanes
  <2>1. 1 .. Samples = {1, 2, 3, 4, 5, 6, 7, 8}
    BY DEF Samples
  <2> QED
    BY <2>1
<1>5. L(1) + L(2) + L(3) + L(4) + L(5) + L(6) + L(7) + L(8) \in Nat
  OBVIOUS
<1>6. L(1) + L(2) + L(3) + L(4) + L(5) + L(6) + L(7) + L(8) = 0 <=>
        ~(1 \in lanes \/ 2 \in lanes \/ 3 \in lanes \/ 4 \in lanes \/ 5 \in lanes \/ 6 \in lanes \/ 7 \in lanes \/ 8 \in lanes)
  OBVIOUS
<1> HIDE DEF L
<1> QED
  BY <1>3, <1>4, <1>5, <1>6

(* The sum is between as many times the least and the greatest summand.    *)
LEMMA SumAtLeast ==
  ASSUME NEW f, NEW lanes, Summable(f, lanes), NEW low \in Int,
         \A n \in 1 .. Samples : n \in lanes => low <= f[n]
  PROVE  Sum(f, lanes) \in Int /\ low * Count(lanes) <= Sum(f, lanes)
<1> DEFINE one == [i \in 1 .. Samples |-> 1]
<1>1. Summable(one, lanes) /\ Count(lanes) = Sum(one, lanes)
  BY DEF Summable, Count
<1>2. PICK c : Summing(one, lanes, c) /\ Sum(one, lanes) = c[Samples]
  BY <1>1, SumIsRecursive
<1>3. PICK t : Summing(f, lanes, t) /\ Sum(f, lanes) = t[Samples]
  BY SumIsRecursive
<1> DEFINE T == {n \in Nat : n \in 0 .. Samples => low * c[n] <= t[n]}
<1>4. 0 \in T
  BY <1>2, <1>3 DEF Summing
<1>5. ASSUME NEW n \in Nat, n \in T PROVE n + 1 \in T
  <2>1. ASSUME n + 1 \in 0 .. Samples PROVE low * c[n + 1] <= t[n + 1]
    <3>1. n \in 0 .. Samples /\ n + 1 \in 1 .. Samples /\ (n + 1) - 1 = n
      BY <2>1 DEF Samples
    <3>2. low * c[n] <= t[n]
      BY <1>5, <3>1
    <3>3. c[n] \in Int /\ t[n] \in Int /\ c[n + 1] = c[n] + Lane(one, lanes, n + 1) /\ t[n + 1] = t[n] + Lane(f, lanes, n + 1)
      BY <1>2, <1>3, <3>1 DEF Summing
    <3>4. CASE n + 1 \in lanes
      <4>1. Lane(one, lanes, n + 1) = 1 /\ Lane(f, lanes, n + 1) \in Int /\ low <= Lane(f, lanes, n + 1)
        BY <3>1, <3>4 DEF Lane, Summable
      <4> DEFINE a == c[n]
                 b == t[n]
                 s == Lane(f, lanes, n + 1)
      <4>2. low * a <= b /\ a \in Int /\ b \in Int /\ s \in Int /\ low <= s
        BY <3>2, <3>3, <4>1
      <4> HIDE DEF a, b, s
      <4>3. low * (a + 1) = low * a + low /\ low * a \in Int
        BY <4>2
      <4>4. low * (a + 1) <= b + s
        BY <4>2, <4>3
      <4> QED
        BY <3>3, <4>1, <4>4 DEF a, b, s
    <3>5. CASE n + 1 \notin lanes
      <4>1. Lane(one, lanes, n + 1) = 0 /\ Lane(f, lanes, n + 1) = 0
        BY <3>5 DEF Lane
      <4>2. c[n + 1] = c[n] /\ t[n + 1] = t[n]
        BY <3>3, <4>1
      <4> QED
        BY <3>2, <4>2
    <3> QED
      BY <3>4, <3>5
  <2> QED
    BY <2>1
<1> HIDE DEF T
<1>6. Samples \in Nat /\ Samples \in 0 .. Samples
  BY DEF Samples
<1>7. Samples \in T
  BY <1>4, <1>5, <1>6, SetInduction
<1>8. low * c[Samples] <= t[Samples] /\ t[Samples] \in Int
  BY <1>3, <1>6, <1>7 DEF T, Summing
<1> QED
  BY <1>1, <1>2, <1>3, <1>8

LEMMA SumAtMost ==
  ASSUME NEW f, NEW lanes, Summable(f, lanes), NEW high \in Int,
         \A n \in 1 .. Samples : n \in lanes => f[n] <= high
  PROVE  Sum(f, lanes) <= high * Count(lanes)
<1> DEFINE g == [n \in 1 .. Samples |-> - Lane(f, lanes, n)]
<1>1. \A n \in 1 .. Samples : Lane(f, lanes, n) \in Int
  BY DEF Summable, Lane
<1>2. Summable(g, lanes) /\ - high \in Int
  BY <1>1 DEF Summable
<1>3. \A n \in 1 .. Samples : n \in lanes => - high <= g[n]
  BY <1>1 DEF Lane
<1> HIDE DEF g
<1>4. (- high) * Count(lanes) <= Sum(g, lanes) /\ Sum(g, lanes) \in Int
  BY <1>2, <1>3, SumAtLeast
<1>5. \A n \in 1 .. 8 : Lane(g, lanes, n) = - Lane(f, lanes, n)
  BY DEF g, Lane, Samples
<1>6. Sum(g, lanes) = - Sum(f, lanes)
  <2>1. /\ Lane(g, lanes, 1) = - Lane(f, lanes, 1) /\ Lane(g, lanes, 2) = - Lane(f, lanes, 2)
        /\ Lane(g, lanes, 3) = - Lane(f, lanes, 3) /\ Lane(g, lanes, 4) = - Lane(f, lanes, 4)
        /\ Lane(g, lanes, 5) = - Lane(f, lanes, 5) /\ Lane(g, lanes, 6) = - Lane(f, lanes, 6)
        /\ Lane(g, lanes, 7) = - Lane(f, lanes, 7) /\ Lane(g, lanes, 8) = - Lane(f, lanes, 8)
    BY <1>5
  <2>2. \A n \in 1 .. 8 : Lane(f, lanes, n) \in Int
    BY SumOfLanes
  <2>3. /\ Lane(f, lanes, 1) \in Int /\ Lane(f, lanes, 2) \in Int /\ Lane(f, lanes, 3) \in Int /\ Lane(f, lanes, 4) \in Int
        /\ Lane(f, lanes, 5) \in Int /\ Lane(f, lanes, 6) \in Int /\ Lane(f, lanes, 7) \in Int /\ Lane(f, lanes, 8) \in Int
    BY <2>2
  <2>4. /\ Sum(f, lanes) = Lane(f, lanes, 1) + Lane(f, lanes, 2) + Lane(f, lanes, 3) + Lane(f, lanes, 4)
                         + Lane(f, lanes, 5) + Lane(f, lanes, 6) + Lane(f, lanes, 7) + Lane(f, lanes, 8)
        /\ Sum(g, lanes) = Lane(g, lanes, 1) + Lane(g, lanes, 2) + Lane(g, lanes, 3) + Lane(g, lanes, 4)
                         + Lane(g, lanes, 5) + Lane(g, lanes, 6) + Lane(g, lanes, 7) + Lane(g, lanes, 8)
    BY <1>2, SumOfLanes
  <2> QED
    BY <2>1, <2>3, <2>4
<1>7. Sum(f, lanes) \in Int
  <2>1. PICK t : Summing(f, lanes, t) /\ Sum(f, lanes) = t[Samples]
    BY SumIsRecursive
  <2> QED
    BY <2>1 DEF Summing, Samples
<1> DEFINE c == Count(lanes)
           s == Sum(f, lanes)
<1>8. c \in Int /\ s \in Int /\ (- high) * c <= - s
  BY <1>4, <1>6, <1>7, CountOfLanes
<1> HIDE DEF c, s
<1>9. (- high) * c = - (high * c) /\ high * c \in Int
  BY <1>8
<1>10. s <= high * c
  BY <1>8, <1>9
<1> QED
  BY <1>10 DEF c, s

(* Sums of the same summands.                                              *)
LEMMA SumSame ==
  ASSUME NEW f, NEW g, NEW lanes, NEW others, Summable(f, lanes),
         \A n \in 1 .. Samples : Lane(f, lanes, n) = Lane(g, others, n)
  PROVE  Sum(f, lanes) = Sum(g, others)
<1>1. Summable(g, others)
  BY DEF Summable, Lane
<1>2. /\ Lane(f, lanes, 1) = Lane(g, others, 1) /\ Lane(f, lanes, 2) = Lane(g, others, 2)
      /\ Lane(f, lanes, 3) = Lane(g, others, 3) /\ Lane(f, lanes, 4) = Lane(g, others, 4)
      /\ Lane(f, lanes, 5) = Lane(g, others, 5) /\ Lane(f, lanes, 6) = Lane(g, others, 6)
      /\ Lane(f, lanes, 7) = Lane(g, others, 7) /\ Lane(f, lanes, 8) = Lane(g, others, 8)
  BY DEF Samples
<1> QED
  BY <1>1, <1>2, SumOfLanes

(* The mean, rounded down, is within the bounds of its samples.            *)
LEMMA MeanBounds ==
  ASSUME NEW f, NEW lanes, Summable(f, lanes), \E n \in 1 .. Samples : n \in lanes, NEW b \in Int
  PROVE  /\ Mean(Sum(f, lanes), Count(lanes)) \in Int
         /\ (\A n \in 1 .. Samples : n \in lanes => b <= f[n]) => b <= Mean(Sum(f, lanes), Count(lanes))
         /\ (\A n \in 1 .. Samples : n \in lanes => f[n] <= b) => Mean(Sum(f, lanes), Count(lanes)) <= b
<1> DEFINE s == Sum(f, lanes)
           c == Count(lanes)
<1>1. c \in Nat \ {0}
  BY CountOfLanes
<1>2. s \in Int
  <2>1. PICK t : Summing(f, lanes, t) /\ Sum(f, lanes) = t[Samples]
    BY SumIsRecursive
  <2> QED
    BY <2>1 DEF Summing, Samples
<1>3. (\A n \in 1 .. Samples : n \in lanes => b <= f[n]) => b * c <= s
  BY SumAtLeast
<1>4. (\A n \in 1 .. Samples : n \in lanes => f[n] <= b) => s <= b * c
  BY SumAtMost
<1> HIDE DEF s, c
<1>5. /\ s \div c \in Int
      /\ (s \div c >= b <=> s >= b * c) /\ (s \div c <= b <=> s < (b + 1) * c)
  BY <1>1, <1>2, DivMod, DivBounds
<1>6. b * c \in Int /\ (b + 1) * c = b * c + c
  BY <1>1
<1>7. (b * c <= s => b <= s \div c) /\ (s <= b * c => s \div c <= b)
  BY <1>1, <1>2, <1>5, <1>6
<1> QED
  BY <1>3, <1>4, <1>5, <1>7 DEF Mean, s, c
-----------------------------------------------------------------------------
(* The three blends.                                                       *)
Colors == [1 .. Samples -> [a : Nat, c : Nat]]
SolidOf(colors) == {i \in 1 .. Samples : colors[i].a > 0}
Average(colors, field) == Mean(Sum(Field(colors, field), SolidOf(colors)), Count(SolidOf(colors)))

LEMMA ScalarIs ==
  ASSUME NEW colors
  PROVE  BlendScalar(colors) =
           IF SolidOf(colors) = {} THEN NoColor ELSE [a |-> Average(colors, "a"), c |-> Average(colors, "c")]
BY DEF BlendScalar, SolidOf, Average

LEMMA FieldsSummable ==
  ASSUME NEW colors \in Colors, NEW lanes
  PROVE  /\ Summable(Field(colors, "a"), lanes) /\ Summable(Field(colors, "c"), lanes)
         /\ \A n \in 1 .. Samples : /\ Field(colors, "a")[n] = colors[n].a /\ Field(colors, "c")[n] = colors[n].c
                                    /\ colors[n].a \in Nat /\ colors[n].c \in Nat
<1>1. \A n \in 1 .. Samples : colors[n] \in [a : Nat, c : Nat]
  BY DEF Colors
<1>2. \A n \in 1 .. Samples : Field(colors, "a")[n] = colors[n].a /\ Field(colors, "c")[n] = colors[n].c
  BY DEF Field
<1>3. \A n \in 1 .. Samples : colors[n].a \in Nat /\ colors[n].c \in Nat
  BY <1>1
<1> QED
  BY <1>2, <1>3 DEF Summable

LEMMA SolidCount ==
  ASSUME NEW colors
  PROVE  Count(SolidOf(colors)) = 0 <=> SolidOf(colors) = {}
BY CountOfLanes DEF SolidOf

(* One bit per lane, added up, is the count.                               *)
LEMMA BitsCount ==
  ASSUME NEW colors \in Colors
  PROVE  /\ Sum([i \in 1 .. Samples |-> IF colors[i].a > 0 THEN 1 ELSE 0], 1 .. Samples) = Count(SolidOf(colors))
         /\ {i \in 1 .. Samples : [k \in 1 .. Samples |-> IF colors[k].a > 0 THEN 1 ELSE 0][i] > 0} = SolidOf(colors)
<1> DEFINE cnt == [i \in 1 .. Samples |-> IF colors[i].a > 0 THEN 1 ELSE 0]
           one == [i \in 1 .. Samples |-> 1]
<1>1. \A n \in 1 .. Samples : cnt[n] = (IF n \in SolidOf(colors) THEN 1 ELSE 0) /\ one[n] = 1
  BY DEF SolidOf
<1>2. {i \in 1 .. Samples : cnt[i] > 0} = SolidOf(colors)
  <2>1. SolidOf(colors) \subseteq 1 .. Samples
    BY DEF SolidOf
  <2> HIDE DEF cnt
  <2> QED
    BY <1>1, <2>1
<1>3. Count(SolidOf(colors)) = Sum(one, SolidOf(colors))
  BY DEF Count
<1> HIDE DEF cnt, one
<1>4. Summable(cnt, 1 .. Samples) /\ \A n \in 1 .. Samples : Lane(cnt, 1 .. Samples, n) = Lane(one, SolidOf(colors), n)
  BY <1>1 DEF Summable, Lane
<1>5. Sum(cnt, 1 .. Samples) = Count(SolidOf(colors))
  BY <1>3, <1>4, SumSame
<1> QED
  BY <1>2, <1>5 DEF cnt

LEMMA Avx2Agrees ==
  ASSUME NEW colors \in Colors
  PROVE  BlendAvx2(colors) = BlendScalar(colors)
BY BitsCount, SolidCount, ScalarIs DEF BlendAvx2, Average

(* Masked lanes, added pairwise and across, give the sum of the solid ones. *)
Across(colors, lane) == Sum([i \in 1 .. 4 |-> Masked(lane, colors, i) + Masked(lane, colors, i + 4)], 1 .. 4)

LEMMA AcrossIsSum ==
  ASSUME NEW colors \in Colors, NEW lane, Summable(lane, 1 .. Samples)
  PROVE  Across(colors, lane) = Sum(lane, SolidOf(colors))
<1> DEFINE solid == SolidOf(colors)
           M(i) == Lane(lane, solid, i)
           g == [i \in 1 .. 4 |-> Masked(lane, colors, i) + Masked(lane, colors, i + 4)]
<1>1. \A i \in 1 .. 8 : Masked(lane, colors, i) = M(i) /\ M(i) \in Int
  BY DEF Masked, Lane, SolidOf, Summable, Samples
<1>2. Summable(lane, solid)
  BY DEF Summable
<1> HIDE DEF M
<1>3. /\ M(1) \in Int /\ M(2) \in Int /\ M(3) \in Int /\ M(4) \in Int
      /\ M(5) \in Int /\ M(6) \in Int /\ M(7) \in Int /\ M(8) \in Int
  BY <1>1
<1>4. g[1] = M(1) + M(5) /\ g[2] = M(2) + M(6) /\ g[3] = M(3) + M(7) /\ g[4] = M(4) + M(8)
  <2>1. \A i \in 1 .. 4 : g[i] = M(i) + M(i + 4)
    <3>1. \A i \in 1 .. 4 : i \in 1 .. 8 /\ i + 4 \in 1 .. 8
      OBVIOUS
    <3> QED
      BY <1>1, <3>1
  <2>2. 1 + 4 = 5 /\ 2 + 4 = 6 /\ 3 + 4 = 7 /\ 4 + 4 = 8
    OBVIOUS
  <2>3. 1 \in 1 .. 4 /\ 2 \in 1 .. 4 /\ 3 \in 1 .. 4 /\ 4 \in 1 .. 4
    OBVIOUS
  <2> HIDE DEF g
  <2> QED
    BY <2>1, <2>2, <2>3
<1>5. Across(colors, lane) = Sum(g, 1 .. 4)
  BY DEF Across
<1> HIDE DEF g, solid
<1>6. /\ Lane(g, 1 .. 4, 1) = g[1] /\ Lane(g, 1 .. 4, 2) = g[2] /\ Lane(g, 1 .. 4, 3) = g[3] /\ Lane(g, 1 .. 4, 4) = g[4]
      /\ Lane(g, 1 .. 4, 5) = 0 /\ Lane(g, 1 .. 4, 6) = 0 /\ Lane(g, 1 .. 4, 7) = 0 /\ Lane(g, 1 .. 4, 8) = 0
  BY DEF Lane
<1>7. Summable(g, 1 .. 4)
  <2>1. \A n \in 1 .. 4 : n = 1 \/ n = 2 \/ n = 3 \/ n = 4
    OBVIOUS
  <2>2. g[1] \in Int /\ g[2] \in Int /\ g[3] \in Int /\ g[4] \in Int
    BY <1>3, <1>4
  <2> QED
    BY <2>1, <2>2 DEF Summable
<1>8. Sum(g, 1 .. 4) = g[1] + g[2] + g[3] + g[4]
  <2>1. PICK g1 \in Int, g2 \in Int, g3 \in Int, g4 \in Int : g1 = g[1] /\ g2 = g[2] /\ g3 = g[3] /\ g4 = g[4]
    BY <1>3, <1>4
  <2>2. Sum(g, 1 .. 4) = Lane(g, 1 .. 4, 1) + Lane(g, 1 .. 4, 2) + Lane(g, 1 .. 4, 3) + Lane(g, 1 .. 4, 4)
                       + Lane(g, 1 .. 4, 5) + Lane(g, 1 .. 4, 6) + Lane(g, 1 .. 4, 7) + Lane(g, 1 .. 4, 8)
    BY <1>7, SumOfLanes
  <2>3. Sum(g, 1 .. 4) = g1 + g2 + g3 + g4 + 0 + 0 + 0 + 0
    BY <1>6, <2>1, <2>2
  <2>4. g1 + g2 + g3 + g4 + 0 + 0 + 0 + 0 = g1 + g2 + g3 + g4
    BY <2>1
  <2> QED
    BY <2>1, <2>3, <2>4
<1>9. Sum(lane, solid) = M(1) + M(2) + M(3) + M(4) + M(5) + M(6) + M(7) + M(8)
  BY <1>2, SumOfLanes DEF M
<1>10. Sum(g, 1 .. 4) = (M(1) + M(5)) + (M(2) + M(6)) + (M(3) + M(7)) + (M(4) + M(8))
  BY <1>4, <1>8
<1>11. (M(1) + M(5)) + (M(2) + M(6)) + (M(3) + M(7)) + (M(4) + M(8))
         = M(1) + M(2) + M(3) + M(4) + M(5) + M(6) + M(7) + M(8)
  <2>1. PICK a \in Int, b \in Int, c \in Int, d \in Int : a = M(1) /\ b = M(2) /\ c = M(3) /\ d = M(4)
    BY <1>3
  <2>2. PICK e \in Int, f \in Int, h \in Int, k \in Int : e = M(5) /\ f = M(6) /\ h = M(7) /\ k = M(8)
    BY <1>3
  <2>3. (a + e) + (b + f) + (c + h) + (d + k) = a + b + c + d + e + f + h + k
    OBVIOUS
  <2> QED
    BY <2>1, <2>2, <2>3
<1> QED
  BY <1>5, <1>9, <1>10, <1>11 DEF solid

LEMMA NeonAgrees ==
  ASSUME NEW colors \in Colors
  PROVE  BlendNeon(colors) = BlendScalar(colors)
<1> DEFINE one == [i \in 1 .. Samples |-> 1]
<1>1. Summable(one, 1 .. Samples)
  BY DEF Summable
<1>2. Across(colors, one) = Count(SolidOf(colors))
  <2>1. Count(SolidOf(colors)) = Sum(one, SolidOf(colors))
    BY DEF Count
  <2> HIDE DEF one
  <2> QED
    BY <1>1, <2>1, AcrossIsSum
<1>3. /\ Across(colors, Field(colors, "a")) = Sum(Field(colors, "a"), SolidOf(colors))
      /\ Across(colors, Field(colors, "c")) = Sum(Field(colors, "c"), SolidOf(colors))
  BY FieldsSummable, AcrossIsSum
<1>4. BlendNeon(colors) =
        IF Across(colors, one) = 0 THEN NoColor
        ELSE [a |-> Mean(Across(colors, Field(colors, "a")), Across(colors, one)),
              c |-> Mean(Across(colors, Field(colors, "c")), Across(colors, one))]
  BY DEF BlendNeon, Across
<1> HIDE DEF one
<1> QED
  BY <1>2, <1>3, <1>4, SolidCount, ScalarIs DEF Average

(* A mean of samples lies between two of them.                             *)
LEMMA MeanBetween ==
  ASSUME NEW f, NEW lanes, lanes \subseteq 1 .. Samples, Summable(f, lanes), lanes # {}
  PROVE  /\ Mean(Sum(f, lanes), Count(lanes)) \in Int
         /\ \E n \in lanes : f[n] <= Mean(Sum(f, lanes), Count(lanes))
         /\ \E n \in lanes : Mean(Sum(f, lanes), Count(lanes)) <= f[n]
<1> DEFINE m == Mean(Sum(f, lanes), Count(lanes))
<1>1. \E n \in 1 .. Samples : n \in lanes
  OBVIOUS
<1>2. \A n \in lanes : f[n] \in Int /\ n \in 1 .. Samples
  BY DEF Summable
<1>3. m \in Int
  <2>1. 0 \in Int
    OBVIOUS
  <2> QED
    BY <1>1, <2>1, MeanBounds
<1>4. \A b \in Int : /\ (\A n \in 1 .. Samples : n \in lanes => b <= f[n]) => b <= m
                     /\ (\A n \in 1 .. Samples : n \in lanes => f[n] <= b) => m <= b
  BY <1>1, MeanBounds
<1> HIDE DEF m
<1>5. \E n \in lanes : f[n] <= m
  <2> SUFFICES ASSUME \A n \in lanes : ~(f[n] <= m) PROVE FALSE
    OBVIOUS
  <2>1. \A n \in 1 .. Samples : n \in lanes => m + 1 <= f[n]
    BY <1>2, <1>3
  <2>2. m + 1 \in Int
    BY <1>3
  <2>3. m + 1 <= m
    BY <1>4, <2>1, <2>2
  <2> QED
    BY <1>3, <2>3
<1>6. \E n \in lanes : m <= f[n]
  <2> SUFFICES ASSUME \A n \in lanes : ~(m <= f[n]) PROVE FALSE
    OBVIOUS
  <2>1. \A n \in 1 .. Samples : n \in lanes => f[n] <= m - 1
    BY <1>2, <1>3
  <2>2. m - 1 \in Int
    BY <1>3
  <2>3. m <= m - 1
    BY <1>4, <2>1, <2>2
  <2> QED
    BY <1>3, <2>3
<1> QED
  BY <1>3, <1>5, <1>6 DEF m

LEMMA BlendBetween ==
  ASSUME NEW colors \in Colors, SolidOf(colors) # {}
  PROVE  /\ BlendScalar(colors) \in [a : Nat \ {0}, c : Nat]
         /\ \E i \in SolidOf(colors) : colors[i].a <= BlendScalar(colors).a
         /\ \E i \in SolidOf(colors) : BlendScalar(colors).a <= colors[i].a
         /\ \E i \in SolidOf(colors) : colors[i].c <= BlendScalar(colors).c
         /\ \E i \in SolidOf(colors) : BlendScalar(colors).c <= colors[i].c
<1> DEFINE solid == SolidOf(colors)
           a == Average(colors, "a")
           c == Average(colors, "c")
<1>1. solid \subseteq 1 .. Samples /\ \A i \in solid : colors[i].a > 0
  BY DEF SolidOf
<1>2. /\ Summable(Field(colors, "a"), solid) /\ Summable(Field(colors, "c"), solid)
      /\ \A n \in solid : /\ Field(colors, "a")[n] = colors[n].a /\ Field(colors, "c")[n] = colors[n].c
                          /\ colors[n].a \in Nat /\ colors[n].c \in Nat
  BY <1>1, FieldsSummable
<1>3. BlendScalar(colors) = [a |-> a, c |-> c]
  BY ScalarIs
<1>4. a \in Int /\ (\E n \in solid : colors[n].a <= a) /\ (\E n \in solid : a <= colors[n].a)
  BY <1>1, <1>2, MeanBetween DEF Average
<1>5. c \in Int /\ (\E n \in solid : colors[n].c <= c) /\ (\E n \in solid : c <= colors[n].c)
  BY <1>1, <1>2, MeanBetween DEF Average
<1> HIDE DEF a, c, solid
<1>6. a \in Nat \ {0} /\ c \in Nat
  BY <1>1, <1>2, <1>4, <1>5
<1>7. BlendScalar(colors).a = a /\ BlendScalar(colors).c = c /\ BlendScalar(colors) \in [a : Nat \ {0}, c : Nat]
  BY <1>3, <1>6
<1> QED
  BY <1>4, <1>5, <1>7 DEF solid
-----------------------------------------------------------------------------
(* Lists of runs.                                                          *)
Elements(s) == {s[n] : n \in DOMAIN s}

LEMMA ElementsOfConcat ==
  ASSUME NEW S, NEW s \in Seq(S), NEW t \in Seq(S)
  PROVE  /\ s \o t \in Seq(S) /\ Len(s \o t) = Len(s) + Len(t)
         /\ Elements(s \o t) = Elements(s) \cup Elements(t)
<1>1. s \o t \in Seq(S) /\ Len(s \o t) = Len(s) + Len(t)
  BY ConcatProperties
<1>2. Range(s \o t) = Range(s) \cup Range(t)
  BY RangeConcatenation
<1> QED
  BY <1>1, <1>2 DEF Range, Elements

LEMMA TogetherIs ==
  ASSUME NEW S, NEW four, \A i \in 1 .. 4 : four[i] \in Seq(S)
  PROVE  /\ Together(four) \in Seq(S)
         /\ Len(Together(four)) = Len(four[1]) + Len(four[2]) + Len(four[3]) + Len(four[4])
         /\ Elements(Together(four)) = Elements(four[1]) \cup Elements(four[2]) \cup Elements(four[3]) \cup Elements(four[4])
<1> DEFINE Joined(s, t, u) == /\ u \in Seq(S) /\ Len(u) = Len(s) + Len(t)
                              /\ Elements(u) = Elements(s) \cup Elements(t)
<1>1. \A s, t \in Seq(S) : Joined(s, t, s \o t)
  BY ElementsOfConcat
<1>2. PICK p \in Seq(S), q \in Seq(S), r \in Seq(S), s \in Seq(S) :
        p = four[1] /\ q = four[2] /\ r = four[3] /\ s = four[4]
  OBVIOUS
<1>3. Joined(p, q, p \o q)
  BY <1>1
<1>4. PICK u \in Seq(S) : u = p \o q /\ Joined(p, q, u)
  BY <1>3
<1>5. Joined(u, r, u \o r)
  BY <1>1
<1>6. PICK v \in Seq(S) : v = u \o r /\ Joined(u, r, v)
  BY <1>5
<1>7. Joined(v, s, v \o s)
  BY <1>1
<1>8. Together(four) = v \o s
  BY <1>2, <1>4, <1>6 DEF Together
<1>9. PICK w \in Seq(S) : w = Together(four) /\ Joined(v, s, w)
  BY <1>7, <1>8
<1> QED
  BY <1>2, <1>4, <1>6, <1>9

(* The elements of a list have a least and a greatest of any measure.      *)
LEMMA Bounded ==
  ASSUME NEW N \in Nat, NEW f, \A n \in 1 .. N : f[n] \in Int
  PROVE  /\ \E low \in Int : \A n \in 1 .. N : low <= f[n]
         /\ \E high \in Int : \A n \in 1 .. N : f[n] <= high
<1> DEFINE T == {k \in Nat : k <= N => /\ \E low \in Int : \A n \in 1 .. k : low <= f[n]
                                       /\ \E high \in Int : \A n \in 1 .. k : f[n] <= high}
<1>1. 0 \in T
  <2>1. 0 \in Nat /\ 0 \in Int /\ \A n \in 1 .. 0 : FALSE
    OBVIOUS
  <2> QED
    BY <2>1
<1>2. ASSUME NEW k \in Nat, k \in T PROVE k + 1 \in T
  <2> SUFFICES ASSUME k + 1 <= N
               PROVE  /\ \E low \in Int : \A n \in 1 .. k + 1 : low <= f[n]
                      /\ \E high \in Int : \A n \in 1 .. k + 1 : f[n] <= high
    OBVIOUS
  <2>1. k <= N /\ f[k + 1] \in Int /\ \A n \in 1 .. k : f[n] \in Int
    OBVIOUS
  <2>2. PICK low \in Int : \A n \in 1 .. k : low <= f[n]
    BY <1>2, <2>1
  <2>3. PICK high \in Int : \A n \in 1 .. k : f[n] <= high
    BY <1>2, <2>1
  <2> DEFINE v == f[k + 1]
  <2>4. \A n \in 1 .. k + 1 : n = k + 1 \/ n \in 1 .. k
    OBVIOUS
  <2>5. PICK l \in Int : l <= low /\ l <= v
    BY <2>1
  <2>6. PICK h \in Int : high <= h /\ v <= h
    BY <2>1
  <2>7. \A n \in 1 .. k + 1 : l <= f[n]
    BY <2>1, <2>2, <2>4, <2>5
  <2>8. \A n \in 1 .. k + 1 : f[n] <= h
    BY <2>1, <2>3, <2>4, <2>6
  <2> QED
    BY <2>7, <2>8
<1> HIDE DEF T
<1>3. N \in T
  BY <1>1, <1>2, SetInduction
<1>4. N <= N
  OBVIOUS
<1> QED
  BY <1>3, <1>4 DEF T

LEMMA PointIs ==
  ASSUME NEW run \in Points
  PROVE  /\ run.lo \in Int /\ run.hi \in Int /\ run.flags \in Nat
         /\ run.color \in [a : Nat \ {0}, c : Nat] /\ run.color.a \in Nat \ {0} /\ run.color.c \in Nat
BY DEF Points

LEMMA RunsOf ==
  ASSUME NEW column \in Seq(Points)
  PROVE  /\ Len(column) \in Nat /\ DOMAIN column = 1 .. Len(column)
         /\ \A n \in DOMAIN column : column[n] \in Points
         /\ column = <<>> <=> Len(column) = 0
         /\ column # <<>> => 1 \in DOMAIN column /\ Len(column) \in DOMAIN column
OBVIOUS

(* A sorted column reaches from its first run to its last.                 *)
LEMMA SortedReach ==
  ASSUME NEW column \in Seq(Points), Sorted(column), NEW n \in DOMAIN column
  PROVE  /\ column[1].lo <= column[n].lo /\ column[n].lo <= column[n].hi
         /\ column[n].hi <= Last(column).hi
<1> DEFINE N == Len(column)
           low == [k \in 1 .. N |-> column[k].lo]
           high == [k \in 1 .. N |-> column[k].hi]
<1>1. N \in Nat /\ n \in 1 .. N /\ \A k \in 1 .. N : column[k].lo \in Int /\ column[k].hi \in Int
  BY RunsOf, PointIs
<1>2. \A k \in 1 .. N : low[k] \in Int /\ high[k] \in Int /\ low[k] <= high[k]
  BY <1>1 DEF Sorted
<1>3. \A k \in 1 .. N : k > 1 => high[k - 1] < low[k]
  BY <1>1 DEF Sorted
<1>4. \A k \in 1 .. N : low[k] = column[k].lo /\ high[k] = column[k].hi
  OBVIOUS
<1> HIDE DEF low, high, N
<1> DEFINE T == {k \in Nat : k \in 1 .. N => low[1] <= low[k] /\ \A j \in 1 .. k : high[j] <= high[k]}
<1>5. 0 \in T
  OBVIOUS
<1>6. ASSUME NEW k \in Nat, k \in T PROVE k + 1 \in T
  <2> SUFFICES ASSUME k + 1 \in 1 .. N
               PROVE  low[1] <= low[k + 1] /\ \A j \in 1 .. k + 1 : high[j] <= high[k + 1]
    OBVIOUS
  <2>1. low[k + 1] \in Int /\ high[k + 1] \in Int /\ low[k + 1] <= high[k + 1]
    BY <1>2
  <2>2. \A j \in 1 .. k + 1 : j = k + 1 \/ j \in 1 .. k
    OBVIOUS
  <2>3. CASE k = 0
    BY <2>1, <2>2, <2>3
  <2>4. CASE k # 0
    <3>1. k \in 1 .. N /\ k + 1 > 1 /\ (k + 1) - 1 = k
      BY <1>1, <2>4
    <3>2. low[1] <= low[k] /\ \A j \in 1 .. k : high[j] <= high[k]
      BY <1>6, <3>1
    <3>3. high[k] < low[k + 1] /\ low[k] \in Int /\ high[k] \in Int /\ low[k] <= high[k]
      BY <1>2, <1>3, <3>1
    <3>4. 1 \in 1 .. N /\ low[1] \in Int
      <4>1. 1 \in 1 .. N
        BY <1>1, <3>1
      <4> QED
        BY <1>2, <4>1
    <3>5. low[1] <= low[k + 1]
      BY <2>1, <3>2, <3>3, <3>4
    <3>6. \A j \in 1 .. k : high[j] \in Int /\ high[j] <= high[k + 1]
      <4>1. \A j \in 1 .. k : j \in 1 .. N
        BY <1>1, <3>1
      <4> QED
        BY <1>2, <2>1, <3>2, <3>3, <4>1
    <3> QED
      BY <2>1, <2>2, <3>5, <3>6
  <2> QED
    BY <2>3, <2>4
<1> HIDE DEF T
<1>7. Nat \subseteq T
  BY <1>5, <1>6, SetInduction
<1>8. low[1] <= low[n]
  BY <1>1, <1>7 DEF T
<1>9. high[n] <= high[N]
  <2>1. N \in Nat /\ N \in 1 .. N
    BY <1>1
  <2> QED
    BY <1>1, <1>7, <2>1 DEF T
<1>10. 1 \in 1 .. N /\ N \in 1 .. N
  BY <1>1
<1>11. Last(column) = column[N]
  BY DEF Last, N
<1> QED
  BY <1>1, <1>2, <1>4, <1>8, <1>9, <1>10, <1>11

(* The lowest and the highest voxel of a list of runs.                     *)
LEMMA LowestAndHighest ==
  ASSUME NEW runs \in Seq(Points), runs # <<>>
  PROVE  /\ LowOf(runs) \in Int /\ HighOf(runs) \in Int
         /\ (\E n \in DOMAIN runs : LowOf(runs) = runs[n].lo) /\ \A n \in DOMAIN runs : LowOf(runs) <= runs[n].lo
         /\ (\E n \in DOMAIN runs : HighOf(runs) = runs[n].hi) /\ \A n \in DOMAIN runs : runs[n].hi <= HighOf(runs)
<1> DEFINE N == Len(runs)
           lows == [n \in 1 .. N |-> runs[n].lo]
           highs == [n \in 1 .. N |-> runs[n].hi]
           L == {runs[n].lo : n \in DOMAIN runs}
           H == {runs[n].hi : n \in DOMAIN runs}
<1>1. N \in Nat /\ DOMAIN runs = 1 .. N /\ 1 \in 1 .. N /\ \A n \in 1 .. N : runs[n].lo \in Int /\ runs[n].hi \in Int
  BY RunsOf, PointIs
<1>2. /\ \A n \in 1 .. N : lows[n] = runs[n].lo /\ lows[n] \in Int
      /\ \A n \in 1 .. N : highs[n] = runs[n].hi /\ highs[n] \in Int
  BY <1>1
<1> HIDE DEF lows, highs
<1>3. PICK low \in Int : \A n \in 1 .. N : low <= lows[n]
  <2> HIDE DEF N
  <2> QED
    BY <1>1, <1>2, Bounded
<1>4. PICK high \in Int : \A n \in 1 .. N : highs[n] <= high
  <2> HIDE DEF N
  <2> QED
    BY <1>1, <1>2, Bounded
<1>5. L \in SUBSET Int /\ L # {} /\ \A x \in L : low <= x
  BY <1>1, <1>2, <1>3
<1>6. H \in SUBSET Int /\ H # {} /\ \A x \in H : x <= high
  BY <1>1, <1>2, <1>4
<1>7. Min(L) \in L /\ \A y \in L : Min(L) <= y
  <2> HIDE DEF L
  <2> QED
    BY <1>5, LeastOf
<1>8. Max(H) \in H /\ \A y \in H : y <= Max(H)
  <2> HIDE DEF H
  <2> QED
    BY <1>6, GreatestOf
<1>9. LowOf(runs) = Min(L) /\ HighOf(runs) = Max(H)
  BY DEF LowOf, HighOf
<1> QED
  BY <1>5, <1>6, <1>7, <1>8, <1>9

LEMMA FlagsIn ==
  ASSUME NEW runs \in Seq(Points)
  PROVE  FlagsOf(runs) \in Nat
<1>1. CASE Flagged(runs) = {}
  BY <1>1 DEF FlagsOf
<1>2. CASE Flagged(runs) # {}
  <2>1. Flagged(runs) \in SUBSET Int /\ 0 \in Int /\ \A n \in Flagged(runs) : 0 <= n /\ n \in DOMAIN runs
    BY RunsOf DEF Flagged
  <2>2. Min(Flagged(runs)) \in DOMAIN runs
    BY <1>2, <2>1, LeastOf
  <2> QED
    BY <1>2, <2>2, RunsOf, PointIs DEF FlagsOf
<1> QED
  BY <1>1, <1>2

(* The samples of a list of runs, and which of them count.                 *)
LEMMA SamplesIn ==
  ASSUME NEW runs \in Seq(Points)
  PROVE  /\ SamplesOf(runs) \in Colors
         /\ SolidOf(SamplesOf(runs)) = {i \in 1 .. Samples : i <= Len(runs)}
         /\ \A i \in SolidOf(SamplesOf(runs)) : i \in DOMAIN runs /\ SamplesOf(runs)[i] = runs[i].color
         /\ runs # <<>> => SolidOf(SamplesOf(runs)) # {}
<1> DEFINE s == SamplesOf(runs)
<1>1. \A i \in 1 .. Samples : i <= Len(runs) => i \in DOMAIN runs /\ s[i] = runs[i].color /\ s[i].a \in Nat \ {0} /\ s[i].c \in Nat
                                                /\ s[i] \in [a : Nat, c : Nat]
  <2> SUFFICES ASSUME NEW i \in 1 .. Samples, i <= Len(runs)
               PROVE  /\ i \in DOMAIN runs /\ s[i] = runs[i].color /\ s[i].a \in Nat \ {0} /\ s[i].c \in Nat
                      /\ s[i] \in [a : Nat, c : Nat]
    OBVIOUS
  <2>1. i \in DOMAIN runs
    BY RunsOf DEF Samples
  <2>2. s[i] = runs[i].color
    BY DEF SamplesOf
  <2> HIDE DEF s
  <2> QED
    BY <2>1, <2>2, RunsOf, PointIs
<1>2. \A i \in 1 .. Samples : ~(i <= Len(runs)) => s[i] = NoColor
  BY DEF SamplesOf
<1>3. NoColor \in [a : Nat, c : Nat] /\ NoColor.a = 0
  BY DEF NoColor
<1>4. s = [i \in 1 .. Samples |-> s[i]]
  BY DEF SamplesOf
<1> HIDE DEF s
<1>5. s \in Colors
  BY <1>1, <1>2, <1>3, <1>4 DEF Colors
<1>6. SolidOf(s) = {i \in 1 .. Samples : i <= Len(runs)}
  BY <1>1, <1>2, <1>3 DEF SolidOf
<1>7. ASSUME runs # <<>> PROVE 1 \in SolidOf(s)
  BY <1>6, <1>7, RunsOf DEF Samples
<1> QED
  BY <1>1, <1>5, <1>6, <1>7 DEF s
-----------------------------------------------------------------------------
(* One run in the place of several: as high as the highest, its colour     *)
(* within theirs.                                                          *)
Merges(run, runs) ==
  /\ run \in Points
  /\ run.lo <= run.hi
  /\ \E r \in runs : r.hi = run.hi
  /\ \A r \in runs : r.hi <= run.hi
  /\ Between(run.color.a, {r.color.a : r \in runs})
  /\ Between(run.color.c, {r.color.c : r \in runs})
Down(run, runs) == \A r \in runs : run.lo <= r.lo
Upright(runs) == \A n \in DOMAIN runs : runs[n].lo <= runs[n].hi

LEMMA ColorBetween ==
  ASSUME NEW runs \in Seq(Points), runs # <<>>
  PROVE  LET color == BlendScalar(SamplesOf(runs))
         IN  /\ color \in [a : Nat \ {0}, c : Nat]
             /\ Between(color.a, {r.color.a : r \in Elements(runs)})
             /\ Between(color.c, {r.color.c : r \in Elements(runs)})
<1> DEFINE s == SamplesOf(runs)
           color == BlendScalar(s)
<1>1. /\ s \in Colors /\ SolidOf(s) # {}
      /\ \A i \in SolidOf(s) : i \in DOMAIN runs /\ s[i] = runs[i].color
  BY SamplesIn
<1> HIDE DEF s
<1>2. /\ color \in [a : Nat \ {0}, c : Nat]
      /\ \E i \in SolidOf(s) : s[i].a <= color.a
      /\ \E i \in SolidOf(s) : color.a <= s[i].a
      /\ \E i \in SolidOf(s) : s[i].c <= color.c
      /\ \E i \in SolidOf(s) : color.c <= s[i].c
  BY <1>1, BlendBetween
<1> HIDE DEF color
<1> DEFINE A == {r.color.a : r \in Elements(runs)}
           C == {r.color.c : r \in Elements(runs)}
<1>3. \A i \in SolidOf(s) : s[i].a \in A /\ s[i].c \in C
  BY <1>1 DEF Elements
<1> HIDE DEF A, C
<1>4. Between(color.a, A) /\ Between(color.c, C)
  BY <1>2, <1>3 DEF Between
<1> QED
  BY <1>2, <1>4 DEF A, C, color, s

LEMMA CpuMerges ==
  ASSUME NEW four, \A i \in 1 .. 4 : four[i] \in Seq(Points) /\ Upright(four[i])
  PROVE  LET runs == Together(four)
         IN  /\ runs = <<>> => CpuColumn(four) = <<>>
             /\ runs # <<>> => \E run : /\ CpuColumn(four) = <<run>>
                                        /\ Merges(run, Elements(runs)) /\ Down(run, Elements(runs))
<1> DEFINE runs == Together(four)
           point == [lo |-> LowOf(runs), hi |-> HighOf(runs),
                     color |-> BlendScalar(SamplesOf(runs)), flags |-> FlagsOf(runs)]
<1>1. /\ runs \in Seq(Points)
      /\ Elements(runs) = Elements(four[1]) \cup Elements(four[2]) \cup Elements(four[3]) \cup Elements(four[4])
  BY TogetherIs
<1>2. \A r \in Elements(runs) : r.lo <= r.hi
  <2>1. \A i \in 1 .. 4 : \A r \in Elements(four[i]) : r.lo <= r.hi
    BY DEF Upright, Elements
  <2> QED
    BY <1>1, <2>1
<1>3. CpuColumn(four) = IF runs = <<>> THEN <<>> ELSE <<point>>
  BY DEF CpuColumn
<1> HIDE DEF runs
<1>4. ASSUME runs # <<>> PROVE Merges(point, Elements(runs)) /\ Down(point, Elements(runs))
  <2>1. /\ LowOf(runs) \in Int /\ HighOf(runs) \in Int
        /\ (\E r \in Elements(runs) : LowOf(runs) = r.lo) /\ \A r \in Elements(runs) : LowOf(runs) <= r.lo
        /\ (\E r \in Elements(runs) : HighOf(runs) = r.hi) /\ \A r \in Elements(runs) : r.hi <= HighOf(runs)
    BY <1>1, <1>4, LowestAndHighest DEF Elements
  <2>2. FlagsOf(runs) \in Nat
    BY <1>1, FlagsIn
  <2>3. /\ BlendScalar(SamplesOf(runs)) \in [a : Nat \ {0}, c : Nat]
        /\ Between(BlendScalar(SamplesOf(runs)).a, {r.color.a : r \in Elements(runs)})
        /\ Between(BlendScalar(SamplesOf(runs)).c, {r.color.c : r \in Elements(runs)})
    BY <1>1, <1>4, ColorBetween
  <2>4. /\ point \in Points /\ point.lo = LowOf(runs) /\ point.hi = HighOf(runs)
        /\ point.color = BlendScalar(SamplesOf(runs))
    BY <2>1, <2>2, <2>3 DEF Points
  <2>5. \A r \in Elements(runs) : r \in Points
    BY <1>1, RunsOf DEF Elements
  <2>6. LowOf(runs) <= HighOf(runs)
    <3>1. PICK r \in Elements(runs) : LowOf(runs) = r.lo
      BY <2>1
    <3>2. r.lo \in Int /\ r.hi \in Int /\ r.lo <= r.hi /\ r.hi <= HighOf(runs)
      BY <1>2, <2>1, <2>5, PointIs
    <3> QED
      BY <2>1, <3>1, <3>2
  <2> HIDE DEF point
  <2> QED
    BY <2>1, <2>3, <2>4, <2>6 DEF Merges, Down
<1> HIDE DEF point
<1> QED
  BY <1>3, <1>4 DEF runs

(* The kernel computes from the tops of the columns what the CPU does.     *)
Tops(four) == [i \in 1 .. 4 |-> TopRun(four[i])]

LEMMA TopsAre ==
  ASSUME NEW column \in Seq(Points)
  PROVE  /\ TopRun(column) \in Seq(Points) /\ Len(TopRun(column)) \in 0 .. 1
         /\ Elements(TopRun(column)) = IF column = <<>> THEN {} ELSE {Last(column)}
         /\ Len(column) <= 1 => TopRun(column) = column
<1>1. CASE column = <<>>
  BY <1>1 DEF TopRun, Elements
<1>2. CASE column # <<>>
  <2>1. TopRun(column) = <<Last(column)>> /\ Last(column) = column[Len(column)] /\ Last(column) \in Points
    BY <1>2, RunsOf DEF TopRun, Last
  <2>2. ASSUME Len(column) <= 1 PROVE column = <<Last(column)>>
    BY <1>2, <2>1, <2>2, RunsOf, SeqEqual
  <2>3. Elements(<<Last(column)>>) = {Last(column)}
    BY DEF Elements
  <2> QED
    BY <1>2, <2>1, <2>2, <2>3
<1> QED
  BY <1>1, <1>2

LEMMA GpuIsCpuOfTops ==
  ASSUME NEW four, \A i \in 1 .. 4 : four[i] \in Seq(Points)
  PROVE  GpuColumn(four) = CpuColumn(Tops(four))
<1> DEFINE runs == Together(Tops(four))
           s == SamplesOf(runs)
           solid == {i \in DOMAIN runs : runs[i].color.a > 0}
           values(field) == [i \in DOMAIN runs |-> runs[i].color[field]]
<1>1. \A i \in 1 .. 4 : Tops(four)[i] \in Seq(Points) /\ Len(Tops(four)[i]) \in 0 .. 1
  BY TopsAre DEF Tops
<1>2. runs \in Seq(Points) /\ Len(runs) \in 0 .. 4
  <2> DEFINE tops == Tops(four)
  <2>1. /\ runs \in Seq(Points)
        /\ Len(runs) = Len(tops[1]) + Len(tops[2]) + Len(tops[3]) + Len(tops[4])
    BY <1>1, TogetherIs
  <2>2. Len(tops[1]) \in 0 .. 1 /\ Len(tops[2]) \in 0 .. 1 /\ Len(tops[3]) \in 0 .. 1 /\ Len(tops[4]) \in 0 .. 1
    BY <1>1
  <2>3. PICK a \in 0 .. 1, b \in 0 .. 1, c \in 0 .. 1, d \in 0 .. 1 :
          a = Len(tops[1]) /\ b = Len(tops[2]) /\ c = Len(tops[3]) /\ d = Len(tops[4])
    BY <2>2
  <2>4. a + b + c + d \in 0 .. 4
    OBVIOUS
  <2> QED
    BY <2>1, <2>3, <2>4
<1>3. GpuColumn(four) =
        IF solid = {} THEN <<>>
        ELSE <<[lo |-> LowOf(runs), hi |-> HighOf(runs),
                color |-> [a |-> Mean(Sum(values("a"), solid), Count(solid)), c |-> Mean(Sum(values("c"), solid), Count(solid))],
                flags |-> FlagsOf(runs)]>>
  BY DEF GpuColumn, Tops, FlagsOf
<1>4. CpuColumn(Tops(four)) =
        IF runs = <<>> THEN <<>>
        ELSE <<[lo |-> LowOf(runs), hi |-> HighOf(runs), color |-> BlendScalar(s), flags |-> FlagsOf(runs)]>>
  BY DEF CpuColumn
<1>5. /\ s \in Colors /\ SolidOf(s) = {i \in 1 .. Samples : i <= Len(runs)}
      /\ \A i \in SolidOf(s) : i \in DOMAIN runs /\ s[i] = runs[i].color
      /\ runs # <<>> => SolidOf(s) # {}
  <2> HIDE DEF runs
  <2> QED
    BY <1>2, SamplesIn
<1> HIDE DEF runs, s
<1>6. DOMAIN runs = 1 .. Len(runs) /\ \A i \in DOMAIN runs : runs[i].color.a > 0
  BY <1>2, RunsOf, PointIs
<1>7. solid = SolidOf(s) /\ solid = DOMAIN runs
  BY <1>2, <1>5, <1>6 DEF Samples
<1>8. runs = <<>> <=> solid = {}
  BY <1>2, <1>7, RunsOf
<1>9. Sum(values("a"), solid) = Sum(Field(s, "a"), SolidOf(s))
  <2>1. \A n \in 1 .. Samples : n \in SolidOf(s) => Field(s, "a")[n] = values("a")[n]
    BY <1>5 DEF Field
  <2>2. Summable(Field(s, "a"), SolidOf(s))
    BY <1>5, FieldsSummable
  <2> DEFINE f == values("a")
             g == Field(s, "a")
  <2> HIDE DEF f, g, solid
  <2>3. \A n \in 1 .. Samples : Lane(g, SolidOf(s), n) = Lane(f, solid, n)
    BY <1>7, <2>1 DEF Lane, f, g
  <2> QED
    BY <2>2, <2>3, SumSame DEF f, g
<1>10. Sum(values("c"), solid) = Sum(Field(s, "c"), SolidOf(s))
  <2>1. \A n \in 1 .. Samples : n \in SolidOf(s) => Field(s, "c")[n] = values("c")[n]
    BY <1>5 DEF Field
  <2>2. Summable(Field(s, "c"), SolidOf(s))
    BY <1>5, FieldsSummable
  <2> DEFINE f == values("c")
             g == Field(s, "c")
  <2> HIDE DEF f, g, solid
  <2>3. \A n \in 1 .. Samples : Lane(g, SolidOf(s), n) = Lane(f, solid, n)
    BY <1>7, <2>1 DEF Lane, f, g
  <2> QED
    BY <2>2, <2>3, SumSame DEF f, g
<1>11. ASSUME solid # {}
       PROVE  BlendScalar(s) = [a |-> Mean(Sum(values("a"), solid), Count(solid)),
                                c |-> Mean(Sum(values("c"), solid), Count(solid))]
  <2>1. BlendScalar(s) = [a |-> Average(s, "a"), c |-> Average(s, "c")]
    BY <1>7, <1>11, ScalarIs
  <2> HIDE DEF values
  <2> QED
    BY <1>7, <1>9, <1>10, <2>1 DEF Average
<1> HIDE DEF solid, values
<1> QED
  BY <1>3, <1>4, <1>8, <1>11
-----------------------------------------------------------------------------
(* A column and the terrain below it, as OutlineKept and ColorKept have    *)
(* them.                                                                   *)
Outline(column, runs, onGpu) ==
  /\ column = <<>> <=> runs = {}
  /\ column # <<>> =>
       /\ \E run \in runs : run.hi = Last(column).hi
       /\ \A run \in runs : run.hi <= Last(column).hi /\ (onGpu \/ column[1].lo <= run.lo)
Tinted(column, runs) ==
  \A n \in DOMAIN column : /\ Between(column[n].color.a, {run.color.a : run \in runs})
                           /\ Between(column[n].color.c, {run.color.c : run \in runs})

LEMMA BetweenAgain ==
  ASSUME NEW x \in Int, NEW S \in SUBSET Int, NEW T \in SUBSET Int, Between(x, S), \A s \in S : Between(s, T)
  PROVE  Between(x, T)
<1>1. PICK s \in S : s <= x
  BY DEF Between
<1>2. PICK t \in T : t <= s
  BY DEF Between
<1>3. PICK u \in S : x <= u
  BY DEF Between
<1>4. PICK v \in T : u <= v
  BY DEF Between
<1>5. s \in Int /\ t \in Int /\ u \in Int /\ v \in Int
  OBVIOUS
<1>6. t <= x /\ x <= v
  BY <1>1, <1>2, <1>3, <1>4, <1>5
<1> QED
  BY <1>6 DEF Between

(* A column of level 0 and its own runs.                                   *)
LEMMA OwnOutline ==
  ASSUME NEW column \in Seq(Points), Sorted(column), NEW onGpu
  PROVE  Outline(column, Elements(column), onGpu) /\ Tinted(column, Elements(column))
<1>1. column = <<>> <=> Elements(column) = {}
  BY RunsOf DEF Elements
<1>2. ASSUME column # <<>>
      PROVE  /\ \E run \in Elements(column) : run.hi = Last(column).hi
             /\ \A run \in Elements(column) : run.hi <= Last(column).hi /\ column[1].lo <= run.lo
  <2>1. Last(column) \in Elements(column)
    BY <1>2, RunsOf DEF Last, Elements
  <2>2. \A run \in Elements(column) : run.hi <= Last(column).hi /\ column[1].lo <= run.lo
    BY SortedReach DEF Elements
  <2> QED
    BY <2>1, <2>2
<1>3. ASSUME NEW n \in DOMAIN column
      PROVE  /\ Between(column[n].color.a, {run.color.a : run \in Elements(column)})
             /\ Between(column[n].color.c, {run.color.c : run \in Elements(column)})
  <2>1. column[n].color.a \in Int /\ column[n].color.c \in Int
    BY RunsOf, PointIs
  <2>2. column[n] \in Elements(column)
    BY DEF Elements
  <2>3. /\ column[n].color.a \in {run.color.a : run \in Elements(column)}
        /\ column[n].color.c \in {run.color.c : run \in Elements(column)}
    BY <2>2
  <2>4. column[n].color.a <= column[n].color.a /\ column[n].color.c <= column[n].color.c
    BY <2>1
  <2> QED
    BY <2>3, <2>4 DEF Between
<1> QED
  BY <1>1, <1>2, <1>3 DEF Outline, Tinted

LEMMA SingleRun ==
  ASSUME NEW run \in Points
  PROVE  /\ <<run>> \in Seq(Points) /\ Len(<<run>>) <= 1 /\ DOMAIN <<run>> = {1} /\ <<run>>[1] = run
         /\ Last(<<run>>) = run /\ <<run>> # <<>>
BY DEF Last

(* The merged column stands for all the terrain below the four.            *)
LEMMA MergeKeeps ==
  ASSUME NEW four, NEW below, NEW onGpu \in BOOLEAN, NEW all, NEW column,
         \A i \in 1 .. 4 : /\ four[i] \in Seq(Points) /\ Sorted(four[i]) /\ below[i] \subseteq Points
                           /\ Outline(four[i], below[i], onGpu) /\ Tinted(four[i], below[i]),
         \A r : r \in all <=> \E i \in 1 .. 4 : r \in below[i],
         column = IF onGpu THEN GpuColumn(four) ELSE CpuColumn(four)
  PROVE  /\ column \in Seq(Points) /\ Sorted(column) /\ Len(column) <= 1
         /\ Outline(column, all, onGpu) /\ Tinted(column, all)
<1> DEFINE used == IF onGpu THEN Tops(four) ELSE four
           runs == Together(used)
           R == Elements(runs)
<1>1. column = CpuColumn(used)
  BY GpuIsCpuOfTops
<1>2. ASSUME NEW i \in 1 .. 4
      PROVE  /\ used[i] \in Seq(Points) /\ Elements(used[i]) \subseteq Elements(four[i])
             /\ four[i] # <<>> => Last(four[i]) \in Elements(used[i]) /\ Last(four[i]) \in Elements(four[i])
             /\ four[i] # <<>> /\ ~onGpu => four[i][1] \in Elements(used[i])
  <2>1. four[i] # <<>> => Last(four[i]) \in Elements(four[i]) /\ four[i][1] \in Elements(four[i])
    BY RunsOf DEF Last, Elements
  <2>2. CASE onGpu
    <3>1. used[i] = TopRun(four[i])
      BY <2>2 DEF Tops
    <3> HIDE DEF used
    <3> QED
      BY <2>1, <2>2, <3>1, TopsAre
  <2>3. CASE ~onGpu
    <3>1. used[i] = four[i]
      BY <2>3
    <3> HIDE DEF used
    <3> QED
      BY <2>1, <3>1
  <2> QED
    BY <2>2, <2>3
<1> HIDE DEF used
<1>3. ASSUME NEW i \in 1 .. 4, NEW r \in Elements(four[i])
      PROVE  /\ r \in Points /\ four[i] # <<>> /\ r.lo <= r.hi /\ r.hi <= Last(four[i]).hi
             /\ Between(r.color.a, {b.color.a : b \in below[i]}) /\ Between(r.color.c, {b.color.c : b \in below[i]})
  <2>1. PICK n \in DOMAIN four[i] : r = four[i][n]
    BY DEF Elements
  <2>2. r \in Points /\ four[i] # <<>>
    BY <2>1, RunsOf
  <2>3. r.lo <= r.hi /\ r.hi <= Last(four[i]).hi
    BY <2>1, SortedReach
  <2> QED
    BY <2>1, <2>2, <2>3 DEF Tinted
<1>4. /\ runs \in Seq(Points)
      /\ R = Elements(used[1]) \cup Elements(used[2]) \cup Elements(used[3]) \cup Elements(used[4])
  BY <1>2, TogetherIs
<1>5. \A i \in 1 .. 4 : Upright(used[i])
  BY <1>2, <1>3 DEF Upright, Elements
<1>6. /\ runs = <<>> => column = <<>>
      /\ runs # <<>> => \E run : column = <<run>> /\ Merges(run, R) /\ Down(run, R)
  BY <1>1, <1>2, <1>5, CpuMerges
<1>7. runs = <<>> <=> R = {}
  BY <1>4, RunsOf DEF Elements
<1> HIDE DEF runs, R
<1>8. \A r \in R : \E i \in 1 .. 4 : r \in Elements(used[i])
  BY <1>4
<1>9. \A i \in 1 .. 4 : Elements(used[i]) \subseteq R
  <2>1. \A i \in 1 .. 4 : i = 1 \/ i = 2 \/ i = 3 \/ i = 4
    OBVIOUS
  <2> QED
    BY <1>4, <2>1
<1>10. R = {} <=> all = {}
  <2>1. R = {} <=> \A i \in 1 .. 4 : four[i] = <<>>
    BY <1>2, <1>3, <1>8, <1>9
  <2>2. all = {} <=> \A i \in 1 .. 4 : below[i] = {}
    OBVIOUS
  <2>3. \A i \in 1 .. 4 : four[i] = <<>> <=> below[i] = {}
    BY DEF Outline
  <2> QED
    BY <2>1, <2>2, <2>3
<1>11. CASE R = {}
  <2>1. column = <<>> /\ all = {}
    BY <1>6, <1>7, <1>10, <1>11
  <2>2. <<>> \in Seq(Points) /\ Len(<<>>) = 0 /\ DOMAIN <<>> = {}
    OBVIOUS
  <2> QED
    BY <2>1, <2>2 DEF Sorted, Outline, Tinted
<1>12. CASE R # {}
  <2>1. PICK run : column = <<run>> /\ Merges(run, R) /\ Down(run, R)
    BY <1>6, <1>7, <1>12
  <2>2. /\ run \in Points /\ run.lo \in Int /\ run.hi \in Int /\ run.color.a \in Int /\ run.color.c \in Int
        /\ run.lo <= run.hi
    BY <2>1, PointIs DEF Merges
  <2>3. /\ column \in Seq(Points) /\ Len(column) <= 1 /\ DOMAIN column = {1} /\ column[1] = run /\ Last(column) = run
        /\ column # <<>>
    BY <2>1, <2>2, SingleRun
  <2>4. Sorted(column)
    BY <2>2, <2>3 DEF Sorted
  <2>5. all # {}
    BY <1>10, <1>12
  <2>6. ASSUME NEW i \in 1 .. 4, four[i] # <<>>
        PROVE  /\ Last(four[i]).hi \in Int /\ Last(four[i]).hi <= run.hi
               /\ ~onGpu => four[i][1].lo \in Int /\ run.lo <= four[i][1].lo
    <3>1. Last(four[i]) \in R /\ Last(four[i]) \in Points
      BY <1>2, <1>3, <1>9, <2>6
    <3>2. ~onGpu => four[i][1] \in R /\ four[i][1] \in Points
      BY <1>2, <1>3, <1>9, <2>6
    <3> QED
      BY <2>1, <3>1, <3>2, PointIs DEF Merges, Down
  <2>7. \E r \in all : r.hi = run.hi
    <3>1. PICK s \in R : s.hi = run.hi
      BY <2>1 DEF Merges
    <3>2. PICK i \in 1 .. 4 : s \in Elements(used[i])
      BY <1>8
    <3>3. s \in Points /\ four[i] # <<>> /\ s.hi <= Last(four[i]).hi
      BY <1>2, <1>3, <3>2
    <3>4. run.hi = Last(four[i]).hi
      BY <2>2, <2>6, <3>1, <3>3
    <3>5. \E r \in below[i] : r.hi = Last(four[i]).hi
      BY <3>3 DEF Outline
    <3> QED
      BY <3>4, <3>5
  <2>8. ASSUME NEW r \in all
        PROVE  r.hi <= run.hi /\ (onGpu \/ run.lo <= r.lo)
    <3>1. PICK i \in 1 .. 4 : r \in below[i]
      OBVIOUS
    <3>2. r \in Points /\ four[i] # <<>>
      BY <3>1 DEF Outline
    <3>3. r.hi <= Last(four[i]).hi /\ (onGpu \/ four[i][1].lo <= r.lo)
      BY <3>1, <3>2 DEF Outline
    <3>4. r.hi \in Int /\ r.lo \in Int
      BY <3>2, PointIs
    <3>5. Last(four[i]).hi \in Int /\ Last(four[i]).hi <= run.hi
      BY <2>6, <3>2
    <3>6. r.hi <= run.hi
      BY <2>2, <3>3, <3>4, <3>5
    <3>7. ASSUME ~onGpu PROVE run.lo <= r.lo
      <4>1. four[i][1].lo \in Int /\ run.lo <= four[i][1].lo /\ four[i][1].lo <= r.lo
        BY <2>6, <3>2, <3>3, <3>7
      <4> QED
        BY <2>2, <3>4, <4>1
    <3> QED
      BY <3>6, <3>7
  <2>9. Outline(column, all, onGpu)
    BY <2>3, <2>5, <2>7, <2>8 DEF Outline
  <2> DEFINE As == {s.color.a : s \in R}
             Cs == {s.color.c : s \in R}
             Aa == {r.color.a : r \in all}
             Ca == {r.color.c : r \in all}
  <2>10. /\ \A s \in R : s.color.a \in Int /\ s.color.c \in Int
         /\ \A r \in all : r.color.a \in Int /\ r.color.c \in Int
    <3>1. R \subseteq Points
      BY <1>2, <1>3, <1>8
    <3>2. all \subseteq Points
      OBVIOUS
    <3> QED
      BY <3>1, <3>2, PointIs
  <2>11. ASSUME NEW s \in R PROVE Between(s.color.a, Aa) /\ Between(s.color.c, Ca)
    <3>1. PICK i \in 1 .. 4 : s \in Elements(four[i])
      BY <1>2, <1>8
    <3>2. Between(s.color.a, {b.color.a : b \in below[i]}) /\ Between(s.color.c, {b.color.c : b \in below[i]})
      BY <1>3, <3>1
    <3>3. {b.color.a : b \in below[i]} \subseteq Aa /\ {b.color.c : b \in below[i]} \subseteq Ca
      OBVIOUS
    <3> HIDE DEF Aa, Ca
    <3> QED
      BY <3>2, <3>3 DEF Between
  <2>12. Between(run.color.a, As) /\ Between(run.color.c, Cs)
    BY <2>1 DEF Merges
  <2>13. As \in SUBSET Int /\ Cs \in SUBSET Int /\ Aa \in SUBSET Int /\ Ca \in SUBSET Int
    BY <2>10
  <2>14. (\A s \in As : Between(s, Aa)) /\ (\A s \in Cs : Between(s, Ca))
    BY <2>11
  <2>15. Between(run.color.a, Aa) /\ Between(run.color.c, Ca)
    <3> HIDE DEF As, Cs, Aa, Ca
    <3> QED
      BY <2>2, <2>12, <2>13, <2>14, BetweenAgain
  <2>16. Tinted(column, all)
    BY <2>3, <2>15 DEF Tinted
  <2> QED
    BY <2>3, <2>4, <2>9, <2>16, Zenon
<1> QED
  BY <1>11, <1>12
-----------------------------------------------------------------------------
(* Where a column's terrain is: scale leaves wide, the terrain of its four *)
(* children put together.                                                  *)
Child(p, i) == <<2 * p[1] + ((i - 1) \div 2), 2 * p[2] + ((i - 1) % 2)>>
Under(scale, p) == {q \in Square(Side) : q[1] \div scale = p[1] /\ q[2] \div scale = p[2]}

LEMMA SquareOf ==
  ASSUME NEW n, NEW p \in Square(n)
  PROVE  /\ p = <<p[1], p[2]>> /\ p[1] \in 0 .. n - 1 /\ p[2] \in 0 .. n - 1
         /\ p[1] \in Int /\ p[2] \in Int
BY DEF Square

LEMMA ChildIn ==
  ASSUME NEW h \in Nat \ {0}, NEW p \in Square(h), NEW i \in 1 .. 4
  PROVE  Child(p, i) \in Square(2 * h)
<1>1. p[1] \in 0 .. h - 1 /\ p[2] \in 0 .. h - 1
  BY SquareOf
<1>2. (i - 1) \div 2 \in 0 .. 1 /\ (i - 1) % 2 \in 0 .. 1
  OBVIOUS
<1>3. PICK x \in 0 .. h - 1, y \in 0 .. h - 1, d \in 0 .. 1, e \in 0 .. 1 :
        x = p[1] /\ y = p[2] /\ d = (i - 1) \div 2 /\ e = (i - 1) % 2
  BY <1>1, <1>2
<1>4. 2 * x + d \in 0 .. 2 * h - 1 /\ 2 * y + e \in 0 .. 2 * h - 1
  OBVIOUS
<1>5. Child(p, i) = <<2 * x + d, 2 * y + e>>
  BY <1>3 DEF Child
<1> QED
  BY <1>4, <1>5 DEF Square

LEMMA UnderParent ==
  ASSUME NEW scale \in Nat \ {0}, NEW h, NEW p \in Square(h), NEW q
  PROVE  q \in Under(2 * scale, p) <=> \E i \in 1 .. 4 : q \in Under(scale, Child(p, i))
<1>1. p[1] \in Int /\ p[2] \in Int
  BY SquareOf
<1> SUFFICES ASSUME q \in Square(Side)
             PROVE  q \in Under(2 * scale, p) <=> \E i \in 1 .. 4 : q \in Under(scale, Child(p, i))
  BY DEF Under
<1>2. q[1] \in Int /\ q[2] \in Int
  BY SquareOf
<1>3. PICK x \in Int, y \in Int : x = q[1] \div scale /\ y = q[2] \div scale
  BY <1>2, DivMod
<1>4. q[1] \div (2 * scale) = x \div 2 /\ q[2] \div (2 * scale) = y \div 2
  <2>1. 2 \in Nat \ {0}
    OBVIOUS
  <2> QED
    BY <1>2, <1>3, <2>1, DivDiv
<1>5. q \in Under(2 * scale, p) <=> x \div 2 = p[1] /\ y \div 2 = p[2]
  BY <1>4 DEF Under
<1>6. \A i \in 1 .. 4 : q \in Under(scale, Child(p, i)) <=>
                          x = 2 * p[1] + ((i - 1) \div 2) /\ y = 2 * p[2] + ((i - 1) % 2)
  BY <1>3 DEF Under, Child
<1>7. PICK a \in Int, b \in Int : a = p[1] /\ b = p[2]
  BY <1>1
<1>8. ASSUME x \div 2 = a, y \div 2 = b
      PROVE  \E i \in 1 .. 4 : x = 2 * a + ((i - 1) \div 2) /\ y = 2 * b + ((i - 1) % 2)
  <2>1. PICK d \in 0 .. 1, e \in 0 .. 1 : x = 2 * a + d /\ y = 2 * b + e
    BY <1>8
  <2> DEFINE i == 2 * d + e + 1
  <2>2. i \in 1 .. 4 /\ (i - 1) \div 2 = d /\ (i - 1) % 2 = e
    OBVIOUS
  <2> HIDE DEF i
  <2> QED
    BY <2>1, <2>2
<1>9. ASSUME NEW i \in 1 .. 4, x = 2 * a + ((i - 1) \div 2), y = 2 * b + ((i - 1) % 2)
      PROVE  x \div 2 = a /\ y \div 2 = b
  <2>1. PICK d \in 0 .. 1, e \in 0 .. 1 : d = (i - 1) \div 2 /\ e = (i - 1) % 2
    OBVIOUS
  <2> QED
    BY <1>9, <2>1
<1> QED
  BY <1>5, <1>6, <1>7, <1>8, <1>9
-----------------------------------------------------------------------------
(* The width halves until it is one.                                       *)
Widths == \E m \in Nat, scale \in Nat \ {0} : side = Pow2[m] /\ Side = scale * side
LevelOK == gpu \in BOOLEAN /\ leaves \in Grids /\ Widths
IInv == LevelOK /\ TypeOK /\ OutlineKept /\ ColorKept

LEMMA ScaleOf ==
  ASSUME NEW scale \in Nat \ {0}, NEW n \in Nat \ {0}, Side = scale * n
  PROVE  Side \div n = scale
<1>1. Side = n * scale + 0 /\ 0 \in 0 .. n - 1 /\ scale \in Int
  OBVIOUS
<1> QED
  BY <1>1, DivUnique

LEMMA LeavesType ==
  ASSUME leaves \in Grids
  PROVE  /\ leaves \in [Square(Side) -> Seq(Points)]
         /\ \A q \in Square(Side) : Sorted(leaves[q]) /\ Elements(leaves[q]) \subseteq Points
<1>1. /\ leaves \in [Square(Side) -> Seq(Points)]
      /\ \A q \in Square(Side) : Sorted(leaves[q])
  BY GridsAssumption
<1>2. ASSUME NEW q \in Square(Side) PROVE Elements(leaves[q]) \subseteq Points
  <2>1. leaves[q] \in Seq(Points)
    BY <1>1
  <2> QED
    BY <2>1, RunsOf DEF Elements
<1> QED
  BY <1>1, <1>2

LEMMA BelowIs ==
  ASSUME NEW p
  PROVE  RunsBelow(p) = UNION {Elements(leaves[q]) : q \in Under(Side \div side, p)}
BY DEF RunsBelow, LeavesBelow, Under, Elements

LEMMA KeptIs ==
  /\ OutlineKept <=> \A p \in Square(side) : Outline(cols[p], RunsBelow(p), gpu)
  /\ ColorKept <=> \A p \in Square(side) : Tinted(cols[p], RunsBelow(p))
BY DEF OutlineKept, ColorKept, Outline, Tinted

LEMMA InitIInv == Init => IInv
<1> SUFFICES ASSUME Init PROVE IInv
  OBVIOUS
<1>1. PICK n \in Nat : Side = Pow2[n]
  BY SideAssumption
<1>2. Side \in Nat \ {0}
  BY <1>1, Powers
<1>3. LevelOK
  <2>1. side = Side /\ Side = 1 * side /\ 1 \in Nat \ {0} /\ gpu \in BOOLEAN /\ leaves \in Grids
    BY <1>2 DEF Init
  <2> QED
    BY <1>1, <2>1 DEF LevelOK, Widths
<1>4. cols = leaves /\ side = Side /\ ~(side < Side)
  BY <1>2 DEF Init
<1>5. /\ cols \in [Square(side) -> Seq(Points)]
      /\ \A p \in Square(side) : Sorted(cols[p])
  BY <1>3, <1>4, LeavesType DEF LevelOK
<1>6. TypeOK
  BY <1>4, <1>5 DEF TypeOK
<1>7. ASSUME NEW p \in Square(side) PROVE RunsBelow(p) = Elements(cols[p])
  <2>1. Side \div side = 1
    BY <1>2, <1>4, ScaleOf
  <2>2. \A q \in Square(Side) : q[1] \div 1 = q[1] /\ q[2] \div 1 = q[2] /\ q = <<q[1], q[2]>>
    BY SquareOf
  <2>3. p \in Square(Side) /\ p = <<p[1], p[2]>>
    BY <1>4, SquareOf
  <2>4. Under(1, p) = {p}
    BY <2>2, <2>3 DEF Under
  <2> QED
    BY <1>4, <2>1, <2>4, BelowIs
<1>8. ASSUME NEW p \in Square(side)
      PROVE  Outline(cols[p], RunsBelow(p), gpu) /\ Tinted(cols[p], RunsBelow(p))
  <2>1. cols[p] \in Seq(Points) /\ Sorted(cols[p])
    BY <1>5
  <2> QED
    BY <1>7, <2>1, OwnOutline
<1> QED
  BY <1>3, <1>6, <1>8, KeptIs DEF IInv

LEMMA HalfWidth ==
  ASSUME Widths, side > 1
  PROVE  \E h \in Nat \ {0}, scale \in Nat \ {0}, m \in Nat :
           /\ side = 2 * h /\ side \div 2 = h /\ h = Pow2[m]
           /\ Side = scale * side /\ Side = (2 * scale) * h
           /\ Side \div side = scale /\ Side \div h = 2 * scale
<1>1. PICK n \in Nat, scale \in Nat \ {0} : side = Pow2[n] /\ Side = scale * side
  BY DEF Widths
<1>2. n # 0
  BY <1>1, Powers
<1>3. PICK m \in Nat : n = m + 1
  <2>1. n - 1 \in Nat /\ n = (n - 1) + 1
    BY <1>2
  <2> QED
    BY <2>1
<1>4. PICK h \in Nat \ {0} : h = Pow2[m] /\ side = 2 * h
  BY <1>1, <1>3, Powers
<1>5. side \div 2 = h /\ side \in Nat \ {0} /\ 2 * scale \in Nat \ {0}
  BY <1>4
<1>6. Side = (2 * scale) * h
  <2>1. scale * (2 * h) = (2 * scale) * h
    OBVIOUS
  <2> QED
    BY <1>1, <1>4, <2>1
<1>7. Side \div side = scale /\ Side \div h = 2 * scale
  BY <1>1, <1>5, <1>6, ScaleOf
<1> QED
  BY <1>1, <1>4, <1>5, <1>6, <1>7

LEMMA NextIInv == IInv /\ [Next]_vars => IInv'
<1> SUFFICES ASSUME IInv, [Next]_vars PROVE IInv'
  OBVIOUS
<1>1. CASE NextLevel
  <2>1. side > 1 /\ side' = side \div 2 /\ gpu' = gpu /\ leaves' = leaves
    BY <1>1 DEF NextLevel
  <2>2. cols' = [p \in Square(side') |-> IF gpu THEN GpuColumn(Four(p)) ELSE CpuColumn(Four(p))]
    BY <1>1 DEF NextLevel
  <2>3. gpu \in BOOLEAN /\ leaves \in Grids /\ Widths
    BY DEF IInv, LevelOK
  <2>4. PICK h \in Nat \ {0}, scale \in Nat \ {0}, m \in Nat :
           /\ side = 2 * h /\ side \div 2 = h /\ h = Pow2[m]
           /\ Side = scale * side /\ Side = (2 * scale) * h
           /\ Side \div side = scale /\ Side \div h = 2 * scale
    BY <2>1, <2>3, HalfWidth
  <2>5. side' = h /\ 2 * scale \in Nat \ {0}
    BY <2>1, <2>4
  <2>6. LevelOK'
    BY <2>1, <2>3, <2>4, <2>5 DEF LevelOK, Widths
  <2>7. ASSUME NEW p \in Square(h)
        PROVE  /\ cols'[p] \in Seq(Points) /\ Sorted(cols'[p]) /\ Len(cols'[p]) <= 1
               /\ Outline(cols'[p], RunsBelow(p)', gpu) /\ Tinted(cols'[p], RunsBelow(p)')
    <3> DEFINE four == Four(p)
               below == [i \in 1 .. 4 |-> RunsBelow(Child(p, i))]
               all == RunsBelow(p)'
    <3>1. ASSUME NEW i \in 1 .. 4
          PROVE  /\ four[i] \in Seq(Points) /\ Sorted(four[i]) /\ below[i] \subseteq Points
                 /\ Outline(four[i], below[i], gpu) /\ Tinted(four[i], below[i])
      <4>1. Child(p, i) \in Square(side)
        BY <2>4, ChildIn
      <4>2. four[i] = cols[Child(p, i)] /\ below[i] = RunsBelow(Child(p, i))
        BY DEF Four, Child
      <4>3. cols[Child(p, i)] \in Seq(Points) /\ Sorted(cols[Child(p, i)])
        BY <4>1 DEF IInv, TypeOK
      <4>4. /\ Outline(cols[Child(p, i)], RunsBelow(Child(p, i)), gpu)
            /\ Tinted(cols[Child(p, i)], RunsBelow(Child(p, i)))
        BY <4>1, KeptIs DEF IInv
      <4>5. RunsBelow(Child(p, i)) \subseteq Points
        BY <2>3, LeavesType, BelowIs DEF Under
      <4> QED
        BY <4>2, <4>3, <4>4, <4>5
    <3>2. ASSUME NEW r PROVE r \in all <=> \E i \in 1 .. 4 : r \in below[i]
      <4>1. all = UNION {Elements(leaves[q]) : q \in Under(2 * scale, p)}
        <5>1. all = UNION {Elements(leaves'[q]) : q \in Under(Side \div side', p)}
          BY DEF RunsBelow, LeavesBelow, Under, Elements
        <5> QED
          BY <2>1, <2>4, <2>5, <5>1
      <4>2. \A i \in 1 .. 4 : below[i] = UNION {Elements(leaves[q]) : q \in Under(scale, Child(p, i))}
        BY <2>4, BelowIs
      <4>3. \A q : q \in Under(2 * scale, p) <=> \E i \in 1 .. 4 : q \in Under(scale, Child(p, i))
        BY UnderParent
      <4> HIDE DEF all, below
      <4> QED
        BY <4>1, <4>2, <4>3
    <3>3. cols'[p] = IF gpu THEN GpuColumn(four) ELSE CpuColumn(four)
      BY <2>2, <2>5
    <3> HIDE DEF four, below, all
    <3>4. /\ cols'[p] \in Seq(Points) /\ Sorted(cols'[p]) /\ Len(cols'[p]) <= 1
          /\ Outline(cols'[p], all, gpu) /\ Tinted(cols'[p], all)
      BY <2>3, <3>1, <3>2, <3>3, MergeKeeps
    <3> QED
      BY <3>4 DEF all
  <2>8. TypeOK'
    <3>1. cols' \in [Square(h) -> Seq(Points)]
      <4>1. cols' = [p \in Square(h) |-> cols'[p]]
        BY <2>2, <2>5
      <4> QED
        BY <2>7, <4>1
    <3> QED
      BY <2>5, <2>7, <3>1 DEF TypeOK
  <2>9. OutlineKept' /\ ColorKept'
    <3>1. /\ OutlineKept' <=> \A p \in Square(side') : Outline(cols'[p], RunsBelow(p)', gpu')
          /\ ColorKept' <=> \A p \in Square(side') : Tinted(cols'[p], RunsBelow(p)')
      BY DEF OutlineKept, ColorKept, Outline, Tinted
    <3> QED
      BY <2>1, <2>5, <2>7, <3>1
  <2> QED
    BY <2>6, <2>8, <2>9 DEF IInv
<1>2. CASE UNCHANGED vars
  <2>1. gpu' = gpu /\ leaves' = leaves /\ side' = side /\ cols' = cols
    BY <1>2 DEF vars
  <2>2. LevelOK' /\ TypeOK'
    BY <2>1 DEF IInv, LevelOK, Widths, TypeOK
  <2>3. ASSUME NEW p PROVE RunsBelow(p)' = RunsBelow(p)
    BY <2>1 DEF RunsBelow, LeavesBelow
  <2>4. /\ OutlineKept' <=> \A p \in Square(side') : Outline(cols'[p], RunsBelow(p)', gpu')
        /\ ColorKept' <=> \A p \in Square(side') : Tinted(cols'[p], RunsBelow(p)')
    BY DEF OutlineKept, ColorKept, Outline, Tinted
  <2>5. OutlineKept /\ ColorKept
    BY DEF IInv
  <2>6. OutlineKept' /\ ColorKept'
    BY <2>1, <2>3, <2>4, <2>5, KeptIs
  <2> QED
    BY <2>2, <2>6 DEF IInv
<1> QED
  BY <1>1, <1>2 DEF Next, Finished

LEMMA SpecIInv == Spec => []IInv
BY InitIInv, NextIInv, PTL DEF Spec

(* On either path, at every level, the columns are sorted lists of visible *)
(* runs, with one run at most above level 0.                               *)
THEOREM SpecTypeOK == Spec => []TypeOK
<1>1. IInv => TypeOK
  BY DEF IInv
<1> QED
  BY <1>1, SpecIInv, PTL

(* The outline of the terrain survives every level of                      *)
(* downsample_2x2_columns and of the Metal kernel.                         *)
THEOREM SpecOutlineKept == Spec => []OutlineKept
<1>1. IInv => OutlineKept
  BY DEF IInv
<1> QED
  BY <1>1, SpecIInv, PTL

(* blend_8_colors, level after level, stays within the colours it began    *)
(* with.                                                                   *)
THEOREM SpecColorKept == Spec => []ColorKept
<1>1. IInv => ColorKept
  BY DEF IInv
<1> QED
  BY <1>1, SpecIInv, PTL
-----------------------------------------------------------------------------
(* The four columns under a parent. *)
LEMMA FourIn ==
  ASSUME IInv, NEW p \in Parents
  PROVE  \A i \in 1 .. 4 : Four(p)[i] \in Seq(Points)
<1>1. Widths
  BY DEF IInv, LevelOK
<1>2. side \in Nat \ {0}
  BY <1>1, Powers DEF Widths
<1>3. side > 1 /\ p \in Square(side \div 2)
  BY <1>2 DEF Parents
<1>4. PICK h \in Nat \ {0} : side = 2 * h /\ side \div 2 = h
  BY <1>1, <1>3, HalfWidth
<1>5. ASSUME NEW i \in 1 .. 4 PROVE Four(p)[i] \in Seq(Points)
  <2>1. Child(p, i) \in Square(side)
    BY <1>3, <1>4, ChildIn
  <2>2. Four(p)[i] = cols[Child(p, i)]
    BY DEF Four, Child
  <2> QED
    BY <2>1, <2>2 DEF IInv, TypeOK
<1> QED
  BY <1>5

LEMMA AgreeIInv == IInv => BackendsAgree
<1> SUFFICES ASSUME IInv, NEW p \in Parents, \A i \in 1 .. 4 : Len(Four(p)[i]) <= 1
             PROVE  CpuColumn(Four(p)) = GpuColumn(Four(p))
  BY DEF BackendsAgree
<1> DEFINE four == Four(p)
<1>1. \A i \in 1 .. 4 : four[i] \in Seq(Points) /\ Len(four[i]) <= 1
  BY FourIn
<1>2. four = [i \in 1 .. 4 |-> four[i]]
  BY DEF Four
<1> HIDE DEF four
<1>3. \A i \in 1 .. 4 : TopRun(four[i]) = four[i]
  BY <1>1, TopsAre
<1>4. Tops(four) = four
  BY <1>2, <1>3 DEF Tops
<1>5. GpuColumn(four) = CpuColumn(Tops(four))
  BY <1>1, GpuIsCpuOfTops
<1> QED
  BY <1>4, <1>5 DEF four

LEMMA SimdIInv == IInv => SimdAgrees
<1> SUFFICES ASSUME IInv, NEW p \in Parents
             PROVE  LET colors == SamplesOf(Together(Four(p)))
                    IN  BlendAvx2(colors) = BlendScalar(colors) /\ BlendNeon(colors) = BlendScalar(colors)
  BY DEF SimdAgrees
<1>1. Together(Four(p)) \in Seq(Points)
  BY FourIn, TogetherIs
<1>2. SamplesOf(Together(Four(p))) \in Colors
  BY <1>1, SamplesIn
<1> QED
  BY <1>2, Avx2Agrees, NeonAgrees

(* The Metal kernel and downsample_2x2_columns agree on columns of one run *)
(* at most, at every level of every grid.                                  *)
THEOREM SpecBackendsAgree == Spec => []BackendsAgree
BY SpecIInv, AgreeIInv, PTL

(* blend_8_colors_avx2 and blend_8_colors_neon give what the scalar loop   *)
(* gives, for every parent column the program ever blends.                 *)
THEOREM SpecSimdAgrees == Spec => []SimdAgrees
BY SpecIInv, SimdIInv, PTL
-----------------------------------------------------------------------------
(***************************************************************************)
(* The bytes of a level.                                                   *)
(***************************************************************************)
Bytes == 0 .. ByteRange - 1

(* write_varint unrolled n times. *)
VarintStep(g) ==
  [value \in Nat |-> IF value >= VarBase THEN <<(value % VarBase) + VarBase>> \o g[value \div VarBase] ELSE <<value>>]

LEMMA VarBaseIs ==
  /\ VarBase \in Nat \ {0} /\ VarBase >= 8 /\ ByteRange = 2 * VarBase /\ ByteRange \in Nat \ {0}
BY CodecAssumption

LEMMA Digits ==
  ASSUME NEW value \in Nat
  PROVE  /\ value % VarBase \in 0 .. VarBase - 1 /\ value \div VarBase \in Nat
         /\ value = VarBase * (value \div VarBase) + (value % VarBase)
         /\ value >= VarBase => value \div VarBase < value
<1>1. PICK d \in Nat \ {0} : d = VarBase /\ d >= 8
  BY VarBaseIs
<1>2. PICK q \in Int, r \in 0 .. d - 1 : q = value \div d /\ r = value % d /\ value = d * q + r
  BY DivMod
<1>3. q \in Nat
  BY <1>2, DivBounds
<1>4. ASSUME value >= d PROVE q < value
  <2>1. ~(q >= value)
    <3> SUFFICES ASSUME q >= value PROVE FALSE
      OBVIOUS
    <3>1. value >= value * d
      BY <1>2, DivBounds
    <3>2. value * d >= value * 2
      <4>1. PICK e \in Nat : d = 2 + e
        <5>1. d - 2 \in Nat /\ d = 2 + (d - 2)
          BY <1>1
        <5> QED
          BY <5>1
      <4>2. value * (2 + e) = value * 2 + value * e /\ value * e \in Nat
        OBVIOUS
      <4> QED
        BY <4>1, <4>2
    <3> QED
      BY <1>4, <3>1, <3>2
  <2> QED
    BY <1>3, <2>1
<1> QED
  BY <1>1, <1>2, <1>3, <1>4

LEMMA VarintIs ==
  \A value \in Nat :
    write_varint[value] =
      IF value >= VarBase THEN <<(value % VarBase) + VarBase>> \o write_varint[value \div VarBase] ELSE <<value>>
<1> DEFINE V == [Nat -> Seq(Nat)]
           b == [value \in Nat |-> <<>>]
           F == [p \in V \X Nat |-> VarintStep(p[1])]
           Is(h) == h = [value \in Nat |-> IF value >= VarBase THEN <<(value % VarBase) + VarBase>> \o h[value \div VarBase]
                                           ELSE <<value>>]
<1>1. \A g \in V : VarintStep(g) \in V
  <2> SUFFICES ASSUME NEW g \in V, NEW value \in Nat
               PROVE  (IF value >= VarBase THEN <<(value % VarBase) + VarBase>> \o g[value \div VarBase] ELSE <<value>>) \in Seq(Nat)
    BY DEF VarintStep
  <2>1. g[value \div VarBase] \in Seq(Nat) /\ (value % VarBase) + VarBase \in Nat
    <3>1. value % VarBase \in 0 .. VarBase - 1 /\ value \div VarBase \in Nat
      BY Digits
    <3>2. VarBase \in Nat
      BY VarBaseIs
    <3> QED
      BY <3>1, <3>2
  <2>2. <<(value % VarBase) + VarBase>> \in Seq(Nat) /\ <<value>> \in Seq(Nat)
    BY <2>1
  <2> HIDE DEF V
  <2> QED
    BY <2>1, <2>2, ConcatProperties
<1>2. b \in V /\ F \in [V \X Nat -> V]
  <2>1. b \in V
    OBVIOUS
  <2> HIDE DEF V
  <2> QED
    BY <1>1, <2>1
<1> HIDE DEF b
<1>3. PICK f : RecursiveOnNat(V, b, F, f)
  <2> HIDE DEF V, F
  <2> QED
    BY <1>2, RecursionOnNat
<1>4. \A n \in Nat : f[n] \in V /\ f[n + 1] = VarintStep(f[n])
  <2> TAKE n \in Nat
  <2>1. f[n] \in V
    BY <1>3 DEF RecursiveOnNat
  <2>2. n + 1 \in Nat \ {0} /\ (n + 1) - 1 = n
    OBVIOUS
  <2>3. f[n + 1] = F[<<f[n], n + 1>>]
    BY <1>3, <2>2 DEF RecursiveOnNat
  <2> HIDE DEF V
  <2> QED
    BY <2>1, <2>2, <2>3
<1> HIDE DEF V, F
<1>5. \A n, value \in Nat :
        f[n + 1][value] = IF value >= VarBase THEN <<(value % VarBase) + VarBase>> \o f[n][value \div VarBase] ELSE <<value>>
  BY <1>4 DEF VarintStep
<1> DEFINE T == {n \in Nat : \A value \in Nat : value < n => f[n + 1][value] = f[n][value]}
<1>6. 0 \in T
  OBVIOUS
<1>7. ASSUME NEW n \in Nat, n \in T PROVE n + 1 \in T
  <2> SUFFICES ASSUME NEW value \in Nat, value < n + 1
               PROVE  f[(n + 1) + 1][value] = f[n + 1][value]
    OBVIOUS
  <2>1. value >= VarBase => f[n + 1][value \div VarBase] = f[n][value \div VarBase]
    <3>1. ASSUME value >= VarBase PROVE value \div VarBase \in Nat /\ value \div VarBase < n
      BY <3>1, Digits
    <3> QED
      BY <1>7, <3>1
  <2>2. n + 1 \in Nat
    OBVIOUS
  <2> HIDE DEF T
  <2> QED
    BY <1>5, <2>1, <2>2
<1> HIDE DEF T
<1>8. Nat \subseteq T
  BY <1>6, <1>7, SetInduction
<1> DEFINE t == [value \in Nat |-> f[value + 1][value]]
<1>9. \A value, k \in Nat : f[value + 1 + k][value] = t[value]
  <2> TAKE value \in Nat
  <2> DEFINE U == {k \in Nat : f[value + 1 + k][value] = t[value]}
  <2>1. 0 \in U
    <3>1. value + 1 + 0 = value + 1
      OBVIOUS
    <3> QED
      BY <3>1
  <2>2. ASSUME NEW k \in Nat, k \in U PROVE k + 1 \in U
    <3>1. value + 1 + k \in Nat /\ value < value + 1 + k /\ value + 1 + (k + 1) = (value + 1 + k) + 1
      OBVIOUS
    <3>2. f[(value + 1 + k) + 1][value] = f[value + 1 + k][value]
      BY <1>8, <3>1 DEF T
    <3> HIDE DEF t
    <3> QED
      BY <2>2, <3>1, <3>2
  <2> HIDE DEF U
  <2>3. Nat \subseteq U
    BY <2>1, <2>2, SetInduction
  <2> QED
    BY <2>3 DEF U
<1>10. Is(t)
  <2>1. ASSUME NEW value \in Nat
        PROVE  t[value] = IF value >= VarBase THEN <<(value % VarBase) + VarBase>> \o t[value \div VarBase] ELSE <<value>>
    <3>1. t[value] = f[value + 1][value]
      OBVIOUS
    <3>2. ASSUME value >= VarBase PROVE f[value][value \div VarBase] = t[value \div VarBase]
      <4> DEFINE w == value \div VarBase
      <4>1. w \in Nat /\ w < value
        BY <3>2, Digits
      <4> HIDE DEF w
      <4>2. value - (w + 1) \in Nat /\ value = w + 1 + (value - (w + 1))
        BY <4>1
      <4> HIDE DEF t
      <4> QED
        BY <1>9, <4>1, <4>2 DEF w
    <3> HIDE DEF t
    <3> QED
      BY <1>5, <3>1, <3>2
  <2>2. t = [value \in Nat |-> t[value]]
    OBVIOUS
  <2> HIDE DEF t
  <2> QED
    BY <2>1, <2>2
<1>11. Is(write_varint)
  <2> DEFINE c == CHOOSE h : Is(h)
  <2>1. write_varint = c
    BY DEF write_varint
  <2> HIDE DEF t
  <2>2. Is(c)
    BY <1>10
  <2> HIDE DEF c, Is
  <2> QED
    BY <2>1, <2>2
<1> QED
  BY <1>11

LEMMA VarintBytes == \A value \in Nat : write_varint[value] \in Seq(Bytes) /\ Len(write_varint[value]) \in Nat \ {0}
<1> DEFINE S == {value \in Nat : write_varint[value] \in Seq(Bytes) /\ Len(write_varint[value]) \in Nat \ {0}}
<1>1. ASSUME NEW value \in Nat, \A m \in Nat : m < value => m \in S
      PROVE  value \in S
  <2>1. PICK d \in Nat \ {0} : d = VarBase /\ d >= 8 /\ ByteRange = 2 * d
    BY VarBaseIs
  <2> SUFFICES write_varint[value] \in Seq(Bytes) /\ Len(write_varint[value]) \in Nat \ {0}
    OBVIOUS
  <2>0. value >= VarBase => value \div VarBase \in S
    BY <1>1, Digits
  <2>2. CASE value >= VarBase
    <3> DEFINE w == write_varint[value \div VarBase]
               first == <<(value % VarBase) + VarBase>>
    <3>1. w \in Seq(Bytes) /\ Len(w) \in Nat \ {0}
      BY <2>0, <2>2
    <3>2. value % VarBase \in 0 .. d - 1
      BY <2>1, Digits
    <3>3. (value % VarBase) + d \in 0 .. 2 * d - 1
      BY <3>2
    <3>4. first \in Seq(Bytes) /\ Len(first) = 1
      BY <2>1, <3>3 DEF Bytes
    <3>5. write_varint[value] = first \o w
      BY <2>2, VarintIs
    <3> HIDE DEF first, w, S
    <3>6. first \o w \in Seq(Bytes) /\ Len(first \o w) = Len(first) + Len(w)
      BY <3>1, <3>4, ConcatProperties
    <3>7. 1 + Len(w) \in Nat \ {0}
      BY <3>1
    <3> QED
      BY <3>4, <3>5, <3>6, <3>7, Zenon
  <2>3. CASE ~(value >= VarBase)
    <3>1. value \in 0 .. 2 * d - 1
      BY <2>1, <2>3
    <3>2. write_varint[value] = <<value>>
      BY <2>3, VarintIs
    <3>3. value \in Bytes
      BY <2>1, <3>1 DEF Bytes
    <3> HIDE DEF S
    <3>4. <<value>> \in Seq(Bytes) /\ Len(<<value>>) = 1 /\ 1 \in Nat \ {0}
      BY <3>3
    <3> QED
      BY <3>2, <3>4, Zenon
  <2> QED
    BY <2>2, <2>3
<1> HIDE DEF S
<1>2. Nat \subseteq S
  BY <1>1, StrongInduction
<1> QED
  BY <1>2 DEF S

(* A column of heights that fit in a word has at most as many runs as      *)
(* there are words, so VarintMax bytes of the table hold its size.         *)
LEMMA VarintFits ==
  ASSUME NEW value \in Nat, value <= ByteRange * ByteRange
  PROVE  Len(write_varint[value]) <= VarintMax
<1>1. PICK d \in Nat \ {0} : d = VarBase /\ d >= 8 /\ ByteRange = 2 * d
  BY VarBaseIs
<1>2. \A v \in Nat : v >= d => /\ v \div d \in Nat
                               /\ Len(write_varint[v]) = 1 + Len(write_varint[v \div d])
  <2> SUFFICES ASSUME NEW v \in Nat, v >= d
               PROVE  /\ v \div d \in Nat
                      /\ Len(write_varint[v]) = 1 + Len(write_varint[v \div d])
    OBVIOUS
  <2> DEFINE w == write_varint[v \div d]
             first == <<(v % d) + d>>
  <2>1. v \div d \in Nat /\ v % d \in 0 .. d - 1
    BY <1>1, Digits
  <2>2. write_varint[v] = first \o w
    BY <1>1, VarintIs
  <2>3. w \in Seq(Bytes)
    BY <2>1, VarintBytes
  <2>4. first \in Seq(Bytes) /\ Len(first) = 1
    <3>1. (v % d) + d \in 0 .. 2 * d - 1
      BY <2>1
    <3> QED
      BY <1>1, <3>1 DEF Bytes
  <2> HIDE DEF first, w
  <2>5. Len(first \o w) = Len(first) + Len(w)
    BY <2>3, <2>4, ConcatProperties
  <2> QED
    BY <2>1, <2>2, <2>4, <2>5 DEF w
<1>3. \A v \in Nat : v < d => Len(write_varint[v]) = 1
  <2> SUFFICES ASSUME NEW v \in Nat, v < d PROVE Len(write_varint[v]) = 1
    OBVIOUS
  <2>0. ~(v >= VarBase)
    BY <1>1
  <2>1. write_varint[v] = <<v>>
    BY <2>0, VarintIs, Zenon
  <2>2. Len(<<v>>) = 1
    OBVIOUS
  <2> QED
    BY <2>1, <2>2, Zenon
<1> DEFINE v1 == value \div d
           v2 == v1 \div d
<1>4. value <= (2 * d) * (2 * d)
  BY <1>1
<1>5. v1 <= 4 * d
  <2>1. (2 * d) * (2 * d) = (4 * d) * d /\ 4 * d \in Int
    OBVIOUS
  <2>2. value < (4 * d + 1) * d
    <3>1. (4 * d + 1) * d = (4 * d) * d + d /\ (4 * d) * d \in Int
      OBVIOUS
    <3> QED
      BY <1>4, <2>1, <3>1
  <2> QED
    BY <2>1, <2>2, DivBounds
<1>6. value >= d => v1 \in Nat
  BY <1>2
<1> HIDE DEF v1
<1>7. v1 \in Nat => v2 < d
  <2> SUFFICES ASSUME v1 \in Nat PROVE v2 < d
    OBVIOUS
  <2>1. v2 <= 4
    <3>1. v1 < (4 + 1) * d
      BY <1>5
    <3>2. 4 \in Int
      OBVIOUS
    <3> QED
      BY <3>1, <3>2, DivBounds
  <2>2. v2 \in Int
    BY DivMod
  <2> HIDE DEF v2
  <2> QED
    BY <1>1, <2>1, <2>2
<1> HIDE DEF v2
<1>8. v1 \in Nat => Len(write_varint[v1]) \in 1 .. 2
  <2> SUFFICES ASSUME v1 \in Nat PROVE Len(write_varint[v1]) \in 1 .. 2
    OBVIOUS
  <2>1. CASE v1 < d
    <3>1. Len(write_varint[v1]) = 1 /\ 1 \in 1 .. 2
      BY <1>3, <2>1
    <3> QED
      BY <3>1, Zenon
  <2>2. CASE ~(v1 < d)
    <3>1. v1 >= d
      BY <1>1, <2>2
    <3>2. v2 \in Nat /\ Len(write_varint[v1]) = 1 + Len(write_varint[v2])
      BY <1>2, <3>1 DEF v2
    <3>3. Len(write_varint[v2]) = 1
      BY <1>3, <1>7, <3>2
    <3>4. 1 + 1 \in 1 .. 2
      OBVIOUS
    <3> QED
      BY <3>2, <3>3, <3>4, Zenon
  <2> QED
    BY <2>1, <2>2
<1>9. Len(write_varint[value]) \in 1 .. VarintMax
  <2>1. 1 .. VarintMax = 1 .. 3
    BY DEF VarintMax
  <2>2. CASE value < d
    <3>1. Len(write_varint[value]) = 1 /\ 1 \in 1 .. 3
      BY <1>3, <2>2
    <3> QED
      BY <2>1, <3>1, Zenon
  <2>3. CASE ~(value < d)
    <3>1. value >= d
      BY <1>1, <2>3
    <3>2. v1 \in Nat /\ Len(write_varint[value]) = 1 + Len(write_varint[v1])
      BY <1>2, <3>1 DEF v1
    <3>3. Len(write_varint[v1]) \in 1 .. 2
      BY <1>8, <3>2
    <3>4. \A n \in 1 .. 2 : 1 + n \in 1 .. 3
      OBVIOUS
    <3> QED
      BY <2>1, <3>2, <3>3, <3>4, Zenon
  <2> QED
    BY <2>2, <2>3
<1>10. \A n \in 1 .. VarintMax : n <= VarintMax
  BY DEF VarintMax
<1> QED
  BY <1>9, <1>10, Zenon

(* A word and what is read of it.                                          *)
LEMMA WordIs ==
  ASSUME NEW n \in Int
  PROVE  /\ Word(n) \in Seq(Bytes) /\ Len(Word(n)) = 2
         /\ Word(n)[1] \in Bytes /\ Word(n)[2] \in Bytes
         /\ Word(n)[1] * ByteRange + Word(n)[2] = n % WordRange
<1>1. PICK b \in Nat \ {0} : b = ByteRange
  BY VarBaseIs
<1>2. PICK q \in Int, l \in 0 .. b - 1 : q = n \div b /\ l = n % b /\ n = b * q + l
  BY DivMod
<1>3. PICK p \in Int, h \in 0 .. b - 1 : p = q \div b /\ h = q % b /\ q = b * p + h
  BY DivMod
<1>4. Word(n) = <<h, l>>
  BY <1>1, <1>2, <1>3 DEF Word
<1>5. h * b + l = n % (b * b)
  <2>1. n = (b * b) * p + (h * b + l)
    <3>1. b * (b * p + h) + l = (b * b) * p + (h * b + l)
      OBVIOUS
    <3> QED
      BY <1>2, <1>3, <3>1
  <2>2. b * b \in Nat \ {0} /\ h * b + l \in 0 .. b * b - 1
    <3>1. PICK k \in Nat : b - 1 = h + k
      <4>1. b - 1 - h \in Nat /\ b - 1 = h + (b - 1 - h)
        OBVIOUS
      <4> QED
        BY <4>1
    <3>2. b = h + 1 + k
      BY <3>1
    <3>3. b * b = h * b + b + k * b
      <4>1. (h + 1 + k) * b = h * b + b + k * b
        OBVIOUS
      <4> QED
        BY <3>2, <4>1
    <3>4. h * b \in Nat /\ k * b \in Nat
      OBVIOUS
    <3> QED
      BY <3>3, <3>4
  <2> DEFINE r == h * b + l
             d == b * b
  <2> HIDE DEF r, d
  <2>3. n = d * p + r /\ d \in Nat \ {0} /\ r \in 0 .. d - 1
    BY <2>1, <2>2 DEF r, d
  <2>4. n % d = r
    BY <2>3, DivUnique
  <2> QED
    BY <2>4 DEF r, d
<1>6. <<h, l>> \in Seq(Bytes) /\ Len(<<h, l>>) = 2 /\ <<h, l>>[1] = h /\ <<h, l>>[2] = l /\ h \in Bytes /\ l \in Bytes
  BY <1>1 DEF Bytes
<1> QED
  BY <1>1, <1>4, <1>5, <1>6 DEF WordRange

Fitting == {point \in Points : Storable(point)}

LEMMA WordRangeIs ==
  \E half \in Nat \ {0} : WordRange = 2 * half /\ WordRange \div 2 = half /\ Heights = - half .. half - 1
<1>1. PICK d \in Nat \ {0} : ByteRange = 2 * d
  BY VarBaseIs
<1>2. (2 * d) * (2 * d) = 2 * (2 * (d * d)) /\ 2 * (d * d) \in Nat \ {0}
  OBVIOUS
<1>3. PICK half \in Nat \ {0} : WordRange = 2 * half
  BY <1>1, <1>2 DEF WordRange
<1>4. (2 * half) \div 2 = half
  OBVIOUS
<1> QED
  BY <1>3, <1>4 DEF Heights

LEMMA SignedWord ==
  ASSUME NEW n \in Heights
  PROVE  Signed(n % WordRange, WordRange) = n
<1>1. PICK half \in Nat \ {0} : WordRange = 2 * half /\ WordRange \div 2 = half /\ Heights = - half .. half - 1
  BY WordRangeIs
<1>2. n \in Int /\ - half <= n /\ n <= half - 1
  BY <1>1
<1> DEFINE d == 2 * half
<1>3. d \in Nat \ {0}
  OBVIOUS
<1>4. CASE n >= 0
  <2>1. n = d * 0 + n /\ n \in 0 .. d - 1 /\ 0 \in Int
    BY <1>2, <1>4
  <2> HIDE DEF d
  <2>2. n % d = n
    BY <1>3, <2>1, DivUnique
  <2> QED
    BY <1>1, <1>2, <2>2 DEF Signed, d
<1>5. CASE ~(n >= 0)
  <2>1. n = d * (-1) + (n + d) /\ n + d \in 0 .. d - 1 /\ -1 \in Int
    BY <1>2, <1>5
  <2> DEFINE r == n + d
  <2>2. n % d = r
    <3> HIDE DEF d, r
    <3>1. n = d * (-1) + r /\ r \in 0 .. d - 1 /\ -1 \in Int
      BY <2>1 DEF r
    <3> QED
      BY <1>3, <3>1, DivUnique
  <2>3. r >= half
    BY <1>2
  <2>4. r - d = n
    BY <1>2
  <2> QED
    BY <1>1, <2>2, <2>3, <2>4 DEF Signed
<1> QED
  BY <1>2, <1>4, <1>5
-----------------------------------------------------------------------------
(* The rolling checksum.  Equal remainders are a multiple of the divisor   *)
(* apart, and numbers less than the divisor apart are the same.            *)
LEMMA EqualRemainders ==
  ASSUME NEW d \in Nat \ {0}, NEW a \in Int, NEW b \in Int, a % d = b % d
  PROVE  \E k \in Int : a - b = d * k
<1>1. PICK p \in Int, r \in 0 .. d - 1 : r = a % d /\ a = d * p + r
  BY DivMod
<1>2. PICK q \in Int, s \in 0 .. d - 1 : s = b % d /\ b = d * q + s
  BY DivMod
<1>3. r = s
  BY <1>1, <1>2
<1>4. p - q \in Int /\ (d * p + r) - (d * q + r) = d * (p - q)
  OBVIOUS
<1>5. a - b = d * (p - q)
  BY <1>1, <1>2, <1>3, <1>4
<1> QED
  BY <1>4, <1>5

LEMMA NoMultipleBetween ==
  ASSUME NEW d \in Nat \ {0}, NEW k \in Int, NEW x \in Int, x = d * k, - d < x, x < d
  PROVE  x = 0
<1>1. k < 1
  <2> SUFFICES ASSUME k >= 1 PROVE FALSE
    OBVIOUS
  <2>1. k - 1 \in Nat /\ d * k = d + d * (k - 1)
    OBVIOUS
  <2>2. d * (k - 1) \in Nat
    BY <2>1
  <2> QED
    BY <2>1, <2>2
<1>2. k > -1
  <2> SUFFICES ASSUME k <= -1 PROVE FALSE
    OBVIOUS
  <2>1. - k - 1 \in Nat /\ d * k = - d - d * (- k - 1)
    OBVIOUS
  <2>2. d * (- k - 1) \in Nat
    BY <2>1
  <2> QED
    BY <2>1, <2>2
<1>3. k = 0
  BY <1>1, <1>2
<1>4. d * 0 = 0
  OBVIOUS
<1> QED
  BY <1>3, <1>4

Checks == 0 .. CheckRange - 1

LEMMA ChecksIs ==
  /\ CheckRange \in Nat \ {0} /\ CheckRange >= ByteRange /\ 1 \in Checks
  /\ \E inverse \in Checks : (31 * inverse) % CheckRange = 1
<1>1. CheckRange \in Nat /\ CheckRange >= ByteRange /\ ByteRange = 2 * VarBase /\ VarBase \in Nat /\ VarBase >= 8
  BY CodecAssumption
<1>2. CheckRange \in Nat \ {0} /\ 1 \in 0 .. CheckRange - 1
  BY <1>1
<1>3. \E inverse \in 0 .. CheckRange - 1 : (31 * inverse) % CheckRange = 1
  BY CodecAssumption
<1> QED
  BY <1>1, <1>2, <1>3 DEF Checks

LEMMA SignedByte ==
  ASSUME NEW b \in Bytes
  PROVE  Signed(b, ByteRange) \in - VarBase .. VarBase - 1
<1>1. PICK d \in Nat \ {0} : d = VarBase /\ ByteRange = 2 * d
  BY VarBaseIs
<1>2. (2 * d) \div 2 = d
  OBVIOUS
<1>3. b \in 0 .. 2 * d - 1
  BY <1>1 DEF Bytes
<1>4. Signed(b, ByteRange) = IF b >= d THEN b - 2 * d ELSE b
  BY <1>1, <1>2 DEF Signed
<1>5. (IF b >= d THEN b - 2 * d ELSE b) \in - d .. d - 1
  BY <1>3
<1> QED
  BY <1>1, <1>4, <1>5

LEMMA SignedByteOnce ==
  ASSUME NEW a \in Bytes, NEW b \in Bytes, Signed(a, ByteRange) = Signed(b, ByteRange)
  PROVE  a = b
<1>1. PICK d \in Nat \ {0} : d = VarBase /\ ByteRange = 2 * d
  BY VarBaseIs
<1>2. (2 * d) \div 2 = d
  OBVIOUS
<1>3. a \in 0 .. 2 * d - 1 /\ b \in 0 .. 2 * d - 1
  BY <1>1 DEF Bytes
<1>4. /\ Signed(a, ByteRange) = IF a >= d THEN a - 2 * d ELSE a
      /\ Signed(b, ByteRange) = IF b >= d THEN b - 2 * d ELSE b
  BY <1>1, <1>2 DEF Signed
<1>5. (IF a >= d THEN a - 2 * d ELSE a) = (IF b >= d THEN b - 2 * d ELSE b)
  BY <1>4, Zenon
<1>6. \A x, y \in 0 .. 2 * d - 1 : (IF x >= d THEN x - 2 * d ELSE x) = (IF y >= d THEN y - 2 * d ELSE y) => x = y
  OBVIOUS
<1> QED
  BY <1>3, <1>5, <1>6, Zenon

LEMMA RolledIn ==
  ASSUME NEW x \in Checks, NEW b \in Bytes
  PROVE  Rolled(x, b) \in Checks
<1>1. PICK s \in Int : s = Signed(b, ByteRange)
  <2>1. VarBase \in Nat /\ Signed(b, ByteRange) \in - VarBase .. VarBase - 1
    BY VarBaseIs, SignedByte
  <2> QED
    BY <2>1
<1>2. PICK d \in Nat \ {0} : d = CheckRange
  BY ChecksIs
<1>3. x \in Int
  BY <1>2 DEF Checks
<1>4. x * 31 + s \in Int
  BY <1>3
<1>5. (x * 31 + s) % d \in 0 .. d - 1
  BY <1>4, DivMod
<1> QED
  BY <1>1, <1>2, <1>5 DEF Rolled, Checks

(* A step of the checksum forgets neither where it was nor the byte: 31    *)
(* can be divided by, and no two bytes are CheckRange apart.               *)
LEMMA RolledKeepsCheck ==
  ASSUME NEW x \in Checks, NEW y \in Checks, NEW b \in Bytes, Rolled(x, b) = Rolled(y, b)
  PROVE  x = y
<1>1. PICK s \in Int : s = Signed(b, ByteRange)
  <2>1. VarBase \in Nat /\ Signed(b, ByteRange) \in - VarBase .. VarBase - 1
    BY VarBaseIs, SignedByte
  <2> QED
    BY <2>1
<1>2. PICK d \in Nat \ {0}, j \in Int : d = CheckRange /\ (31 * j) % d = 1
  <2>1. PICK inverse \in Checks : (31 * inverse) % CheckRange = 1
    BY ChecksIs
  <2>2. CheckRange \in Nat \ {0} /\ inverse \in Int
    BY ChecksIs DEF Checks
  <2> QED
    BY <2>1, <2>2
<1>3. x \in 0 .. d - 1 /\ y \in 0 .. d - 1
  BY <1>2 DEF Checks
<1>4. (x * 31 + s) % d = (y * 31 + s) % d
  BY <1>1, <1>2 DEF Rolled
<1>5. PICK k \in Int : (x * 31 + s) - (y * 31 + s) = d * k
  <2>1. x * 31 + s \in Int /\ y * 31 + s \in Int
    BY <1>3
  <2> DEFINE u == x * 31 + s
             v == y * 31 + s
  <2> HIDE DEF u, v
  <2>2. u \in Int /\ v \in Int /\ u % d = v % d
    BY <1>4, <2>1 DEF u, v
  <2>3. \E k \in Int : u - v = d * k
    BY <2>2, EqualRemainders
  <2> QED
    BY <2>3 DEF u, v
<1>6. PICK m \in Int : 31 * j = d * m + 1
  <2>1. 31 * j \in Int
    OBVIOUS
  <2> DEFINE u == 31 * j
  <2> HIDE DEF u
  <2>2. u = d * (u \div d) + (u % d) /\ u \div d \in Int /\ u % d = 1
    BY <1>2, <2>1, DivMod DEF u
  <2> QED
    BY <2>2 DEF u
<1>7. PICK t \in Int : t = x - y
  BY <1>3
<1>8. 31 * t = d * k
  BY <1>3, <1>5, <1>7
<1>9. t = d * (j * k - m * t) /\ j * k - m * t \in Int
  <2>1. j * (31 * t) = (31 * j) * t
    OBVIOUS
  <2>2. j * (d * k) = (d * m + 1) * t
    BY <1>6, <1>8, <2>1
  <2>3. (d * m + 1) * t = d * (m * t) + t
    OBVIOUS
  <2>4. j * (d * k) = d * (j * k)
    OBVIOUS
  <2>5. d * (j * k) - d * (m * t) = d * (j * k - m * t)
    OBVIOUS
  <2>6. d * (j * k) \in Int /\ d * (m * t) \in Int /\ j * k - m * t \in Int
    OBVIOUS
  <2> DEFINE u == d * (j * k)
             v == d * (m * t)
  <2> HIDE DEF u, v
  <2>7. u = v + t /\ u \in Int /\ v \in Int
    BY <2>2, <2>3, <2>4, <2>6 DEF u, v
  <2>8. t = u - v
    BY <2>7
  <2> QED
    BY <2>5, <2>6, <2>8 DEF u, v
<1>10. t = 0
  <2>1. - d < t /\ t < d
    BY <1>3, <1>7
  <2> QED
    BY <1>9, <2>1, NoMultipleBetween
<1> QED
  BY <1>3, <1>7, <1>10

LEMMA RolledKeepsByte ==
  ASSUME NEW x \in Checks, NEW a \in Bytes, NEW b \in Bytes, Rolled(x, a) = Rolled(x, b)
  PROVE  a = b
<1>1. PICK h \in Nat \ {0}, d \in Nat \ {0} : h = VarBase /\ d = CheckRange /\ 2 * h <= d
  BY VarBaseIs, ChecksIs
<1>2. PICK s \in - h .. h - 1, t \in - h .. h - 1 : s = Signed(a, ByteRange) /\ t = Signed(b, ByteRange)
  BY <1>1, SignedByte
<1>3. x \in Int
  BY <1>1 DEF Checks
<1>4. (x * 31 + s) % d = (x * 31 + t) % d
  BY <1>1, <1>2 DEF Rolled
<1>5. PICK k \in Int : (x * 31 + s) - (x * 31 + t) = d * k
  <2>1. x * 31 + s \in Int /\ x * 31 + t \in Int
    BY <1>3
  <2> DEFINE u == x * 31 + s
             v == x * 31 + t
  <2> HIDE DEF u, v
  <2>2. u \in Int /\ v \in Int /\ u % d = v % d
    BY <1>4, <2>1 DEF u, v
  <2>3. \E k \in Int : u - v = d * k
    BY <2>2, EqualRemainders
  <2> QED
    BY <2>3 DEF u, v
<1>6. s - t = d * k /\ s - t \in Int /\ - d < s - t /\ s - t < d
  BY <1>1, <1>3, <1>5
<1> DEFINE w == s - t
<1>7. w = 0
  <2> HIDE DEF w
  <2>1. w = d * k /\ w \in Int /\ - d < w /\ w < d
    BY <1>6 DEF w
  <2> QED
    BY <2>1, NoMultipleBetween
<1>8. s = t
  BY <1>7
<1> QED
  BY <1>2, <1>8, SignedByteOnce

(* The checksum after each byte.                                           *)
Rolling(bytes, f) ==
  /\ f \in [0 .. Len(bytes) -> Checks]
  /\ f[0] = 1
  /\ \A n \in 1 .. Len(bytes) : f[n] = Rolled(f[n - 1], bytes[n])

LEMMA ChecksumFolds ==
  ASSUME NEW bytes \in Seq(Bytes)
  PROVE  \E f : Rolling(bytes, f) /\ Checksum(bytes) = f[Len(bytes)]
<1> DEFINE N == Len(bytes)
           F == [p \in Checks \X Nat |-> IF p[2] \in 1 .. N THEN Rolled(p[1], bytes[p[2]]) ELSE p[1]]
           Is(h) == h = [s \in SUBSET (1 .. N) |-> IF s = {} THEN 1 ELSE Rolled(h[s \ {Max(s)}], bytes[Max(s)])]
           c == CHOOSE h : Is(h)
<1>1. N \in Nat /\ DOMAIN bytes = 1 .. N /\ \A n \in 1 .. N : bytes[n] \in Bytes
  BY ElementOfSeq, LenProperties
<1>2. F \in [Checks \X Nat -> Checks]
  <2>1. \A p \in Checks \X Nat : p[2] \in 1 .. N => Rolled(p[1], bytes[p[2]]) \in Checks
    <3> SUFFICES ASSUME NEW p \in Checks \X Nat, p[2] \in 1 .. N PROVE Rolled(p[1], bytes[p[2]]) \in Checks
      OBVIOUS
    <3>1. p[1] \in Checks /\ bytes[p[2]] \in Bytes
      BY <1>1
    <3> QED
      BY <3>1, RolledIn
  <2> HIDE DEF N
  <2> QED
    BY <2>1
<1> HIDE DEF F
<1>3. 1 \in Checks
  BY ChecksIs
<1>4. PICK h \in [SUBSET (1 .. N) -> Checks] : Folding(1, F, N, h)
  BY <1>1, <1>2, <1>3, FoldingExists
<1>5. ASSUME NEW s \in SUBSET (1 .. N), s # {}
      PROVE  Max(s) \in 1 .. N /\ s \ {Max(s)} \in SUBSET (1 .. N)
  <2>1. Max(s) \in s
    BY <1>1, <1>5, MaxIsIn
  <2> QED
    BY <2>1
<1>6. Is(h)
  <2>1. ASSUME NEW s \in SUBSET (1 .. N)
        PROVE  h[s] = IF s = {} THEN 1 ELSE Rolled(h[s \ {Max(s)}], bytes[Max(s)])
    <3>1. CASE s # {}
      <4> DEFINE m == Max(s)
                 before == h[s \ {m}]
      <4>1. m \in 1 .. N /\ m \in Nat /\ before \in Checks
        BY <1>4, <1>5, <3>1
      <4>2. h[s] = F[<<before, m>>]
        BY <1>4, <3>1 DEF Folding
      <4>3. F[<<before, m>>] = Rolled(before, bytes[m])
        <5> HIDE DEF m, before, N
        <5> QED
          BY <4>1 DEF F
      <4> QED
        BY <3>1, <4>2, <4>3
    <3>2. CASE s = {}
      BY <1>4, <3>2 DEF Folding
    <3> QED
      BY <3>1, <3>2
  <2>2. h = [s \in SUBSET (1 .. N) |-> h[s]]
    BY <1>4
  <2> QED
    BY <2>1, <2>2
<1> HIDE DEF Is
<1>7. Is(c)
  BY <1>6
<1> HIDE DEF c
<1> DEFINE f == [n \in 0 .. N |-> c[1 .. n]]
<1>8. f[0] = 1
  <2>1. 1 .. 0 \in SUBSET (1 .. N) /\ 1 .. 0 = {} /\ 0 \in 0 .. N
    BY <1>1
  <2> QED
    BY <1>7, <2>1 DEF Is
<1>9. ASSUME NEW n \in 1 .. N PROVE f[n] = Rolled(f[n - 1], bytes[n])
  <2>1. n - 1 \in Nat /\ (n - 1) + 1 = n /\ n \in 0 .. N /\ n - 1 \in 0 .. N /\ 1 .. n \in SUBSET (1 .. N)
    BY <1>1
  <2>2. Max(1 .. n) = n /\ (1 .. n) \ {Max(1 .. n)} = 1 .. n - 1 /\ 1 .. n # {}
    BY <2>1, MaxOfInterval
  <2>3. c[1 .. n] = Rolled(c[(1 .. n) \ {Max(1 .. n)}], bytes[Max(1 .. n)])
    BY <1>7, <2>1, <2>2 DEF Is
  <2> QED
    BY <2>1, <2>2, <2>3
<1>10. f \in [0 .. N -> Checks]
  <2> DEFINE T == {n \in Nat : n \in 0 .. N => f[n] \in Checks}
  <2>1. 0 \in T
    BY <1>3, <1>8
  <2>2. ASSUME NEW n \in Nat, n \in T PROVE n + 1 \in T
    <3> HIDE DEF f
    <3> SUFFICES ASSUME n + 1 \in 0 .. N PROVE f[n + 1] \in Checks
      OBVIOUS
    <3>1. n + 1 \in 1 .. N /\ n \in 0 .. N /\ (n + 1) - 1 = n
      BY <1>1
    <3>2. f[n + 1] = Rolled(f[n], bytes[n + 1]) /\ f[n] \in Checks /\ bytes[n + 1] \in Bytes
      BY <1>1, <1>9, <2>2, <3>1
    <3> QED
      BY <3>2, RolledIn
  <2> HIDE DEF T
  <2>3. Nat \subseteq T
    BY <2>1, <2>2, SetInduction
  <2>4. \A n \in 0 .. N : f[n] \in Checks
    <3> HIDE DEF f
    <3> QED
      BY <1>1, <2>3 DEF T
  <2> QED
    BY <2>4
<1>11. Checksum(bytes) = f[N]
  <2>1. Checksum(bytes) = c[1 .. N]
    BY <1>1 DEF Checksum, FoldLeft, MapThenFoldSet, c, Is
  <2>2. N \in 0 .. N
    BY <1>1
  <2> QED
    BY <2>1, <2>2
<1> HIDE DEF f
<1> QED
  BY <1>8, <1>9, <1>10, <1>11 DEF Rolling

(* Another byte anywhere makes another checksum: it differs after that     *)
(* byte, and every later byte keeps the difference.                        *)
LEMMA OtherByteOtherCheck ==
  ASSUME NEW bytes \in Seq(Bytes), NEW i \in DOMAIN bytes, NEW b \in Bytes, b # bytes[i]
  PROVE  Checksum([bytes EXCEPT ![i] = b]) # Checksum(bytes)
<1> DEFINE N == Len(bytes)
           other == [bytes EXCEPT ![i] = b]
<1>1. N \in Nat /\ DOMAIN bytes = 1 .. N /\ i \in 1 .. N /\ \A n \in 1 .. N : bytes[n] \in Bytes
  BY ElementOfSeq, LenProperties
<1>2. other \in Seq(Bytes) /\ Len(other) = N /\ \A n \in 1 .. N : other[n] = IF n = i THEN b ELSE bytes[n]
  BY <1>1, ExceptSeq
<1> HIDE DEF other
<1>3. PICK f : Rolling(bytes, f) /\ Checksum(bytes) = f[N]
  BY ChecksumFolds
<1>4. PICK g : Rolling(other, g) /\ Checksum(other) = g[N]
  BY <1>2, ChecksumFolds
<1>5. /\ \A n \in 0 .. N : f[n] \in Checks /\ g[n] \in Checks
      /\ f[0] = 1 /\ g[0] = 1
      /\ \A n \in 1 .. N : f[n] = Rolled(f[n - 1], bytes[n]) /\ g[n] = Rolled(g[n - 1], other[n])
  BY <1>2, <1>3, <1>4 DEF Rolling
<1> HIDE DEF N
<1> DEFINE T == {n \in Nat : n \in 0 .. N => (f[n] = g[n] <=> n < i)}
<1>6. 0 \in T
  BY <1>1, <1>5
<1>7. ASSUME NEW n \in Nat, n \in T PROVE n + 1 \in T
  <2> SUFFICES ASSUME n + 1 \in 0 .. N PROVE f[n + 1] = g[n + 1] <=> n + 1 < i
    OBVIOUS
  <2>1. n + 1 \in 1 .. N /\ n \in 0 .. N /\ (n + 1) - 1 = n
    BY <1>1
  <2>2. f[n + 1] = Rolled(f[n], bytes[n + 1]) /\ g[n + 1] = Rolled(g[n], other[n + 1])
    BY <1>5, <2>1
  <2>3. f[n] \in Checks /\ g[n] \in Checks /\ (f[n] = g[n] <=> n < i)
    BY <1>5, <1>7, <2>1
  <2>4. CASE n + 1 = i
    <3>1. f[n] = g[n] /\ other[n + 1] = b /\ bytes[n + 1] \in Bytes /\ bytes[n + 1] # b
      BY <1>1, <1>2, <2>1, <2>3, <2>4
    <3>2. f[n + 1] # g[n + 1]
      BY <2>2, <2>3, <3>1, RolledKeepsByte
    <3> QED
      BY <2>4, <3>2
  <2>5. CASE n + 1 # i
    <3>1. other[n + 1] = bytes[n + 1] /\ bytes[n + 1] \in Bytes
      BY <1>1, <1>2, <2>1, <2>5
    <3>2. f[n + 1] = g[n + 1] <=> f[n] = g[n]
      BY <2>2, <2>3, <3>1, RolledKeepsCheck
    <3>3. n + 1 < i <=> n < i
      BY <1>1, <2>5
    <3> QED
      BY <2>3, <3>2, <3>3
  <2> QED
    BY <2>4, <2>5
<1> HIDE DEF T
<1>8. Nat \subseteq T
  BY <1>6, <1>7, SetInduction
<1>9. N \in 0 .. N /\ ~(N < i)
  BY <1>1
<1>10. f[N] # g[N]
  BY <1>1, <1>8, <1>9 DEF T
<1> QED
  BY <1>3, <1>4, <1>10 DEF other

(* The bytes of a level are bytes.                                         *)
LEMMA FlattenType ==
  ASSUME NEW S, NEW ss \in Seq(Seq(S))
  PROVE  FlattenSeq(ss) \in Seq(S)
<1>1. PICK f : Flattening(S, ss, f) /\ FlattenSeq(ss) = f[Len(ss)]
  BY FlattenIsRecursive
<1>2. Len(ss) \in 0 .. Len(ss)
  <2>1. Len(ss) \in Nat
    BY LenProperties
  <2> QED
    BY <2>1
<1> QED
  BY <1>1, <1>2 DEF Flattening

LEMMA PointBytesIs ==
  ASSUME NEW pt \in Points
  PROVE  PointBytes(pt) \in Seq(Bytes) /\ Len(PointBytes(pt)) = PointSize
<1> DEFINE w1 == Word(pt.lo)
           w2 == Word(pt.hi)
           w3 == Word(pt.color.a * ByteRange + pt.color.c)
           w4 == Word(pt.flags)
<1>1. pt.lo \in Int /\ pt.hi \in Int /\ pt.color.a \in Nat /\ pt.color.c \in Nat /\ pt.flags \in Nat
  BY DEF Points
<1>2. pt.color.a * ByteRange + pt.color.c \in Int /\ pt.flags \in Int
  <2>1. PICK d \in Nat : d = ByteRange
    BY VarBaseIs
  <2> QED
    BY <1>1, <2>1
<1>3. /\ w1 \in Seq(Bytes) /\ Len(w1) = 2
      /\ w2 \in Seq(Bytes) /\ Len(w2) = 2
      /\ w3 \in Seq(Bytes) /\ Len(w3) = 2
      /\ w4 \in Seq(Bytes) /\ Len(w4) = 2
  BY <1>1, <1>2, WordIs
<1>4. PointBytes(pt) = w1 \o w2 \o w3 \o w4
  BY DEF PointBytes
<1> HIDE DEF w1, w2, w3, w4
<1>5. w1 \o w2 \in Seq(Bytes) /\ Len(w1 \o w2) = 4
  <2>1. w1 \o w2 \in Seq(Bytes) /\ Len(w1 \o w2) = Len(w1) + Len(w2)
    BY <1>3, ConcatProperties
  <2> QED
    BY <1>3, <2>1
<1> DEFINE w5 == w1 \o w2
<1> HIDE DEF w5
<1>6. w5 \o w3 \in Seq(Bytes) /\ Len(w5 \o w3) = 6
  <2>1. w5 \in Seq(Bytes) /\ Len(w5) = 4
    BY <1>5 DEF w5
  <2>2. w5 \o w3 \in Seq(Bytes) /\ Len(w5 \o w3) = Len(w5) + Len(w3)
    BY <1>3, <2>1, ConcatProperties
  <2> QED
    BY <1>3, <2>1, <2>2
<1> DEFINE w6 == w5 \o w3
<1> HIDE DEF w6
<1>7. w6 \o w4 \in Seq(Bytes) /\ Len(w6 \o w4) = 8
  <2>1. w6 \in Seq(Bytes) /\ Len(w6) = 6
    BY <1>6 DEF w6
  <2>2. w6 \o w4 \in Seq(Bytes) /\ Len(w6 \o w4) = Len(w6) + Len(w4)
    BY <1>3, <2>1, ConcatProperties
  <2> QED
    BY <1>3, <2>1, <2>2
<1> QED
  BY <1>4, <1>7 DEF w5, w6, PointSize

(* The sizes and the runs of a list of columns, to be put one after the    *)
(* other.                                                                  *)
Sizes(columns) == [c \in DOMAIN columns |-> Varint(Len(columns[c]))]
RunBytes(column) == [n \in DOMAIN column |-> PointBytes(column[n])]
Runs(columns) == [c \in DOMAIN columns |-> FlattenSeq(RunBytes(columns[c]))]

LEMMA SizesIs ==
  ASSUME NEW columns \in Seq(Seq(Points))
  PROVE  /\ Sizes(columns) \in Seq(Seq(Bytes)) /\ Len(Sizes(columns)) = Len(columns)
         /\ Runs(columns) \in Seq(Seq(Bytes)) /\ Len(Runs(columns)) = Len(columns)
         /\ \A c \in 1 .. Len(columns) :
              RunBytes(columns[c]) \in Seq(Seq(Bytes)) /\ Len(RunBytes(columns[c])) = Len(columns[c])
<1>1. Len(columns) \in Nat /\ DOMAIN columns = 1 .. Len(columns) /\ \A c \in 1 .. Len(columns) : columns[c] \in Seq(Points)
  BY ElementOfSeq, LenProperties
<1>2. ASSUME NEW c \in 1 .. Len(columns)
      PROVE  /\ RunBytes(columns[c]) \in Seq(Seq(Bytes)) /\ Len(RunBytes(columns[c])) = Len(columns[c])
             /\ Varint(Len(columns[c])) \in Seq(Bytes)
  <2> DEFINE column == columns[c]
  <2>1. column \in Seq(Points) /\ Len(column) \in Nat /\ DOMAIN column = 1 .. Len(column)
    BY <1>1, LenProperties
  <2> HIDE DEF column
  <2>2. \A n \in 1 .. Len(column) : PointBytes(column[n]) \in Seq(Bytes)
    BY <2>1, ElementOfSeq, PointBytesIs
  <2> DEFINE made == [n \in 1 .. Len(column) |-> PointBytes(column[n])]
  <2>3. made \in Seq(Seq(Bytes)) /\ Len(made) = Len(column)
    <3> DEFINE S == Seq(Bytes)
               N == Len(column)
               Made(n) == PointBytes(column[n])
    <3>1. N \in Nat /\ \A n \in 1 .. N : Made(n) \in S
      BY <2>1, <2>2
    <3> HIDE DEF S, N, Made
    <3>2. [n \in 1 .. N |-> Made(n)] \in Seq(S) /\ Len([n \in 1 .. N |-> Made(n)]) = N
      BY <3>1
    <3> QED
      BY <3>2 DEF S, N, Made
  <2>4. RunBytes(column) = made
    BY <2>1 DEF RunBytes
  <2>5. Varint(Len(column)) \in Seq(Bytes)
    BY <2>1, VarintBytes DEF Varint
  <2> QED
    BY <2>3, <2>4, <2>5 DEF column
<1>3. \A c \in 1 .. Len(columns) : FlattenSeq(RunBytes(columns[c])) \in Seq(Bytes)
  BY <1>2, FlattenType
<1> DEFINE S == Seq(Bytes)
           N == Len(columns)
           Size(c) == Varint(Len(columns[c]))
           Run(c) == FlattenSeq(RunBytes(columns[c]))
<1>4. N \in Nat /\ \A n \in 1 .. N : Size(n) \in S /\ Run(n) \in S
  BY <1>1, <1>2, <1>3
<1>5. Sizes(columns) = [c \in 1 .. N |-> Size(c)] /\ Runs(columns) = [c \in 1 .. N |-> Run(c)]
  BY <1>1 DEF Sizes, Runs
<1>6. /\ [c \in 1 .. N |-> Size(c)] \in Seq(S) /\ Len([c \in 1 .. N |-> Size(c)]) = N
      /\ [c \in 1 .. N |-> Run(c)] \in Seq(S) /\ Len([c \in 1 .. N |-> Run(c)]) = N
  <2> HIDE DEF S, N, Size, Run
  <2> QED
    BY <1>4
<1> QED
  BY <1>2, <1>5, <1>6

LEMMA RawIs ==
  ASSUME NEW columns \in Seq(Seq(Points))
  PROVE  RawBytes(columns) = FlattenSeq(Sizes(columns)) \o FlattenSeq(Runs(columns))
  BY DEF RawBytes, Sizes, Runs, RunBytes

LEMMA RawBytesType ==
  ASSUME NEW columns \in Seq(Seq(Points))
  PROVE  RawBytes(columns) \in Seq(Bytes)
<1>1. FlattenSeq(Sizes(columns)) \in Seq(Bytes) /\ FlattenSeq(Runs(columns)) \in Seq(Bytes)
  BY SizesIs, FlattenType
<1> QED
  BY <1>1, RawIs, ConcatProperties

LEMMA ColumnListType ==
  ASSUME IInv
  PROVE  /\ side * side \in Nat /\ ColumnList \in Seq(Seq(Points)) /\ Len(ColumnList) = side * side
         /\ \A i \in 1 .. side * side : \E p \in Square(side) : ColumnList[i] = cols[p]
<1>1. cols \in [Square(side) -> Seq(Points)]
  BY DEF IInv, TypeOK
<1>2. PICK n \in Nat \ {0} : n = side
  BY Powers DEF IInv, LevelOK, Widths
<1>3. n * n \in Nat
  OBVIOUS
<1>4. \A i \in 1 .. n * n : <<(i - 1) \div n, (i - 1) % n>> \in Square(n)
  <2> TAKE i \in 1 .. n * n
  <2>1. i - 1 \in 0 .. n * n - 1 /\ i - 1 \in Int
    BY <1>3
  <2>2. (i - 1) \div n \in 0 .. n - 1
    BY <2>1, DivBelow
  <2>3. (i - 1) % n \in 0 .. n - 1
    BY <2>1, DivMod
  <2> QED
    BY <2>2, <2>3 DEF Square
<1> DEFINE N == n * n
           At(i) == cols[<<(i - 1) \div n, (i - 1) % n>>]
           S == Seq(Points)
<1>5. \A i \in 1 .. N : At(i) \in S /\ \E p \in Square(side) : At(i) = cols[p]
  BY <1>1, <1>2, <1>4
<1>6. ColumnList = [i \in 1 .. N |-> At(i)]
  BY <1>2 DEF ColumnList
<1>7. N \in Nat
  BY <1>3
<1>8. [i \in 1 .. N |-> At(i)] \in Seq(S) /\ Len([i \in 1 .. N |-> At(i)]) = N
  <2> HIDE DEF N, At, S
  <2> QED
    BY <1>5, <1>7
<1>9. N = side * side
  BY <1>2
<1>10. \A i \in 1 .. N : ColumnList[i] = At(i)
  BY <1>6
<1> HIDE DEF N, At
<1> QED
  BY <1>5, <1>6, <1>7, <1>8, <1>9, <1>10

LEMMA StreamSeen ==
  ASSUME NEW bytes \in Seq(Bytes)
  PROVE  ChangeSeen(bytes)
<1> SUFFICES ASSUME NEW i \in DOMAIN bytes, NEW b \in 0 .. ByteRange - 1, b # bytes[i]
             PROVE  Checksum([bytes EXCEPT ![i] = b]) # Checksum(bytes)
  BY DEF ChangeSeen
<1>1. b \in Bytes
  BY DEF Bytes
<1> QED
  BY <1>1, OtherByteOtherCheck

LEMMA CheckedIInv == IInv => ChecksumSeesChange /\ ChangeSeen(Blob)
<1> SUFFICES ASSUME IInv PROVE ChecksumSeesChange /\ ChangeSeen(Blob)
  OBVIOUS
<1>1. Blob \in Seq(Bytes)
  BY ColumnListType, RawBytesType DEF Blob
<1>2. Streams \subseteq Seq(Bytes)
  BY StreamsAssumption DEF Bytes
<1> QED
  BY <1>1, <1>2, StreamSeen DEF ChecksumSeesChange, StreamChangesSeen

(* DataChecksum changes with any change of any one byte, for every stream  *)
(* of bytes and so for the blob of every section of every level, for every *)
(* grid the program can be given: what a byte adds survives all later      *)
(* rounds of *31 + byte modulo 2^32.                                       *)
THEOREM SpecChecksumSeesChange == Spec => [](ChecksumSeesChange /\ ChangeSeen(Blob))
BY SpecIInv, CheckedIInv, PTL
-----------------------------------------------------------------------------
(* At every level the fields of every run fit where they are stored: merged *)
(* heights and flags are heights and flags of a child, merged colours lie  *)
(* between theirs.                                                         *)
AllFit(column) == Elements(column) \subseteq Fitting
Fits == \A p \in Square(side) : AllFit(cols[p])

LEMMA FlagsOfOne ==
  ASSUME NEW runs \in Seq(Points)
  PROVE  FlagsOf(runs) = 0 \/ \E n \in DOMAIN runs : FlagsOf(runs) = runs[n].flags
<1>1. CASE Flagged(runs) = {}
  BY <1>1 DEF FlagsOf
<1>2. CASE Flagged(runs) # {}
  <2>1. Flagged(runs) \in SUBSET Int /\ 0 \in Int /\ \A n \in Flagged(runs) : 0 <= n /\ n \in DOMAIN runs
    BY RunsOf DEF Flagged
  <2>2. Min(Flagged(runs)) \in DOMAIN runs
    BY <1>2, <2>1, LeastOf
  <2> QED
    BY <1>2, <2>2 DEF FlagsOf
<1> QED
  BY <1>1, <1>2

LEMMA FittingIs ==
  ASSUME NEW pt
  PROVE  pt \in Fitting <=>
           /\ pt \in Points /\ pt.lo \in Heights /\ pt.hi \in Heights
           /\ pt.color.a < ByteRange /\ pt.color.c < ByteRange /\ pt.flags < WordRange
BY DEF Fitting, Storable

LEMMA MergedFits ==
  ASSUME NEW four, \A i \in 1 .. 4 : four[i] \in Seq(Points) /\ Upright(four[i]) /\ AllFit(four[i])
  PROVE  CpuColumn(four) \in Seq(Points) /\ AllFit(CpuColumn(four))
<1> DEFINE runs == Together(four)
           point == [lo |-> LowOf(runs), hi |-> HighOf(runs),
                     color |-> BlendScalar(SamplesOf(runs)), flags |-> FlagsOf(runs)]
<1>1. /\ runs \in Seq(Points)
      /\ Elements(runs) = Elements(four[1]) \cup Elements(four[2]) \cup Elements(four[3]) \cup Elements(four[4])
  BY TogetherIs
<1>2. Elements(runs) \subseteq Fitting
  <2>1. Elements(four[1]) \subseteq Fitting /\ Elements(four[2]) \subseteq Fitting
        /\ Elements(four[3]) \subseteq Fitting /\ Elements(four[4]) \subseteq Fitting
    BY DEF AllFit
  <2> QED
    BY <1>1, <2>1
<1>3. CpuColumn(four) = IF runs = <<>> THEN <<>> ELSE <<point>>
  BY DEF CpuColumn
<1> HIDE DEF runs
<1>4. CASE runs = <<>>
  <2>1. CpuColumn(four) = <<>> /\ <<>> \in Seq(Points) /\ DOMAIN <<>> = {}
    BY <1>3, <1>4
  <2> QED
    BY <2>1 DEF AllFit, Elements
<1>5. CASE runs # <<>>
  <2>1. /\ LowOf(runs) \in Int /\ HighOf(runs) \in Int
        /\ (\E n \in DOMAIN runs : LowOf(runs) = runs[n].lo)
        /\ (\E n \in DOMAIN runs : HighOf(runs) = runs[n].hi)
    BY <1>1, <1>5, LowestAndHighest
  <2>2. FlagsOf(runs) \in Nat
    BY <1>1, FlagsIn
  <2>3. \A n \in DOMAIN runs : runs[n] \in Fitting
    BY <1>2 DEF Elements
  <2>4. LowOf(runs) \in Heights /\ HighOf(runs) \in Heights
    BY <2>1, <2>3, FittingIs
  <2>5. FlagsOf(runs) < WordRange
    <3>1. 0 < WordRange
      BY WordRangeIs
    <3> QED
      BY <1>1, <2>3, <3>1, FlagsOfOne, FittingIs
  <2> DEFINE color == BlendScalar(SamplesOf(runs))
  <2>6. /\ color \in [a : Nat \ {0}, c : Nat]
        /\ Between(color.a, {r.color.a : r \in Elements(runs)})
        /\ Between(color.c, {r.color.c : r \in Elements(runs)})
    BY <1>1, <1>5, ColorBetween
  <2> HIDE DEF color
  <2>7. color.a < ByteRange /\ color.c < ByteRange
    <3>1. PICK r \in Elements(runs) : color.a <= r.color.a
      BY <2>6 DEF Between
    <3>2. PICK s \in Elements(runs) : color.c <= s.color.c
      BY <2>6 DEF Between
    <3>3. r \in Fitting /\ s \in Fitting
      BY <1>2
    <3>4. r.color.a < ByteRange /\ s.color.c < ByteRange /\ r.color.a \in Nat /\ s.color.c \in Nat
      BY <3>3, FittingIs, PointIs
    <3>5. color.a \in Nat /\ color.c \in Nat /\ ByteRange \in Nat
      BY <2>6, VarBaseIs
    <3> QED
      BY <3>1, <3>2, <3>4, <3>5
  <2>8. /\ point \in Points /\ point.lo = LowOf(runs) /\ point.hi = HighOf(runs)
        /\ point.color = color /\ point.flags = FlagsOf(runs)
    BY <2>1, <2>2, <2>6 DEF Points, color
  <2>9. CpuColumn(four) = <<point>>
    BY <1>3, <1>5
  <2> HIDE DEF point
  <2>10. point \in Fitting
    BY <2>4, <2>5, <2>7, <2>8, FittingIs
  <2>11. <<point>> \in Seq(Points) /\ Elements(<<point>>) = {point}
    BY <2>8, SingleRun DEF Elements
  <2> QED
    BY <2>9, <2>10, <2>11 DEF AllFit
<1> QED
  BY <1>4, <1>5

LEMMA InitFits == Init => Fits
<1> SUFFICES ASSUME Init, NEW p \in Square(side) PROVE AllFit(cols[p])
  BY DEF Fits
<1>1. leaves \in Grids /\ cols = leaves /\ side = Side
  BY DEF Init
<1>2. \A n \in DOMAIN leaves[p] : Storable(leaves[p][n])
  BY <1>1, StorableAssumption
<1>3. leaves[p] \in Seq(Points)
  BY <1>1, LeavesType
<1> QED
  BY <1>1, <1>2, <1>3, RunsOf DEF AllFit, Elements, Fitting

LEMMA NextFits == IInv /\ Fits /\ [Next]_vars => Fits'
<1> SUFFICES ASSUME IInv, Fits, [Next]_vars PROVE Fits'
  OBVIOUS
<1>1. CASE NextLevel
  <2>1. /\ side > 1 /\ side' = side \div 2
        /\ cols' = [p \in Square(side') |-> IF gpu THEN GpuColumn(Four(p)) ELSE CpuColumn(Four(p))]
    BY <1>1 DEF NextLevel
  <2>2. PICK h \in Nat \ {0} : side = 2 * h /\ side \div 2 = h
    BY <2>1, HalfWidth DEF IInv, LevelOK
  <2> SUFFICES ASSUME NEW p \in Square(h) PROVE AllFit(cols'[p])
    BY <2>1, <2>2 DEF Fits
  <2> DEFINE four == Four(p)
  <2>3. ASSUME NEW i \in 1 .. 4
        PROVE  /\ four[i] \in Seq(Points) /\ Sorted(four[i]) /\ AllFit(four[i])
    <3>1. Child(p, i) \in Square(side)
      BY <2>2, ChildIn
    <3>2. four[i] = cols[Child(p, i)]
      BY DEF Four, Child
    <3> QED
      BY <3>1, <3>2 DEF IInv, TypeOK, Fits
  <2>4. cols'[p] = IF gpu THEN GpuColumn(four) ELSE CpuColumn(four)
    BY <2>1, <2>2
  <2> HIDE DEF four
  <2>5. CASE gpu
    <3>1. cols'[p] = CpuColumn(Tops(four))
      BY <2>3, <2>4, <2>5, GpuIsCpuOfTops
    <3>2. ASSUME NEW i \in 1 .. 4
          PROVE  Tops(four)[i] \in Seq(Points) /\ Upright(Tops(four)[i]) /\ AllFit(Tops(four)[i])
      <4> DEFINE column == four[i]
                 top == TopRun(column)
      <4>1. /\ top \in Seq(Points)
            /\ Elements(top) = IF column = <<>> THEN {} ELSE {Last(column)}
        BY <2>3, TopsAre
      <4>2. column # <<>> => Last(column) \in Elements(column) /\ Last(column).lo <= Last(column).hi
        <5>1. ASSUME column # <<>> PROVE Last(column) = column[Len(column)] /\ Len(column) \in DOMAIN column
          BY <2>3, <5>1, RunsOf DEF Last
        <5> QED
          BY <2>3, <5>1 DEF Elements, Sorted
      <4>3. \A r \in Elements(top) : r \in Fitting /\ r.lo <= r.hi
        <5>1. Elements(column) \subseteq Fitting
          BY <2>3 DEF AllFit
        <5> HIDE DEF column, top
        <5> QED
          BY <4>1, <4>2, <5>1
      <4>4. Tops(four)[i] = top
        BY DEF Tops
      <4> HIDE DEF column, top
      <4> QED
        BY <4>1, <4>3, <4>4 DEF Upright, AllFit, Elements
    <3> QED
      BY <3>1, <3>2, MergedFits
  <2>6. CASE ~gpu
    <3>1. \A i \in 1 .. 4 : Upright(four[i])
      BY <2>3 DEF Sorted, Upright
    <3> QED
      BY <2>3, <2>4, <2>6, <3>1, MergedFits
  <2> QED
    BY <2>5, <2>6
<1>2. CASE UNCHANGED vars
  BY <1>2 DEF vars, Fits
<1> QED
  BY <1>1, <1>2 DEF Next, Finished

LEMMA SpecFits == Spec => []Fits
BY SpecIInv, InitFits, NextFits, PTL DEF Spec
-----------------------------------------------------------------------------
(* Reading the bytes.                                                      *)
Longer(S, s, m, t, u) ==
  /\ u \in Seq(S) /\ Len(u) = m + 2
  /\ \A i \in 1 .. m : u[i] = s[i]
  /\ u[m + 1] = t[1] /\ u[m + 2] = t[2]

LEMMA TwoMore ==
  ASSUME NEW S, NEW s \in Seq(S), NEW t \in Seq(S), NEW m \in Nat, Len(s) = m, Len(t) = 2
  PROVE  Longer(S, s, m, t, s \o t)
<1>1. /\ s \o t \in Seq(S) /\ Len(s \o t) = Len(s) + Len(t)
      /\ \A i \in 1 .. Len(s) + Len(t) : (s \o t)[i] = IF i <= Len(s) THEN s[i] ELSE t[i - Len(s)]
  BY ConcatProperties
<1>2. /\ s \o t \in Seq(S) /\ Len(s \o t) = m + 2
      /\ \A i \in 1 .. m + 2 : (s \o t)[i] = IF i <= m THEN s[i] ELSE t[i - m]
  BY <1>1, Zenon
<1>3. /\ \A i \in 1 .. m : i \in 1 .. m + 2 /\ i <= m
      /\ m + 1 \in 1 .. m + 2 /\ ~(m + 1 <= m) /\ (m + 1) - m = 1
      /\ m + 2 \in 1 .. m + 2 /\ ~(m + 2 <= m) /\ (m + 2) - m = 2
  OBVIOUS
<1>4. \A i \in 1 .. m : (s \o t)[i] = s[i]
  BY <1>2, <1>3
<1>5. (s \o t)[m + 1] = t[1]
  BY <1>2, <1>3
<1>6. (s \o t)[m + 2] = t[2]
  BY <1>2, <1>3
<1> QED
  BY <1>2, <1>4, <1>5, <1>6 DEF Longer

EightOf(s, a, b, c, d) ==
  /\ s[1] = a[1] /\ s[2] = a[2] /\ s[3] = b[1] /\ s[4] = b[2]
  /\ s[5] = c[1] /\ s[6] = c[2] /\ s[7] = d[1] /\ s[8] = d[2]

LEMMA Eight ==
  ASSUME NEW S, NEW a \in Seq(S), NEW b \in Seq(S), NEW c \in Seq(S), NEW d \in Seq(S),
         Len(a) = 2, Len(b) = 2, Len(c) = 2, Len(d) = 2
  PROVE  EightOf(a \o b \o c \o d, a, b, c, d)
<1>0. /\ 2 \in Nat /\ 4 \in Nat /\ 6 \in Nat
      /\ 2 + 1 = 3 /\ 2 + 2 = 4 /\ 4 + 1 = 5 /\ 4 + 2 = 6 /\ 6 + 1 = 7 /\ 6 + 2 = 8
      /\ 1 \in 1 .. 2 /\ 2 \in 1 .. 2 /\ 1 .. 2 \subseteq 1 .. 4 /\ 1 .. 4 \subseteq 1 .. 6
      /\ 3 \in 1 .. 4 /\ 4 \in 1 .. 4 /\ 5 \in 1 .. 6 /\ 6 \in 1 .. 6
  OBVIOUS
<1> DEFINE e == a \o b
<1>1. /\ e \in Seq(S) /\ Len(e) = 4
      /\ \A i \in 1 .. 2 : e[i] = a[i]
      /\ e[3] = b[1] /\ e[4] = b[2]
  <2>1. a \in Seq(S)
    OBVIOUS
  <2>2. Len(a) = 2
    OBVIOUS
  <2>3. Longer(S, a, 2, b, e)
    BY <1>0, <2>1, <2>2, TwoMore
  <2> HIDE DEF e
  <2> QED
    BY <1>0, <2>3, Zenon DEF Longer
<1> HIDE DEF e
<1> DEFINE f == e \o c
<1>2. /\ f \in Seq(S) /\ Len(f) = 6
      /\ \A i \in 1 .. 4 : f[i] = e[i]
      /\ f[5] = c[1] /\ f[6] = c[2]
  <2>1. e \in Seq(S)
    BY <1>1
  <2>2. Len(e) = 4
    BY <1>1
  <2>3. Longer(S, e, 4, c, f)
    BY <1>0, <2>1, <2>2, TwoMore
  <2> HIDE DEF f
  <2> QED
    BY <1>0, <2>3, Zenon DEF Longer
<1> HIDE DEF f
<1> DEFINE g == f \o d
<1>3. /\ g \in Seq(S) /\ Len(g) = 8
      /\ \A i \in 1 .. 6 : g[i] = f[i]
      /\ g[7] = d[1] /\ g[8] = d[2]
  <2>1. f \in Seq(S)
    BY <1>2
  <2>2. Len(f) = 6
    BY <1>2
  <2>3. Longer(S, f, 6, d, g)
    BY <1>0, <2>1, <2>2, TwoMore
  <2> HIDE DEF g
  <2> QED
    BY <1>0, <2>3, Zenon DEF Longer
<1> HIDE DEF g
<1>4. /\ g[1] = a[1] /\ g[2] = a[2] /\ g[3] = b[1] /\ g[4] = b[2]
      /\ g[5] = c[1] /\ g[6] = c[2] /\ g[7] = d[1] /\ g[8] = d[2]
  BY <1>0, <1>1, <1>2, <1>3
<1> QED
  BY <1>4 DEF e, f, g, EightOf

LEMMA ReadPoint ==
  ASSUME NEW pt \in Fitting, NEW bytes, NEW start \in Nat,
         \A k \in 1 .. PointSize : bytes[start + k] = PointBytes(pt)[k]
  PROVE  PointAt(bytes, start) = pt
<1> DEFINE packed == pt.color.a * ByteRange + pt.color.c
           w1 == Word(pt.lo)
           w2 == Word(pt.hi)
           w3 == Word(packed)
           w4 == Word(pt.flags)
           word(k) == bytes[start + 2 * k + 1] * ByteRange + bytes[start + 2 * k + 2]
<1>1. /\ pt \in Points /\ pt.lo \in Heights /\ pt.hi \in Heights
      /\ pt.color.a < ByteRange /\ pt.color.c < ByteRange /\ pt.flags < WordRange
      /\ pt.lo \in Int /\ pt.hi \in Int /\ pt.color.a \in Nat /\ pt.color.c \in Nat /\ pt.flags \in Nat
  BY FittingIs, PointIs
<1>2. packed \in Int /\ pt.flags \in Int
  <2>1. PICK d \in Nat : d = ByteRange
    BY VarBaseIs
  <2> QED
    BY <1>1, <2>1
<1>3. /\ w1 \in Seq(Bytes) /\ Len(w1) = 2 /\ w1[1] * ByteRange + w1[2] = pt.lo % WordRange
      /\ w2 \in Seq(Bytes) /\ Len(w2) = 2 /\ w2[1] * ByteRange + w2[2] = pt.hi % WordRange
      /\ w3 \in Seq(Bytes) /\ Len(w3) = 2 /\ w3[1] * ByteRange + w3[2] = packed % WordRange
      /\ w4 \in Seq(Bytes) /\ Len(w4) = 2 /\ w4[1] * ByteRange + w4[2] = pt.flags % WordRange
  <2> HIDE DEF packed
  <2> QED
    BY <1>1, <1>2, WordIs
<1>4. PointBytes(pt) = w1 \o w2 \o w3 \o w4
  BY DEF PointBytes
<1> HIDE DEF w1, w2, w3, w4, packed
<1>5. /\ PointBytes(pt)[1] = w1[1] /\ PointBytes(pt)[2] = w1[2]
      /\ PointBytes(pt)[3] = w2[1] /\ PointBytes(pt)[4] = w2[2]
      /\ PointBytes(pt)[5] = w3[1] /\ PointBytes(pt)[6] = w3[2]
      /\ PointBytes(pt)[7] = w4[1] /\ PointBytes(pt)[8] = w4[2]
  <2>1. w1 \in Seq(Bytes) /\ w2 \in Seq(Bytes) /\ w3 \in Seq(Bytes) /\ w4 \in Seq(Bytes)
    BY <1>3
  <2>2. Len(w1) = 2 /\ Len(w2) = 2 /\ Len(w3) = 2 /\ Len(w4) = 2
    BY <1>3
  <2>3. EightOf(w1 \o w2 \o w3 \o w4, w1, w2, w3, w4)
    BY <2>1, <2>2, Eight
  <2> QED
    BY <1>4, <2>3 DEF EightOf
<1>6. /\ bytes[start + 1] = w1[1] /\ bytes[start + 2] = w1[2]
      /\ bytes[start + 3] = w2[1] /\ bytes[start + 4] = w2[2]
      /\ bytes[start + 5] = w3[1] /\ bytes[start + 6] = w3[2]
      /\ bytes[start + 7] = w4[1] /\ bytes[start + 8] = w4[2]
  <2>1. 1 .. PointSize = 1 .. 8
    BY DEF PointSize
  <2>2. \A k \in 1 .. 8 : bytes[start + k] = PointBytes(pt)[k]
    BY <2>1
  <2> QED
    BY <1>5, <2>2
<1>7. /\ start + 2 * 0 + 1 = start + 1 /\ start + 2 * 0 + 2 = start + 2
      /\ start + 2 * 1 + 1 = start + 3 /\ start + 2 * 1 + 2 = start + 4
      /\ start + 2 * 2 + 1 = start + 5 /\ start + 2 * 2 + 2 = start + 6
      /\ start + 2 * 3 + 1 = start + 7 /\ start + 2 * 3 + 2 = start + 8
  OBVIOUS
<1>8. /\ word(0) = pt.lo % WordRange /\ word(1) = pt.hi % WordRange
      /\ word(2) = packed % WordRange /\ word(3) = pt.flags % WordRange
  BY <1>3, <1>6, <1>7, Zenon
<1>9. Signed(word(0), WordRange) = pt.lo /\ Signed(word(1), WordRange) = pt.hi
  BY <1>1, <1>8, SignedWord
<1>10. word(3) = pt.flags
  <2>1. PICK d \in Nat \ {0}, n \in Nat : d = WordRange /\ n = pt.flags /\ n < d
    BY <1>1, WordRangeIs
  <2>2. n = d * 0 + n /\ n \in 0 .. d - 1 /\ 0 \in Int
    BY <2>1
  <2>3. n % d = n
    BY <2>1, <2>2, DivUnique
  <2> QED
    BY <1>8, <2>1, <2>3
<1>11. word(2) \div ByteRange = pt.color.a /\ word(2) % ByteRange = pt.color.c
  <2>0. PICK d \in Nat \ {0} : d = ByteRange
    BY VarBaseIs
  <2>1. PICK a \in 0 .. d - 1, c \in 0 .. d - 1 : d = ByteRange /\ a = pt.color.a /\ c = pt.color.c
    BY <1>1, <2>0
  <2>2. packed = d * a + c
    <3>1. d * a = a * d
      OBVIOUS
    <3> QED
      BY <2>1, <3>1 DEF packed
  <2> DEFINE n == d * a + c
             w == d * d
  <2>3. n \in 0 .. w - 1 /\ w \in Nat \ {0}
    <3>1. PICK k \in Nat : d - 1 = a + k
      <4>1. d - 1 - a \in Nat /\ d - 1 = a + (d - 1 - a)
        OBVIOUS
      <4> QED
        BY <4>1
    <3>2. d = a + 1 + k
      BY <3>1
    <3>3. d * d = d * a + d + d * k
      <4>1. d * (a + 1 + k) = d * a + d + d * k
        OBVIOUS
      <4> QED
        BY <3>2, <4>1
    <3>4. d * a \in Nat /\ d * k \in Nat
      OBVIOUS
    <3> QED
      BY <3>3, <3>4
  <2>4. n % w = n
    <3> HIDE DEF n, w
    <3>1. n = w * 0 + n /\ 0 \in Int
      BY <2>3
    <3> QED
      BY <2>3, <3>1, DivUnique
  <2>5. n \div d = a /\ n % d = c
    <3>1. a \in Int
      OBVIOUS
    <3> QED
      BY <3>1, DivUnique
  <2>6. w = WordRange
    BY <2>1 DEF WordRange
  <2>7. word(2) = n
    <3> HIDE DEF n, w, word
    <3> QED
      BY <1>8, <2>2, <2>4, <2>6 DEF n
  <2> HIDE DEF n, w, word
  <2> QED
    BY <2>1, <2>5, <2>7
<1>12. PointAt(bytes, start) = [lo |-> Signed(word(0), WordRange), hi |-> Signed(word(1), WordRange),
                                color |-> [a |-> word(2) \div ByteRange, c |-> word(2) % ByteRange], flags |-> word(3)]
  BY DEF PointAt, WordRange
<1> HIDE DEF word
<1>13. PointAt(bytes, start) = [lo |-> pt.lo, hi |-> pt.hi, color |-> [a |-> pt.color.a, c |-> pt.color.c], flags |-> pt.flags]
  BY <1>9, <1>10, <1>11, <1>12
<1>14. pt = [lo |-> pt.lo, hi |-> pt.hi, color |-> [a |-> pt.color.a, c |-> pt.color.c], flags |-> pt.flags]
  BY <1>1 DEF Points
<1> QED
  BY <1>13, <1>14

(* Where the sequences stand in what they are flattened to.                *)
Stacked(S, N, ss, f) ==
  /\ Len(f[0]) = 0
  /\ \A c \in 0 .. N : Len(f[c]) \in Nat /\ f[c] \in Seq(S)
  /\ \A c \in 1 .. N : Len(f[c]) = Len(f[c - 1]) + Len(ss[c])
  /\ \A c \in 1 .. N : \A k \in 1 .. Len(ss[c]) :
       Len(f[c - 1]) + k \in 1 .. Len(f[N]) /\ f[N][Len(f[c - 1]) + k] = ss[c][k]

LEMMA FlattenAt ==
  ASSUME NEW S, NEW ss \in Seq(Seq(S)), NEW f, Flattening(S, ss, f)
  PROVE  Stacked(S, Len(ss), ss, f)
<1> DEFINE N == Len(ss)
<1>1. N \in Nat /\ \A c \in 1 .. N : ss[c] \in Seq(S) /\ Len(ss[c]) \in Nat
  BY ElementOfSeq, LenProperties
<1>2. /\ f[0] = <<>>
      /\ \A c \in 0 .. N : f[c] \in Seq(S)
      /\ \A c \in 1 .. N : f[c] = f[c - 1] \o ss[c]
  BY DEF Flattening
<1> HIDE DEF N
<1>3. \A c \in 0 .. N : Len(f[c]) \in Nat
  BY <1>2, LenProperties
<1>4. ASSUME NEW c \in 1 .. N
      PROVE  /\ Len(f[c]) = Len(f[c - 1]) + Len(ss[c])
             /\ \A k \in 1 .. Len(f[c - 1]) : k \in 1 .. Len(f[c]) /\ f[c][k] = f[c - 1][k]
             /\ \A k \in 1 .. Len(ss[c]) : Len(f[c - 1]) + k \in 1 .. Len(f[c]) /\ f[c][Len(f[c - 1]) + k] = ss[c][k]
  <2> DEFINE s == f[c - 1]
             t == ss[c]
  <2>1. c - 1 \in 0 .. N
    BY <1>1
  <2>2. s \in Seq(S) /\ t \in Seq(S) /\ Len(s) \in Nat /\ Len(t) \in Nat /\ f[c] = s \o t
    BY <1>1, <1>2, <1>3, <2>1
  <2> HIDE DEF s, t
  <2>3. Len(s \o t) = Len(s) + Len(t)
    BY <2>2, ConcatProperties
  <2>4. \A k \in 1 .. Len(s) : k \in 1 .. Len(s \o t) /\ (s \o t)[k] = s[k]
    BY <2>2, <2>3
  <2>5. \A k \in 1 .. Len(t) : Len(s) + k \in 1 .. Len(s \o t) /\ (s \o t)[Len(s) + k] = t[k]
    BY <2>2, <2>3
  <2> QED
    BY <2>2, <2>3, <2>4, <2>5 DEF s, t
<1> DEFINE T == {n \in Nat : n \in 0 .. N => \A c \in 1 .. n : \A k \in 1 .. Len(ss[c]) :
                               Len(f[c - 1]) + k \in 1 .. Len(f[n]) /\ f[n][Len(f[c - 1]) + k] = ss[c][k]}
<1>5. 0 \in T
  OBVIOUS
<1>6. ASSUME NEW n \in Nat, n \in T PROVE n + 1 \in T
  <2> SUFFICES ASSUME n + 1 \in 0 .. N, NEW c \in 1 .. n + 1, NEW k \in 1 .. Len(ss[c])
               PROVE  Len(f[c - 1]) + k \in 1 .. Len(f[n + 1]) /\ f[n + 1][Len(f[c - 1]) + k] = ss[c][k]
    OBVIOUS
  <2>1. n + 1 \in 1 .. N /\ n \in 0 .. N /\ (n + 1) - 1 = n
    BY <1>1
  <2>2. CASE c = n + 1
    BY <1>4, <2>1, <2>2
  <2>3. CASE c # n + 1
    <3>1. c \in 1 .. n
      BY <2>3
    <3> DEFINE at == Len(f[c - 1]) + k
    <3>2. at \in 1 .. Len(f[n]) /\ f[n][at] = ss[c][k]
      BY <1>6, <2>1, <3>1
    <3> HIDE DEF at
    <3>3. \A j \in 1 .. Len(f[(n + 1) - 1]) : j \in 1 .. Len(f[n + 1]) /\ f[n + 1][j] = f[(n + 1) - 1][j]
      BY <1>4, <2>1
    <3>4. at \in 1 .. Len(f[n + 1]) /\ f[n + 1][at] = f[n][at]
      BY <2>1, <3>2, <3>3
    <3> QED
      BY <3>2, <3>4 DEF at
  <2> QED
    BY <2>2, <2>3
<1> HIDE DEF T
<1>7. Nat \subseteq T
  BY <1>5, <1>6, SetInduction
<1>8. N \in 0 .. N
  BY <1>1
<1>9. \A c \in 1 .. N : \A k \in 1 .. Len(ss[c]) :
        Len(f[c - 1]) + k \in 1 .. Len(f[N]) /\ f[N][Len(f[c - 1]) + k] = ss[c][k]
  BY <1>1, <1>7, <1>8 DEF T
<1>10. Len(f[0]) = 0
  BY <1>2
<1> QED
  <2>1. Stacked(S, N, ss, f)
    BY <1>2, <1>3, <1>4, <1>9, <1>10 DEF Stacked
  <2> QED
    BY <2>1 DEF N

(* The table of sizes, byte by byte.                                       *)
Tables == [sizes : Seq(Nat), value : Nat, unit : Nat, used : Nat]
NoSizes == [sizes |-> <<>>, value |-> 0, unit |-> 1, used |-> 0]
Tabling(s, count, f) ==
  /\ f[0] = NoSizes
  /\ \A n \in 1 .. Len(s) : f[n] = NextByte(f[n - 1], s[n], count)

LEMMA NextByteType ==
  ASSUME NEW table \in Tables, NEW b \in Bytes, NEW count
  PROVE  NextByte(table, b, count) \in Tables
<1> DEFINE value == table.value + (b % VarBase) * table.unit
           used == table.used + 1
<1>1. table.sizes \in Seq(Nat) /\ table.value \in Nat /\ table.unit \in Nat /\ table.used \in Nat
  BY DEF Tables
<1>2. PICK d \in Nat : d = VarBase
  BY VarBaseIs
<1>3. PICK r \in Nat : r = b % VarBase
  <2>1. b \in Nat
    BY VarBaseIs DEF Bytes
  <2> QED
    BY <2>1, Digits
<1>4. value \in Nat /\ used \in Nat /\ table.unit * VarBase \in Nat
  <2>1. PICK v \in Nat, u \in Nat, w \in Nat : v = table.value /\ u = table.unit /\ w = table.used
    BY <1>1
  <2>2. v + r * u \in Nat /\ w + 1 \in Nat /\ u * d \in Nat
    OBVIOUS
  <2> QED
    BY <1>2, <1>3, <2>1, <2>2, Zenon
<1>5. NextByte(table, b, count) =
        IF Len(table.sizes) = count THEN table
        ELSE IF b >= VarBase THEN [sizes |-> table.sizes, value |-> value, unit |-> table.unit * VarBase, used |-> used]
        ELSE [sizes |-> Append(table.sizes, value), value |-> 0, unit |-> 1, used |-> used]
  BY DEF NextByte
<1> HIDE DEF value, used
<1>6. Append(table.sizes, value) \in Seq(Nat)
  BY <1>1, <1>4, AppendProperties
<1> QED
  BY <1>1, <1>4, <1>5, <1>6 DEF Tables

LEMMA TableFolds ==
  ASSUME NEW bytes \in Seq(Bytes), NEW count \in Nat
  PROVE  \E m \in Nat : \E f :
           /\ m <= Len(bytes) /\ m <= VarintMax * count /\ (m = Len(bytes) \/ m = VarintMax * count)
           /\ f[0] = NoSizes
           /\ \A n \in 1 .. m : f[n] = NextByte(f[n - 1], bytes[n], count)
           /\ SizeTable(bytes, count) = f[m]
<1> DEFINE N == Min({Len(bytes), VarintMax * count})
           s == SubSeq(bytes, 1, N)
           F == [p \in Tables \X Nat |-> IF p[2] \in 1 .. N THEN NextByte(p[1], s[p[2]], count) ELSE p[1]]
           Is(h) == h = [t \in SUBSET (1 .. N) |-> IF t = {} THEN NoSizes ELSE NextByte(h[t \ {Max(t)}], s[Max(t)], count)]
           c == CHOOSE h : Is(h)
<1>1. /\ N \in Nat /\ N <= Len(bytes) /\ N <= VarintMax * count /\ (N = Len(bytes) \/ N = VarintMax * count)
  <2>1. Len(bytes) \in Nat /\ VarintMax * count \in Nat
    BY LenProperties DEF VarintMax
  <2> QED
    BY <2>1, SmallerOf
<1> HIDE DEF N
<1>2. DOMAIN s = 1 .. N /\ \A n \in 1 .. N : s[n] = bytes[n] /\ s[n] \in Bytes
  <2>1. Len(bytes) \in Nat /\ \A n \in 1 .. N : n \in 1 .. Len(bytes)
    BY <1>1, LenProperties
  <2>2. s = [n \in 1 .. N |-> bytes[n]]
    <3>1. s = [n \in 1 .. (N - 1 + 1) |-> bytes[1 + n - 1]]
      BY <1>1
    <3>2. N - 1 + 1 = N /\ \A n \in 1 .. N : 1 + n - 1 = n
      BY <1>1
    <3> HIDE DEF s
    <3> QED
      BY <3>1, <3>2
  <2>3. \A n \in 1 .. N : bytes[n] \in Bytes
    BY <2>1, ElementOfSeq
  <2> HIDE DEF s
  <2> QED
    BY <2>2, <2>3
<1>3. SizeTable(bytes, count) = FoldLeft(LAMBDA table, b : NextByte(table, b, count), NoSizes, s)
  BY DEF SizeTable, NoSizes, N
<1> HIDE DEF s
<1>4. F \in [Tables \X Nat -> Tables]
  <2>1. \A p \in Tables \X Nat : p[2] \in 1 .. N => NextByte(p[1], s[p[2]], count) \in Tables
    <3> SUFFICES ASSUME NEW p \in Tables \X Nat, p[2] \in 1 .. N PROVE NextByte(p[1], s[p[2]], count) \in Tables
      OBVIOUS
    <3>1. p[1] \in Tables /\ s[p[2]] \in Bytes
      BY <1>2
    <3> QED
      BY <3>1, NextByteType
  <2> QED
    BY <2>1
<1> HIDE DEF F
<1>5. NoSizes \in Tables
  BY DEF NoSizes, Tables
<1>6. PICK h \in [SUBSET (1 .. N) -> Tables] : Folding(NoSizes, F, N, h)
  BY <1>1, <1>4, <1>5, FoldingExists
<1>7. ASSUME NEW t \in SUBSET (1 .. N), t # {}
      PROVE  Max(t) \in 1 .. N /\ t \ {Max(t)} \in SUBSET (1 .. N)
  <2>1. Max(t) \in t
    BY <1>1, <1>7, MaxIsIn
  <2> QED
    BY <2>1
<1>8. Is(h)
  <2>1. ASSUME NEW t \in SUBSET (1 .. N)
        PROVE  h[t] = IF t = {} THEN NoSizes ELSE NextByte(h[t \ {Max(t)}], s[Max(t)], count)
    <3>1. CASE t # {}
      <4> DEFINE k == Max(t)
                 before == h[t \ {k}]
      <4>1. k \in 1 .. N /\ k \in Nat /\ before \in Tables
        BY <1>6, <1>7, <3>1
      <4>2. h[t] = F[<<before, k>>]
        BY <1>6, <3>1 DEF Folding
      <4>3. F[<<before, k>>] = NextByte(before, s[k], count)
        <5> HIDE DEF k, before
        <5> QED
          BY <4>1 DEF F
      <4> QED
        BY <3>1, <4>2, <4>3
    <3>2. CASE t = {}
      BY <1>6, <3>2 DEF Folding
    <3> QED
      BY <3>1, <3>2
  <2>2. h = [t \in SUBSET (1 .. N) |-> h[t]]
    BY <1>6
  <2> QED
    BY <2>1, <2>2
<1> HIDE DEF Is
<1>9. Is(c)
  BY <1>8
<1> HIDE DEF c
<1> DEFINE f == [n \in 0 .. N |-> c[1 .. n]]
<1>10. f[0] = NoSizes
  <2>1. 1 .. 0 \in SUBSET (1 .. N) /\ 1 .. 0 = {} /\ 0 \in 0 .. N
    BY <1>1
  <2> QED
    BY <1>9, <2>1 DEF Is
<1>11. ASSUME NEW n \in 1 .. N PROVE f[n] = NextByte(f[n - 1], bytes[n], count)
  <2>1. n - 1 \in Nat /\ (n - 1) + 1 = n /\ n \in 0 .. N /\ n - 1 \in 0 .. N /\ 1 .. n \in SUBSET (1 .. N)
    BY <1>1
  <2>2. Max(1 .. n) = n /\ (1 .. n) \ {Max(1 .. n)} = 1 .. n - 1 /\ 1 .. n # {}
    BY <2>1, MaxOfInterval
  <2>3. c[1 .. n] = NextByte(c[(1 .. n) \ {Max(1 .. n)}], s[Max(1 .. n)], count)
    BY <1>9, <2>1, <2>2 DEF Is
  <2> QED
    BY <1>2, <2>1, <2>2, <2>3
<1>12. SizeTable(bytes, count) = f[N]
  <2>1. SizeTable(bytes, count) = c[1 .. N]
    BY <1>2, <1>3 DEF FoldLeft, MapThenFoldSet, c, Is
  <2>2. N \in 0 .. N
    BY <1>1
  <2> QED
    BY <2>1, <2>2
<1> HIDE DEF f
<1> QED
  BY <1>1, <1>10, <1>11, <1>12

(* A size is read in as many bytes as it takes.                            *)
Reading(bytes, count, m, f) == \A n \in 1 .. m : f[n] = NextByte(f[n - 1], bytes[n], count)
SizeAt(bytes, m, v, k) ==
  /\ k \in Nat /\ k + Len(write_varint[v]) <= m
  /\ \A j \in 1 .. Len(write_varint[v]) : bytes[k + j] = write_varint[v][j]
HalfRead(table, count) == table \in Tables /\ Len(table.sizes) # count
WithSize(table, v) ==
  [sizes |-> Append(table.sizes, table.value + v * table.unit), value |-> 0, unit |-> 1,
   used |-> table.used + Len(write_varint[v])]

LEMMA ReadSize ==
  ASSUME NEW bytes, NEW count \in Nat, NEW m \in Nat, NEW f, Reading(bytes, count, m, f)
  PROVE  \A v \in Nat : \A k : SizeAt(bytes, m, v, k) /\ HalfRead(f[k], count)
           => f[k + Len(write_varint[v])] = WithSize(f[k], v)
<1> DEFINE S == {v \in Nat : \A k : SizeAt(bytes, m, v, k) /\ HalfRead(f[k], count)
                   => f[k + Len(write_varint[v])] = WithSize(f[k], v)}
<1>1. ASSUME NEW v \in Nat, \A w \in Nat : w < v => w \in S PROVE v \in S
  <2> SUFFICES ASSUME NEW k, SizeAt(bytes, m, v, k), HalfRead(f[k], count)
               PROVE  f[k + Len(write_varint[v])] = WithSize(f[k], v)
    OBVIOUS
  <2> DEFINE s == write_varint[v]
             table == f[k]
             b == bytes[k + 1]
             value == table.value + (b % VarBase) * table.unit
  <2>1. /\ k \in Nat /\ s \in Seq(Bytes) /\ Len(s) \in Nat \ {0}
        /\ k + Len(s) <= m /\ \A j \in 1 .. Len(s) : bytes[k + j] = s[j]
    BY VarintBytes DEF SizeAt
  <2>2. /\ table.sizes \in Seq(Nat) /\ table.value \in Nat /\ table.unit \in Nat /\ table.used \in Nat
        /\ Len(table.sizes) # count
    BY DEF HalfRead, Tables
  <2> HIDE DEF s, table
  <2>3. 1 \in 1 .. Len(s) /\ k + 1 \in 1 .. m /\ (k + 1) - 1 = k
    BY <2>1
  <2>4. f[k + 1] = NextByte(table, b, count) /\ b = s[1]
    BY <2>1, <2>3 DEF Reading, table
  <2>5. f[k + 1] = IF b >= VarBase
                   THEN [sizes |-> table.sizes, value |-> value, unit |-> table.unit * VarBase, used |-> table.used + 1]
                   ELSE [sizes |-> Append(table.sizes, value), value |-> 0, unit |-> 1, used |-> table.used + 1]
    BY <2>2, <2>4 DEF NextByte
  <2> HIDE DEF b, value
  <2>6. PICK d \in Nat \ {0} : d = VarBase
    BY VarBaseIs
  <2>7. PICK q \in Nat, r \in 0 .. d - 1 : q = v \div VarBase /\ r = v % VarBase /\ v = d * q + r
    BY <2>6, Digits
  <2>8. CASE ~(v >= VarBase)
    <3>1. s = <<v>>
      BY <2>8, VarintIs DEF s
    <3>2. Len(s) = 1 /\ s[1] = v
      BY <3>1
    <3>3. b = v /\ ~(b >= VarBase)
      BY <2>4, <2>8, <3>2
    <3>4. v % VarBase = v
      <4>1. v = d * 0 + v /\ v \in 0 .. d - 1 /\ 0 \in Int
        BY <2>6, <2>8
      <4>2. v % d = v
        BY <4>1, DivUnique
      <4> QED
        BY <2>6, <4>2
    <3>5. value = table.value + v * table.unit
      BY <3>3, <3>4 DEF value
    <3>6. f[k + 1] = WithSize(table, v)
      BY <2>5, <3>2, <3>3, <3>5 DEF WithSize, s
    <3> QED
      BY <3>2, <3>6 DEF s, table
  <2>9. CASE v >= VarBase
    <3> DEFINE w == write_varint[q]
               first == <<r + d>>
               next == f[k + 1]
    <3>1. q \in S
      BY <1>1, <2>7, <2>9, Digits
    <3>2. s = first \o w
      BY <2>6, <2>7, <2>9, VarintIs DEF s
    <3>3. w \in Seq(Bytes) /\ Len(w) \in Nat \ {0}
      BY VarintBytes
    <3>4. first \in Seq(Nat) /\ Len(first) = 1 /\ first[1] = r + d /\ r + d \in Nat
      BY <2>6
    <3> HIDE DEF first, w
    <3>5. Len(s) = 1 + Len(w) /\ s[1] = r + d /\ \A j \in 1 .. Len(w) : s[1 + j] = w[j]
      <4>1. first \in Seq(Bytes)
        <5>1. r + d \in Bytes
          <6>1. r + d \in 0 .. 2 * d - 1
            OBVIOUS
          <6> QED
            BY <2>6, <6>1, VarBaseIs DEF Bytes
        <5> QED
          BY <5>1 DEF first
      <4>2. /\ Len(first \o w) = Len(first) + Len(w)
            /\ \A i \in 1 .. Len(first) + Len(w) :
                 (first \o w)[i] = IF i <= Len(first) THEN first[i] ELSE w[i - Len(first)]
        BY <3>3, <4>1, ConcatProperties
      <4>3. /\ Len(s) = 1 + Len(w)
            /\ \A i \in 1 .. 1 + Len(w) : s[i] = IF i <= 1 THEN first[i] ELSE w[i - 1]
        BY <3>2, <3>4, <4>2, Zenon
      <4>4. 1 \in 1 .. 1 + Len(w) /\ 1 <= 1 /\ \A j \in 1 .. Len(w) : 1 + j \in 1 .. 1 + Len(w) /\ ~(1 + j <= 1) /\ (1 + j) - 1 = j
        BY <3>3
      <4>5. s[1] = r + d
        BY <3>4, <4>3, <4>4
      <4>6. \A j \in 1 .. Len(w) : s[1 + j] = w[j]
        BY <4>3, <4>4
      <4> QED
        BY <4>3, <4>5, <4>6
    <3>6. b = r + d /\ b >= VarBase /\ b % VarBase = r
      <4>1. b = r + d /\ r + d >= d
        BY <2>4, <3>5
      <4>2. (d * 1 + r) % d = r
        <5>1. 1 \in Int
          OBVIOUS
        <5> QED
          BY <5>1, DivUnique
      <4>3. d * 1 + r = r + d
        OBVIOUS
      <4> QED
        BY <2>6, <4>1, <4>2, <4>3
    <3>7. next = [sizes |-> table.sizes, value |-> value, unit |-> table.unit * d, used |-> table.used + 1]
      BY <2>5, <2>6, <3>6
    <3>8. value = table.value + r * table.unit /\ value \in Nat /\ table.unit * d \in Nat /\ table.used + 1 \in Nat
      BY <2>2, <3>6 DEF value
    <3> HIDE DEF next
    <3>9. /\ next \in Tables /\ next.sizes = table.sizes /\ next.value = value
          /\ next.unit = table.unit * d /\ next.used = table.used + 1
      BY <2>2, <3>7, <3>8 DEF Tables
    <3>10. HalfRead(next, count)
      BY <2>2, <3>9 DEF HalfRead
    <3>11. SizeAt(bytes, m, q, k + 1)
      <4>1. k + 1 \in Nat /\ (k + 1) + Len(w) <= m
        BY <2>1, <3>3, <3>5
      <4>2. \A j \in 1 .. Len(w) : 1 + j \in 1 .. Len(s) /\ (k + 1) + j = k + (1 + j)
        BY <2>1, <3>3, <3>5
      <4>3. \A j \in 1 .. Len(w) : bytes[(k + 1) + j] = w[j]
        BY <2>1, <3>5, <4>2
      <4> QED
        BY <4>1, <4>3 DEF SizeAt, w
    <3>12. f[(k + 1) + Len(w)] = WithSize(next, q)
      BY <3>1, <3>10, <3>11 DEF w, next
    <3>13. (k + 1) + Len(w) = k + Len(s)
      BY <2>1, <3>3, <3>5
    <3>14. next.value + q * next.unit = table.value + v * table.unit
      <4>1. PICK u \in Nat, x \in Nat : u = table.unit /\ x = table.value
        BY <2>2
      <4>2. q * (u * d) = (d * q) * u
        OBVIOUS
      <4>3. (d * q + r) * u = (d * q) * u + r * u
        OBVIOUS
      <4>4. (d * q) * u \in Nat /\ r * u \in Nat
        OBVIOUS
      <4> DEFINE y == (d * q) * u
                 z == r * u
      <4> HIDE DEF y, z
      <4>5. next.value + q * next.unit = (x + z) + y
        BY <3>8, <3>9, <4>1, <4>2 DEF y, z
      <4>6. table.value + v * table.unit = x + (y + z)
        BY <2>7, <4>1, <4>3 DEF y, z
      <4>7. y \in Nat /\ z \in Nat
        BY <4>4 DEF y, z
      <4>8. (x + z) + y = x + (y + z)
        BY <4>7
      <4> QED
        BY <4>5, <4>6, <4>8
    <3>15. next.used + Len(w) = table.used + Len(s)
      <4>1. PICK x \in Nat, y \in Nat : x = table.used /\ y = Len(w)
        BY <2>2, <3>3
      <4>2. next.used = x + 1 /\ Len(s) = 1 + y
        BY <3>5, <3>9, <4>1, Zenon
      <4>3. (x + 1) + y = x + (1 + y)
        OBVIOUS
      <4> QED
        BY <4>1, <4>2, <4>3, Zenon
    <3>16. WithSize(next, q) = WithSize(table, v)
      BY <3>9, <3>14, <3>15 DEF WithSize, w, s
    <3> QED
      BY <3>12, <3>13, <3>16 DEF s, table
  <2> QED
    BY <2>8, <2>9
<1> HIDE DEF S
<1>2. Nat \subseteq S
  BY <1>1, StrongInduction
<1> QED
  BY <1>2 DEF S

(* All sizes, one after the other; what follows leaves the table alone.    *)
LEMMA OneMore ==
  ASSUME NEW c \in Nat, NEW g, \A i \in 1 .. c + 1 : g[i] \in Nat
  PROVE  /\ [i \in 1 .. c |-> g[i]] \in Seq(Nat) /\ Len([i \in 1 .. c |-> g[i]]) = c
         /\ Append([i \in 1 .. c |-> g[i]], g[c + 1]) = [i \in 1 .. c + 1 |-> g[i]]
<1> DEFINE s == [i \in 1 .. c |-> g[i]]
           t == [i \in 1 .. c + 1 |-> g[i]]
<1>1. s \in Seq(Nat) /\ Len(s) = c
  OBVIOUS
<1>2. t \in Seq(Nat) /\ Len(t) = c + 1
  OBVIOUS
<1>3. \A i \in 1 .. c : s[i] = t[i]
  OBVIOUS
<1>4. t[c + 1] = g[c + 1] /\ g[c + 1] \in Nat
  OBVIOUS
<1> HIDE DEF s, t
<1>5. /\ Append(s, g[c + 1]) \in Seq(Nat) /\ Len(Append(s, g[c + 1])) = c + 1
      /\ \A i \in 1 .. c : Append(s, g[c + 1])[i] = s[i]
      /\ Append(s, g[c + 1])[c + 1] = g[c + 1]
  BY <1>1, <1>4, AppendProperties
<1> DEFINE a == Append(s, g[c + 1])
<1>6. a = t
  <2>1. \A i \in 1 .. c + 1 : a[i] = t[i]
    <3>1. \A i \in 1 .. c + 1 : i \in 1 .. c \/ i = c + 1
      OBVIOUS
    <3> HIDE DEF a
    <3> QED
      BY <1>3, <1>4, <1>5, <3>1 DEF a
  <2> HIDE DEF a
  <2>2. a \in Seq(Nat) /\ Len(a) = Len(t)
    BY <1>2, <1>5 DEF a
  <2>3. \A i \in 1 .. Len(a) : a[i] = t[i]
    BY <1>2, <2>1, <2>2
  <2> QED
    BY <1>2, <2>2, <2>3, SeqEqual
<1> QED
  BY <1>1, <1>6 DEF s, t

SizesRead(g, c, used) == [sizes |-> [i \in 1 .. c |-> g[i]], value |-> 0, unit |-> 1, used |-> used]

Varints(N, g, ss) == \A c \in 1 .. N : g[c] \in Nat /\ ss[c] = write_varint[g[c]]
StartsWith(bytes, s) == \A j \in 1 .. Len(s) : bytes[j] = s[j]

LEMMA ReadSizes ==
  ASSUME NEW N \in Nat, NEW g, NEW ss \in Seq(Seq(Bytes)), Len(ss) = N, Varints(N, g, ss),
         NEW f, Flattening(Bytes, ss, f),
         NEW bytes, StartsWith(bytes, f[N]),
         NEW m \in Nat, Len(f[N]) <= m,
         NEW st, st[0] = NoSizes, Reading(bytes, N, m, st)
  PROVE  st[m] = SizesRead(g, N, Len(f[N]))
<1>0. /\ \A c \in 1 .. N : g[c] \in Nat
      /\ \A c \in 1 .. N : ss[c] = write_varint[g[c]]
      /\ \A j \in 1 .. Len(f[N]) : bytes[j] = f[N][j]
  BY DEF Varints, StartsWith
<1>1. /\ Len(f[0]) = 0
      /\ \A c \in 0 .. N : Len(f[c]) \in Nat
      /\ \A c \in 1 .. N : Len(f[c]) = Len(f[c - 1]) + Len(ss[c])
      /\ \A c \in 1 .. N : \A k \in 1 .. Len(ss[c]) :
           Len(f[c - 1]) + k \in 1 .. Len(f[N]) /\ f[N][Len(f[c - 1]) + k] = ss[c][k]
  <2>1. Stacked(Bytes, Len(ss), ss, f)
    BY FlattenAt
  <2> QED
    BY <2>1, Zenon DEF Stacked
<1>2. ASSUME NEW c \in 0 .. N, NEW used \in Nat
      PROVE  /\ SizesRead(g, c, used) \in Tables /\ Len(SizesRead(g, c, used).sizes) = c
             /\ c < N => Append(SizesRead(g, c, used).sizes, g[c + 1]) = [i \in 1 .. c + 1 |-> g[i]]
  <2> DEFINE s == [i \in 1 .. c |-> g[i]]
  <2>1. c \in Nat /\ \A i \in 1 .. c : i \in 1 .. N
    OBVIOUS
  <2>2. s \in Seq(Nat) /\ Len(s) = c
    BY <1>0, <2>1
  <2>3. ASSUME c < N PROVE Append(s, g[c + 1]) = [i \in 1 .. c + 1 |-> g[i]]
    <3>1. \A i \in 1 .. c + 1 : g[i] \in Nat
      BY <1>0, <2>3
    <3> QED
      BY <2>1, <3>1, OneMore
  <2>4. SizesRead(g, c, used).sizes = s
    BY DEF SizesRead
  <2>5. SizesRead(g, c, used) \in Tables
    <3> HIDE DEF s
    <3>1. SizesRead(g, c, used) = [sizes |-> s, value |-> 0, unit |-> 1, used |-> used]
      BY DEF SizesRead, s
    <3> QED
      BY <2>2, <3>1 DEF Tables
  <2> HIDE DEF s
  <2> QED
    BY <2>2, <2>3, <2>4, <2>5
<1> DEFINE T == {c \in Nat : c \in 0 .. N => st[Len(f[c])] = SizesRead(g, c, Len(f[c]))}
<1>3. 0 \in T
  <2>1. [i \in 1 .. 0 |-> g[i]] = <<>>
    OBVIOUS
  <2>2. SizesRead(g, 0, 0) = NoSizes
    BY <2>1 DEF SizesRead, NoSizes
  <2> QED
    BY <1>1, <2>2
<1>4. ASSUME NEW c \in Nat, c \in T PROVE c + 1 \in T
  <2> SUFFICES ASSUME c + 1 \in 0 .. N
               PROVE  st[Len(f[c + 1])] = SizesRead(g, c + 1, Len(f[c + 1]))
    OBVIOUS
  <2> DEFINE k == Len(f[c])
             v == g[c + 1]
             w == write_varint[v]
             table == SizesRead(g, c, k)
  <2>1. c + 1 \in 1 .. N /\ c \in 0 .. N /\ c < N /\ (c + 1) - 1 = c
    OBVIOUS
  <2>2. /\ k \in Nat /\ v \in Nat /\ ss[c + 1] = w /\ st[k] = table
        /\ Len(f[c + 1]) = k + Len(w)
        /\ \A j \in 1 .. Len(w) : k + j \in 1 .. Len(f[N]) /\ f[N][k + j] = w[j]
    <3>1. k \in Nat /\ v \in Nat /\ ss[c + 1] = w
      BY <1>0, <1>1, <2>1, Zenon
    <3>2. st[k] = table
      BY <1>4, <2>1, Zenon
    <3>3. Len(f[c + 1]) = Len(f[(c + 1) - 1]) + Len(ss[c + 1])
      BY <1>1, <2>1, Zenon
    <3>4. \A j \in 1 .. Len(ss[c + 1]) :
            Len(f[(c + 1) - 1]) + j \in 1 .. Len(f[N]) /\ f[N][Len(f[(c + 1) - 1]) + j] = ss[c + 1][j]
      BY <1>1, <2>1, Zenon
    <3> QED
      BY <2>1, <3>1, <3>2, <3>3, <3>4, Zenon
  <2>3. w \in Seq(Bytes) /\ Len(w) \in Nat \ {0}
    BY <2>2, VarintBytes
  <2>4. /\ table \in Tables /\ Len(table.sizes) = c /\ Append(table.sizes, v) = [i \in 1 .. c + 1 |-> g[i]]
        /\ table.value = 0 /\ table.unit = 1 /\ table.used = k
    <3>1. table.value = 0 /\ table.unit = 1 /\ table.used = k
      BY DEF SizesRead
    <3> HIDE DEF k
    <3> QED
      BY <1>2, <2>1, <2>2, <3>1
  <2>5. SizeAt(bytes, m, v, k)
    <3>1. Len(w) \in 1 .. Len(w)
      BY <2>3
    <3>2. k + Len(w) \in 1 .. Len(f[N])
      BY <2>2, <3>1
    <3>3. k + Len(w) <= m
      <4>1. N \in 0 .. N
        OBVIOUS
      <4>2. PICK x \in Nat, y \in Int : x = Len(f[N]) /\ y = k + Len(w)
        <5>1. Len(f[N]) \in Nat
          BY <1>1, <4>1, Zenon
        <5>2. \A n \in Nat : \A i \in 1 .. n : i \in Int
          OBVIOUS
        <5>3. k + Len(w) \in Int
          BY <3>2, <5>1, <5>2, Zenon
        <5> QED
          BY <5>1, <5>3, Zenon
      <4>3. y \in 1 .. x /\ x <= m
        BY <3>2, <4>2, Zenon
      <4>4. y <= m
        BY <4>3
      <4> QED
        BY <4>2, <4>4, Zenon
    <3>4. \A j \in 1 .. Len(w) : bytes[k + j] = w[j]
      BY <1>0, <2>2
    <3> HIDE DEF k, v, w
    <3> QED
      BY <2>2, <3>3, <3>4 DEF SizeAt, w
  <2> HIDE DEF k, v, w, table
  <2>6. HalfRead(st[k], N)
    BY <2>1, <2>2, <2>4 DEF HalfRead
  <2>7. st[k + Len(w)] = WithSize(st[k], v)
    <3>1. \A x \in Nat : \A i : SizeAt(bytes, m, x, i) /\ HalfRead(st[i], N)
            => st[i + Len(write_varint[x])] = WithSize(st[i], x)
      BY ReadSize
    <3> QED
      BY <2>2, <2>5, <2>6, <3>1, Zenon DEF w
  <2>8. WithSize(table, v) = SizesRead(g, c + 1, k + Len(w))
    <3>1. table.value + v * table.unit = v
      BY <2>2, <2>4
    <3>2. table.used + Len(write_varint[v]) = k + Len(w)
      BY <2>4 DEF w
    <3> QED
      BY <2>4, <3>1, <3>2 DEF WithSize, SizesRead
  <2> QED
    BY <2>2, <2>7, <2>8
<1> HIDE DEF T
<1>5. Nat \subseteq T
  BY <1>3, <1>4, SetInduction
<1> DEFINE u == Len(f[N])
           final == SizesRead(g, N, u)
<1>6. u \in Nat /\ st[u] = final /\ u <= m
  <2>1. N \in 0 .. N
    OBVIOUS
  <2> QED
    BY <1>1, <1>5, <2>1 DEF T
<1> HIDE DEF u
<1>7. Len(final.sizes) = N
  <2>1. N \in 0 .. N
    OBVIOUS
  <2> QED
    BY <1>2, <1>6, <2>1
<1> HIDE DEF final
<1> DEFINE U == {n \in Nat : u + n <= m => st[u + n] = final}
<1>8. 0 \in U
  <2>1. u + 0 = u
    BY <1>6
  <2> QED
    BY <1>6, <2>1
<1>9. ASSUME NEW n \in Nat, n \in U PROVE n + 1 \in U
  <2> SUFFICES ASSUME u + (n + 1) <= m PROVE st[u + (n + 1)] = final
    OBVIOUS
  <2>1. u + n <= m /\ u + (n + 1) \in 1 .. m /\ (u + (n + 1)) - 1 = u + n
    BY <1>6
  <2>2. st[u + n] = final
    BY <1>9, <2>1
  <2>3. st[u + (n + 1)] = NextByte(final, bytes[u + (n + 1)], N)
    BY <2>1, <2>2 DEF Reading
  <2>4. NextByte(final, bytes[u + (n + 1)], N) = final
    BY <1>7 DEF NextByte
  <2> QED
    BY <2>3, <2>4
<1> HIDE DEF U
<1>10. Nat \subseteq U
  BY <1>8, <1>9, SetInduction
<1>11. m - u \in Nat /\ u + (m - u) = m /\ u + (m - u) <= m
  BY <1>6
<1>12. st[m] = final
  BY <1>10, <1>11 DEF U
<1> QED
  BY <1>12 DEF final, u

(* How long sequences of one length, or of a greatest length, get.         *)
LEMMA StackHeight ==
  ASSUME NEW S, NEW N \in Nat, NEW ss, NEW f, Stacked(S, N, ss, f), NEW w \in Nat,
         \A c \in 1 .. N : Len(ss[c]) \in Nat
  PROVE  /\ (\A c \in 1 .. N : Len(ss[c]) = w) => \A c \in 0 .. N : Len(f[c]) = w * c
         /\ (\A c \in 1 .. N : Len(ss[c]) <= w) => \A c \in 0 .. N : Len(f[c]) <= w * c
<1> DEFINE even == \A c \in 1 .. N : Len(ss[c]) = w
           most == \A c \in 1 .. N : Len(ss[c]) <= w
           T == {c \in Nat : c \in 0 .. N => (even => Len(f[c]) = w * c) /\ (most => Len(f[c]) <= w * c)}
<1>1. 0 \in T
  <2>1. w * 0 = 0 /\ 0 <= 0
    OBVIOUS
  <2>2. Len(f[0]) = 0
    BY DEF Stacked
  <2> HIDE DEF even, most
  <2> QED
    BY <2>1, <2>2
<1>2. ASSUME NEW c \in Nat, c \in T PROVE c + 1 \in T
  <2> SUFFICES ASSUME c + 1 \in 0 .. N
               PROVE  /\ even => Len(f[c + 1]) = w * (c + 1)
                      /\ most => Len(f[c + 1]) <= w * (c + 1)
    OBVIOUS
  <2>1. c + 1 \in 1 .. N /\ c \in 0 .. N /\ (c + 1) - 1 = c
    OBVIOUS
  <2>2. Len(f[c + 1]) = Len(f[(c + 1) - 1]) + Len(ss[c + 1]) /\ Len(f[c]) \in Nat /\ Len(ss[c + 1]) \in Nat
    BY <2>1 DEF Stacked
  <2>3. PICK x \in Nat, y \in Nat : x = Len(f[c]) /\ y = Len(ss[c + 1])
    BY <2>2
  <2>4. Len(f[c + 1]) = x + y
    BY <2>1, <2>2, <2>3, Zenon
  <2>5. /\ even => x = w * c /\ y = w
        /\ most => x <= w * c /\ y <= w
    BY <1>2, <2>1, <2>3, Zenon
  <2>6. w * (c + 1) = w * c + w /\ w * c \in Nat
    OBVIOUS
  <2> DEFINE z == w * c
  <2> HIDE DEF z, even, most
  <2>7. /\ even => x = z /\ y = w
        /\ most => x <= z /\ y <= w
        /\ w * (c + 1) = z + w /\ z \in Nat
    BY <2>5, <2>6 DEF z
  <2>8. even => x + y = z + w
    BY <2>7
  <2>9. most => x + y <= z + w
    BY <2>7
  <2> QED
    BY <2>4, <2>7, <2>8, <2>9, Zenon
<1> HIDE DEF T
<1>3. Nat \subseteq T
  BY <1>1, <1>2, SetInduction
<1>4. \A c \in 0 .. N : c \in Nat
  OBVIOUS
<1> HIDE DEF even, most
<1>5. \A c \in 0 .. N : (even => Len(f[c]) = w * c) /\ (most => Len(f[c]) <= w * c)
  BY <1>3, <1>4 DEF T
<1> QED
  BY <1>5 DEF even, most

(* The runs of a column, eight bytes each.                                 *)
LEMMA ColumnBytes ==
  ASSUME NEW column \in Seq(Points),
         RunBytes(column) \in Seq(Seq(Bytes)), Len(RunBytes(column)) = Len(column)
  PROVE  /\ Len(FlattenSeq(RunBytes(column))) = PointSize * Len(column)
         /\ \A n \in 1 .. Len(column) : \A k \in 1 .. PointSize :
              /\ PointSize * (n - 1) + k \in 1 .. Len(FlattenSeq(RunBytes(column)))
              /\ FlattenSeq(RunBytes(column))[PointSize * (n - 1) + k] = PointBytes(column[n])[k]
<1> DEFINE ss == RunBytes(column)
           N == Len(column)
<1>1. N \in Nat /\ DOMAIN column = 1 .. N /\ \A n \in 1 .. N : column[n] \in Points
  BY ElementOfSeq, LenProperties
<1>2. \A n \in 1 .. N : ss[n] = PointBytes(column[n]) /\ Len(ss[n]) = PointSize
  <2>1. \A n \in 1 .. N : ss[n] = PointBytes(column[n])
    BY <1>1 DEF RunBytes
  <2> HIDE DEF ss
  <2> QED
    BY <1>1, <2>1, PointBytesIs
<1>3. PICK f : Flattening(Bytes, ss, f) /\ FlattenSeq(ss) = f[Len(ss)]
  BY FlattenIsRecursive
<1>4. FlattenSeq(ss) = f[N]
  BY <1>3
<1>5. Stacked(Bytes, N, ss, f)
  <2>1. Stacked(Bytes, Len(ss), ss, f)
    BY <1>3, FlattenAt
  <2> QED
    BY <2>1, Zenon
<1> HIDE DEF ss, N
<1>6. PointSize \in Nat
  BY DEF PointSize
<1>7. \A c \in 0 .. N : Len(f[c]) = PointSize * c
  <2>1. \A c \in 1 .. N : Len(ss[c]) \in Nat /\ Len(ss[c]) = PointSize
    BY <1>2, <1>6
  <2> QED
    BY <1>1, <1>5, <1>6, <2>1, StackHeight
<1>8. ASSUME NEW n \in 1 .. N, NEW k \in 1 .. PointSize
      PROVE  /\ PointSize * (n - 1) + k \in 1 .. Len(f[N])
             /\ f[N][PointSize * (n - 1) + k] = PointBytes(column[n])[k]
  <2>1. n - 1 \in 0 .. N
    BY <1>1
  <2>2. Len(f[n - 1]) = PointSize * (n - 1)
    BY <1>7, <2>1
  <2>3. k \in 1 .. Len(ss[n])
    BY <1>2, Zenon
  <2>4. Len(f[n - 1]) + k \in 1 .. Len(f[N]) /\ f[N][Len(f[n - 1]) + k] = ss[n][k]
    BY <1>5, <2>3, Zenon DEF Stacked
  <2> QED
    BY <1>2, <2>2, <2>4, Zenon
<1>9. N \in 0 .. N
  BY <1>1
<1>10. Len(FlattenSeq(ss)) = PointSize * N
  BY <1>4, <1>7, <1>9, Zenon
<1>11. \A n \in 1 .. N : \A k \in 1 .. PointSize :
              /\ PointSize * (n - 1) + k \in 1 .. Len(FlattenSeq(ss))
              /\ FlattenSeq(ss)[PointSize * (n - 1) + k] = PointBytes(column[n])[k]
  BY <1>4, <1>8, Zenon
<1> QED
  BY <1>10, <1>11, Zenon DEF ss, N

(* The reader's table of a list of columns.                                *)
Lengths(columns) == [c \in 1 .. Len(columns) |-> Len(columns[c])]
Storables == {columns \in Seq(Seq(Points)) :
                \A c \in 1 .. Len(columns) : AllFit(columns[c]) /\ Len(columns[c]) <= WordRange}

LEMMA TableIs ==
  ASSUME NEW columns \in Storables
  PROVE  SizeTable(RawBytes(columns), Len(columns)) =
           SizesRead(Lengths(columns), Len(columns), Len(FlattenSeq(Sizes(columns))))
<1> DEFINE N == Len(columns)
           g == Lengths(columns)
           ss == Sizes(columns)
           T == FlattenSeq(ss)
           R == FlattenSeq(Runs(columns))
           bytes == RawBytes(columns)
<1>1. /\ columns \in Seq(Seq(Points)) /\ N \in Nat /\ DOMAIN columns = 1 .. N
      /\ \A c \in 1 .. N : g[c] = Len(columns[c]) /\ g[c] \in Nat /\ g[c] <= WordRange
  <2>1. columns \in Seq(Seq(Points)) /\ \A c \in 1 .. N : Len(columns[c]) <= WordRange
    BY DEF Storables
  <2>2. N \in Nat /\ DOMAIN columns = 1 .. N /\ \A c \in 1 .. N : columns[c] \in Seq(Points)
    BY <2>1, ElementOfSeq, LenProperties
  <2>3. \A c \in 1 .. N : Len(columns[c]) \in Nat
    BY <2>2, LenProperties
  <2> QED
    BY <2>1, <2>2, <2>3 DEF Lengths
<1>2. ss \in Seq(Seq(Bytes)) /\ Len(ss) = N /\ Runs(columns) \in Seq(Seq(Bytes))
  BY <1>1, SizesIs
<1>3. \A c \in 1 .. N : ss[c] = write_varint[g[c]]
  BY <1>1 DEF Sizes, Varint
<1>4. T \in Seq(Bytes) /\ R \in Seq(Bytes)
  <2> HIDE DEF ss
  <2> QED
    BY <1>2, FlattenType
<1>5. bytes \in Seq(Bytes) /\ bytes = T \o R
  BY <1>1, RawIs, RawBytesType
<1>6. PICK f : Flattening(Bytes, ss, f) /\ T = f[Len(ss)]
  <2> HIDE DEF ss
  <2> QED
    BY <1>2, FlattenIsRecursive
<1>7. T = f[N]
  BY <1>2, <1>6, Zenon
<1>8. Stacked(Bytes, N, ss, f)
  <2>1. Stacked(Bytes, Len(ss), ss, f)
    <3> HIDE DEF ss
    <3> QED
      BY <1>2, <1>6, FlattenAt
  <2> QED
    BY <1>2, <2>1, Zenon
<1> HIDE DEF g, ss, T, R, bytes, N
<1>9. Len(T) <= VarintMax * N
  <2>1. \A c \in 1 .. N : Len(ss[c]) \in Nat /\ Len(ss[c]) <= VarintMax
    <3> TAKE c \in 1 .. N
    <3>1. g[c] \in Nat /\ g[c] <= ByteRange * ByteRange /\ ss[c] = write_varint[g[c]]
      BY <1>1, <1>3 DEF WordRange
    <3> QED
      BY <3>1, VarintBytes, VarintFits
  <2>2. N \in 0 .. N /\ VarintMax \in Nat
    BY <1>1 DEF VarintMax
  <2>3. \A c \in 0 .. N : Len(f[c]) <= VarintMax * c
    BY <1>1, <1>8, <2>1, <2>2, StackHeight
  <2> QED
    BY <1>7, <2>2, <2>3, Zenon
<1>10. /\ Len(T) \in Nat /\ Len(T) <= Len(bytes)
       /\ \A j \in 1 .. Len(T) : bytes[j] = T[j]
  <2>1. Len(T) \in Nat /\ Len(R) \in Nat
    BY <1>4, LenProperties
  <2>2. /\ Len(T \o R) = Len(T) + Len(R)
        /\ \A i \in 1 .. Len(T) + Len(R) : (T \o R)[i] = IF i <= Len(T) THEN T[i] ELSE R[i - Len(T)]
    BY <1>4, ConcatProperties
  <2>3. \A j \in 1 .. Len(T) : j \in 1 .. Len(T) + Len(R) /\ j <= Len(T)
    BY <2>1
  <2>4. \A j \in 1 .. Len(T) : (T \o R)[j] = T[j]
    BY <2>2, <2>3
  <2>5. Len(T) <= Len(T) + Len(R)
    BY <2>1
  <2> QED
    BY <1>5, <2>1, <2>2, <2>4, <2>5, Zenon
<1>11. PICK m \in Nat : \E st :
           /\ m <= Len(bytes) /\ m <= VarintMax * N /\ (m = Len(bytes) \/ m = VarintMax * N)
           /\ st[0] = NoSizes
           /\ \A n \in 1 .. m : st[n] = NextByte(st[n - 1], bytes[n], N)
           /\ SizeTable(bytes, N) = st[m]
  BY <1>1, <1>5, TableFolds
<1>12. PICK st :
           /\ m = Len(bytes) \/ m = VarintMax * N
           /\ st[0] = NoSizes
           /\ Reading(bytes, N, m, st)
           /\ SizeTable(bytes, N) = st[m]
  BY <1>11, Zenon DEF Reading
<1>13. Len(T) <= m
  BY <1>9, <1>10, <1>12, Zenon
<1>14. st[m] = SizesRead(g, N, Len(f[N]))
  <2>1. Len(f[N]) <= m
    BY <1>7, <1>13, Zenon
  <2>2. StartsWith(bytes, f[N])
    BY <1>7, <1>10, Zenon DEF StartsWith
  <2>3. Varints(N, g, ss)
    BY <1>1, <1>3 DEF Varints
  <2>4. N \in Nat
    BY <1>1
  <2>5. ss \in Seq(Seq(Bytes))
    BY <1>2
  <2>6. Len(ss) = N
    BY <1>2
  <2>7. Flattening(Bytes, ss, f)
    BY <1>6
  <2>8. st[0] = NoSizes
    BY <1>12
  <2>9. Reading(bytes, N, m, st)
    BY <1>12
  <2> QED
    BY <2>1, <2>2, <2>3, <2>4, <2>5, <2>6, <2>7, <2>8, <2>9, ReadSizes
<1> QED
  BY <1>7, <1>12, <1>14, Zenon DEF g, ss, T, bytes, N

(* A sorted column has fewer runs than there are heights.                  *)
LEMMA LengthFits ==
  ASSUME NEW column \in Seq(Points), Sorted(column), AllFit(column)
  PROVE  Len(column) <= WordRange
<1> DEFINE N == Len(column)
           low == [n \in 1 .. N |-> column[n].lo]
<1>1. PICK half \in Nat \ {0} : WordRange = 2 * half /\ Heights = - half .. half - 1
  BY WordRangeIs
<1>2. N \in Nat /\ DOMAIN column = 1 .. N
  BY RunsOf
<1>3. \A n \in 1 .. N : low[n] \in - half .. half - 1
  <2>1. \A n \in 1 .. N : column[n] \in Fitting
    BY <1>2 DEF AllFit, Elements
  <2>2. \A n \in 1 .. N : column[n].lo \in Heights
    BY <2>1, FittingIs
  <2> QED
    BY <1>1, <2>2
<1>4. \A n \in 1 .. N : n > 1 => low[n - 1] < low[n]
  <2> TAKE n \in 1 .. N
  <2> HAVE n > 1
  <2>1. n - 1 \in 1 .. N
    BY <1>2
  <2>2. column[n - 1].lo <= column[n - 1].hi /\ column[n - 1].hi < column[n].lo
    BY <1>2, <2>1 DEF Sorted
  <2>3. column[n - 1].lo \in Int /\ column[n - 1].hi \in Int /\ column[n].lo \in Int
    BY <1>2, <2>1, RunsOf, PointIs
  <2>4. column[n - 1].lo < column[n].lo
    BY <2>2, <2>3
  <2> QED
    BY <2>1, <2>4
<1> HIDE DEF low, N
<1> DEFINE T == {n \in Nat : n \in 1 .. N => low[n] >= n - 1 - half}
<1>5. 0 \in T
  OBVIOUS
<1>6. ASSUME NEW n \in Nat, n \in T PROVE n + 1 \in T
  <2> SUFFICES ASSUME n + 1 \in 1 .. N PROVE low[n + 1] >= (n + 1) - 1 - half
    OBVIOUS
  <2>1. low[n + 1] \in Int /\ low[n + 1] >= - half
    BY <1>3
  <2>2. CASE n = 0
    BY <2>1, <2>2
  <2>3. CASE n # 0
    <3>1. n \in 1 .. N /\ n + 1 > 1 /\ (n + 1) - 1 = n
      BY <1>2, <2>3
    <3>2. low[n] < low[n + 1] /\ low[n] \in Int /\ low[n] >= n - 1 - half
      BY <1>3, <1>4, <1>6, <3>1
    <3> QED
      BY <2>1, <3>2
  <2> QED
    BY <2>2, <2>3
<1> HIDE DEF T
<1>7. Nat \subseteq T
  BY <1>5, <1>6, SetInduction
<1>8. N <= 2 * half
  <2>1. CASE N = 0
    BY <2>1
  <2>2. CASE N # 0
    <3>1. N \in 1 .. N
      BY <1>2, <2>2
    <3>2. low[N] >= N - 1 - half /\ low[N] \in - half .. half - 1
      BY <1>2, <1>3, <1>7, <3>1 DEF T
    <3> QED
      BY <1>2, <3>2
  <2> QED
    BY <2>1, <2>2
<1> QED
  BY <1>1, <1>8 DEF N

(* Where the runs of each column start.                                    *)
Starts(N, used, g, h) ==
  h = [c \in 1 .. N |-> IF c = 1 THEN used ELSE h[c - 1] + PointSize * g[c - 1]]

DecodesFrom(bytes, N, used, g, starts) ==
  /\ Starts(N, used, g, starts)
  /\ Decoded(bytes, N) = [c \in 1 .. N |-> [n \in 1 .. g[c] |-> PointAt(bytes, starts[c] + PointSize * (n - 1))]]

LEMMA DecodedIs ==
  ASSUME NEW bytes, NEW N \in Nat, NEW g, g = [c \in 1 .. N |-> g[c]], NEW used,
         SizeTable(bytes, N) = SizesRead(g, N, used), NEW h, Starts(N, used, g, h)
  PROVE  \E starts : DecodesFrom(bytes, N, used, g, starts)
<1> DEFINE table == SizeTable(bytes, N)
           Is(x) == x = [c \in 1 .. N |-> IF c = 1 THEN table.used ELSE x[c - 1] + PointSize * table.sizes[c - 1]]
           starts == CHOOSE x : Is(x)
<1>1. table.used = used /\ table.sizes = g
  BY DEF SizesRead
<1>2. Decoded(bytes, N) =
        [c \in 1 .. N |-> [n \in 1 .. table.sizes[c] |-> PointAt(bytes, starts[c] + PointSize * (n - 1))]]
  BY DEF Decoded
<1> HIDE DEF table
<1>3. Is(starts)
  <2>1. Is(h)
    BY <1>1 DEF Starts
  <2> HIDE DEF Is
  <2> QED
    BY <2>1
<1> HIDE DEF starts
<1>4. Starts(N, used, g, starts)
  BY <1>1, <1>3 DEF Starts
<1>5. Decoded(bytes, N) = [c \in 1 .. N |-> [n \in 1 .. g[c] |-> PointAt(bytes, starts[c] + PointSize * (n - 1))]]
  BY <1>1, <1>2, Zenon
<1>6. DecodesFrom(bytes, N, used, g, starts)
  BY <1>4, <1>5 DEF DecodesFrom
<1> QED
  BY <1>6

LEMMA RoundTrip ==
  ASSUME NEW columns \in Storables
  PROVE  Decoded(RawBytes(columns), Len(columns)) = columns
<1> DEFINE N == Len(columns)
           g == Lengths(columns)
           T == FlattenSeq(Sizes(columns))
           ss == Runs(columns)
           R == FlattenSeq(ss)
           bytes == RawBytes(columns)
           used == Len(T)
<1>1. /\ columns \in Seq(Seq(Points)) /\ N \in Nat /\ DOMAIN columns = 1 .. N
      /\ \A c \in 1 .. N : columns[c] \in Seq(Points) /\ AllFit(columns[c])
  <2>1. columns \in Seq(Seq(Points)) /\ \A c \in 1 .. N : AllFit(columns[c])
    BY DEF Storables
  <2> QED
    BY <2>1, ElementOfSeq, LenProperties
<1>2. \A c \in 1 .. N : g[c] = Len(columns[c]) /\ g[c] \in Nat /\ DOMAIN columns[c] = 1 .. g[c]
  <2>1. \A c \in 1 .. N : Len(columns[c]) \in Nat /\ DOMAIN columns[c] = 1 .. Len(columns[c])
    BY <1>1, LenProperties
  <2> QED
    BY <2>1 DEF Lengths
<1>3. g = [c \in 1 .. N |-> g[c]]
  BY DEF Lengths
<1>4. /\ Sizes(columns) \in Seq(Seq(Bytes)) /\ ss \in Seq(Seq(Bytes)) /\ Len(ss) = N
      /\ \A c \in 1 .. N : RunBytes(columns[c]) \in Seq(Seq(Bytes)) /\ Len(RunBytes(columns[c])) = Len(columns[c])
  BY <1>1, SizesIs
<1>5. T \in Seq(Bytes) /\ R \in Seq(Bytes) /\ used \in Nat /\ Len(R) \in Nat
  <2> HIDE DEF ss
  <2>1. T \in Seq(Bytes) /\ R \in Seq(Bytes)
    BY <1>4, FlattenType
  <2> QED
    BY <2>1, LenProperties
<1>6. bytes = T \o R
  BY <1>1, RawIs
<1>7. SizeTable(bytes, N) = SizesRead(g, N, used)
  BY TableIs
<1>8. ASSUME NEW c \in 1 .. N
      PROVE  /\ Len(ss[c]) = PointSize * g[c]
             /\ \A n \in 1 .. g[c] : \A k \in 1 .. PointSize :
                  PointSize * (n - 1) + k \in 1 .. Len(ss[c]) /\ ss[c][PointSize * (n - 1) + k] = PointBytes(columns[c][n])[k]
  <2> DEFINE column == columns[c]
             s == FlattenSeq(RunBytes(column))
  <2>1. ss[c] = s
    BY <1>1 DEF Runs
  <2>2. column \in Seq(Points) /\ RunBytes(column) \in Seq(Seq(Bytes)) /\ Len(RunBytes(column)) = Len(column) /\ g[c] = Len(column)
    BY <1>1, <1>2, <1>4
  <2> HIDE DEF column
  <2>3. /\ Len(s) = PointSize * Len(column)
        /\ \A n \in 1 .. Len(column) : \A k \in 1 .. PointSize :
             PointSize * (n - 1) + k \in 1 .. Len(s) /\ s[PointSize * (n - 1) + k] = PointBytes(column[n])[k]
    BY <2>2, ColumnBytes
  <2> HIDE DEF s, ss, g
  <2> QED
    BY <2>1, <2>2, <2>3, Zenon DEF column
<1>9. PICK f : Flattening(Bytes, ss, f) /\ R = f[Len(ss)]
  <2> HIDE DEF ss
  <2> QED
    BY <1>4, FlattenIsRecursive
<1>10. Stacked(Bytes, N, ss, f) /\ R = f[N]
  <2>1. Stacked(Bytes, Len(ss), ss, f)
    <3> HIDE DEF ss
    <3> QED
      BY <1>4, <1>9, FlattenAt
  <2> QED
    BY <1>4, <1>9, <2>1, Zenon
<1> HIDE DEF g, T, ss, R, bytes, used, N
<1>11. /\ Len(f[0]) = 0
       /\ \A c \in 0 .. N : Len(f[c]) \in Nat
       /\ \A c \in 1 .. N : Len(f[c]) = Len(f[c - 1]) + PointSize * g[c]
  BY <1>8, <1>10, Zenon DEF Stacked
<1>12. PointSize \in Nat
  BY DEF PointSize
<1> DEFINE h == [c \in 1 .. N |-> used + Len(f[c - 1])]
<1>13. Starts(N, used, g, h)
  <2>1. ASSUME NEW c \in 1 .. N
        PROVE  h[c] = IF c = 1 THEN used ELSE h[c - 1] + PointSize * g[c - 1]
    <3>1. CASE c = 1
      <4>1. h[c] = used + Len(f[c - 1]) /\ c - 1 = 0 /\ used + 0 = used
        BY <1>5, <3>1
      <4> QED
        BY <1>11, <3>1, <4>1
    <3>2. CASE c # 1
      <4> DEFINE e == c - 1
      <4>1. e \in 1 .. N /\ e - 1 \in 0 .. N /\ c - 1 = e
        BY <1>1, <3>2
      <4> HIDE DEF e
      <4>2. h[c] = used + Len(f[e]) /\ h[e] = used + Len(f[e - 1])
        BY <4>1
      <4>3. Len(f[e]) = Len(f[e - 1]) + PointSize * g[e] /\ Len(f[e - 1]) \in Nat
        BY <1>11, <4>1
      <4>4. PICK x \in Nat, y \in Nat : x = Len(f[e - 1]) /\ y = PointSize * g[e]
        <5>1. g[e] \in Nat
          BY <1>2, <4>1
        <5>2. PointSize * g[e] \in Nat
          BY <1>12, <5>1
        <5> QED
          BY <4>3, <5>2
      <4>5. used + (x + y) = (used + x) + y
        BY <1>5
      <4> HIDE DEF h
      <4>6. h[c] = h[e] + PointSize * g[e]
        BY <4>2, <4>3, <4>4, <4>5, Zenon
      <4> QED
        BY <3>2, <4>1, <4>6, Zenon
    <3> QED
      BY <3>1, <3>2
  <2>2. h = [c \in 1 .. N |-> h[c]]
    OBVIOUS
  <2> HIDE DEF h
  <2> QED
    BY <2>1, <2>2 DEF Starts
<1>14. PICK starts : DecodesFrom(bytes, N, used, g, starts)
  <2> HIDE DEF h
  <2>1. N \in Nat
    BY <1>1
  <2>2. g = [c \in 1 .. N |-> g[c]]
    BY <1>3
  <2> QED
    BY <2>1, <2>2, <1>7, <1>13, DecodedIs
<1>15. \A c \in 1 .. N : starts[c] = h[c]
  <2> DEFINE U == {c \in Nat : c \in 1 .. N => starts[c] = h[c]}
  <2> HIDE DEF h
  <2>0. ASSUME NEW c \in 1 .. N
        PROVE  /\ starts[c] = IF c = 1 THEN used ELSE starts[c - 1] + PointSize * g[c - 1]
               /\ h[c] = IF c = 1 THEN used ELSE h[c - 1] + PointSize * g[c - 1]
    BY <1>13, <1>14 DEF Starts, DecodesFrom
  <2>1. 0 \in U
    OBVIOUS
  <2>2. ASSUME NEW c \in Nat, c \in U PROVE c + 1 \in U
    <3> SUFFICES ASSUME c + 1 \in 1 .. N PROVE starts[c + 1] = h[c + 1]
      OBVIOUS
    <3>1. CASE c = 0
      <4>1. c + 1 = 1
        BY <3>1
      <4> QED
        BY <2>0, <4>1
    <3>2. CASE c # 0
      <4>1. c \in 1 .. N /\ (c + 1) - 1 = c /\ c + 1 # 1
        BY <1>1, <3>2
      <4>2. starts[c] = h[c]
        BY <2>2, <4>1
      <4> QED
        BY <2>0, <4>1, <4>2
    <3> QED
      BY <3>1, <3>2
  <2> HIDE DEF U
  <2>3. Nat \subseteq U
    BY <2>1, <2>2, SetInduction
  <2> QED
    BY <1>1, <2>3 DEF U
<1>16. ASSUME NEW c \in 1 .. N, NEW n \in 1 .. g[c]
       PROVE  PointAt(bytes, starts[c] + PointSize * (n - 1)) = columns[c][n]
  <2> DEFINE start == starts[c] + PointSize * (n - 1)
             pt == columns[c][n]
  <2>1. PICK x \in Nat, y \in Nat : x = Len(f[c - 1]) /\ y = PointSize * (n - 1)
    <3>1. c - 1 \in 0 .. N
      BY <1>1
    <3>2. n - 1 \in Nat
      BY <1>2
    <3>3. PointSize * (n - 1) \in Nat
      BY <1>12, <3>2
    <3> QED
      BY <1>11, <3>1, <3>3
  <2>2. start = (used + x) + y
    BY <1>15, <2>1
  <2>3. start \in Nat
    BY <1>5, <2>2
  <2>4. pt \in Fitting
    <3>1. n \in DOMAIN columns[c] /\ AllFit(columns[c])
      BY <1>1, <1>2
    <3> QED
      BY <3>1 DEF AllFit, Elements
  <2>5. ASSUME NEW k \in 1 .. PointSize PROVE bytes[start + k] = PointBytes(pt)[k]
    <3>1. PointSize * (n - 1) + k \in 1 .. Len(ss[c]) /\ ss[c][PointSize * (n - 1) + k] = PointBytes(pt)[k]
      BY <1>8
    <3>2. PICK j \in Nat : j = y + k
      BY <1>12, <2>1
    <3>3. j \in 1 .. Len(ss[c]) /\ ss[c][j] = PointBytes(pt)[k]
      BY <2>1, <3>1, <3>2, Zenon
    <3>4. x + j \in 1 .. Len(R) /\ R[x + j] = ss[c][j]
      BY <1>10, <2>1, <3>3, Zenon DEF Stacked
    <3>5. start + k = used + (x + j)
      <4>1. ((used + x) + y) + k = used + (x + (y + k))
        BY <1>5, <1>12
      <4> HIDE DEF start
      <4> QED
        BY <2>2, <3>2, <4>1 DEF start
    <3>6. \A i \in 1 .. Len(R) : bytes[used + i] = R[i]
      <4>1. /\ Len(T \o R) = Len(T) + Len(R)
            /\ \A i \in 1 .. Len(T) + Len(R) : (T \o R)[i] = IF i <= Len(T) THEN T[i] ELSE R[i - Len(T)]
        BY <1>5, ConcatProperties
      <4>2. used = Len(T)
        BY DEF used
      <4>3. \A i \in 1 .. Len(R) : used + i \in 1 .. used + Len(R) /\ ~(used + i <= used) /\ (used + i) - used = i
        BY <1>5
      <4>4. \A i \in 1 .. used + Len(R) : (T \o R)[i] = IF i <= used THEN T[i] ELSE R[i - used]
        BY <4>1, <4>2, Zenon
      <4>5. \A i \in 1 .. Len(R) : (T \o R)[used + i] = R[i]
        BY <4>3, <4>4
      <4> QED
        BY <1>6, <4>5
    <3>7. bytes[used + (x + j)] = R[x + j]
      BY <3>4, <3>6, Zenon
    <3> HIDE DEF start
    <3> QED
      BY <3>3, <3>4, <3>5, <3>7, Zenon
  <2> HIDE DEF start, pt
  <2>6. PointAt(bytes, start) = pt
    BY <2>3, <2>4, <2>5, ReadPoint
  <2> QED
    BY <2>6 DEF start, pt
<1>17. \A c \in 1 .. N : [n \in 1 .. g[c] |-> PointAt(bytes, starts[c] + PointSize * (n - 1))] = columns[c]
  <2> TAKE c \in 1 .. N
  <2>1. columns[c] = [n \in 1 .. g[c] |-> columns[c][n]]
    <3>1. PICK column : column = columns[c]
      OBVIOUS
    <3>2. column \in Seq(Points) /\ DOMAIN column = 1 .. g[c]
      BY <1>1, <1>2, <3>1
    <3>3. column = [n \in DOMAIN column |-> column[n]]
      BY <3>2
    <3> QED
      BY <3>1, <3>2, <3>3
  <2>2. \A n \in 1 .. g[c] : PointAt(bytes, starts[c] + PointSize * (n - 1)) = columns[c][n]
    BY <1>16
  <2> QED
    BY <2>1, <2>2
<1>18. columns = [c \in 1 .. N |-> columns[c]]
  BY <1>1
<1>19. Decoded(bytes, N) = [c \in 1 .. N |-> columns[c]]
  BY <1>14, <1>17 DEF DecodesFrom
<1> QED
  BY <1>18, <1>19 DEF bytes, N

LEMMA TripIInv == IInv /\ Fits => BlobRoundTrip
<1> SUFFICES ASSUME IInv, Fits PROVE Decoded(Blob, side * side) = ColumnList
  BY DEF BlobRoundTrip
<1>1. /\ ColumnList \in Seq(Seq(Points)) /\ Len(ColumnList) = side * side
      /\ \A i \in 1 .. side * side : \E p \in Square(side) : ColumnList[i] = cols[p]
  BY ColumnListType
<1>2. \A p \in Square(side) : cols[p] \in Seq(Points) /\ Sorted(cols[p]) /\ AllFit(cols[p])
  BY DEF IInv, TypeOK, Fits
<1>3. \A i \in 1 .. Len(ColumnList) : AllFit(ColumnList[i]) /\ Len(ColumnList[i]) <= WordRange
  <2> TAKE i \in 1 .. Len(ColumnList)
  <2>1. PICK p \in Square(side) : ColumnList[i] = cols[p]
    BY <1>1
  <2> QED
    BY <1>2, <2>1, LengthFits
<1>4. ColumnList \in Storables
  BY <1>1, <1>3 DEF Storables
<1>5. Decoded(RawBytes(ColumnList), Len(ColumnList)) = ColumnList
  BY <1>4, RoundTrip
<1> QED
  BY <1>1, <1>5 DEF Blob

(* Whatever level of whatever grid is encoded, on either path: a reader    *)
(* who knows the number of columns gets back from the bytes of             *)
(* encode_columns every column with all its runs.                          *)
THEOREM SpecBlobRoundTrip == Spec => []BlobRoundTrip
BY SpecIInv, SpecFits, TripIInv, PTL
=============================================================================
