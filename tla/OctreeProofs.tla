---------------------------- MODULE OctreeProofs ----------------------------
(***************************************************************************)
(* Theorems about stage 3, for every grid, every number of detail levels,  *)
(* every list of level-0 sections, either backend and every order in which *)
(* the parents of a level are built and appended.                          *)
(***************************************************************************)
EXTENDS Octree, SharedLemmas, FiniteSetTheorems, TLAPS

Position(sec) == <<sec.pos_x, sec.pos_z>>

(* The list begins with the level-0 sections, and nothing else is one.     *)
InputKept ==
  /\ input \in Seq(Section)
  /\ Len(input) <= Len(lod)
  /\ \A j \in DOMAIN input : lod[j] = input[j] /\ input[j].detail_level = 0
  /\ \A j \in DOMAIN lod \ DOMAIN input : lod[j].detail_level # 0

(* The parents under construction are those of the level below, and what   *)
(* they have still to take are children of theirs.                         *)
Grouped ==
  parents # NoParents =>
    /\ lvl <= DetailLevels
    /\ DOMAIN parents = Keys
    /\ Keys # {}
    /\ \A k \in Keys : parents[k].todo \subseteq ChildrenOf(k)

(* Every level built so far has a section at the ancestors of the level-0  *)
(* sections and nowhere else, and only one at each.                        *)
Levels ==
  \A level \in 0 .. lvl - 1 :
    /\ {Position(lod[j]) : j \in AtLevel(level)} =
         {Shrink(Position(input[j]), Pow2[level]) : j \in DOMAIN input}
    /\ level # 0 => \A a, b \in AtLevel(level) : KeyOf(lod[a]) = KeyOf(lod[b]) => a = b

(* Which of a child's merged columns lies under column p of its parent.    *)
Within(sec, p) == <<p[1] - Quadrant(sec)[1] * Half, p[2] - Quadrant(sec)[2] * Half>>

(* A parent shows what the children taken so far show, each in its         *)
(* quadrant, and nothing where no child is.                                *)
Covering ==
  UniqueInput => \A k \in DOMAIN parents : \A p \in Cols :
    /\ \A j \in ChildrenOf(k) : Within(lod[j], p) \in HalfIdx =>
         parents[k].sec.columns[p] = IF j \in parents[k].todo THEN {}
                                     ELSE Merged(lod[j].columns, Within(lod[j], p))
    /\ (\A j \in ChildrenOf(k) : Within(lod[j], p) \notin HalfIdx) =>
         parents[k].sec.columns[p] = {}

(* The level-0 sections a section was computed from, and its height range  *)
(* against theirs.                                                         *)
Under(j) == IF j \in DOMAIN input THEN {j} ELSE InputsBelow(j)
Spans(sec, U) ==
  /\ \A i \in U : input[i].max_y <= sec.max_y
  /\ sec.max_y = 0 \/ \E i \in U : input[i].max_y = sec.max_y
  /\ \E i \in U : input[i].min_y = sec.min_y
  /\ \/ \A i \in U : sec.min_y <= input[i].min_y
     \/ (\E i \in U : input[i].min_y = 0) /\ \A i \in U : 0 <= input[i].min_y

Taken(k) == ChildrenOf(k) \ parents[k].todo
Heights ==
  /\ \A j \in DOMAIN lod : Spans(lod[j], Under(j))
  /\ \A k \in DOMAIN parents :
       IF Taken(k) = {} THEN parents[k].sec.min_y = 0 /\ parents[k].sec.max_y = 0
       ELSE Spans(parents[k].sec, UNION {Under(j) : j \in Taken(k)})

IInv ==
  /\ TypeOK
  /\ InputKept
  /\ Grouped
  /\ Levels
  /\ Coverage
  /\ Covering
  /\ Heights
-----------------------------------------------------------------------------
(* The grid is even, and the scale of a level doubles.                     *)
LEMMA Sizes ==
  /\ SecCols \in Nat \ {0}
  /\ Half \in Nat \ {0}
  /\ SecCols = 2 * Half
<1>1. \A a, b \in Nat \ {0} : a * b \in Nat \ {0}
  OBVIOUS
<1>2. SecCols \in Nat \ {0}
  BY <1>1, GridAssumption DEF SecCols
<1> QED
  BY <1>2, OctreeAssumption, DivMod DEF Half

(* The section of a shrunk block column is the shrunk section.             *)
LEMMA ShrinkSection ==
  ASSUME NEW n \in Nat, NEW pos \in Int, NEW c \in 0 .. SecCols - 1,
         NEW q \in Int, NEW r \in 0 .. SecCols - 1,
         (pos * SecCols + c) \div Pow2[n] = q * SecCols + r
  PROVE  pos \div Pow2[n] = q
<1> DEFINE x == pos * SecCols + c
<1>1. /\ SecCols \in Nat \ {0} /\ Pow2[n] \in Nat \ {0} /\ x \in Int
  BY Sizes, Powers
<1>2. x = SecCols * pos + c /\ q * SecCols + r = SecCols * q + r
  BY <1>1
<1>3. x \div SecCols = pos
  BY <1>1, <1>2, DivUnique
<1>4. (q * SecCols + r) \div SecCols = q
  BY <1>1, <1>2, DivUnique
<1>5. (x \div Pow2[n]) \div SecCols = (x \div SecCols) \div Pow2[n]
  <2>1. PICK s \in Nat \ {0} : s = Pow2[n]
    BY <1>1
  <2> HIDE DEF x
  <2>2. (x \div s) \div SecCols = x \div (s * SecCols) /\ (x \div SecCols) \div s = x \div (s * SecCols)
    BY <1>1, DivDiv
  <2> QED
    BY <2>1, <2>2
<1> QED
  BY <1>3, <1>4, <1>5
-----------------------------------------------------------------------------
(* The list, its level-0 part and its sections.                            *)
LEMMA ListFacts ==
  ASSUME TypeOK, InputKept
  PROVE  /\ Len(lod) \in Nat /\ Len(input) \in Nat
         /\ DOMAIN lod = 1 .. Len(lod) /\ DOMAIN input = 1 .. Len(input)
         /\ DOMAIN input \subseteq DOMAIN lod
         /\ \A j \in DOMAIN lod : lod[j] \in Section
         /\ \A j \in DOMAIN input : input[j] \in Section
         /\ AtLevel(0) = DOMAIN input
<1>1. lod \in Seq(Section) /\ input \in Seq(Section)
  BY DEF TypeOK, InputKept
<1>2. /\ Len(lod) \in Nat /\ Len(input) \in Nat
      /\ DOMAIN lod = 1 .. Len(lod) /\ DOMAIN input = 1 .. Len(input)
  BY <1>1
<1>3. DOMAIN input \subseteq DOMAIN lod
  BY <1>2 DEF InputKept
<1>4. /\ \A j \in DOMAIN lod : lod[j] \in Section
      /\ \A j \in DOMAIN input : input[j] \in Section
  BY <1>1, <1>2, ElementOfSeq
<1>5. AtLevel(0) = DOMAIN input
  BY <1>3 DEF AtLevel, InputKept
<1> QED
  BY <1>2, <1>3, <1>4, <1>5

LEMMA SectionFields ==
  ASSUME NEW sec \in Section
  PROVE  /\ sec.detail_level \in Nat /\ sec.pos_x \in Int /\ sec.pos_z \in Int
         /\ sec.min_y \in Int /\ sec.max_y \in Int
         /\ sec.columns \in [Cols -> Provenance]
BY OctreeAssumption DEF Section

(* A child lies at twice the position of its parent plus its quadrant.     *)
LEMMA ChildPosition ==
  ASSUME NEW sec \in Section
  PROVE  /\ ParentKey(sec)[1] \in Int /\ ParentKey(sec)[2] \in Int
         /\ ParentKey(sec) = <<ParentKey(sec)[1], ParentKey(sec)[2]>>
         /\ Quadrant(sec)[1] \in {0, 1} /\ Quadrant(sec)[2] \in {0, 1}
         /\ sec.pos_x = 2 * ParentKey(sec)[1] + Quadrant(sec)[1]
         /\ sec.pos_z = 2 * ParentKey(sec)[2] + Quadrant(sec)[2]
<1>1. sec.pos_x \in Int /\ sec.pos_z \in Int
  BY SectionFields
<1>2. \A a \in Int : a \div 2 \in Int /\ a % 2 \in {0, 1} /\ a = 2 * (a \div 2) + (a % 2)
  OBVIOUS
<1> QED
  BY <1>1, <1>2 DEF ParentKey, Quadrant

(* A quadrant of the parent belongs to one position of the level below.    *)
LEMMA QuadrantUnique ==
  ASSUME NEW q \in {0, 1}, NEW r \in {0, 1}, NEW x \in Int,
         x - q * Half \in 0 .. Half - 1, x - r * Half \in 0 .. Half - 1
  PROVE  q = r
BY Sizes

LEMMA OneChild ==
  ASSUME NEW s \in Section, NEW t \in Section, ParentKey(s) = ParentKey(t), NEW p \in Cols,
         Within(s, p) \in HalfIdx, Within(t, p) \in HalfIdx
  PROVE  Position(s) = Position(t)
<1>1. p[1] \in Int /\ p[2] \in Int
  BY Sizes DEF Cols
<1>2. /\ p[1] - Quadrant(s)[1] * Half \in 0 .. Half - 1
      /\ p[2] - Quadrant(s)[2] * Half \in 0 .. Half - 1
      /\ p[1] - Quadrant(t)[1] * Half \in 0 .. Half - 1
      /\ p[2] - Quadrant(t)[2] * Half \in 0 .. Half - 1
  BY DEF Within, HalfIdx
<1>3. Quadrant(s)[1] = Quadrant(t)[1] /\ Quadrant(s)[2] = Quadrant(t)[2]
  BY <1>1, <1>2, ChildPosition, QuadrantUnique
<1> QED
  BY <1>3, ChildPosition DEF Position

(* Two sections of the level below at one position are one section.        *)
LEMMA OneAtPosition ==
  ASSUME TypeOK, InputKept, Levels, UniqueInput, NEW level \in 0 .. lvl - 1,
         NEW a \in AtLevel(level), NEW b \in AtLevel(level), Position(lod[a]) = Position(lod[b])
  PROVE  a = b
<1>1. KeyOf(lod[a]) = KeyOf(lod[b])
  BY DEF AtLevel, KeyOf, Position
<1>2. CASE level = 0
  BY <1>1, <1>2, ListFacts DEF InputKept, UniqueInput
<1>3. CASE level # 0
  BY <1>1, <1>3 DEF Levels
<1> QED
  BY <1>2, <1>3
-----------------------------------------------------------------------------
(* What the level-0 columns show whose shrunk position is w.               *)
Reach(level, w) ==
  UNION {UNION {input[j].columns[q] :
                  q \in {c \in Cols : Shrink(World(input[j], c), Pow2[level]) = w}} :
         j \in DOMAIN input}

LEMMA ReachElement ==
  ASSUME NEW level, NEW w, NEW e
  PROVE  e \in Reach(level, w) <=>
           \E j \in DOMAIN input : \E c \in Cols :
             Shrink(World(input[j], c), Pow2[level]) = w /\ e \in input[j].columns[c]
BY DEF Reach

LEMMA WorldInt ==
  ASSUME NEW sec \in Section, NEW c \in Cols
  PROVE  World(sec, c)[1] \in Int /\ World(sec, c)[2] \in Int /\ c[1] \in 0 .. SecCols - 1 /\ c[2] \in 0 .. SecCols - 1
<1>1. c[1] \in 0 .. SecCols - 1 /\ c[2] \in 0 .. SecCols - 1
  BY DEF Cols
<1>2. \A x \in Int : \A d \in 0 .. SecCols - 1 : x * SecCols + d \in Int
  BY Sizes
<1> QED
  BY <1>1, <1>2, SectionFields DEF World

(* One level up, a column reaches what four columns reach a level below.   *)
LEMMA ReachUp ==
  ASSUME TypeOK, InputKept, NEW level \in Nat, NEW u \in Int, NEW v \in Int
  PROVE  Reach(level + 1, <<u, v>>) =
           UNION {Reach(level, <<2 * u + a, 2 * v + b>>) : a, b \in {0, 1}}
<1>1. \A y, n \in Int : y \div 2 = n <=> \E a \in {0, 1} : y = 2 * n + a
  OBVIOUS
<1>2. ASSUME NEW j \in DOMAIN input, NEW c \in Cols
      PROVE  Shrink(World(input[j], c), Pow2[level + 1]) = <<u, v>> <=>
             \E a, b \in {0, 1} :
               Shrink(World(input[j], c), Pow2[level]) = <<2 * u + a, 2 * v + b>>
  <2>1. PICK x \in Int, z \in Int : x = World(input[j], c)[1] /\ z = World(input[j], c)[2]
    BY ListFacts, WorldInt
  <2>2. PICK s \in Nat \ {0} : s = Pow2[level]
    BY Powers
  <2>3. (x \div s) \div 2 = x \div Pow2[level + 1] /\ (z \div s) \div 2 = z \div Pow2[level + 1]
    BY <2>2, ShrinkTwice
  <2>4. x \div s \in Int /\ z \div s \in Int
    BY DivMod
  <2>5. x \div Pow2[level + 1] = u <=> \E a \in {0, 1} : x \div s = 2 * u + a
    BY <1>1, <2>3, <2>4
  <2>6. z \div Pow2[level + 1] = v <=> \E b \in {0, 1} : z \div s = 2 * v + b
    BY <1>1, <2>3, <2>4
  <2>7. /\ Shrink(World(input[j], c), Pow2[level + 1]) =
             <<x \div Pow2[level + 1], z \div Pow2[level + 1]>>
        /\ Shrink(World(input[j], c), Pow2[level]) = <<x \div s, z \div s>>
    BY <2>1, <2>2 DEF Shrink
  <2> QED
    BY <2>5, <2>6, <2>7
<1>3. ASSUME NEW e
      PROVE  e \in Reach(level + 1, <<u, v>>) <=>
             e \in UNION {Reach(level, <<2 * u + a, 2 * v + b>>) : a, b \in {0, 1}}
  <2>1. e \in Reach(level + 1, <<u, v>>) <=>
          \E a, b \in {0, 1} : e \in Reach(level, <<2 * u + a, 2 * v + b>>)
    BY <1>2, ReachElement
  <2> QED
    BY <2>1
<1> QED
  BY <1>3

(* Nothing is reached from a section no level-0 section shrinks to.        *)
LEMMA ReachNothing ==
  ASSUME TypeOK, InputKept, NEW level \in Nat, NEW q1 \in Int, NEW q2 \in Int,
         NEW r1 \in 0 .. SecCols - 1, NEW r2 \in 0 .. SecCols - 1,
         \A j \in DOMAIN input : Shrink(Position(input[j]), Pow2[level]) # <<q1, q2>>
  PROVE  Reach(level, <<q1 * SecCols + r1, q2 * SecCols + r2>>) = {}
<1> SUFFICES ASSUME NEW j \in DOMAIN input, NEW c \in Cols,
                    Shrink(World(input[j], c), Pow2[level]) = <<q1 * SecCols + r1, q2 * SecCols + r2>>
             PROVE  FALSE
  BY ReachElement
<1>1. input[j] \in Section /\ input[j].pos_x \in Int /\ input[j].pos_z \in Int
  BY ListFacts, SectionFields
<1>2. c[1] \in 0 .. SecCols - 1 /\ c[2] \in 0 .. SecCols - 1
  BY <1>1, WorldInt
<1>3. /\ (input[j].pos_x * SecCols + c[1]) \div Pow2[level] = q1 * SecCols + r1
      /\ (input[j].pos_z * SecCols + c[2]) \div Pow2[level] = q2 * SecCols + r2
  BY DEF Shrink, World
<1>4. input[j].pos_x \div Pow2[level] = q1 /\ input[j].pos_z \div Pow2[level] = q2
  BY <1>1, <1>2, <1>3, ShrinkSection
<1> QED
  BY <1>4 DEF Shrink, Position

(* A child that shows what lies below it hands its parent what lies below  *)
(* the parent's columns in that quadrant.                                  *)
LEMMA MergedReaches ==
  ASSUME TypeOK, InputKept, NEW child \in Section, NEW level \in Nat, child.detail_level = level,
         \A p \in Cols : child.columns[p] = Below(child, p),
         NEW p \in Cols, Within(child, p) \in HalfIdx
  PROVE  Merged(child.columns, Within(child, p)) =
           Reach(level + 1, <<ParentKey(child)[1] * SecCols + p[1], ParentKey(child)[2] * SecCols + p[2]>>)
<1>1. PICK k1 \in Int, k2 \in Int, q1 \in {0, 1}, q2 \in {0, 1} :
        /\ k1 = ParentKey(child)[1] /\ k2 = ParentKey(child)[2]
        /\ q1 = Quadrant(child)[1] /\ q2 = Quadrant(child)[2]
        /\ child.pos_x = 2 * k1 + q1 /\ child.pos_z = 2 * k2 + q2
  BY ChildPosition
<1>2. PICK h1 \in 0 .. Half - 1, h2 \in 0 .. Half - 1 :
        /\ Within(child, p) = <<h1, h2>> /\ h1 = p[1] - q1 * Half /\ h2 = p[2] - q2 * Half
  BY <1>1 DEF Within, HalfIdx
<1>3. p[1] \in Int /\ p[2] \in Int /\ Half \in Nat /\ SecCols = 2 * Half
  BY Sizes DEF Cols
<1>4. p[1] = h1 + q1 * Half /\ p[2] = h2 + q2 * Half
  BY <1>2, <1>3
<1> DEFINE u == k1 * SecCols + p[1]
           v == k2 * SecCols + p[2]
<1>5. ASSUME NEW a \in {0, 1}, NEW b \in {0, 1}
      PROVE  /\ <<2 * h1 + a, 2 * h2 + b>> \in Cols
             /\ child.columns[<<2 * h1 + a, 2 * h2 + b>>] = Reach(level, <<2 * u + a, 2 * v + b>>)
  <2>1. 2 * h1 + a \in 0 .. SecCols - 1 /\ 2 * h2 + b \in 0 .. SecCols - 1
    BY <1>3
  <2>2. <<2 * h1 + a, 2 * h2 + b>> \in Cols
    BY <2>1 DEF Cols
  <2>3. \A k, p1 \in Int : \A q \in {0, 1} : \A h \in 0 .. Half - 1 : \A d \in {0, 1} :
          p1 = h + q * Half =>
          (2 * k + q) * (2 * Half) + (2 * h + d) = 2 * (k * (2 * Half) + p1) + d
    BY <1>3
  <2>4. /\ (2 * k1 + q1) * SecCols + (2 * h1 + a) = 2 * u + a
        /\ (2 * k2 + q2) * SecCols + (2 * h2 + b) = 2 * v + b
    BY <1>3, <1>4, <2>3
  <2>5. World(child, <<2 * h1 + a, 2 * h2 + b>>) = <<2 * u + a, 2 * v + b>>
    BY <1>1, <2>4 DEF World
  <2>6. Below(child, <<2 * h1 + a, 2 * h2 + b>>) = Reach(level, <<2 * u + a, 2 * v + b>>)
    BY <2>5 DEF Below, Reach
  <2> QED
    BY <2>2, <2>6
<1>6. u \in Int /\ v \in Int
  BY <1>3
<1> HIDE DEF u, v
<1> DEFINE four == {child.columns[<<2 * h1 + a, 2 * h2 + b>>] : a, b \in {0, 1}}
           reached == {Reach(level, <<2 * u + a, 2 * v + b>>) : a, b \in {0, 1}}
<1>7. Reach(level + 1, <<u, v>>) = UNION reached
  BY <1>6, ReachUp
<1>8. Merged(child.columns, Within(child, p)) = UNION four
  BY <1>2 DEF Merged
<1>9. four = reached
  BY <1>5
<1> HIDE DEF four, reached
<1>10. /\ ParentKey(child)[1] * SecCols + p[1] = u
       /\ ParentKey(child)[2] * SecCols + p[2] = v
  BY <1>1 DEF u, v
<1>11. Merged(child.columns, Within(child, p)) = Reach(level + 1, <<u, v>>)
  BY <1>7, <1>8, <1>9, Zenon
<1> QED
  BY <1>10, <1>11, Zenon
-----------------------------------------------------------------------------
(* Types of the parents under construction.                                *)
LEMMA FreshParentType ==
  ASSUME TypeOK, InputKept, lvl <= DetailLevels, NEW k \in Keys
  PROVE  /\ FreshParent(k) \in Section
         /\ KeyOf(FreshParent(k)) = <<lvl, k[1], k[2]>>
         /\ FreshParent(k).min_y = 0 /\ FreshParent(k).max_y = 0
         /\ \A p \in Cols : FreshParent(k).columns[p] = {}
<1>1. PICK j \in AtLevel(lvl - 1) : k = ParentKey(lod[j])
  BY DEF Keys
<1>2. k[1] \in Int /\ k[2] \in Int
  BY <1>1, ListFacts, ChildPosition DEF AtLevel
<1>3. lvl \in 0 .. DetailLevels
  BY OctreeAssumption DEF TypeOK
<1>4. {} \in Provenance
  BY DEF Provenance
<1> QED
  BY <1>2, <1>3, <1>4 DEF FreshParent, NewEmpty, Section, KeyOf

LEMMA MergedType ==
  ASSUME NEW columns \in [Cols -> Provenance], NEW h \in HalfIdx
  PROVE  Merged(columns, h) \in Provenance
<1>1. h[1] \in 0 .. Half - 1 /\ h[2] \in 0 .. Half - 1
  BY DEF HalfIdx
<1>2. \A a, b \in {0, 1} : <<2 * h[1] + a, 2 * h[2] + b>> \in Cols
  BY <1>1, Sizes DEF Cols
<1> QED
  BY <1>2 DEF Merged, Provenance

LEMMA MergeChildType ==
  ASSUME NEW sec \in Section, NEW child \in Section
  PROVE  /\ MergeChild(sec, child) \in Section
         /\ KeyOf(MergeChild(sec, child)) = KeyOf(sec)
         /\ MergeChild(sec, child).min_y = LowerMin(sec.min_y, child.min_y)
         /\ MergeChild(sec, child).max_y = RaiseMax(sec.max_y, child.max_y)
         /\ \A p \in Cols : MergeChild(sec, child).columns[p] =
              IF Within(child, p) \notin HalfIdx THEN sec.columns[p]
              ELSE IF gpu /\ Merged(child.columns, Within(child, p)) = {} THEN sec.columns[p]
              ELSE Merged(child.columns, Within(child, p))
<1> DEFINE cols == [p \in Cols |->
                      LET h == <<p[1] - Quadrant(child)[1] * Half, p[2] - Quadrant(child)[2] * Half>>
                      IN  IF h \notin HalfIdx THEN sec.columns[p]
                          ELSE IF gpu /\ Merged(child.columns, h) = {} THEN sec.columns[p]
                          ELSE Merged(child.columns, h)]
<1>1. cols \in [Cols -> Provenance]
  <2> SUFFICES ASSUME NEW p \in Cols PROVE cols[p] \in Provenance
    OBVIOUS
  <2> DEFINE h == <<p[1] - Quadrant(child)[1] * Half, p[2] - Quadrant(child)[2] * Half>>
  <2>1. sec.columns[p] \in Provenance /\ child.columns \in [Cols -> Provenance]
    BY SectionFields
  <2>2. h \in HalfIdx => Merged(child.columns, h) \in Provenance
    BY <2>1, MergedType
  <2> HIDE DEF h
  <2>3. cols[p] = IF h \notin HalfIdx THEN sec.columns[p]
                  ELSE IF gpu /\ Merged(child.columns, h) = {} THEN sec.columns[p]
                  ELSE Merged(child.columns, h)
    BY DEF h
  <2> QED
    BY <2>1, <2>2, <2>3
<1>2. \A p \in Cols : cols[p] =
              IF Within(child, p) \notin HalfIdx THEN sec.columns[p]
              ELSE IF gpu /\ Merged(child.columns, Within(child, p)) = {} THEN sec.columns[p]
              ELSE Merged(child.columns, Within(child, p))
  BY DEF Within
<1>3. MergeChild(sec, child) = [WithHeights(sec, child) EXCEPT !.columns = cols]
  BY DEF MergeChild
<1>4. LowerMin(sec.min_y, child.min_y) \in Int /\ RaiseMax(sec.max_y, child.max_y) \in Int
  BY SectionFields DEF LowerMin, RaiseMax
<1> HIDE DEF cols
<1>5. MergeChild(sec, child) =
        [detail_level |-> sec.detail_level, pos_x |-> sec.pos_x, pos_z |-> sec.pos_z,
         min_y |-> LowerMin(sec.min_y, child.min_y), max_y |-> RaiseMax(sec.max_y, child.max_y),
         columns |-> cols]
  BY <1>3 DEF WithHeights, Section
<1> QED
  BY <1>1, <1>2, <1>4, <1>5 DEF Section, KeyOf

(* Each position of the level below has its parent once in the list that   *)
(* the level appends.                                                      *)
Appends(n, ord) ==
  /\ n \in Nat
  /\ ord \in [1 .. n -> Keys]
  /\ \A k \in Keys : \E i \in 1 .. n : ord[i] = k
  /\ \A i, m \in 1 .. n : ord[i] = ord[m] => i = m
  /\ lod' \in Seq(Section)
  /\ DOMAIN lod' = 1 .. Len(lod) + n /\ Len(lod') = Len(lod) + n
  /\ \A j \in DOMAIN lod : lod'[j] = lod[j]
  /\ \A i \in 1 .. n : lod'[Len(lod) + i] = parents[ord[i]].sec

LEMMA KeysFinite ==
  ASSUME TypeOK, InputKept
  PROVE  IsFiniteSet(Keys) /\ Cardinality(Keys) \in Nat
<1>1. IsFiniteSet(AtLevel(lvl - 1))
  <2>1. AtLevel(lvl - 1) \subseteq 1 .. Len(lod) /\ Len(lod) \in Nat /\ 1 \in Int
    BY ListFacts DEF AtLevel
  <2>2. IsFiniteSet(1 .. Len(lod))
    BY <2>1, FS_Interval
  <2> QED
    BY <2>1, <2>2, FS_Subset
<1> DEFINE f == [j \in AtLevel(lvl - 1) |-> ParentKey(lod[j])]
<1>2. f \in Surjection(AtLevel(lvl - 1), Keys)
  BY DEF Surjection, Keys
<1> HIDE DEF f
<1>3. IsFiniteSet(Keys)
  BY <1>1, <1>2, FS_Surjection
<1> QED
  BY <1>3, FS_CardinalityType

LEMMA EndLevelAppends ==
  ASSUME TypeOK, InputKept, Grouped, EndLevel
  PROVE  \E n, ord : Appends(n, ord)
<1>1. parents # NoParents /\ DOMAIN parents = Keys
  BY DEF EndLevel, Grouped
<1>2. PICK ord \in Orders(Keys) : lod' = Extended(ord)
  BY <1>1 DEF EndLevel
<1> DEFINE n == Cardinality(Keys)
<1>3. n \in Nat /\ IsFiniteSet(Keys)
  BY KeysFinite
<1>4. ord \in [1 .. n -> Keys] /\ DOMAIN ord = 1 .. n /\ \A k \in Keys : \E i \in 1 .. n : ord[i] = k
  BY <1>2 DEF Orders
<1> HIDE DEF n
<1>5. ord \in Injection(1 .. n, Keys)
  <2>1. IsFiniteSet(1 .. n) /\ Cardinality(1 .. n) = n
    <3>1. 1 \in Int /\ n \in Int
      BY <1>3
    <3>2. IsFiniteSet(1 .. n) /\ Cardinality(1 .. n) = IF 1 > n THEN 0 ELSE n - 1 + 1
      BY <3>1, FS_Interval
    <3> QED
      BY <1>3, <3>2
  <2>2. ord \in Surjection(1 .. n, Keys)
    BY <1>4 DEF Surjection
  <2> QED
    BY <2>1, <2>2, FS_SurjSameCardinalityImpliesInj DEF n
<1>6. \A i, m \in 1 .. n : ord[i] = ord[m] => i = m
  BY <1>4, <1>5 DEF Injection, IsInjective
<1> DEFINE new == [i \in 1 .. n |-> parents[ord[i]].sec]
<1>7. new \in Seq(Section) /\ Len(new) = n /\ \A i \in 1 .. n : new[i] = parents[ord[i]].sec
  <2>1. \A i \in 1 .. n : parents[ord[i]].sec \in Section
    BY <1>1, <1>4 DEF TypeOK
  <2>2. new \in [1 .. n -> Section]
    BY <2>1
  <2> HIDE DEF new
  <2>3. new \in Seq(Section) /\ Len(new) = n
    BY <1>3, <2>2
  <2> QED
    BY <2>3 DEF new
<1>8. lod' = lod \o new
  BY <1>2, <1>4 DEF Extended
<1> HIDE DEF new
<1>9. /\ lod' \in Seq(Section) /\ Len(lod') = Len(lod) + n
      /\ \A i \in 1 .. Len(lod) + n : lod'[i] = IF i <= Len(lod) THEN lod[i] ELSE new[i - Len(lod)]
  <2>1. lod \in Seq(Section) /\ new \in Seq(Section) /\ Len(new) = n
    BY <1>7 DEF TypeOK
  <2> QED
    BY <1>8, <2>1, ConcatProperties
<1>10. DOMAIN lod' = 1 .. Len(lod) + n
  BY <1>9
<1>11. \A j \in DOMAIN lod : lod'[j] = lod[j]
  BY <1>3, <1>9, ListFacts
<1>12. \A i \in 1 .. n : lod'[Len(lod) + i] = parents[ord[i]].sec
  <2> TAKE i \in 1 .. n
  <2>1. /\ Len(lod) + i \in 1 .. Len(lod) + n /\ ~(Len(lod) + i <= Len(lod))
        /\ (Len(lod) + i) - Len(lod) = i
    BY <1>3, ListFacts
  <2> QED
    BY <1>7, <1>9, <2>1
<1>13. Appends(n, ord)
  BY <1>3, <1>4, <1>6, <1>9, <1>10, <1>11, <1>12 DEF Appends
<1> QED
  BY <1>13
-----------------------------------------------------------------------------
(* The inputs never change.                                                *)
LEMMA InputsStep ==
  ASSUME [Next]_vars
  PROVE  gpu' = gpu /\ input' = input
BY DEF Next, GroupChildren, AddChild, EndLevel, EmptyLevel, Finished, vars, inputs

(* While the list stays, so do its levels.                                 *)
LEMMA SameList ==
  ASSUME lod' = lod, lvl' = lvl
  PROVE  /\ \A level : AtLevel(level)' = AtLevel(level)
         /\ Keys' = Keys
         /\ \A k : ChildrenOf(k)' = ChildrenOf(k)
<1>1. \A level : AtLevel(level)' = AtLevel(level)
  BY DEF AtLevel
<1> QED
  BY <1>1 DEF Keys, ChildrenOf

(* What AddChild does to the parents.                                      *)
LEMMA AddChildFacts ==
  ASSUME TypeOK, InputKept, Grouped, NEW k \in DOMAIN parents, AddChild(k)
  PROVE  /\ lod' = lod /\ lvl' = lvl /\ input' = input
         /\ k \in Keys /\ DOMAIN parents = Keys /\ Keys # {} /\ lvl <= DetailLevels
         /\ DOMAIN parents' = DOMAIN parents /\ parents' # NoParents
         /\ \A m \in DOMAIN parents : m # k => parents'[m] = parents[m]
         /\ \E j \in parents[k].todo :
              /\ j \in ChildrenOf(k) /\ lod[j] \in Section
              /\ parents'[k].todo = parents[k].todo \ {j}
              /\ parents'[k].sec = MergeChild(parents[k].sec, lod[j])
<1>1. parents # NoParents
  BY DEF NoParents
<1>2. /\ lvl <= DetailLevels /\ DOMAIN parents = Keys /\ Keys # {}
      /\ parents[k].todo \subseteq ChildrenOf(k)
  BY <1>1 DEF Grouped
<1>3. PICK j \in parents[k].todo :
        parents' = [parents EXCEPT ![k] = [todo |-> parents[k].todo \ {j},
                                           sec |-> MergeChild(parents[k].sec, lod[j])]]
  BY DEF AddChild
<1>4. DOMAIN parents' = DOMAIN parents
  BY <1>3
<1>5. parents' # NoParents
  BY <1>2, <1>4 DEF NoParents
<1>6. \A m \in DOMAIN parents : m # k => parents'[m] = parents[m]
  BY <1>3
<1>7. /\ parents'[k].todo = parents[k].todo \ {j}
      /\ parents'[k].sec = MergeChild(parents[k].sec, lod[j])
  BY <1>3
<1>8. j \in ChildrenOf(k) /\ lod[j] \in Section
  BY <1>2, ListFacts DEF ChildrenOf, AtLevel
<1>9. lod' = lod /\ lvl' = lvl /\ input' = input
  BY DEF AddChild, inputs
<1> QED
  BY <1>2, <1>4, <1>5, <1>6, <1>7, <1>8, <1>9

LEMMA TypeStep ==
  ASSUME TypeOK, InputKept, Grouped, [Next]_vars
  PROVE  TypeOK'
<1>0. gpu' \in BOOLEAN
  BY InputsStep DEF TypeOK
<1>1. CASE GroupChildren
  <2>1. \A k \in Keys : /\ ChildrenOf(k) \subseteq DOMAIN lod
                        /\ FreshParent(k) \in Section
                        /\ KeyOf(FreshParent(k)) = <<lvl, k[1], k[2]>>
    BY <1>1, FreshParentType DEF GroupChildren, ChildrenOf, AtLevel
  <2>2. /\ parents' = [k \in Keys |-> [todo |-> ChildrenOf(k), sec |-> FreshParent(k)]]
        /\ lod' = lod /\ lvl' = lvl
    BY <1>1 DEF GroupChildren
  <2>3. /\ DOMAIN parents' = Keys
        /\ \A k \in Keys : parents'[k].todo = ChildrenOf(k) /\ parents'[k].sec = FreshParent(k)
    BY <2>2
  <2> QED
    BY <1>0, <2>1, <2>2, <2>3 DEF TypeOK
<1>2. ASSUME NEW k \in DOMAIN parents, AddChild(k) PROVE TypeOK'
  <2>1. PICK j \in parents[k].todo :
              /\ lod[j] \in Section
              /\ parents'[k].todo = parents[k].todo \ {j}
              /\ parents'[k].sec = MergeChild(parents[k].sec, lod[j])
    BY <1>2, AddChildFacts
  <2>2. /\ parents[k].sec \in Section /\ KeyOf(parents[k].sec) = <<lvl, k[1], k[2]>>
        /\ parents[k].todo \subseteq DOMAIN lod
    BY DEF TypeOK
  <2>3. parents'[k].sec \in Section /\ KeyOf(parents'[k].sec) = <<lvl, k[1], k[2]>>
    BY <2>1, <2>2, MergeChildType
  <2>4. \A m \in DOMAIN parents' :
          /\ parents'[m].todo \subseteq DOMAIN lod
          /\ parents'[m].sec \in Section
          /\ KeyOf(parents'[m].sec) = <<lvl, m[1], m[2]>>
    <3> TAKE m \in DOMAIN parents'
    <3>1. m \in DOMAIN parents /\ (m # k => parents'[m] = parents[m])
      BY <1>2, AddChildFacts
    <3> QED
      BY <2>1, <2>2, <2>3, <3>1 DEF TypeOK
  <2>5. lod' = lod /\ lvl' = lvl
    BY <1>2, AddChildFacts
  <2> QED
    BY <1>0, <2>4, <2>5 DEF TypeOK
<1>3. CASE EndLevel
  <2>1. PICK n, ord : Appends(n, ord)
    BY <1>3, EndLevelAppends
  <2>2. lvl' = lvl + 1 /\ parents' = NoParents /\ lvl <= DetailLevels /\ DOMAIN parents = Keys
    BY <1>3 DEF EndLevel, Grouped
  <2>3. lvl' \in 1 .. DetailLevels + 1
    BY <2>2, OctreeAssumption DEF TypeOK
  <2>4. ASSUME NEW j \in DOMAIN lod' PROVE lod'[j].detail_level < lvl'
    <3>1. CASE j \in DOMAIN lod
      <4>1. lod[j].detail_level < lvl /\ lod[j].detail_level \in Nat /\ lvl \in Nat
        BY <3>1, ListFacts, SectionFields DEF TypeOK
      <4> QED
        BY <2>1, <2>2, <3>1, <4>1 DEF Appends
    <3>2. CASE j \notin DOMAIN lod
      <4>1. j - Len(lod) \in 1 .. n /\ Len(lod) + (j - Len(lod)) = j
        BY <2>1, <3>2, ListFacts DEF Appends
      <4>2. lod'[j] = parents[ord[j - Len(lod)]].sec /\ ord[j - Len(lod)] \in Keys
        BY <2>1, <4>1 DEF Appends
      <4>3. lod'[j].detail_level = lvl
        BY <2>2, <4>2 DEF TypeOK, KeyOf
      <4> QED
        BY <2>2, <4>3 DEF TypeOK
    <3> QED
      BY <3>1, <3>2
  <2>5. lod' \in Seq(Section) /\ DOMAIN parents' = {}
    BY <2>1, <2>2 DEF Appends, NoParents
  <2> QED
    BY <1>0, <2>3, <2>4, <2>5 DEF TypeOK
<1>4. CASE EmptyLevel
  <2>1. lvl' = lvl + 1 /\ lvl <= DetailLevels /\ lod' = lod /\ parents' = parents /\ DOMAIN parents = {}
    BY <1>4 DEF EmptyLevel, NoParents
  <2>2. lvl' \in 1 .. DetailLevels + 1
    BY <2>1, OctreeAssumption DEF TypeOK
  <2>3. \A j \in DOMAIN lod : lod[j].detail_level < lvl + 1
    <3> TAKE j \in DOMAIN lod
    <3>1. lod[j].detail_level < lvl /\ lod[j].detail_level \in Nat /\ lvl \in Nat
      BY ListFacts, SectionFields DEF TypeOK
    <3> QED
      BY <3>1
  <2> QED
    BY <1>0, <2>1, <2>2, <2>3 DEF TypeOK
<1>5. CASE UNCHANGED vars
  BY <1>5 DEF vars, inputs, TypeOK
<1> QED
  BY <1>1, <1>2, <1>3, <1>4, <1>5 DEF Next, Finished

LEMMA InputKeptStep ==
  ASSUME TypeOK, InputKept, Grouped, [Next]_vars
  PROVE  InputKept'
<1>1. input' = input
  BY InputsStep
<1>2. CASE lod' = lod
  BY <1>1, <1>2 DEF InputKept
<1>3. CASE EndLevel
  <2>1. PICK n, ord : Appends(n, ord)
    BY <1>3, EndLevelAppends
  <2>2. Len(input) <= Len(lod')
    BY <2>1, ListFacts DEF Appends, InputKept
  <2>3. \A j \in DOMAIN input : lod'[j] = input[j] /\ input[j].detail_level = 0
    BY <2>1, ListFacts DEF Appends, InputKept
  <2>4. ASSUME NEW j \in DOMAIN lod' \ DOMAIN input PROVE lod'[j].detail_level # 0
    <3>1. CASE j \in DOMAIN lod
      BY <2>1, <3>1 DEF Appends, InputKept
    <3>2. CASE j \notin DOMAIN lod
      <4>1. j - Len(lod) \in 1 .. n /\ Len(lod) + (j - Len(lod)) = j
        BY <2>1, <3>2, ListFacts DEF Appends
      <4>2. lod'[j] = parents[ord[j - Len(lod)]].sec /\ ord[j - Len(lod)] \in Keys
        BY <2>1, <4>1 DEF Appends
      <4>3. DOMAIN parents = Keys
        BY <1>3 DEF EndLevel, Grouped
      <4>4. lod'[j].detail_level = lvl
        BY <4>2, <4>3 DEF TypeOK, KeyOf
      <4> QED
        BY <4>4 DEF TypeOK
    <3> QED
      BY <3>1, <3>2
  <2> QED
    BY <1>1, <2>2, <2>3, <2>4 DEF InputKept
<1> QED
  BY <1>2, <1>3 DEF Next, GroupChildren, AddChild, EmptyLevel, Finished, vars

LEMMA GroupedStep ==
  ASSUME TypeOK, InputKept, Grouped, [Next]_vars
  PROVE  Grouped'
<1>1. CASE GroupChildren
  <2>1. /\ parents' = [k \in Keys |-> [todo |-> ChildrenOf(k), sec |-> FreshParent(k)]]
        /\ lod' = lod /\ lvl' = lvl /\ lvl <= DetailLevels /\ AtLevel(lvl - 1) # {}
    BY <1>1 DEF GroupChildren
  <2>2. Keys # {}
    BY <2>1 DEF Keys
  <2> QED
    BY <2>1, <2>2, SameList DEF Grouped
<1>2. ASSUME NEW k \in DOMAIN parents, AddChild(k) PROVE Grouped'
  <2>1. /\ lod' = lod /\ lvl' = lvl /\ lvl <= DetailLevels /\ Keys # {}
        /\ DOMAIN parents = Keys /\ DOMAIN parents' = Keys
        /\ \A m \in Keys : parents'[m].todo \subseteq parents[m].todo
    BY <1>2, AddChildFacts
  <2>2. \A m \in Keys : parents[m].todo \subseteq ChildrenOf(m)
    BY <2>1 DEF Grouped, NoParents
  <2> QED
    BY <2>1, <2>2, SameList DEF Grouped
<1>3. CASE EndLevel \/ EmptyLevel
  BY <1>3 DEF EndLevel, EmptyLevel, Grouped, NoParents
<1>4. CASE UNCHANGED vars
  BY <1>4, SameList DEF vars, Grouped
<1> QED
  BY <1>1, <1>2, <1>3, <1>4 DEF Next, Finished
-----------------------------------------------------------------------------
(* The list after EndLevel: the levels below stay, and the new one has the *)
(* parents.                                                                *)
LEMMA NewLevel ==
  ASSUME TypeOK, InputKept, Grouped, EndLevel, NEW n, NEW ord, Appends(n, ord)
  PROVE  /\ \A level \in 0 .. lvl - 1 : AtLevel(level)' = AtLevel(level)
         /\ \A level : level = lvl => AtLevel(level)' = {Len(lod) + i : i \in 1 .. n}
         /\ \A j \in DOMAIN lod' \ DOMAIN lod : \E k \in Keys :
              lod'[j] = parents[k].sec /\ parents[k].todo = {} /\ k \in DOMAIN parents
<1>1. /\ DOMAIN parents = Keys /\ lvl \in Nat /\ Len(lod) \in Nat /\ DOMAIN lod = 1 .. Len(lod)
      /\ \A k \in Keys : parents[k].todo = {}
  BY ListFacts DEF EndLevel, Grouped, TypeOK
<1>2. \A j \in DOMAIN lod : lod'[j] = lod[j] /\ lod[j].detail_level < lvl /\ lod[j].detail_level \in Nat
  BY ListFacts, SectionFields DEF Appends, TypeOK
<1>3. ASSUME NEW j \in DOMAIN lod' \ DOMAIN lod
      PROVE  \E i \in 1 .. n : j = Len(lod) + i /\ lod'[j] = parents[ord[i]].sec /\ ord[i] \in Keys
  <2>1. j - Len(lod) \in 1 .. n /\ Len(lod) + (j - Len(lod)) = j
    BY <1>1 DEF Appends
  <2> QED
    BY <2>1 DEF Appends
<1>4. \A i \in 1 .. n : /\ Len(lod) + i \in DOMAIN lod' \ DOMAIN lod
                        /\ lod'[Len(lod) + i].detail_level = lvl
  <2> TAKE i \in 1 .. n
  <2>1. Len(lod) + i \in DOMAIN lod' \ DOMAIN lod
    BY <1>1 DEF Appends
  <2>2. lod'[Len(lod) + i] = parents[ord[i]].sec /\ ord[i] \in Keys
    BY DEF Appends
  <2> QED
    BY <1>1, <2>1, <2>2 DEF TypeOK, KeyOf
<1>5. DOMAIN lod \subseteq DOMAIN lod'
  BY <1>1 DEF Appends
<1>6. \A j \in DOMAIN lod' \ DOMAIN lod : lod'[j].detail_level = lvl
  BY <1>3, <1>4
<1>7. ASSUME NEW level \in 0 .. lvl - 1 PROVE AtLevel(level)' = AtLevel(level)
  <2>1. level # lvl
    BY <1>1
  <2> QED
    BY <1>2, <1>5, <1>6, <2>1 DEF AtLevel
<1>8. ASSUME NEW level, level = lvl PROVE AtLevel(level)' = {Len(lod) + i : i \in 1 .. n}
  <2>1. AtLevel(level)' = {j \in DOMAIN lod' : lod'[j].detail_level = level}
    BY DEF AtLevel
  <2>2. \A j \in DOMAIN lod : lod'[j].detail_level # level
    BY <1>1, <1>2, <1>8
  <2> QED
    BY <1>3, <1>4, <1>8, <2>1, <2>2
<1> QED
  BY <1>1, <1>3, <1>7, <1>8

(* The positions of the parents are those of the next level.               *)
LEMMA KeysOfLevel ==
  ASSUME TypeOK, InputKept, Levels
  PROVE  Keys = {Shrink(Position(input[j]), Pow2[lvl]) : j \in DOMAIN input}
<1>1. lvl - 1 \in 0 .. lvl - 1 /\ lvl - 1 \in Nat /\ (lvl - 1) + 1 = lvl
  BY DEF TypeOK
<1>2. {Position(lod[j]) : j \in AtLevel(lvl - 1)} =
        {Shrink(Position(input[j]), Pow2[lvl - 1]) : j \in DOMAIN input}
  BY <1>1 DEF Levels
<1>3. \A j \in AtLevel(lvl - 1) : ParentKey(lod[j]) = Shrink(Position(lod[j]), 2)
  BY DEF ParentKey, Shrink, Position
<1>4. \A j \in DOMAIN input :
        Shrink(Shrink(Position(input[j]), Pow2[lvl - 1]), 2) = Shrink(Position(input[j]), Pow2[lvl])
  <2> TAKE j \in DOMAIN input
  <2>1. PICK x \in Int, z \in Int : x = input[j].pos_x /\ z = input[j].pos_z
    BY ListFacts, SectionFields
  <2>2. /\ (x \div Pow2[lvl - 1]) \div 2 = x \div Pow2[lvl]
        /\ (z \div Pow2[lvl - 1]) \div 2 = z \div Pow2[lvl]
    BY <1>1, ShrinkTwice
  <2> QED
    BY <2>1, <2>2 DEF Shrink, Position
<1>5. Keys = {Shrink(q, 2) : q \in {Position(lod[j]) : j \in AtLevel(lvl - 1)}}
  BY <1>3 DEF Keys
<1>6. {Shrink(q, 2) : q \in {Shrink(Position(input[j]), Pow2[lvl - 1]) : j \in DOMAIN input}} =
        {Shrink(Position(input[j]), Pow2[lvl]) : j \in DOMAIN input}
  BY <1>4
<1> QED
  BY <1>2, <1>5, <1>6

LEMMA LevelsStep ==
  ASSUME TypeOK, InputKept, Grouped, Levels, [Next]_vars
  PROVE  Levels'
<1> DEFINE Good(l, at, level) ==
             /\ {Position(l[j]) : j \in at} = {Shrink(Position(input[j]), Pow2[level]) : j \in DOMAIN input}
             /\ level # 0 => \A a, b \in at : KeyOf(l[a]) = KeyOf(l[b]) => a = b
<1>1. input' = input /\ lvl \in Nat \ {0}
  BY InputsStep DEF TypeOK
<1>2. \A level \in 0 .. lvl - 1 : Good(lod, AtLevel(level), level)
  BY DEF Levels
<1>3. ASSUME \A level \in 0 .. lvl' - 1 : Good(lod', AtLevel(level)', level)
      PROVE  Levels'
  BY <1>1, <1>3 DEF Levels
<1>4. CASE lod' = lod /\ lvl' = lvl
  BY <1>2, <1>3, <1>4, SameList
<1>5. CASE EndLevel
  <2>1. PICK n, ord : Appends(n, ord)
    BY <1>5, EndLevelAppends
  <2>2. /\ \A level \in 0 .. lvl - 1 : AtLevel(level)' = AtLevel(level)
        /\ \A level : level = lvl => AtLevel(level)' = {Len(lod) + i : i \in 1 .. n}
    BY <1>5, <2>1, NewLevel
  <2>3. lvl' = lvl + 1 /\ DOMAIN parents = Keys
    BY <1>5 DEF EndLevel, Grouped
  <2>4. ASSUME NEW level \in 0 .. lvl - 1 PROVE Good(lod', AtLevel(level)', level)
    <3>1. \A j \in AtLevel(level) : lod'[j] = lod[j]
      BY <2>1 DEF AtLevel, Appends
    <3>2. AtLevel(level)' = AtLevel(level)
      BY <2>2
    <3>3. {Position(lod'[j]) : j \in AtLevel(level)} = {Position(lod[j]) : j \in AtLevel(level)}
      BY <3>1
    <3> QED
      BY <1>2, <3>1, <3>2, <3>3
  <2>5. ASSUME NEW i \in 1 .. n
        PROVE  /\ lod'[Len(lod) + i] = parents[ord[i]].sec /\ ord[i] \in Keys
               /\ KeyOf(parents[ord[i]].sec) = <<lvl, ord[i][1], ord[i][2]>>
               /\ Position(parents[ord[i]].sec) = ord[i] /\ ord[i] = <<ord[i][1], ord[i][2]>>
    <3>1. lod'[Len(lod) + i] = parents[ord[i]].sec /\ ord[i] \in Keys
      BY <2>1 DEF Appends
    <3>2. KeyOf(parents[ord[i]].sec) = <<lvl, ord[i][1], ord[i][2]>>
      BY <2>3, <3>1 DEF TypeOK
    <3>3. ord[i] = <<ord[i][1], ord[i][2]>>
      BY <3>1 DEF Keys, ParentKey
    <3> QED
      BY <3>1, <3>2, <3>3 DEF KeyOf, Position
  <2>6. ASSUME NEW level, level = lvl PROVE Good(lod', AtLevel(level)', level)
    <3>1. {Position(lod'[j]) : j \in {Len(lod) + i : i \in 1 .. n}} = {ord[i] : i \in 1 .. n}
      BY <2>5
    <3>2. {ord[i] : i \in 1 .. n} = Keys
      BY <2>1 DEF Appends
    <3>3. {Position(lod'[j]) : j \in {Len(lod) + i : i \in 1 .. n}} =
            {Shrink(Position(input[j]), Pow2[lvl]) : j \in DOMAIN input}
      BY <3>1, <3>2, KeysOfLevel
    <3>4. ASSUME NEW i \in 1 .. n, NEW m \in 1 .. n,
                 KeyOf(lod'[Len(lod) + i]) = KeyOf(lod'[Len(lod) + m])
          PROVE  i = m
      <4>1. ord[i] = ord[m]
        BY <2>5, <3>4
      <4> QED
        BY <2>1, <4>1 DEF Appends
    <3>5. AtLevel(level)' = {Len(lod) + i : i \in 1 .. n}
      BY <2>2, <2>6
    <3>6. \A a, b \in {Len(lod) + i : i \in 1 .. n} : KeyOf(lod'[a]) = KeyOf(lod'[b]) => a = b
      BY <3>4
    <3> QED
      BY <2>6, <3>3, <3>5, <3>6
  <2>7. \A level \in 0 .. lvl' - 1 : level \in 0 .. lvl - 1 \/ level = lvl
    BY <1>1, <2>3
  <2> HIDE DEF Good
  <2>8. \A level \in 0 .. lvl' - 1 : Good(lod', AtLevel(level)', level)
    BY <2>4, <2>6, <2>7
  <2> QED
    BY <1>3, <2>8 DEF Good
<1>6. CASE EmptyLevel
  <2>1. lvl' = lvl + 1 /\ lod' = lod /\ AtLevel(lvl - 1) = {}
    BY <1>6 DEF EmptyLevel
  <2>2. \A level : AtLevel(level)' = AtLevel(level)
    BY <2>1 DEF AtLevel
  <2>3. Keys = {}
    BY <2>1 DEF Keys
  <2>4. DOMAIN input = {}
    BY <2>3, KeysOfLevel
  <2>5. AtLevel(lvl) = {}
    <3>1. \A j \in DOMAIN lod : lod[j].detail_level < lvl /\ lod[j].detail_level \in Nat
      BY ListFacts, SectionFields DEF TypeOK
    <3> QED
      BY <1>1, <3>1 DEF AtLevel
  <2>6. Good(lod, AtLevel(lvl), lvl)
    BY <2>4, <2>5
  <2>7. \A level \in 0 .. lvl' - 1 : level \in 0 .. lvl - 1 \/ level = lvl
    BY <1>1, <2>1
  <2> HIDE DEF Good
  <2>8. \A level \in 0 .. lvl' - 1 : Good(lod', AtLevel(level)', level)
    BY <1>2, <2>1, <2>2, <2>6, <2>7
  <2> QED
    BY <1>3, <2>8 DEF Good
<1> QED
  BY <1>4, <1>5, <1>6 DEF Next, GroupChildren, AddChild, Finished, vars
-----------------------------------------------------------------------------
(* A parent that has taken all its children shows what lies below it.      *)
LEMMA ParentShows ==
  ASSUME TypeOK, InputKept, Grouped, Levels, Coverage, Covering, UniqueInput,
         NEW k \in DOMAIN parents, parents[k].todo = {}
  PROVE  \A p \in Cols : parents[k].sec.columns[p] = Below(parents[k].sec, p)
<1> SUFFICES ASSUME NEW p \in Cols
             PROVE  parents[k].sec.columns[p] = Below(parents[k].sec, p)
  OBVIOUS
<1>1. k \in Keys
  BY DEF Grouped, NoParents
<1>2. PICK j0 \in AtLevel(lvl - 1) : k = ParentKey(lod[j0])
  BY <1>1 DEF Keys
<1>3. PICK k1 \in Int, k2 \in Int : k = <<k1, k2>>
  BY <1>2, ListFacts, ChildPosition DEF AtLevel
<1>4. PICK level \in Nat : level = lvl - 1 /\ level + 1 = lvl /\ level \in 0 .. lvl - 1
  BY DEF TypeOK
<1>5. p[1] \in 0 .. SecCols - 1 /\ p[2] \in 0 .. SecCols - 1 /\ p = <<p[1], p[2]>>
  BY DEF Cols
<1> DEFINE u == k1 * SecCols + p[1]
           v == k2 * SecCols + p[2]
<1>6. Below(parents[k].sec, p) = Reach(lvl, <<u, v>>)
  <2>1. KeyOf(parents[k].sec) = <<lvl, k1, k2>>
    BY <1>3 DEF TypeOK
  <2>2. parents[k].sec.detail_level = lvl /\ World(parents[k].sec, p) = <<u, v>>
    BY <2>1 DEF KeyOf, World
  <2> HIDE DEF u, v
  <2> QED
    BY <2>2 DEF Below, Reach
<1>7. CASE \E j \in ChildrenOf(k) : Within(lod[j], p) \in HalfIdx
  <2>1. PICK j \in ChildrenOf(k) : Within(lod[j], p) \in HalfIdx
    BY <1>7
  <2>2. parents[k].sec.columns[p] = Merged(lod[j].columns, Within(lod[j], p))
    BY <2>1 DEF Covering
  <2>3. /\ lod[j] \in Section /\ lod[j].detail_level = level /\ ParentKey(lod[j]) = k
        /\ \A c \in Cols : lod[j].columns[c] = Below(lod[j], c)
    BY <1>4, ListFacts DEF ChildrenOf, AtLevel, Coverage
  <2>4. Merged(lod[j].columns, Within(lod[j], p)) =
          Reach(level + 1, <<ParentKey(lod[j])[1] * SecCols + p[1], ParentKey(lod[j])[2] * SecCols + p[2]>>)
    BY <2>1, <2>3, MergedReaches
  <2>5. ParentKey(lod[j])[1] = k1 /\ ParentKey(lod[j])[2] = k2
    BY <1>3, <2>3
  <2> QED
    BY <1>4, <1>6, <2>2, <2>4, <2>5
<1>8. CASE \A j \in ChildrenOf(k) : Within(lod[j], p) \notin HalfIdx
  <2>1. parents[k].sec.columns[p] = {}
    BY <1>8 DEF Covering
  <2> DEFINE q1 == IF p[1] < Half THEN 0 ELSE 1
             q2 == IF p[2] < Half THEN 0 ELSE 1
  <2>2. /\ q1 \in {0, 1} /\ q2 \in {0, 1}
        /\ p[1] - q1 * Half \in 0 .. Half - 1 /\ p[2] - q2 * Half \in 0 .. Half - 1
    BY <1>5, Sizes
  <2> HIDE DEF q1, q2
  <2>3. \A i \in DOMAIN input : Shrink(Position(input[i]), Pow2[level]) # <<2 * k1 + q1, 2 * k2 + q2>>
    <3> SUFFICES ASSUME NEW i \in DOMAIN input,
                        Shrink(Position(input[i]), Pow2[level]) = <<2 * k1 + q1, 2 * k2 + q2>>
                 PROVE  FALSE
      OBVIOUS
    <3>1. PICK j \in AtLevel(level) : Position(lod[j]) = <<2 * k1 + q1, 2 * k2 + q2>>
      <4>1. Shrink(Position(input[i]), Pow2[level]) \in {Position(lod[j]) : j \in AtLevel(level)}
        BY <1>4 DEF Levels
      <4> QED
        BY <4>1
    <3>2. lod[j].pos_x = 2 * k1 + q1 /\ lod[j].pos_z = 2 * k2 + q2
      BY <3>1 DEF Position
    <3>3. \A n \in Int : \A q \in {0, 1} : (2 * n + q) \div 2 = n /\ (2 * n + q) % 2 = q
      OBVIOUS
    <3>4. ParentKey(lod[j]) = k /\ Quadrant(lod[j]) = <<q1, q2>>
      BY <1>3, <2>2, <3>2, <3>3 DEF ParentKey, Quadrant
    <3>5. j \in ChildrenOf(k)
      BY <1>4, <3>4 DEF ChildrenOf
    <3>6. Within(lod[j], p) = <<p[1] - q1 * Half, p[2] - q2 * Half>>
      BY <3>4 DEF Within
    <3>7. Within(lod[j], p) \in HalfIdx
      BY <2>2, <3>6 DEF HalfIdx
    <3> QED
      BY <1>8, <3>5, <3>7
  <2>4. ASSUME NEW a \in {0, 1}, NEW b \in {0, 1}
        PROVE  Reach(level, <<2 * u + a, 2 * v + b>>) = {}
    <3> DEFINE r1 == 2 * (p[1] - q1 * Half) + a
               r2 == 2 * (p[2] - q2 * Half) + b
    <3>1. r1 \in 0 .. SecCols - 1 /\ r2 \in 0 .. SecCols - 1
      BY <2>2, Sizes
    <3>2. \A n, p1 \in Int : \A q \in {0, 1} :
            2 * (n * (2 * Half) + p1) + a = (2 * n + q) * (2 * Half) + (2 * (p1 - q * Half) + a)
      BY Sizes
    <3>3. \A n, p1 \in Int : \A q \in {0, 1} :
            2 * (n * (2 * Half) + p1) + b = (2 * n + q) * (2 * Half) + (2 * (p1 - q * Half) + b)
      BY Sizes
    <3>4. p[1] \in Int /\ p[2] \in Int /\ SecCols = 2 * Half
      BY <1>5, Sizes
    <3>5. 2 * u + a = (2 * k1 + q1) * SecCols + r1
      BY <2>2, <3>2, <3>4
    <3>6. 2 * v + b = (2 * k2 + q2) * SecCols + r2
      BY <2>2, <3>3, <3>4
    <3>7. 2 * k1 + q1 \in Int /\ 2 * k2 + q2 \in Int
      BY <2>2
    <3> HIDE DEF r1, r2, u, v
    <3>8. Reach(level, <<(2 * k1 + q1) * SecCols + r1, (2 * k2 + q2) * SecCols + r2>>) = {}
      BY <2>3, <3>1, <3>7, ReachNothing
    <3> QED
      BY <3>5, <3>6, <3>8
  <2>5. u \in Int /\ v \in Int
    BY <1>5, Sizes
  <2> HIDE DEF u, v
  <2> DEFINE reached == {Reach(level, <<2 * u + a, 2 * v + b>>) : a, b \in {0, 1}}
  <2>6. Reach(level + 1, <<u, v>>) = UNION reached
    BY <2>5, ReachUp
  <2>7. \A s \in reached : s = {}
    BY <2>4
  <2> HIDE DEF reached
  <2>8. Reach(level + 1, <<u, v>>) = {}
    BY <2>6, <2>7
  <2> QED
    BY <1>4, <1>6, <2>1, <2>8
<1> QED
  BY <1>7, <1>8

LEMMA BelowFixed ==
  ASSUME input' = input, NEW sec, NEW p
  PROVE  Below(sec, p)' = Below(sec, p)
BY DEF Below, World

LEMMA CoverageStep ==
  ASSUME TypeOK, InputKept, Grouped, Levels, Coverage, Covering, [Next]_vars
  PROVE  Coverage'
<1>1. input' = input
  BY InputsStep
<1> DEFINE Shown(l) == \A j \in DOMAIN l : \A p \in Cols : l[j].columns[p] = Below(l[j], p)
<1>2. Coverage' <=> (UniqueInput => Shown(lod'))
  BY <1>1 DEF Coverage, UniqueInput, Below, World
<1>3. CASE lod' = lod
  BY <1>2, <1>3 DEF Coverage
<1>4. CASE EndLevel
  <2> SUFFICES ASSUME UniqueInput PROVE Shown(lod')
    BY <1>2
  <2>1. PICK n, ord : Appends(n, ord)
    BY <1>4, EndLevelAppends
  <2>2. ASSUME NEW j \in DOMAIN lod' PROVE \A p \in Cols : lod'[j].columns[p] = Below(lod'[j], p)
    <3>1. CASE j \in DOMAIN lod
      BY <2>1, <3>1 DEF Appends, Coverage
    <3>2. CASE j \notin DOMAIN lod
      <4>1. PICK k \in DOMAIN parents : lod'[j] = parents[k].sec /\ parents[k].todo = {}
        BY <1>4, <2>1, <2>2, <3>2, NewLevel
      <4> QED
        BY <4>1, ParentShows
    <3> QED
      BY <3>1, <3>2
  <2> QED
    BY <2>2
<1> QED
  BY <1>3, <1>4 DEF Next, GroupChildren, AddChild, EmptyLevel, Finished, vars

LEMMA CoveringStep ==
  ASSUME TypeOK, InputKept, Grouped, Levels, Covering, [Next]_vars
  PROVE  Covering'
<1>1. input' = input
  BY InputsStep
<1> DEFINE Part(k, todo, cols) == \A p \in Cols :
             /\ \A j \in ChildrenOf(k) : Within(lod[j], p) \in HalfIdx =>
                  cols[p] = IF j \in todo THEN {} ELSE Merged(lod[j].columns, Within(lod[j], p))
             /\ (\A j \in ChildrenOf(k) : Within(lod[j], p) \notin HalfIdx) => cols[p] = {}
<1>2. ASSUME lod' = lod, lvl' = lvl,
             UniqueInput => \A k \in DOMAIN parents' : Part(k, parents'[k].todo, parents'[k].sec.columns)
      PROVE  Covering'
  <2>1. \A k : ChildrenOf(k)' = ChildrenOf(k)
    BY <1>2, SameList
  <2>2. UniqueInput' <=> UniqueInput
    BY <1>1 DEF UniqueInput
  <2> QED
    BY <1>2, <2>1, <2>2 DEF Covering
<1>3. UniqueInput => \A k \in DOMAIN parents : Part(k, parents[k].todo, parents[k].sec.columns)
  BY DEF Covering
<1>4. CASE GroupChildren
  <2>1. /\ DOMAIN parents' = Keys /\ lod' = lod /\ lvl' = lvl
        /\ \A k \in Keys : parents'[k].todo = ChildrenOf(k) /\ parents'[k].sec = FreshParent(k)
    BY <1>4 DEF GroupChildren
  <2>2. \A k \in Keys : \A p \in Cols : FreshParent(k).columns[p] = {}
    BY <1>4, FreshParentType DEF GroupChildren
  <2> QED
    BY <1>2, <2>1, <2>2
<1>5. ASSUME NEW k \in DOMAIN parents, AddChild(k) PROVE Covering'
  <2>1. /\ lod' = lod /\ lvl' = lvl /\ DOMAIN parents' = DOMAIN parents
        /\ \A m \in DOMAIN parents : m # k => parents'[m] = parents[m]
    BY <1>5, AddChildFacts
  <2>2. PICK j \in parents[k].todo :
              /\ j \in ChildrenOf(k) /\ lod[j] \in Section
              /\ parents'[k].todo = parents[k].todo \ {j}
              /\ parents'[k].sec = MergeChild(parents[k].sec, lod[j])
    BY <1>5, AddChildFacts
  <2>3. ASSUME UniqueInput PROVE Part(k, parents'[k].todo, parents'[k].sec.columns)
    <3>1. Part(k, parents[k].todo, parents[k].sec.columns)
      BY <1>3, <2>3
    <3> SUFFICES ASSUME NEW p \in Cols
                 PROVE  /\ \A i \in ChildrenOf(k) : Within(lod[i], p) \in HalfIdx =>
                             parents'[k].sec.columns[p] =
                               IF i \in parents'[k].todo THEN {}
                               ELSE Merged(lod[i].columns, Within(lod[i], p))
                        /\ (\A i \in ChildrenOf(k) : Within(lod[i], p) \notin HalfIdx) =>
                             parents'[k].sec.columns[p] = {}
      OBVIOUS
    <3>2. parents'[k].sec.columns[p] =
              IF Within(lod[j], p) \notin HalfIdx THEN parents[k].sec.columns[p]
              ELSE IF gpu /\ Merged(lod[j].columns, Within(lod[j], p)) = {} THEN parents[k].sec.columns[p]
              ELSE Merged(lod[j].columns, Within(lod[j], p))
      <4>1. parents[k].sec \in Section /\ lod[j] \in Section
        BY <2>2 DEF TypeOK
      <4>2. parents'[k].sec = MergeChild(parents[k].sec, lod[j])
        BY <2>2
      <4>3. \A s, c \in Section : \A q \in Cols : MergeChild(s, c).columns[q] =
              IF Within(c, q) \notin HalfIdx THEN s.columns[q]
              ELSE IF gpu /\ Merged(c.columns, Within(c, q)) = {} THEN s.columns[q]
              ELSE Merged(c.columns, Within(c, q))
        BY MergeChildType
      <4>4. PICK s \in Section, c \in Section : s = parents[k].sec /\ c = lod[j]
        BY <4>1
      <4>5. MergeChild(s, c).columns[p] =
              IF Within(c, p) \notin HalfIdx THEN s.columns[p]
              ELSE IF gpu /\ Merged(c.columns, Within(c, p)) = {} THEN s.columns[p]
              ELSE Merged(c.columns, Within(c, p))
        BY <4>3
      <4> QED
        BY <4>2, <4>4, <4>5, Zenon
    <3>3. Within(lod[j], p) \in HalfIdx => parents[k].sec.columns[p] = {}
      BY <2>2, <3>1
    <3>4. ASSUME NEW i \in ChildrenOf(k), Within(lod[i], p) \in HalfIdx, Within(lod[j], p) \in HalfIdx
          PROVE  i = j
      <4>1. /\ lod[i] \in Section /\ ParentKey(lod[i]) = ParentKey(lod[j])
            /\ i \in AtLevel(lvl - 1) /\ j \in AtLevel(lvl - 1)
        BY <2>2, ListFacts DEF ChildrenOf, AtLevel
      <4>2. Position(lod[i]) = Position(lod[j])
        BY <2>2, <3>4, <4>1, OneChild
      <4>3. lvl - 1 \in 0 .. lvl - 1
        BY DEF TypeOK
      <4> QED
        BY <2>3, <4>1, <4>2, <4>3, OneAtPosition
    <3>5. CASE Within(lod[j], p) \in HalfIdx
      <4>1. parents'[k].sec.columns[p] = Merged(lod[j].columns, Within(lod[j], p))
        BY <3>2, <3>3, <3>5
      <4> QED
        BY <2>2, <3>4, <3>5, <4>1
    <3>6. CASE Within(lod[j], p) \notin HalfIdx
      <4>1. parents'[k].sec.columns[p] = parents[k].sec.columns[p]
        BY <3>2, <3>6
      <4>2. \A i \in ChildrenOf(k) : Within(lod[i], p) \in HalfIdx => i # j
        BY <3>6
      <4> QED
        BY <2>2, <3>1, <4>1, <4>2
    <3> QED
      BY <3>5, <3>6
  <2>4. UniqueInput => \A m \in DOMAIN parents' : Part(m, parents'[m].todo, parents'[m].sec.columns)
    <3> HIDE DEF Part
    <3> QED
      BY <1>3, <2>1, <2>3
  <2> QED
    BY <1>2, <2>1, <2>4
<1>6. CASE EndLevel \/ EmptyLevel
  BY <1>6 DEF EndLevel, EmptyLevel, Covering, NoParents
<1>7. CASE UNCHANGED vars
  BY <1>2, <1>3, <1>7 DEF vars
<1> QED
  BY <1>4, <1>5, <1>6, <1>7 DEF Next, Finished
-----------------------------------------------------------------------------
(* The height range grows with every child.                                *)
LEMMA SpansJoin ==
  ASSUME TypeOK, InputKept, NEW sec \in Section, NEW child \in Section, NEW U, NEW W,
         U \subseteq DOMAIN input, W \subseteq DOMAIN input, U # {},
         Spans(sec, U), Spans(child, W),
         NEW new, new.min_y = LowerMin(sec.min_y, child.min_y),
         new.max_y = RaiseMax(sec.max_y, child.max_y)
  PROVE  Spans(new, U \cup W)
<1>1. \A i \in DOMAIN input : input[i].min_y \in Int /\ input[i].max_y \in Int
  BY ListFacts, SectionFields
<1>2. /\ sec.min_y \in Int /\ sec.max_y \in Int /\ child.min_y \in Int /\ child.max_y \in Int
  BY SectionFields
<1>3. \A i \in U \cup W : input[i].max_y <= new.max_y
  <2>1. new.max_y \in Int /\ new.max_y >= sec.max_y /\ new.max_y >= child.max_y
    BY <1>2 DEF RaiseMax
  <2> QED
    BY <1>1, <1>2, <2>1 DEF Spans
<1>4. new.max_y = 0 \/ \E i \in U \cup W : input[i].max_y = new.max_y
  BY DEF RaiseMax, Spans
<1>5. \E i \in U \cup W : input[i].min_y = new.min_y
  BY DEF LowerMin, Spans
<1> DEFINE MarkedIn(V) == (\E i \in V : input[i].min_y = 0) /\ \A i \in V : 0 <= input[i].min_y
<1>6. (\A i \in U \cup W : new.min_y <= input[i].min_y) \/ MarkedIn(U \cup W)
  <2>1. PICK u \in U : input[u].min_y = sec.min_y
    BY DEF Spans
  <2>2. PICK w \in W : input[w].min_y = child.min_y
    BY DEF Spans
  <2>3. CASE (\A i \in U : sec.min_y <= input[i].min_y) /\ \A i \in W : child.min_y <= input[i].min_y
    <3>1. CASE sec.min_y = 0 /\ 0 <= child.min_y
      BY <1>1, <1>2, <2>1, <2>3, <3>1
    <3>2. CASE ~(sec.min_y = 0 /\ 0 <= child.min_y)
      <4>1. new.min_y \in Int /\ new.min_y <= sec.min_y /\ new.min_y <= child.min_y
        BY <1>2, <3>2 DEF LowerMin
      <4> QED
        BY <1>1, <1>2, <2>3, <4>1
    <3> QED
      BY <3>1, <3>2
  <2>4. CASE MarkedIn(U) /\ \A i \in W : child.min_y <= input[i].min_y
    <3>1. 0 <= sec.min_y
      BY <1>2, <2>1, <2>4
    <3>2. CASE child.min_y < 0
      <4>1. new.min_y = child.min_y
        BY <1>2, <3>1, <3>2 DEF LowerMin
      <4> QED
        BY <1>1, <1>2, <2>4, <3>2, <4>1
    <3>3. CASE 0 <= child.min_y
      BY <1>1, <1>2, <2>4, <3>3
    <3> QED
      BY <1>2, <3>2, <3>3
  <2>5. CASE (\A i \in U : sec.min_y <= input[i].min_y) /\ MarkedIn(W)
    <3>1. 0 <= child.min_y
      BY <1>2, <2>2, <2>5
    <3>2. CASE sec.min_y < 0
      <4>1. new.min_y = sec.min_y
        BY <1>2, <3>1, <3>2 DEF LowerMin
      <4> QED
        BY <1>1, <1>2, <2>5, <3>2, <4>1
    <3>3. CASE 0 <= sec.min_y
      BY <1>1, <1>2, <2>5, <3>3
    <3> QED
      BY <1>2, <3>2, <3>3
  <2>6. CASE MarkedIn(U) /\ MarkedIn(W)
    BY <2>6
  <2> QED
    BY <2>3, <2>4, <2>5, <2>6 DEF Spans
<1> QED
  BY <1>3, <1>4, <1>5, <1>6 DEF Spans

LEMMA SpansFirst ==
  ASSUME TypeOK, InputKept, NEW child \in Section, NEW W, W \subseteq DOMAIN input,
         Spans(child, W), W # {}, NEW new,
         new.min_y = LowerMin(0, child.min_y),
         new.max_y = RaiseMax(0, child.max_y)
  PROVE  Spans(new, W)
<1>1. \A i \in DOMAIN input : input[i].min_y \in Int /\ input[i].max_y \in Int
  BY ListFacts, SectionFields
<1>2. child.min_y \in Int /\ child.max_y \in Int
  BY SectionFields
<1>3. new.min_y = child.min_y /\ new.max_y >= child.max_y /\ new.max_y \in Int
  BY <1>2 DEF LowerMin, RaiseMax
<1>4. new.max_y = 0 \/ new.max_y = child.max_y
  BY <1>2 DEF RaiseMax
<1>5. \A i \in W : input[i].max_y <= new.max_y
  BY <1>1, <1>2, <1>3 DEF Spans
<1>6. new.max_y = 0 \/ \E i \in W : input[i].max_y = new.max_y
  BY <1>4 DEF Spans
<1> QED
  BY <1>3, <1>5, <1>6 DEF Spans

(* Every section of the list has a level-0 section below it.               *)
LEMMA UnderSome ==
  ASSUME TypeOK, InputKept, Levels, NEW j \in DOMAIN lod
  PROVE  Under(j) \subseteq DOMAIN input /\ Under(j) # {}
<1>1. Under(j) \subseteq DOMAIN input
  BY DEF Under, InputsBelow
<1>2. CASE j \in DOMAIN input
  BY <1>1, <1>2 DEF Under
<1>3. CASE j \notin DOMAIN input
  <2>1. PICK level \in 0 .. lvl - 1 : level = lod[j].detail_level
    BY ListFacts, SectionFields DEF TypeOK
  <2>2. Position(lod[j]) \in {Position(lod[i]) : i \in AtLevel(level)}
    BY <2>1 DEF AtLevel
  <2>3. PICK i \in DOMAIN input : Position(lod[j]) = Shrink(Position(input[i]), Pow2[level])
    BY <2>2 DEF Levels
  <2>4. i \in InputsBelow(j)
    BY <2>1, <2>3 DEF InputsBelow, Position
  <2> QED
    BY <1>1, <1>3, <2>4 DEF Under
<1> QED
  BY <1>2, <1>3

(* The level-0 sections below the children of a parent are those below the *)
(* parent.                                                                 *)
LEMMA UnderChildren ==
  ASSUME TypeOK, InputKept, Levels, NEW k \in Keys
  PROVE  UNION {Under(j) : j \in ChildrenOf(k)} =
           {i \in DOMAIN input : Shrink(Position(input[i]), Pow2[lvl]) = k}
<1>1. PICK level \in Nat : level = lvl - 1 /\ level + 1 = lvl /\ level \in 0 .. lvl - 1
  BY DEF TypeOK
<1>2. \A i \in DOMAIN input :
        Shrink(Shrink(Position(input[i]), Pow2[level]), 2) = Shrink(Position(input[i]), Pow2[lvl])
  <2> TAKE i \in DOMAIN input
  <2>1. PICK x \in Int, z \in Int : x = input[i].pos_x /\ z = input[i].pos_z
    BY ListFacts, SectionFields
  <2>2. /\ (x \div Pow2[level]) \div 2 = x \div Pow2[lvl]
        /\ (z \div Pow2[level]) \div 2 = z \div Pow2[lvl]
    BY <1>1, ShrinkTwice
  <2> QED
    BY <2>1, <2>2 DEF Shrink, Position
<1>3. \A j : j \in ChildrenOf(k) <=> j \in AtLevel(level) /\ Shrink(Position(lod[j]), 2) = k
  BY <1>1 DEF ChildrenOf, ParentKey, Shrink, Position
<1>4. ASSUME NEW j \in AtLevel(level), NEW i
      PROVE  i \in Under(j) => i \in DOMAIN input /\ Shrink(Position(input[i]), Pow2[level]) = Position(lod[j])
  <2>1. CASE j \in DOMAIN input
    <3>1. lod[j] = input[j] /\ level = 0
      BY <2>1 DEF InputKept, AtLevel
    <3>2. \A x \in Int : x \div 1 = x
      OBVIOUS
    <3>3. input[j].pos_x \in Int /\ input[j].pos_z \in Int
      BY <2>1, ListFacts, SectionFields
    <3>4. Shrink(Position(input[j]), 1) = Position(input[j])
      BY <3>2, <3>3 DEF Shrink, Position
    <3> QED
      BY <2>1, <3>1, <3>4, Powers DEF Under
  <2>2. CASE j \notin DOMAIN input
    BY <2>2 DEF Under, InputsBelow, AtLevel, Position
  <2> QED
    BY <2>1, <2>2
<1>5. ASSUME NEW i \in DOMAIN input
      PROVE  \E j \in AtLevel(level) : i \in Under(j) /\ Position(lod[j]) = Shrink(Position(input[i]), Pow2[level])
  <2>1. CASE level = 0
    <3>1. i \in AtLevel(level) /\ lod[i] = input[i] /\ i \in Under(i)
      BY <2>1, ListFacts DEF InputKept, Under
    <3>2. \A x \in Int : x \div 1 = x
      OBVIOUS
    <3>3. input[i].pos_x \in Int /\ input[i].pos_z \in Int
      BY ListFacts, SectionFields
    <3>4. Shrink(Position(input[i]), 1) = Position(input[i])
      BY <3>2, <3>3 DEF Shrink, Position
    <3> QED
      BY <2>1, <3>1, <3>4, Powers
  <2>2. CASE level # 0
    <3>1. Shrink(Position(input[i]), Pow2[level]) \in {Position(lod[j]) : j \in AtLevel(level)}
      BY <1>1 DEF Levels
    <3>2. PICK j \in AtLevel(level) : Position(lod[j]) = Shrink(Position(input[i]), Pow2[level])
      BY <3>1
    <3>3. j \notin DOMAIN input /\ lod[j].detail_level = level
      BY <2>2 DEF InputKept, AtLevel
    <3>4. i \in Under(j)
      BY <3>2, <3>3 DEF Under, InputsBelow, Position
    <3> QED
      BY <3>2, <3>4
  <2> QED
    BY <2>1, <2>2
<1>6. ASSUME NEW i
      PROVE  (\E j \in ChildrenOf(k) : i \in Under(j)) <=>
             i \in DOMAIN input /\ Shrink(Position(input[i]), Pow2[lvl]) = k
  <2>1. ASSUME NEW j \in ChildrenOf(k), i \in Under(j)
        PROVE  i \in DOMAIN input /\ Shrink(Position(input[i]), Pow2[lvl]) = k
    BY <1>2, <1>3, <1>4, <2>1
  <2>2. ASSUME i \in DOMAIN input, Shrink(Position(input[i]), Pow2[lvl]) = k
        PROVE  \E j \in ChildrenOf(k) : i \in Under(j)
    BY <1>2, <1>3, <1>5, <2>2
  <2> QED
    BY <2>1, <2>2
<1> QED
  BY <1>6

(* A parent that has taken all its children has a range that spans them.   *)
LEMMA ParentSpans ==
  ASSUME TypeOK, InputKept, Grouped, Levels, Heights, NEW k \in DOMAIN parents,
         parents[k].todo = {}
  PROVE  Spans(parents[k].sec, {i \in DOMAIN input : Shrink(Position(input[i]), Pow2[lvl]) = k})
<1>1. k \in Keys
  BY DEF Grouped, NoParents
<1>2. Taken(k) = ChildrenOf(k) /\ Taken(k) # {}
  BY <1>1 DEF Taken, Keys, ChildrenOf
<1>3. Spans(parents[k].sec, UNION {Under(j) : j \in ChildrenOf(k)})
  BY <1>2 DEF Heights
<1> QED
  BY <1>1, <1>3, UnderChildren

LEMMA HeightsStep ==
  ASSUME TypeOK, InputKept, Grouped, Levels, Heights, InputKept', [Next]_vars
  PROVE  Heights'
<1>1. input' = input
  BY InputsStep
<1>2. \A s, U : Spans(s, U)' <=> Spans(s, U)
  BY <1>1 DEF Spans
<1> DEFINE Of(todo, k) == ChildrenOf(k) \ todo
           Ranged(todo, sec, k) ==
             IF Of(todo, k) = {} THEN sec.min_y = 0 /\ sec.max_y = 0
             ELSE Spans(sec, UNION {Under(j) : j \in Of(todo, k)})
<1>3. ASSUME lod' = lod, lvl' = lvl,
             \A k \in DOMAIN parents' : Ranged(parents'[k].todo, parents'[k].sec, k)
      PROVE  Heights'
  <2>1. \A k : ChildrenOf(k)' = ChildrenOf(k)
    BY <1>3, SameList
  <2>2. \A j : Under(j)' = Under(j)
    BY <1>1, <1>3 DEF Under, InputsBelow
  <2>3. \A j \in DOMAIN lod : Spans(lod'[j], Under(j))
    BY <1>3 DEF Heights
  <2>4. \A j \in DOMAIN lod' : Spans(lod[j], Under(j))'
    BY <1>1, <1>3, <2>2, <2>3 DEF Spans
  <2>5. \A k \in DOMAIN parents' : Taken(k)' = Of(parents'[k].todo, k)
    BY <2>1 DEF Taken
  <2>6. ASSUME NEW k \in DOMAIN parents'
        PROVE  (IF Taken(k) = {} THEN parents[k].sec.min_y = 0 /\ parents[k].sec.max_y = 0
                ELSE Spans(parents[k].sec, UNION {Under(j) : j \in Taken(k)}))'
    <3>1. {Under(j) : j \in Taken(k)}' = {Under(j) : j \in Of(parents'[k].todo, k)}
      BY <2>2, <2>5
    <3>2. UNION ({Under(j) : j \in Taken(k)}') = UNION {Under(j) : j \in Of(parents'[k].todo, k)}
      BY <3>1
    <3>3. Ranged(parents'[k].todo, parents'[k].sec, k)
      BY <1>3
    <3> QED
      BY <1>1, <2>5, <3>2, <3>3 DEF Spans
  <2> QED
    BY <2>4, <2>6 DEF Heights
<1>4. \A k \in DOMAIN parents : Ranged(parents[k].todo, parents[k].sec, k)
  BY DEF Heights, Taken
<1>5. CASE GroupChildren
  <2>1. /\ DOMAIN parents' = Keys /\ lod' = lod /\ lvl' = lvl
        /\ \A k \in Keys : parents'[k].todo = ChildrenOf(k) /\ parents'[k].sec = FreshParent(k)
    BY <1>5 DEF GroupChildren
  <2>2. \A k \in Keys : FreshParent(k).min_y = 0 /\ FreshParent(k).max_y = 0
    BY <1>5, FreshParentType DEF GroupChildren
  <2> QED
    BY <1>3, <2>1, <2>2
<1>6. ASSUME NEW k \in DOMAIN parents, AddChild(k) PROVE Heights'
  <2>1. /\ lod' = lod /\ lvl' = lvl /\ DOMAIN parents' = DOMAIN parents
        /\ \A m \in DOMAIN parents : m # k => parents'[m] = parents[m]
    BY <1>6, AddChildFacts
  <2>2. PICK j \in parents[k].todo :
              /\ j \in ChildrenOf(k) /\ lod[j] \in Section
              /\ parents'[k].todo = parents[k].todo \ {j}
              /\ parents'[k].sec = MergeChild(parents[k].sec, lod[j])
    BY <1>6, AddChildFacts
  <2> DEFINE done == Of(parents[k].todo, k)
             U == UNION {Under(i) : i \in done}
             new == parents'[k].sec
  <2>3. Of(parents'[k].todo, k) = done \cup {j}
    BY <2>2
  <2>4. \A i \in ChildrenOf(k) : i \in DOMAIN lod
    BY DEF ChildrenOf, AtLevel
  <2>5. Under(j) \subseteq DOMAIN input /\ Under(j) # {} /\ Spans(lod[j], Under(j))
    BY <2>2, <2>4, UnderSome DEF Heights
  <2>6. parents[k].sec \in Section
    BY DEF TypeOK
  <2>7. /\ new.min_y = LowerMin(parents[k].sec.min_y, lod[j].min_y)
        /\ new.max_y = RaiseMax(parents[k].sec.max_y, lod[j].max_y)
    BY <2>2, <2>6, MergeChildType
  <2>8. UNION {Under(i) : i \in done \cup {j}} = U \cup Under(j)
    OBVIOUS
  <2>9. Ranged(parents[k].todo, parents[k].sec, k)
    BY <1>4
  <2> HIDE DEF new
  <2>10. Spans(new, U \cup Under(j))
    <3>1. CASE done = {}
      <4>1. parents[k].sec.min_y = 0 /\ parents[k].sec.max_y = 0 /\ U = {}
        BY <2>9, <3>1
      <4>2. new.min_y = LowerMin(0, lod[j].min_y) /\ new.max_y = RaiseMax(0, lod[j].max_y)
        BY <2>7, <4>1
      <4>3. Spans(new, Under(j))
        BY <2>2, <2>5, <4>2, SpansFirst
      <4>4. U \cup Under(j) = Under(j)
        BY <4>1
      <4> HIDE DEF U
      <4> QED
        BY <4>3, <4>4
    <3>2. CASE done # {}
      <4>1. Spans(parents[k].sec, U)
        BY <2>9, <3>2
      <4>2. U \subseteq DOMAIN input /\ U # {}
        <5>1. \A i \in done : Under(i) \subseteq DOMAIN input /\ Under(i) # {}
          BY <2>4, UnderSome
        <5> HIDE DEF done
        <5> QED
          BY <3>2, <5>1
      <4> HIDE DEF U
      <4> QED
        BY <2>2, <2>5, <2>6, <2>7, <4>1, <4>2, SpansJoin
    <3> QED
      BY <3>1, <3>2
  <2>11. Ranged(parents'[k].todo, parents'[k].sec, k)
    <3>1. UNION {Under(i) : i \in Of(parents'[k].todo, k)} = U \cup Under(j)
      BY <2>3, <2>8
    <3>2. Of(parents'[k].todo, k) # {}
      BY <2>3
    <3>3. Spans(parents'[k].sec, U \cup Under(j))
      BY <2>10 DEF new
    <3> HIDE DEF U, Of
    <3> QED
      BY <3>1, <3>2, <3>3
  <2>12. \A m \in DOMAIN parents' : Ranged(parents'[m].todo, parents'[m].sec, m)
    <3> HIDE DEF Ranged
    <3> QED
      BY <1>4, <2>1, <2>11
  <2> QED
    BY <1>3, <2>1, <2>12
<1>7. CASE EndLevel
  <2>1. PICK n, ord : Appends(n, ord)
    BY <1>7, EndLevelAppends
  <2>2. DOMAIN parents' = {} /\ DOMAIN parents = Keys
    BY <1>7 DEF EndLevel, NoParents, Grouped
  <2>3. ASSUME NEW j \in DOMAIN lod' PROVE Spans(lod[j], Under(j))'
    <3>1. CASE j \in DOMAIN lod
      <4>1. lod'[j] = lod[j]
        BY <2>1, <3>1 DEF Appends
      <4>2. Under(j)' = Under(j)
        BY <1>1, <4>1 DEF Under, InputsBelow
      <4>3. Spans(lod[j], Under(j))
        BY <3>1 DEF Heights
      <4> QED
        BY <1>1, <4>1, <4>2, <4>3 DEF Spans
    <3>2. CASE j \notin DOMAIN lod
      <4>1. PICK k \in DOMAIN parents : lod'[j] = parents[k].sec /\ parents[k].todo = {}
        BY <1>7, <2>1, <2>3, <3>2, NewLevel
      <4> DEFINE U == {i \in DOMAIN input : Shrink(Position(input[i]), Pow2[lvl]) = k}
      <4>2. Spans(parents[k].sec, U)
        BY <4>1, ParentSpans
      <4>3. Under(j)' = U
        <5>1. j \notin DOMAIN input
          BY <3>2, ListFacts
        <5>2. KeyOf(parents[k].sec) = <<lvl, k[1], k[2]>> /\ k = <<k[1], k[2]>>
          BY <2>2 DEF TypeOK, Keys, ParentKey
        <5>3. lod'[j].detail_level = lvl /\ <<lod'[j].pos_x, lod'[j].pos_z>> = k
          BY <4>1, <5>2 DEF KeyOf
        <5>4. Under(j)' = {i \in DOMAIN input :
                 Shrink(<<input[i].pos_x, input[i].pos_z>>, Pow2[lod'[j].detail_level])
                   = <<lod'[j].pos_x, lod'[j].pos_z>>}
          BY <1>1, <5>1 DEF Under, InputsBelow
        <5> QED
          BY <5>3, <5>4 DEF Position
      <4> HIDE DEF U
      <4> QED
        BY <1>1, <4>1, <4>2, <4>3 DEF Spans
    <3> QED
      BY <3>1, <3>2
  <2> QED
    BY <2>2, <2>3 DEF Heights
<1>8. CASE EmptyLevel
  <2>1. lod' = lod /\ DOMAIN parents' = {}
    BY <1>8 DEF EmptyLevel, NoParents
  <2>2. \A j : Under(j)' = Under(j)
    BY <1>1, <2>1 DEF Under, InputsBelow
  <2>3. \A j \in DOMAIN lod' : Spans(lod[j], Under(j))'
    BY <1>1, <2>1, <2>2 DEF Heights, Spans
  <2> QED
    BY <2>1, <2>3 DEF Heights
<1>9. CASE UNCHANGED vars
  BY <1>3, <1>4, <1>9 DEF vars
<1> QED
  BY <1>5, <1>6, <1>7, <1>8, <1>9 DEF Next, Finished
-----------------------------------------------------------------------------
(* The strengthened invariant holds initially and every step keeps it.     *)
LEMMA InitIInv ==
  ASSUME Init
  PROVE  IInv
<1>1. /\ gpu \in BOOLEAN /\ lod = input /\ lvl = 1 /\ parents = NoParents
      /\ input \in Seq(Section)
      /\ \A j \in DOMAIN input : input[j].detail_level = 0
  BY OctreeAssumption DEF Init
<1>2. DOMAIN parents = {}
  BY <1>1 DEF NoParents
<1>3. TypeOK
  <2>1. lvl \in 1 .. DetailLevels + 1
    BY <1>1, OctreeAssumption
  <2> QED
    BY <1>1, <1>2, <2>1 DEF TypeOK
<1>4. InputKept
  <2>1. Len(input) \in Nat
    BY <1>1
  <2> QED
    BY <1>1, <2>1 DEF InputKept
<1>5. Grouped
  BY <1>1 DEF Grouped
<1>6. AtLevel(0) = DOMAIN input
  BY <1>3, <1>4, ListFacts
<1>7. \A j \in DOMAIN input : /\ input[j].pos_x \in Int /\ input[j].pos_z \in Int
                              /\ Shrink(Position(input[j]), 1) = Position(input[j])
  <2> TAKE j \in DOMAIN input
  <2>1. input[j].pos_x \in Int /\ input[j].pos_z \in Int
    BY <1>3, <1>4, ListFacts, SectionFields
  <2>2. \A x \in Int : x \div 1 = x
    OBVIOUS
  <2> QED
    BY <2>1, <2>2 DEF Shrink, Position
<1>8. Levels
  <2>1. \A level \in 0 .. lvl - 1 : level = 0
    BY <1>1
  <2>2. {Position(lod[j]) : j \in AtLevel(0)} = {Shrink(Position(input[j]), Pow2[0]) : j \in DOMAIN input}
    BY <1>1, <1>6, <1>7, Powers
  <2> QED
    BY <2>1, <2>2 DEF Levels
<1>9. Coverage
  <2> SUFFICES ASSUME UniqueInput, NEW j \in DOMAIN lod, NEW p \in Cols
               PROVE  lod[j].columns[p] = Below(lod[j], p)
    BY DEF Coverage
  <2>1. j \in DOMAIN input /\ lod[j] = input[j] /\ input[j] \in Section /\ input[j].detail_level = 0
    BY <1>1, <1>3, <1>4, ListFacts
  <2>2. ASSUME NEW i \in DOMAIN input, NEW c \in Cols
        PROVE  Shrink(World(input[i], c), Pow2[0]) = World(input[j], p) <=> i = j /\ c = p
    <3>1. input[i] \in Section /\ input[i].detail_level = 0
      BY <1>1, <1>3, <1>4, ListFacts
    <3>2. \A x \in Int : x \div 1 = x
      OBVIOUS
    <3>3. /\ input[i].pos_x \in Int /\ input[i].pos_z \in Int
          /\ input[j].pos_x \in Int /\ input[j].pos_z \in Int
      BY <1>7, <2>1
    <3>4. /\ c[1] \in 0 .. SecCols - 1 /\ c[2] \in 0 .. SecCols - 1 /\ c = <<c[1], c[2]>>
          /\ p[1] \in 0 .. SecCols - 1 /\ p[2] \in 0 .. SecCols - 1 /\ p = <<p[1], p[2]>>
      BY DEF Cols
    <3>5. World(input[i], c)[1] \in Int /\ World(input[i], c)[2] \in Int
      BY <3>1, WorldInt
    <3>6. Shrink(World(input[i], c), Pow2[0]) = World(input[i], c)
      BY <3>2, <3>5, Powers DEF Shrink, World
    <3>7. \A x, y \in Int : \A a, b \in 0 .. SecCols - 1 :
            x * SecCols + a = y * SecCols + b => x = y /\ a = b
      <4> TAKE x, y \in Int
      <4> TAKE a, b \in 0 .. SecCols - 1
      <4>1. /\ x * SecCols + a = SecCols * x + a /\ y * SecCols + b = SecCols * y + b
        BY Sizes
      <4>2. /\ (SecCols * x + a) \div SecCols = x /\ (SecCols * x + a) % SecCols = a
            /\ (SecCols * y + b) \div SecCols = y /\ (SecCols * y + b) % SecCols = b
        BY Sizes, DivUnique
      <4> QED
        BY <4>1, <4>2
    <3>8. ASSUME World(input[i], c) = World(input[j], p) PROVE i = j /\ c = p
      <4>1. /\ input[i].pos_x * SecCols + c[1] = input[j].pos_x * SecCols + p[1]
            /\ input[i].pos_z * SecCols + c[2] = input[j].pos_z * SecCols + p[2]
        BY <3>8 DEF World
      <4>2. /\ input[i].pos_x = input[j].pos_x /\ c[1] = p[1]
            /\ input[i].pos_z = input[j].pos_z /\ c[2] = p[2]
        BY <3>3, <3>4, <3>7, <4>1
      <4>3. KeyOf(input[i]) = KeyOf(input[j])
        BY <2>1, <3>1, <4>2 DEF KeyOf
      <4> QED
        BY <2>1, <3>4, <4>2, <4>3 DEF UniqueInput
    <3> QED
      BY <3>6, <3>8
  <2>3. Below(input[j], p) = Reach(0, World(input[j], p))
    BY <2>1 DEF Below, Reach
  <2>4. \A e : e \in Reach(0, World(input[j], p)) <=> e \in input[j].columns[p]
    BY <2>1, <2>2, ReachElement
  <2>5. Reach(0, World(input[j], p)) = input[j].columns[p]
    BY <2>4
  <2>6. lod[j].columns[p] = input[j].columns[p] /\ Below(lod[j], p) = Below(input[j], p)
    BY <2>1
  <2> QED
    BY <2>3, <2>5, <2>6, Zenon
<1>10. Covering
  BY <1>2 DEF Covering
<1>11. Heights
  <2> SUFFICES ASSUME NEW j \in DOMAIN lod PROVE Spans(lod[j], Under(j))
    BY <1>2 DEF Heights
  <2>1. j \in DOMAIN input /\ lod[j] = input[j] /\ Under(j) = {j}
    BY <1>1 DEF Under
  <2>2. input[j].min_y \in Int /\ input[j].max_y \in Int
    BY <1>3, <1>4, <2>1, ListFacts, SectionFields
  <2> QED
    BY <2>1, <2>2 DEF Spans
<1> QED
  BY <1>3, <1>4, <1>5, <1>8, <1>9, <1>10, <1>11 DEF IInv

LEMMA StepIInv ==
  ASSUME IInv, [Next]_vars
  PROVE  IInv'
BY TypeStep, InputKeptStep, GroupedStep, LevelsStep, CoverageStep, CoveringStep, HeightsStep DEF IInv

LEMMA SpecIInv == Spec => []IInv
<1>1. Init => IInv
  BY InitIInv
<1>2. IInv /\ [Next]_vars => IInv'
  BY StepIInv
<1> QED
  BY <1>1, <1>2, PTL DEF Spec

(* Every step of stage 3 keeps the list typed: sections of the levels      *)
(* built so far only, and each parent at the position of its group.        *)
THEOREM SpecTypeOK == Spec => []TypeOK
<1>1. IInv => TypeOK
  BY DEF IInv
<1> QED
  BY <1>1, SpecIInv, PTL

(* However the parents of a level are scheduled, merged and appended, each *)
(* level above 0 has a section at every ancestor of a level-0 section,     *)
(* none elsewhere, and no two at one position.                             *)
THEOREM SpecPyramid == Spec => []Pyramid
<1>1. IInv => Pyramid
  <2> SUFFICES ASSUME IInv, NEW level \in 1 .. lvl - 1
               PROVE  /\ {<<lod[j].pos_x, lod[j].pos_z>> : j \in AtLevel(level)} =
                           {Shrink(<<input[j].pos_x, input[j].pos_z>>, Pow2[level]) : j \in DOMAIN input}
                      /\ \A a, b \in AtLevel(level) : KeyOf(lod[a]) = KeyOf(lod[b]) => a = b
    BY DEF Pyramid
  <2>1. level \in 0 .. lvl - 1 /\ level # 0
    BY DEF IInv, TypeOK
  <2> QED
    BY <2>1 DEF IInv, Levels, Position
<1> QED
  BY <1>1, SpecIInv, PTL

(* From level-0 sections at distinct positions, every section of every     *)
(* level shows exactly the level-0 columns below it, on both backends.     *)
THEOREM SpecCoverage == Spec => []Coverage
<1>1. IInv => Coverage
  BY DEF IInv
<1> QED
  BY <1>1, SpecIInv, PTL

(* The height range of every section above level 0 reaches as high as the  *)
(* level-0 sections below it and starts at the minimum of one of them, at  *)
(* the least one if that is not 0, whatever the order of those between.    *)
THEOREM SpecHeightsCover == Spec => []HeightsCover
<1>1. IInv => HeightsCover
  <2> SUFFICES ASSUME IInv, NEW j \in DOMAIN lod \ DOMAIN input
               PROVE  SpansParts(lod[j], {input[i] : i \in InputsBelow(j)})
    BY DEF HeightsCover
  <2>1. Spans(lod[j], InputsBelow(j))
    BY DEF IInv, Heights, Under
  <2> QED
    BY <2>1 DEF Spans, SpansParts
<1> QED
  BY <1>1, SpecIInv, PTL
=============================================================================
