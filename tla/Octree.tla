------------------------------- MODULE Octree -------------------------------
(***************************************************************************)
(* Stage 3 of run_pipeline: for every level above 0 the sections of the    *)
(* level below are grouped by parent position, the parents are built in    *)
(* parallel, each from its children in list order, and appended.           *)
(*                                                                         *)
(* Sections carry the provenance of their columns (see LodGrid).  The      *)
(* order in which the parents of a level are appended is the iteration     *)
(* order of an AHashMap with a random seed, so any order.                  *)
(***************************************************************************)
EXTENDS LodGrid, Levels, FiniteSets

CONSTANTS
  DetailLevels,   \* --detail-levels
  Level0Seqs      \* the level-0 section lists stage 2 may hand over

Provenance == SUBSET (Int \X Int)
Section == [detail_level : 0 .. DetailLevels, pos_x : Int, pos_z : Int, min_y : Int, max_y : Int,
            columns : [Cols -> Provenance]]

ASSUME OctreeAssumption ==
  /\ DetailLevels \in Nat
  /\ SecCols % 2 = 0
  /\ \A sections \in Level0Seqs :
       /\ sections \in Seq(Section)
       /\ \A j \in DOMAIN sections : sections[j].detail_level = 0

VARIABLES
  gpu,      \* gpu_accelerated and METAL_STATE holds an engine
  input,    \* the level-0 sections, as stage 2 hands them over
  lod,      \* all_lod_sections
  lvl,      \* the level under construction
  parents   \* (px, pz) -> children still to merge, and the parent so far

inputs == <<gpu, input>>
vars == <<inputs, lod, lvl, parents>>

Half == SecCols \div 2
HalfIdx == (0 .. Half - 1) \X (0 .. Half - 1)

NoParents == [k \in {} |-> {}]

Init ==
  /\ gpu \in BOOLEAN
  /\ input \in Level0Seqs
  /\ lod = input
  /\ lvl = 1
  /\ parents = NoParents
-----------------------------------------------------------------------------
(* pos >> 1 on both axes: an arithmetic shift, so floor division. *)
ParentKeyTruncated(sec) ==
  LET Half0(n) == IF n < 0 THEN -((-n) \div 2) ELSE n \div 2
  IN  <<Half0(sec.pos_x), Half0(sec.pos_z)>>
ParentKey(sec) == <<sec.pos_x \div 2, sec.pos_z \div 2>>

Quadrant(sec) == <<sec.pos_x % 2, sec.pos_z % 2>>

(* The indices of the sections of a level. *)
AtLevel(level) == {j \in DOMAIN lod : lod[j].detail_level = level}
Keys == {ParentKey(lod[j]) : j \in AtLevel(lvl - 1)}
ChildrenOf(k) == {j \in AtLevel(lvl - 1) : ParentKey(lod[j]) = k}

(* LodSection::new_empty of the parent at position k. *)
FreshParentSwapped(k) == NewEmpty(lvl, k[2], k[1])
FreshParent(k) == NewEmpty(lvl, k[1], k[2])

(* parent_groups: one empty parent for each position above some child. *)
GroupChildren ==
  /\ lvl <= DetailLevels
  /\ parents = NoParents
  /\ AtLevel(lvl - 1) # {}
  /\ parents' = [k \in Keys |-> [todo |-> ChildrenOf(k), sec |-> FreshParent(k)]]
  /\ UNCHANGED <<inputs, lod, lvl>>

(* downsample_2x2_columns: the runs of the four columns make one run; no   *)
(* run makes none.                                                         *)
MergedSkewed(columns, h) ==
  columns[<<2 * h[1], 2 * h[2]>>] \cup columns[<<2 * h[1] + 1, 2 * h[2]>>]
Merged(columns, h) ==
  UNION {columns[<<2 * h[1] + a, 2 * h[2] + b>>] : a, b \in {0, 1}}

(* A child's 32 x 32 merged columns go to its quadrant of the parent.  The *)
(* CPU loop stores every merged column; the Metal loop only the columns    *)
(* the kernel counted a sample in.                                         *)
MergeChild(sec, child) ==
  LET quad == Quadrant(child)
  IN  [WithHeights(sec, child) EXCEPT !.columns =
        [p \in Cols |->
           LET h == <<p[1] - quad[1] * Half, p[2] - quad[2] * Half>>
           IN  IF h \notin HalfIdx THEN sec.columns[p]
               ELSE IF gpu /\ Merged(child.columns, h) = {} THEN sec.columns[p]
               ELSE Merged(child.columns, h)]]

(* The closure of parent k takes its next child, in the order of the list. *)
AddChild(k) ==
  \E j \in parents[k].todo :
    /\ \A i \in parents[k].todo : j <= i
    /\ parents' = [parents EXCEPT ![k] = [todo |-> parents[k].todo \ {j},
                                          sec |-> MergeChild(parents[k].sec, lod[j])]]
    /\ UNCHANGED <<inputs, lod, lvl>>

(* The orders an AHashMap may iterate over its keys in. *)
Orders(keys) == {f \in [1 .. Cardinality(keys) -> keys] : \A k \in keys : \E i \in DOMAIN f : f[i] = k}

(* collect() has every parent of the level; they extend the list. *)
Extended(ord) == lod \o [i \in DOMAIN ord |-> parents[ord[i]].sec]

EndLevel ==
  /\ parents # NoParents
  /\ \A k \in DOMAIN parents : parents[k].todo = {}
  /\ \E ord \in Orders(DOMAIN parents) : lod' = Extended(ord)
  /\ lvl' = lvl + 1
  /\ parents' = NoParents
  /\ UNCHANGED inputs

(* A level without children has no parents: nothing is appended. *)
EmptyLevelStays ==
  /\ lvl <= DetailLevels
  /\ parents = NoParents
  /\ AtLevel(lvl - 1) = {}
  /\ UNCHANGED vars

EmptyLevel ==
  /\ lvl <= DetailLevels
  /\ parents = NoParents
  /\ AtLevel(lvl - 1) = {}
  /\ lvl' = lvl + 1
  /\ UNCHANGED <<inputs, lod, parents>>

Done == lvl > DetailLevels
Finished == Done /\ UNCHANGED vars

Next ==
  \/ GroupChildren
  \/ \E k \in DOMAIN parents : AddChild(k)
  \/ EndLevel
  \/ EmptyLevel
  \/ Finished

(* rayon keeps a worker on the parents of the level; the main thread goes  *)
(* on as soon as it can.                                                   *)
Spec == Init /\ [][Next]_vars
FairSpec == Spec /\ WF_vars(Next)
-----------------------------------------------------------------------------
(* The list holds sections of the levels built so far only. *)
TypeOK ==
  /\ gpu \in BOOLEAN
  /\ lvl \in 1 .. DetailLevels + 1
  /\ lod \in Seq(Section)
  /\ \A j \in DOMAIN lod : lod[j].detail_level < lvl
  /\ \A k \in DOMAIN parents :
       /\ parents[k].todo \subseteq DOMAIN lod
       /\ parents[k].sec \in Section
       /\ KeyOf(parents[k].sec) = <<lvl, k[1], k[2]>>

(* The list stage 2 hands over has one section for each position. *)
UniqueInput == \A a, b \in DOMAIN input : KeyOf(input[a]) = KeyOf(input[b]) => a = b

(***************************************************************************)
(* The reference: column p of a section at level L shows what the level-0  *)
(* columns of its 2^L x 2^L blocks show, nothing else, nothing less.  It   *)
(* looks at the input only, and divides world coordinates once.            *)
(***************************************************************************)
World(sec, p) == <<sec.pos_x * SecCols + p[1], sec.pos_z * SecCols + p[2]>>
Shrink(b, scale) == <<b[1] \div scale, b[2] \div scale>>

Below(sec, p) ==
  UNION {UNION {input[j].columns[q] :
                  q \in {c \in Cols : Shrink(World(input[j], c), Pow2[sec.detail_level]) = World(sec, p)}} :
         j \in DOMAIN input}

(* Every section ever appended, at every level and for any children order, *)
(* shows exactly the level-0 columns below it: no quadrant is swapped or   *)
(* lost at a level, on the CPU and on the GPU path alike.                  *)
Coverage ==
  UniqueInput => \A j \in DOMAIN lod : \A p \in Cols : lod[j].columns[p] = Below(lod[j], p)

(* When a level is over, every level-0 section has its ancestor there, and *)
(* every section there an input below it: no gap and no stray parent; and  *)
(* no position has two sections, so none replaces another in the database. *)
Pyramid ==
  parents = NoParents => \A level \in 1 .. lvl - 1 :
    /\ {<<lod[j].pos_x, lod[j].pos_z>> : j \in AtLevel(level)} =
         {Shrink(<<input[j].pos_x, input[j].pos_z>>, Pow2[level]) : j \in DOMAIN input}
    /\ \A a, b \in AtLevel(level) : KeyOf(lod[a]) = KeyOf(lod[b]) => a = b

(* The level-0 sections below section j. *)
InputsBelow(j) ==
  {i \in DOMAIN input : Shrink(<<input[i].pos_x, input[i].pos_z>>, Pow2[lod[j].detail_level]) = <<lod[j].pos_x, lod[j].pos_z>>}

(* The height range of a section is that of the level-0 sections below it, *)
(* through every level between: as high as the highest of them, and from   *)
(* the minimum of one of them, which is the least unless the least is 0.   *)
(* So two runs on one world store the same MinY, whatever the order the    *)
(* hash map put the sections between in, but where the least minimum is 0; *)
(* and there never one below it.                                           *)
HeightsCover == \A j \in DOMAIN lod \ DOMAIN input : SpansParts(lod[j], {input[i] : i \in InputsBelow(j)})

(* Every level is finished, however the parents of a level are scheduled. *)
Stage3Ends == <>Done
=============================================================================
