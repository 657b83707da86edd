-------------------------- MODULE RegionBakeProofs --------------------------
(***************************************************************************)
(* Theorems about stage 2, for every grid, every number of workers, every  *)
(* list of region files and every bounding box.                            *)
(***************************************************************************)
EXTENDS RegionBake, SharedLemmas, TLAPS

(* A worker only ever scans a file that opened. *)
OnlyOpened == \A w \in Workers : job[w].task # 0 => tasks[job[w].task].opens

(* The height range of the sections once the first n header slots are      *)
(* done, over those of the chunks at positions L.                          *)
SpansChunks(sec, chunk, L) ==
  /\ \A l \in L : chunk[l].max_y <= sec.max_y
  /\ sec.max_y = 0 \/ \E l \in L : chunk[l].max_y = sec.max_y
  /\ \E l \in L : chunk[l].min_y = sec.min_y
  /\ \/ \A l \in L : sec.min_y <= chunk[l].min_y
     \/ (\E l \in L : chunk[l].min_y = 0) /\ \A l \in L : 0 <= chunk[l].min_y
InsideUpTo(i, n, s) == {l \in AcceptedBefore(i, n) : InSection(l, s)}
BoundedUpTo(i, n, S) ==
  \A s \in SecIdx : S[s] # NoSection =>
    SpansChunks(S[s], tasks[i].chunk, InsideUpTo(i, n, s))

(* What the worker on task i holds at header slot n.                       *)
BakedUpTo(i, n, S) == AssembledUpTo(i, n, S) /\ BoundedUpTo(i, n, S)
Baked ==
  /\ \A w \in Workers : job[w].task # 0 => BakedUpTo(job[w].task, job[w].next, job[w].sections)
  /\ \A i \in TaskIds : results[i].done =>
       IF tasks[i].opens THEN BakedUpTo(i, SlotCount, results[i].sections)
       ELSE results[i].sections = NoSections

(* The hash list of a task grows with the slots its worker has passed, and *)
(* the counter with the tasks returned; once the results are collected     *)
(* nothing is left to grow.                                                *)
Hashed ==
  /\ \A w \in Workers : job[w].task # 0 =>
       /\ job[w].hashes = HashesUpTo(job[w].task)[job[w].next]
       /\ job[w].count = Len(job[w].hashes)
  /\ \A i \in TaskIds : results[i].hashes = IF results[i].done THEN ReferenceHashes(i) ELSE <<>>
  /\ total = Len(FlattenSeq([i \in TaskIds |-> results[i].hashes]))
Collected ==
  joined => /\ AllReturned
            /\ chunk_hashes = FlattenSeq([i \in TaskIds |-> ReferenceHashes(i)])

(* local_sections is what build_level_0 makes of the chunks hashed so far. *)
Placed(i, hashes, S) == Present(S) = BuildLevel0(GridsOf(i, hashes))
PlacedAll ==
  /\ \A w \in Workers : job[w].task # 0 => Placed(job[w].task, job[w].hashes, job[w].sections)
  /\ \A i \in TaskIds : results[i].done => Placed(i, results[i].hashes, results[i].sections)

IInv == TypeOK /\ ClaimedOnce /\ OnlyOpened /\ Baked /\ Hashed /\ Collected /\ PlacedAll
-----------------------------------------------------------------------------
(* The sizes derived from the constants. *)
LEMMA Sizes ==
  /\ SecCols \in Nat \ {0}
  /\ RegionChunks \in Nat \ {0}
  /\ SlotCount \in Nat \ {0}
<1>1. \A a, b \in Nat \ {0} : a * b \in Nat \ {0}
  OBVIOUS
<1> QED
  BY <1>1, GridAssumption DEF SecCols, RegionChunks, SlotCount

(* iter_present_chunks numbers the slots of the header one to one. *)
LEMMA SlotCorrect ==
  ASSUME NEW n \in 0 .. SlotCount - 1
  PROVE  Slot(n) \in Locals /\ SlotOf(Slot(n)) = n
<1>1. n \in 0 .. RegionChunks * RegionChunks - 1
  BY DEF SlotCount
<1>2. n \div RegionChunks \in 0 .. RegionChunks - 1
  BY <1>1, DivBelow, Sizes
<1>3. n % RegionChunks \in 0 .. RegionChunks - 1
      /\ n = RegionChunks * (n \div RegionChunks) + (n % RegionChunks)
  BY <1>1, DivMod, Sizes
<1> QED
  BY <1>2, <1>3, Sizes DEF Slot, SlotOf, Locals

LEMMA SlotInjective ==
  ASSUME NEW l \in Locals, NEW m \in Locals, SlotOf(l) = SlotOf(m)
  PROVE  l = m
<1> DEFINE R == RegionChunks
<1>1. /\ l = <<l[1], l[2]>> /\ l[1] \in 0 .. R - 1 /\ l[2] \in 0 .. R - 1
      /\ m = <<m[1], m[2]>> /\ m[1] \in 0 .. R - 1 /\ m[2] \in 0 .. R - 1
  BY DEF Locals
<1>2. l[1] + l[2] * R = m[1] + m[2] * R
  BY DEF SlotOf
<1>3. \A r \in Nat \ {0} : \A a, b \in 0 .. r - 1 : \A c, d \in Int :
        a + c * r = b + d * r => c = d
  OBVIOUS
<1>4. l[2] = m[2]
  BY <1>1, <1>2, <1>3, Sizes
<1>5. l[1] = m[1]
  BY <1>1, <1>2, <1>4, Sizes
<1> QED
  BY <1>1, <1>4, <1>5
-----------------------------------------------------------------------------
(* Types of what the placement of a chunk is computed from. *)
LEMMA VoxelGridType ==
  ASSUME TypeOK, NEW i \in TaskIds, NEW l \in Locals
  PROVE  /\ VoxelGrid(i, l).columns \in [GridCols -> Provenance]
         /\ VoxelGrid(i, l).min_y \in Int /\ VoxelGrid(i, l).max_y \in Int
<1>1. tasks[i] \in Region /\ i \in Nat
  BY DEF TypeOK, TaskIds
<1>2. tasks[i].rx \in Int /\ tasks[i].rz \in Int /\ tasks[i].chunk[l] \in Chunk
  BY <1>1 DEF Region
<1>3. ChunkX(tasks[i], l) \in Int /\ ChunkZ(tasks[i], l) \in Int
  BY <1>2, Sizes DEF ChunkX, ChunkZ, Locals
<1>4. \A q \in GridCols :
        {<<i, ChunkX(tasks[i], l) * ChunkCols + q[1], ChunkZ(tasks[i], l) * ChunkCols + q[2]>>}
          \in Provenance
  <2> TAKE q \in GridCols
  <2>1. q[1] \in Int /\ q[2] \in Int
    BY GridAssumption DEF GridCols
  <2> QED
    BY <1>1, <1>3, <2>1, GridAssumption DEF Provenance
<1>5. {} \in Provenance
  BY DEF Provenance
<1> QED
  BY <1>2, <1>4, <1>5 DEF VoxelGrid, Chunk

LEMMA LocalSecType ==
  ASSUME NEW l \in Locals
  PROVE  /\ LocalSec(l) \in SecIdx
         /\ ChunkRel(l)[1] \in 0 .. SecChunks - 1 /\ ChunkRel(l)[2] \in 0 .. SecChunks - 1
         /\ l[1] = SecChunks * LocalSec(l)[1] + ChunkRel(l)[1]
         /\ l[2] = SecChunks * LocalSec(l)[2] + ChunkRel(l)[2]
<1>1. l[1] \in 0 .. SecChunks * RegionSecs - 1 /\ l[2] \in 0 .. SecChunks * RegionSecs - 1
  <2>1. RegionSecs * SecChunks = SecChunks * RegionSecs
    BY GridAssumption
  <2> QED
    BY <2>1 DEF Locals, RegionChunks
<1>2. l[1] \div SecChunks \in 0 .. RegionSecs - 1 /\ l[2] \div SecChunks \in 0 .. RegionSecs - 1
  BY <1>1, DivBelow, GridAssumption
<1>a. l[1] \in Int /\ l[2] \in Int
  BY DEF Locals
<1>3. /\ l[1] % SecChunks \in 0 .. SecChunks - 1
      /\ l[1] = SecChunks * (l[1] \div SecChunks) + (l[1] % SecChunks)
  BY <1>a, DivMod, GridAssumption
<1>4. /\ l[2] % SecChunks \in 0 .. SecChunks - 1
      /\ l[2] = SecChunks * (l[2] \div SecChunks) + (l[2] % SecChunks)
  BY <1>a, DivMod, GridAssumption
<1> QED
  BY <1>2, <1>3, <1>4 DEF LocalSec, ChunkRel, SecIdx

(* new_empty and the copy loop yield sections. *)
LEMMA PlaceGridType ==
  ASSUME NEW sec \in Section, NEW a \in Int, NEW b \in Int, NEW grid,
         grid.columns \in [GridCols -> Provenance],
         grid.min_y \in Int, grid.max_y \in Int
  PROVE  PlaceGrid(sec, a, b, grid) \in Section
<1>1. LowerMin(sec.min_y, grid.min_y) \in Int /\ RaiseMax(sec.max_y, grid.max_y) \in Int
  BY DEF LowerMin, RaiseMax, Section
<1>2. PlaceColumns(sec.columns, a, b, grid.columns) \in [Cols -> Provenance]
  BY DEF PlaceColumns, Section
<1> QED
  BY <1>1, <1>2 DEF PlaceGrid, WithHeights, Section

LEMMA FreshSectionType ==
  ASSUME NEW t \in Region, NEW s \in SecIdx
  PROVE  /\ FreshSection(t, s) \in Section
         /\ KeyOf(FreshSection(t, s)) = <<0, t.rx * RegionSecs + s[1], t.rz * RegionSecs + s[2]>>
         /\ \A p \in Cols : FreshSection(t, s).columns[p] = {}
<1>1. t.rx \in Int /\ t.rz \in Int /\ s[1] \in Int /\ s[2] \in Int
  BY GridAssumption DEF Region, SecIdx
<1>2. t.rx * RegionSecs + s[1] \in Int /\ t.rz * RegionSecs + s[2] \in Int
  BY <1>1, GridAssumption
<1>3. {} \in Provenance
  BY DEF Provenance
<1> QED
  BY <1>2, <1>3 DEF FreshSection, NewEmpty, Section, KeyOf

LEMMA WithChunkType ==
  ASSUME TypeOK, NEW i \in TaskIds, NEW l \in Locals, NEW S \in LocalSections
  PROVE  WithChunk(S, tasks[i], l, VoxelGrid(i, l)) \in LocalSections
<1> DEFINE s == LocalSec(l)
           old == IF S[s] = NoSection THEN FreshSection(tasks[i], s) ELSE S[s]
<1>1. s \in SecIdx /\ ChunkRel(l)[1] \in Int /\ ChunkRel(l)[2] \in Int
  BY LocalSecType, GridAssumption
<1>2. tasks[i] \in Region
  BY DEF TypeOK, TaskIds
<1>3. old \in Section
  BY <1>1, <1>2, FreshSectionType DEF LocalSections
<1>4. PlaceGrid(old, ChunkRel(l)[1], ChunkRel(l)[2], VoxelGrid(i, l)) \in Section
  BY <1>1, <1>3, VoxelGridType, PlaceGridType
<1> QED
  BY <1>1, <1>4 DEF WithChunk, LocalSections
-----------------------------------------------------------------------------
(* Which chunks lie in a section: exactly those LocalSec sends there. *)
LEMMA InSectionLemma ==
  ASSUME NEW l \in Locals, NEW s \in SecIdx
  PROVE  InSection(l, s) <=> s = LocalSec(l)
<1> DEFINE q == LocalSec(l)
<1>1. /\ q \in SecIdx /\ q = <<q[1], q[2]>> /\ s = <<s[1], s[2]>>
      /\ q[1] \in Int /\ q[2] \in Int /\ s[1] \in Int /\ s[2] \in Int
  BY LocalSecType, GridAssumption DEF SecIdx
<1>2. \A a, b \in Int : \A r \in 0 .. SecChunks - 1 :
        SecChunks * a + r \in b * SecChunks .. b * SecChunks + SecChunks - 1 <=> a = b
  BY GridAssumption
<1>3. l[1] \in s[1] * SecChunks .. s[1] * SecChunks + SecChunks - 1 <=> q[1] = s[1]
  <2>1. /\ ChunkRel(l)[1] \in 0 .. SecChunks - 1
        /\ l[1] = SecChunks * q[1] + ChunkRel(l)[1]
    BY LocalSecType
  <2> HIDE DEF q
  <2> QED
    BY <1>1, <1>2, <2>1
<1>4. l[2] \in s[2] * SecChunks .. s[2] * SecChunks + SecChunks - 1 <=> q[2] = s[2]
  <2>1. /\ ChunkRel(l)[2] \in 0 .. SecChunks - 1
        /\ l[2] = SecChunks * q[2] + ChunkRel(l)[2]
    BY LocalSecType
  <2> HIDE DEF q
  <2> QED
    BY <1>1, <1>2, <2>1
<1> QED
  BY <1>1, <1>3, <1>4 DEF InSection

(* One dimension of the geometry: the block column at offset x of section  *)
(* m * RS + s, and a chunk m * (RS * SC) + l with l = SC * q + r.          *)
LEMMA Offset ==
  ASSUME NEW C \in Nat \ {0}, NEW SC \in Nat \ {0}, NEW RS \in Nat \ {0},
         NEW m \in Int, NEW q \in Int, NEW r \in 0 .. SC - 1
  PROVE  \A x \in Int :
           (m * RS + q) * (SC * C) + x - (m * (RS * SC) + (SC * q + r)) * C = x - r * C
  OBVIOUS

LEMMA OneCover ==
  ASSUME NEW C \in Nat \ {0}, NEW a \in Int, NEW b \in Int, NEW x \in Int,
         x - a * C \in 0 .. C - 1, x - b * C \in 0 .. C - 1
  PROVE  a = b
  OBVIOUS

LEMMA SectionCover ==
  ASSUME NEW C \in Nat \ {0}, NEW SC \in Nat \ {0}, NEW RS \in Nat \ {0},
         NEW m \in Int, NEW q \in Int, NEW r \in 0 .. SC - 1,
         NEW s \in Int, NEW x \in 0 .. SC * C - 1,
         ((m * RS + s) * (SC * C) + x) - (m * (RS * SC) + (SC * q + r)) * C \in 0 .. C - 1
  PROVE  s = q
<1> DEFINE y == (s - q) * SC - r
<1>1. y * C + x \in 0 .. C - 1
  OBVIOUS
<1>2. y \in Int /\ SC * C \in Int
  OBVIOUS
<1> HIDE DEF y
<1>3. y < 1
  BY <1>1, <1>2
<1>4. y > - SC
  BY <1>1, <1>2
<1> QED
  BY <1>3, <1>4 DEF y

(* Chunk positions of a task, and the columns of a chunk, are integers. *)
LEMMA Positions ==
  ASSUME TypeOK, NEW i \in TaskIds, NEW l \in Locals
  PROVE  /\ tasks[i] \in Region /\ tasks[i].rx \in Int /\ tasks[i].rz \in Int
         /\ ChunkX(tasks[i], l) \in Int /\ ChunkZ(tasks[i], l) \in Int
         /\ tasks[i].chunk[l].solid \subseteq GridCols
<1>1. tasks[i] \in Region
  BY DEF TypeOK, TaskIds
<1>2. tasks[i].rx \in Int /\ tasks[i].rz \in Int /\ tasks[i].chunk[l] \in Chunk
  BY <1>1 DEF Region
<1>3. ChunkX(tasks[i], l) \in Int /\ ChunkZ(tasks[i], l) \in Int
  BY <1>2, Sizes DEF ChunkX, ChunkZ, Locals
<1> QED
  BY <1>1, <1>2, <1>3 DEF Chunk

(* At most one chunk of a region covers a block column. *)
LEMMA CoverUnique ==
  ASSUME TypeOK, NEW i \in TaskIds, NEW l \in Locals, NEW m \in Locals,
         NEW bx \in Int, NEW bz \in Int,
         <<bx - ChunkX(tasks[i], l) * ChunkCols, bz - ChunkZ(tasks[i], l) * ChunkCols>> \in GridCols,
         <<bx - ChunkX(tasks[i], m) * ChunkCols, bz - ChunkZ(tasks[i], m) * ChunkCols>> \in GridCols
  PROVE  l = m
<1>1. ChunkX(tasks[i], l) = ChunkX(tasks[i], m) /\ ChunkZ(tasks[i], l) = ChunkZ(tasks[i], m)
  <2>1. /\ bx - ChunkX(tasks[i], l) * ChunkCols \in 0 .. ChunkCols - 1
        /\ bx - ChunkX(tasks[i], m) * ChunkCols \in 0 .. ChunkCols - 1
        /\ bz - ChunkZ(tasks[i], l) * ChunkCols \in 0 .. ChunkCols - 1
        /\ bz - ChunkZ(tasks[i], m) * ChunkCols \in 0 .. ChunkCols - 1
    BY DEF GridCols
  <2>2. /\ ChunkX(tasks[i], l) \in Int /\ ChunkZ(tasks[i], l) \in Int
        /\ ChunkX(tasks[i], m) \in Int /\ ChunkZ(tasks[i], m) \in Int
    BY Positions
  <2> QED
    BY <2>1, <2>2, OneCover, GridAssumption
<1>2. /\ l = <<l[1], l[2]>> /\ m = <<m[1], m[2]>>
      /\ l[1] \in Int /\ l[2] \in Int /\ m[1] \in Int /\ m[2] \in Int
  BY DEF Locals
<1>3. /\ tasks[i].rx \in Int /\ tasks[i].rz \in Int
  BY Positions
<1>4. /\ tasks[i].rx * RegionChunks \in Int /\ tasks[i].rz * RegionChunks \in Int
  BY <1>3, Sizes
<1> QED
  BY <1>1, <1>2, <1>4 DEF ChunkX, ChunkZ

(* The block columns of section s of task i's region. *)
BlockX(i, s, p) == (tasks[i].rx * RegionSecs + s[1]) * SecCols + p[1]
BlockZ(i, s, p) == (tasks[i].rz * RegionSecs + s[2]) * SecCols + p[2]

(* A chunk that covers a block column of a section lies in the section. *)
LEMMA CoverInSection ==
  ASSUME TypeOK, NEW i \in TaskIds, NEW l \in Locals, NEW s \in SecIdx, NEW p \in Cols,
         <<BlockX(i, s, p) - ChunkX(tasks[i], l) * ChunkCols,
           BlockZ(i, s, p) - ChunkZ(tasks[i], l) * ChunkCols>> \in GridCols
  PROVE  s = LocalSec(l)
<1> DEFINE q == LocalSec(l)
           r == ChunkRel(l)
<1>0. /\ BlockX(i, s, p) - ChunkX(tasks[i], l) * ChunkCols \in 0 .. ChunkCols - 1
      /\ BlockZ(i, s, p) - ChunkZ(tasks[i], l) * ChunkCols \in 0 .. ChunkCols - 1
  BY DEF GridCols
<1>1. /\ tasks[i].rx \in Int /\ tasks[i].rz \in Int
      /\ p[1] \in 0 .. SecChunks * ChunkCols - 1 /\ p[2] \in 0 .. SecChunks * ChunkCols - 1
      /\ s[1] \in Int /\ s[2] \in Int /\ s = <<s[1], s[2]>>
  BY Positions DEF SecIdx, Cols, SecCols
<1>2. /\ q[1] \in Int /\ q[2] \in Int /\ q = <<q[1], q[2]>>
      /\ r[1] \in 0 .. SecChunks - 1 /\ r[2] \in 0 .. SecChunks - 1
      /\ l[1] = SecChunks * q[1] + r[1] /\ l[2] = SecChunks * q[2] + r[2]
  BY LocalSecType DEF SecIdx
<1> HIDE DEF q, r
<1>3. s[1] = q[1]
  <2>1. ((tasks[i].rx * RegionSecs + s[1]) * (SecChunks * ChunkCols) + p[1])
          - (tasks[i].rx * (RegionSecs * SecChunks) + (SecChunks * q[1] + r[1])) * ChunkCols
            \in 0 .. ChunkCols - 1
    <3>1. BlockX(i, s, p) =
            (tasks[i].rx * RegionSecs + s[1]) * (SecChunks * ChunkCols) + p[1]
      BY DEF BlockX, SecCols
    <3>2. ChunkX(tasks[i], l) =
            tasks[i].rx * (RegionSecs * SecChunks) + (SecChunks * q[1] + r[1])
      BY <1>2 DEF ChunkX, RegionChunks
    <3> QED
      BY <1>0, <3>1, <3>2, Zenon
  <2> QED
    BY <1>1, <1>2, <2>1, SectionCover, GridAssumption
<1>4. s[2] = q[2]
  <2>1. ((tasks[i].rz * RegionSecs + s[2]) * (SecChunks * ChunkCols) + p[2])
          - (tasks[i].rz * (RegionSecs * SecChunks) + (SecChunks * q[2] + r[2])) * ChunkCols
            \in 0 .. ChunkCols - 1
    <3>1. BlockZ(i, s, p) =
            (tasks[i].rz * RegionSecs + s[2]) * (SecChunks * ChunkCols) + p[2]
      BY DEF BlockZ, SecCols
    <3>2. ChunkZ(tasks[i], l) =
            tasks[i].rz * (RegionSecs * SecChunks) + (SecChunks * q[2] + r[2])
      BY <1>2 DEF ChunkZ, RegionChunks
    <3> QED
      BY <1>0, <3>1, <3>2, Zenon
  <2> QED
    BY <1>1, <1>2, <2>1, SectionCover, GridAssumption
<1> QED
  BY <1>1, <1>2, <1>3, <1>4 DEF q

(* The copy loop's offset is the chunk's offset in the world. *)
LEMMA RelOffset ==
  ASSUME TypeOK, NEW i \in TaskIds, NEW l \in Locals, NEW p \in Cols
  PROVE  LET s == LocalSec(l) IN
         /\ BlockX(i, s, p) - ChunkX(tasks[i], l) * ChunkCols = p[1] - ChunkRel(l)[1] * ChunkCols
         /\ BlockZ(i, s, p) - ChunkZ(tasks[i], l) * ChunkCols = p[2] - ChunkRel(l)[2] * ChunkCols
<1> DEFINE q == LocalSec(l)
           r == ChunkRel(l)
<1>1. /\ tasks[i].rx \in Int /\ tasks[i].rz \in Int /\ p[1] \in Int /\ p[2] \in Int
  BY Positions DEF Cols
<1>2. /\ q[1] \in Int /\ q[2] \in Int
      /\ r[1] \in 0 .. SecChunks - 1 /\ r[2] \in 0 .. SecChunks - 1
      /\ l[1] = SecChunks * q[1] + r[1] /\ l[2] = SecChunks * q[2] + r[2]
  BY LocalSecType DEF SecIdx
<1> HIDE DEF q, r
<1>3. BlockX(i, q, p) - ChunkX(tasks[i], l) * ChunkCols = p[1] - r[1] * ChunkCols
  BY <1>1, <1>2, Offset, GridAssumption DEF BlockX, ChunkX, SecCols, RegionChunks
<1>4. BlockZ(i, q, p) - ChunkZ(tasks[i], l) * ChunkCols = p[2] - r[2] * ChunkCols
  BY <1>1, <1>2, Offset, GridAssumption DEF BlockZ, ChunkZ, SecCols, RegionChunks
<1> QED
  BY <1>3, <1>4 DEF q, r
-----------------------------------------------------------------------------
(* Moving past slot n adds the chunk there, if it is accepted. *)
LEMMA AcceptedStep ==
  ASSUME NEW i, NEW n \in 0 .. SlotCount - 1
  PROVE  AcceptedBefore(i, n + 1) =
           AcceptedBefore(i, n) \cup (IF Accepted(i, Slot(n)) THEN {Slot(n)} ELSE {})
<1>1. Slot(n) \in Locals /\ SlotOf(Slot(n)) = n
  BY SlotCorrect
<1>2. n \in Int /\ \A l \in Locals : SlotOf(l) \in Int
  BY Sizes DEF SlotOf, Locals
<1>3. \A l \in Locals : SlotOf(l) < n + 1 <=> SlotOf(l) < n \/ l = Slot(n)
  BY <1>1, <1>2, SlotInjective
<1>4. \A l \in Locals : SlotOf(l) < n => l # Slot(n)
  BY <1>1, <1>2
<1> QED
  BY <1>1, <1>3, <1>4 DEF AcceptedBefore

(* Nothing accepted, nothing to place: the sections need no change. *)
LEMMA SkipCorrect ==
  ASSUME NEW i, NEW n \in 0 .. SlotCount - 1, NEW S,
         ~Accepted(i, Slot(n)), AssembledUpTo(i, n, S)
  PROVE  AssembledUpTo(i, n + 1, S)
<1>1. AcceptedBefore(i, n + 1) = AcceptedBefore(i, n)
  BY AcceptedStep
<1>2. \A bx, bz : ReferenceColumn(i, n + 1, bx, bz) = ReferenceColumn(i, n, bx, bz)
  BY <1>1 DEF ReferenceColumn
<1> QED
  BY <1>1, <1>2 DEF AssembledUpTo

(* A file just opened: no slot done, no section made. *)
LEMMA StartCorrect ==
  ASSUME NEW i
  PROVE  AssembledUpTo(i, 0, NoSections)
<1>1. \A l \in Locals : ~(SlotOf(l) < 0)
  BY Sizes DEF SlotOf, Locals
<1>2. AcceptedBefore(i, 0) = {}
  BY <1>1 DEF AcceptedBefore
<1> QED
  BY <1>2 DEF AssembledUpTo, NoSections

(* The heart of stage 2: copying an accepted chunk's columns to the offset *)
(* the code computes, into the section the code picks or creates, brings   *)
(* the sections from slot n to slot n + 1.                                 *)
LEMMA PlaceCorrect ==
  ASSUME TypeOK, NEW i \in TaskIds, NEW n \in 0 .. SlotCount - 1, NEW S \in LocalSections,
         Accepted(i, Slot(n)), AssembledUpTo(i, n, S)
  PROVE  AssembledUpTo(i, n + 1, WithChunk(S, tasks[i], Slot(n), VoxelGrid(i, Slot(n))))
<1> DEFINE l == Slot(n)
           sl == LocalSec(l)
           grid == VoxelGrid(i, l)
           T == WithChunk(S, tasks[i], l, grid)
           old == IF S[sl] = NoSection THEN FreshSection(tasks[i], sl) ELSE S[sl]
           new == PlaceGrid(old, ChunkRel(l)[1], ChunkRel(l)[2], grid)
<1>1. l \in Locals /\ SlotOf(l) = n /\ sl \in SecIdx
  BY SlotCorrect, LocalSecType
<1>2. AcceptedBefore(i, n + 1) = AcceptedBefore(i, n) \cup {l}
  BY AcceptedStep
<1>3. l \notin AcceptedBefore(i, n) /\ AcceptedBefore(i, n) \subseteq Locals
  BY <1>1 DEF AcceptedBefore
<1>4. T = [S EXCEPT ![sl] = new]
  BY DEF WithChunk
<1>5. T \in LocalSections
  BY <1>1, WithChunkType
<1>6. T[sl] = new /\ \A s \in SecIdx : s # sl => T[s] = S[s]
  BY <1>1, <1>4 DEF LocalSections
<1>7. \A s \in SecIdx : InSection(l, s) <=> s = sl
  BY <1>1, InSectionLemma
<1>8. \A s \in SecIdx, p \in Cols, c \in Locals :
        Shows(i, c, BlockX(i, s, p), BlockZ(i, s, p)) => s = LocalSec(c)
  BY Positions, CoverInSection DEF Shows
<1>9. \A s \in SecIdx, p \in Cols : BlockX(i, s, p) \in Int /\ BlockZ(i, s, p) \in Int
  <2> TAKE s \in SecIdx, p \in Cols
  <2>1. /\ tasks[i].rx \in Int /\ tasks[i].rz \in Int /\ s[1] \in Int /\ s[2] \in Int
        /\ p[1] \in Int /\ p[2] \in Int
    BY <1>1, Positions DEF SecIdx, Cols
  <2>2. tasks[i].rx * RegionSecs + s[1] \in Int /\ tasks[i].rz * RegionSecs + s[2] \in Int
    BY <2>1, GridAssumption
  <2> QED
    BY <2>1, <2>2, Sizes DEF BlockX, BlockZ
<1>12. old \in Section
  BY <1>1, Positions, FreshSectionType DEF LocalSections
<1>13. new \in Section
  BY <1>1, <1>12, LocalSecType, VoxelGridType, PlaceGridType, GridAssumption
<1> HIDE DEF l, sl, grid, T, old, new
<1> SUFFICES ASSUME NEW s \in SecIdx
             PROVE  /\ (T[s] # NoSection)
                          <=> \E c \in AcceptedBefore(i, n + 1) : InSection(c, s)
                    /\ T[s] # NoSection =>
                         /\ KeyOf(T[s]) = <<0, tasks[i].rx * RegionSecs + s[1],
                                               tasks[i].rz * RegionSecs + s[2]>>
                         /\ \A p \in Cols : T[s].columns[p] =
                              ReferenceColumn(i, n + 1, T[s].pos_x * SecCols + p[1],
                                                        T[s].pos_z * SecCols + p[2])
  BY DEF AssembledUpTo, T, grid, l
<1>10. CASE s # sl
  <2>1. T[s] = S[s]
    BY <1>6, <1>10
  <2>2. (T[s] # NoSection) <=> \E c \in AcceptedBefore(i, n + 1) : InSection(c, s)
    BY <1>2, <1>7, <1>10, <2>1 DEF AssembledUpTo
  <2>3. ASSUME T[s] # NoSection
        PROVE  KeyOf(T[s]) = <<0, tasks[i].rx * RegionSecs + s[1], tasks[i].rz * RegionSecs + s[2]>>
    BY <2>1, <2>3 DEF AssembledUpTo
  <2>4. ASSUME T[s] # NoSection, NEW p \in Cols
        PROVE  T[s].columns[p] = ReferenceColumn(i, n + 1, T[s].pos_x * SecCols + p[1],
                                                           T[s].pos_z * SecCols + p[2])
    <3>1. T[s].columns[p] = ReferenceColumn(i, n, T[s].pos_x * SecCols + p[1],
                                                  T[s].pos_z * SecCols + p[2])
      BY <2>1, <2>4 DEF AssembledUpTo
    <3>2. T[s].pos_x * SecCols + p[1] = BlockX(i, s, p) /\ T[s].pos_z * SecCols + p[2] = BlockZ(i, s, p)
      BY <2>3, <2>4 DEF KeyOf, BlockX, BlockZ
    <3>3. ~Shows(i, l, BlockX(i, s, p), BlockZ(i, s, p))
      BY <1>1, <1>8, <1>10 DEF sl
    <3> QED
      BY <1>2, <3>1, <3>2, <3>3 DEF ReferenceColumn
  <2> QED
    BY <2>2, <2>3, <2>4
<1>11. CASE s = sl
  <2>1. T[s] = new /\ T[s] # NoSection
    BY <1>6, <1>11, <1>13, BakeAssumption
  <2>2. \E c \in AcceptedBefore(i, n + 1) : InSection(c, s)
    BY <1>2, <1>7, <1>11
  <2>3. KeyOf(T[s]) = <<0, tasks[i].rx * RegionSecs + s[1], tasks[i].rz * RegionSecs + s[2]>>
    <3>1. KeyOf(new) = KeyOf(old)
      BY <1>12 DEF new, PlaceGrid, WithHeights, KeyOf, Section
    <3>2. KeyOf(old) = <<0, tasks[i].rx * RegionSecs + sl[1], tasks[i].rz * RegionSecs + sl[2]>>
      BY <1>1, Positions, FreshSectionType DEF old, AssembledUpTo
    <3> QED
      BY <1>11, <2>1, <3>1, <3>2
  <2>4. ASSUME NEW p \in Cols
        PROVE  T[s].columns[p] = ReferenceColumn(i, n + 1, T[s].pos_x * SecCols + p[1],
                                                           T[s].pos_z * SecCols + p[2])
    <3> DEFINE bx == BlockX(i, s, p)
               bz == BlockZ(i, s, p)
               q == <<p[1] - ChunkRel(l)[1] * ChunkCols, p[2] - ChunkRel(l)[2] * ChunkCols>>
    <3>1. T[s].pos_x * SecCols + p[1] = bx /\ T[s].pos_z * SecCols + p[2] = bz
      BY <2>3 DEF KeyOf, BlockX, BlockZ
    <3>2. T[s].columns[p] = IF q \in GridCols THEN grid.columns[q] ELSE old.columns[p]
      BY <1>12, <2>1 DEF new, PlaceGrid, WithHeights, PlaceColumns, Section
    <3>3. q = <<bx - ChunkX(tasks[i], l) * ChunkCols, bz - ChunkZ(tasks[i], l) * ChunkCols>>
      BY <1>1, <1>11, RelOffset DEF sl
    <3>4. bx \in Int /\ bz \in Int
      BY <1>9
    <3> HIDE DEF bx, bz, q
    <3>5. Shows(i, l, bx, bz) <=> q \in tasks[i].chunk[l].solid
      BY <3>3 DEF Shows
    <3>6. tasks[i].chunk[l].solid \subseteq GridCols
      BY <1>1, Positions
    <3>7. CASE q \in GridCols
      <4>1. \A c \in AcceptedBefore(i, n) : ~Shows(i, c, bx, bz)
        <5> SUFFICES ASSUME NEW c \in AcceptedBefore(i, n), Shows(i, c, bx, bz)
                     PROVE  FALSE
          OBVIOUS
        <5>1. c \in Locals
          BY <1>3
        <5>2. <<bx - ChunkX(tasks[i], c) * ChunkCols, bz - ChunkZ(tasks[i], c) * ChunkCols>>
                \in GridCols
          BY <5>1, Positions DEF Shows
        <5>3. c = l
          BY <1>1, <3>3, <3>4, <3>7, <5>1, <5>2, CoverUnique
        <5> QED
          BY <1>3, <5>3
      <4>2. ReferenceColumn(i, n + 1, bx, bz) =
              IF q \in tasks[i].chunk[l].solid THEN {<<i, bx, bz>>} ELSE {}
        BY <1>2, <3>5, <4>1 DEF ReferenceColumn
      <4>3. ChunkX(tasks[i], l) * ChunkCols + q[1] = bx /\ ChunkZ(tasks[i], l) * ChunkCols + q[2] = bz
        <5>1. ChunkX(tasks[i], l) * ChunkCols \in Int /\ ChunkZ(tasks[i], l) * ChunkCols \in Int
          BY <1>1, Positions, GridAssumption
        <5> QED
          BY <3>3, <3>4, <5>1
      <4>4. grid.columns[q] = IF q \in tasks[i].chunk[l].solid THEN {<<i, bx, bz>>} ELSE {}
        BY <3>7, <4>3 DEF grid, VoxelGrid
      <4> QED
        BY <3>1, <3>2, <3>7, <4>2, <4>4
    <3>8. CASE q \notin GridCols
      <4>1. ~Shows(i, l, bx, bz)
        BY <3>5, <3>6, <3>8
      <4>2. ReferenceColumn(i, n + 1, bx, bz) = ReferenceColumn(i, n, bx, bz)
        BY <1>2, <4>1 DEF ReferenceColumn
      <4>3. CASE S[sl] = NoSection
        <5>1. old.columns[p] = {}
          BY <1>1, <4>3, Positions, FreshSectionType DEF old
        <5>2. \A c \in AcceptedBefore(i, n) : ~InSection(c, sl)
          BY <1>1, <4>3 DEF AssembledUpTo
        <5>3. \A c \in AcceptedBefore(i, n) : ~Shows(i, c, bx, bz)
          BY <1>1, <1>3, <1>8, <1>11, <5>2, InSectionLemma DEF bx, bz
        <5>4. ReferenceColumn(i, n, bx, bz) = {}
          BY <5>3 DEF ReferenceColumn
        <5> QED
          BY <3>1, <3>2, <3>8, <4>2, <5>1, <5>4
      <4>4. CASE S[sl] # NoSection
        <5>1. old = S[s]
          BY <1>11, <4>4 DEF old
        <5>2. old.columns[p] = ReferenceColumn(i, n, old.pos_x * SecCols + p[1],
                                                     old.pos_z * SecCols + p[2])
          BY <1>11, <4>4, <5>1 DEF AssembledUpTo
        <5>3. old.pos_x = T[s].pos_x /\ old.pos_z = T[s].pos_z
          BY <1>12, <2>1 DEF new, PlaceGrid, WithHeights, Section
        <5> QED
          BY <3>1, <3>2, <3>8, <4>2, <5>2, <5>3
      <4> QED
        BY <4>3, <4>4
    <3> QED
      BY <3>7, <3>8
  <2> QED
    BY <2>1, <2>2, <2>3, <2>4
<1> QED
  BY <1>10, <1>11
-----------------------------------------------------------------------------
(* The height ranges.  An accepted chunk lowers and raises those of its    *)
(* section alone, and the first chunk of a section sets them.              *)
LEMMA BoundedStart ==
  ASSUME NEW i
  PROVE  BoundedUpTo(i, 0, NoSections)
  BY DEF BoundedUpTo, NoSections

LEMMA BoundedSkip ==
  ASSUME NEW i, NEW n \in 0 .. SlotCount - 1, NEW S,
         ~Accepted(i, Slot(n)), BoundedUpTo(i, n, S)
  PROVE  BoundedUpTo(i, n + 1, S)
<1>1. AcceptedBefore(i, n + 1) = AcceptedBefore(i, n)
  BY AcceptedStep
<1>2. \A s : InsideUpTo(i, n + 1, s) = InsideUpTo(i, n, s)
  BY <1>1 DEF InsideUpTo
<1> QED
  BY <1>2 DEF BoundedUpTo

(* One more chunk. *)
LEMMA SpansMore ==
  ASSUME NEW chunk, NEW L, NEW l, \A c \in L \cup {l} : chunk[c].min_y \in Int /\ chunk[c].max_y \in Int,
         NEW sec, sec.min_y \in Int, sec.max_y \in Int, SpansChunks(sec, chunk, L),
         NEW new, new.min_y = LowerMin(sec.min_y, chunk[l].min_y), new.max_y = RaiseMax(sec.max_y, chunk[l].max_y)
  PROVE  SpansChunks(new, chunk, L \cup {l})
<1> DEFINE M == L \cup {l}
           MarkedIn(V) == (\E c \in V : chunk[c].min_y = 0) /\ \A c \in V : 0 <= chunk[c].min_y
<1>1. chunk[l].min_y \in Int /\ chunk[l].max_y \in Int
  OBVIOUS
<1>2. \A c \in M : chunk[c].max_y <= new.max_y
  <2>1. new.max_y \in Int /\ new.max_y >= sec.max_y /\ new.max_y >= chunk[l].max_y
    BY <1>1 DEF RaiseMax
  <2> QED
    BY <2>1 DEF SpansChunks
<1>3. new.max_y = 0 \/ \E c \in M : chunk[c].max_y = new.max_y
  BY DEF RaiseMax, SpansChunks
<1>4. \E c \in M : chunk[c].min_y = new.min_y
  BY DEF LowerMin, SpansChunks
<1>5. (\A c \in M : new.min_y <= chunk[c].min_y) \/ MarkedIn(M)
  <2>1. PICK a \in L : chunk[a].min_y = sec.min_y
    BY DEF SpansChunks
  <2>2. CASE \A c \in L : sec.min_y <= chunk[c].min_y
    <3>1. CASE sec.min_y = 0 /\ 0 <= chunk[l].min_y
      BY <2>1, <2>2, <3>1
    <3>2. CASE ~(sec.min_y = 0 /\ 0 <= chunk[l].min_y)
      <4>1. new.min_y \in Int /\ new.min_y <= sec.min_y /\ new.min_y <= chunk[l].min_y
        BY <1>1, <3>2 DEF LowerMin
      <4> QED
        BY <2>2, <4>1
    <3> QED
      BY <3>1, <3>2
  <2>3. CASE MarkedIn(L)
    <3>1. 0 <= sec.min_y
      BY <2>1, <2>3
    <3>2. CASE chunk[l].min_y < 0
      <4>1. new.min_y = chunk[l].min_y
        BY <1>1, <3>1, <3>2 DEF LowerMin
      <4> QED
        BY <1>1, <2>3, <3>2, <4>1
    <3>3. CASE 0 <= chunk[l].min_y
      BY <2>3, <3>3
    <3> QED
      BY <1>1, <3>2, <3>3
  <2> QED
    BY <2>2, <2>3 DEF SpansChunks
<1> QED
  BY <1>2, <1>3, <1>4, <1>5 DEF SpansChunks

LEMMA BoundedPlace ==
  ASSUME TypeOK, NEW i \in TaskIds, NEW n \in 0 .. SlotCount - 1, NEW S \in LocalSections,
         Accepted(i, Slot(n)), AssembledUpTo(i, n, S), BoundedUpTo(i, n, S)
  PROVE  BoundedUpTo(i, n + 1, WithChunk(S, tasks[i], Slot(n), VoxelGrid(i, Slot(n))))
<1> DEFINE l == Slot(n)
           sl == LocalSec(l)
           chunk == tasks[i].chunk
           grid == VoxelGrid(i, l)
           T == WithChunk(S, tasks[i], l, grid)
           old == IF S[sl] = NoSection THEN FreshSection(tasks[i], sl) ELSE S[sl]
<1>1. l \in Locals /\ sl \in SecIdx
  BY SlotCorrect, LocalSecType
<1>2. AcceptedBefore(i, n + 1) = AcceptedBefore(i, n) \cup {l}
  BY AcceptedStep
<1>3. \A s \in SecIdx : InsideUpTo(i, n + 1, s) = IF s = sl THEN InsideUpTo(i, n, s) \cup {l} ELSE InsideUpTo(i, n, s)
  BY <1>1, <1>2, InSectionLemma DEF InsideUpTo
<1>4. \A s \in SecIdx : S[s] = NoSection => InsideUpTo(i, n, s) = {}
  BY DEF AssembledUpTo, InsideUpTo
<1>5. \A c \in Locals : chunk[c].min_y \in Int /\ chunk[c].max_y \in Int
  <2>1. tasks[i] \in Region
    BY Positions, <1>1
  <2>2. chunk \in [Locals -> Chunk]
    BY <2>1 DEF Region
  <2> HIDE DEF chunk
  <2>3. \A c \in Locals : chunk[c] \in Chunk
    BY <2>2
  <2> QED
    BY <2>3 DEF Chunk
<1>6. \A s : InsideUpTo(i, n, s) \subseteq Locals
  BY DEF InsideUpTo, AcceptedBefore
<1>7. old \in Section /\ (S[sl] = NoSection => old.min_y = 0 /\ old.max_y = 0)
  <2>1. tasks[i] \in Region
    BY Positions, <1>1
  <2>2. FreshSection(tasks[i], sl) \in Section
    BY <1>1, <2>1, FreshSectionType
  <2> QED
    BY <1>1, <2>2 DEF LocalSections, FreshSection, NewEmpty
<1>8. old.min_y \in Int /\ old.max_y \in Int
  BY <1>7 DEF Section
<1>9. /\ T[sl].min_y = LowerMin(old.min_y, chunk[l].min_y) /\ T[sl].max_y = RaiseMax(old.max_y, chunk[l].max_y)
      /\ \A s \in SecIdx : s # sl => T[s] = S[s]
  <2>1. T = [S EXCEPT ![sl] = PlaceGrid(old, ChunkRel(l)[1], ChunkRel(l)[2], grid)]
    BY DEF WithChunk
  <2>2. grid.min_y = chunk[l].min_y /\ grid.max_y = chunk[l].max_y
    BY DEF VoxelGrid
  <2> HIDE DEF old, grid, sl
  <2>3. T[sl] = PlaceGrid(old, ChunkRel(l)[1], ChunkRel(l)[2], grid) /\ \A s \in SecIdx : s # sl => T[s] = S[s]
    BY <1>1, <2>1 DEF LocalSections
  <2> QED
    BY <1>7, <2>2, <2>3 DEF PlaceGrid, WithHeights, Section
<1> HIDE DEF l, sl, T, old, grid
<1> DEFINE L == InsideUpTo(i, n, sl)
<1>10. ASSUME NEW s \in SecIdx, T[s] # NoSection, s # sl
       PROVE  SpansChunks(T[s], chunk, InsideUpTo(i, n + 1, s))
  BY <1>3, <1>9, <1>10 DEF BoundedUpTo
<1>11. InsideUpTo(i, n + 1, sl) = L \cup {l}
  BY <1>1, <1>3
<1>12. \A c \in L \cup {l} : chunk[c].min_y \in Int /\ chunk[c].max_y \in Int
  BY <1>1, <1>5, <1>6
<1>13. CASE S[sl] = NoSection
  <2>1. old.min_y = 0 /\ old.max_y = 0 /\ L = {}
    BY <1>1, <1>4, <1>7, <1>13
  <2>2. T[sl].min_y = chunk[l].min_y /\ T[sl].max_y >= chunk[l].max_y /\ T[sl].max_y \in {0, chunk[l].max_y}
    BY <1>9, <1>12, <2>1 DEF LowerMin, RaiseMax
  <2>3. SpansChunks(T[sl], chunk, {l})
    BY <1>12, <2>2 DEF SpansChunks
  <2> QED
    BY <1>10, <1>11, <2>1, <2>3 DEF BoundedUpTo, T, grid, l, chunk
<1>14. CASE S[sl] # NoSection
  <2>1. old = S[sl] /\ SpansChunks(old, chunk, L)
    BY <1>1, <1>14 DEF BoundedUpTo, old
  <2> HIDE DEF L, chunk
  <2>2. SpansChunks(T[sl], chunk, L \cup {l})
    BY <1>8, <1>9, <1>12, <2>1, SpansMore
  <2> QED
    BY <1>10, <1>11, <2>2 DEF BoundedUpTo, T, grid, l, chunk, L
<1> QED
  BY <1>13, <1>14

(* Both, as one predicate of a task, a slot and the sections.              *)
LEMMA BakedStart ==
  ASSUME NEW i
  PROVE  BakedUpTo(i, 0, NoSections)
  BY StartCorrect, BoundedStart DEF BakedUpTo

LEMMA BakedSkip ==
  ASSUME NEW i, NEW n \in 0 .. SlotCount - 1, NEW S, ~Accepted(i, Slot(n)), BakedUpTo(i, n, S)
  PROVE  BakedUpTo(i, n + 1, S)
  BY SkipCorrect, BoundedSkip DEF BakedUpTo

LEMMA BakedPlace ==
  ASSUME TypeOK, NEW i \in TaskIds, NEW n \in 0 .. SlotCount - 1, NEW S \in LocalSections,
         Accepted(i, Slot(n)), BakedUpTo(i, n, S)
  PROVE  BakedUpTo(i, n + 1, WithChunk(S, tasks[i], Slot(n), VoxelGrid(i, Slot(n))))
  BY PlaceCorrect, BoundedPlace DEF BakedUpTo
-----------------------------------------------------------------------------
(* What the sections must hold depends on the inputs of the stage only. *)
LEMMA InputsFixed ==
  ASSUME UNCHANGED inputs, NEW i, NEW n, NEW S
  PROVE  AssembledUpTo(i, n, S)' <=> AssembledUpTo(i, n, S)
<1>1. tasks' = tasks /\ box' = box
  BY DEF inputs
<1>2. \A l : Accepted(i, l)' <=> Accepted(i, l)
  BY <1>1 DEF Accepted
<1>3. AcceptedBefore(i, n)' = AcceptedBefore(i, n)
  BY <1>2 DEF AcceptedBefore
<1>4. \A l, bx, bz : Shows(i, l, bx, bz)' <=> Shows(i, l, bx, bz)
  BY <1>1 DEF Shows
<1>5. \A bx, bz : ReferenceColumn(i, n, bx, bz)' = ReferenceColumn(i, n, bx, bz)
  BY <1>3, <1>4 DEF ReferenceColumn
<1> QED
  BY <1>1, <1>3, <1>5 DEF AssembledUpTo

LEMMA BakedFixed ==
  ASSUME UNCHANGED inputs, NEW i, NEW n, NEW S
  PROVE  BakedUpTo(i, n, S)' <=> BakedUpTo(i, n, S)
<1>1. tasks' = tasks /\ box' = box
  BY DEF inputs
<1>2. \A l : Accepted(i, l)' <=> Accepted(i, l)
  BY <1>1 DEF Accepted
<1>3. \A s : InsideUpTo(i, n, s)' = InsideUpTo(i, n, s)
  BY <1>2 DEF AcceptedBefore, InsideUpTo
<1>4. BoundedUpTo(i, n, S)' <=> BoundedUpTo(i, n, S)
  BY <1>1, <1>3 DEF BoundedUpTo
<1> QED
  BY <1>4, InputsFixed DEF BakedUpTo

LEMMA TypesFixed ==
  ASSUME UNCHANGED inputs
  PROVE  /\ TaskIds' = TaskIds /\ Payload' = Payload /\ HashEntry' = HashEntry
         /\ Job' = Job /\ Result' = Result
<1>1. TaskIds' = TaskIds
  BY DEF inputs, TaskIds
<1>2. Payload' = Payload
  BY <1>1 DEF Payload
<1>3. HashEntry' = HashEntry
  BY <1>2 DEF HashEntry
<1> QED
  BY <1>1, <1>2, <1>3 DEF Job, Result

(* The slot a worker scans, and the task it is on. *)
LEMMA Current ==
  ASSUME TypeOK, NEW w \in Workers, Scanning(w)
  PROVE  /\ job[w] \in Job /\ job[w].task \in TaskIds /\ job[w].next \in 0 .. SlotCount - 1
         /\ job[w].next + 1 \in 0 .. SlotCount
         /\ CurLocal(w) \in Locals
         /\ CurTask(w) = tasks[job[w].task]
<1>1. job[w] \in Job
  BY DEF TypeOK
<1>2. /\ job[w].task \in TaskIds /\ job[w].next \in 0 .. SlotCount - 1
      /\ job[w].next + 1 \in 0 .. SlotCount
  BY <1>1, Sizes DEF Job, Scanning
<1> QED
  BY <1>1, <1>2, SlotCorrect DEF CurLocal, CurTask

LEMMA NoSectionsType == NoSections \in LocalSections
  BY DEF NoSections, LocalSections

LEMMA IdleJobType == IdleJob \in Job
<1>1. 0 \in 0 .. SlotCount
  BY Sizes
<1> QED
  BY <1>1, NoSectionsType DEF IdleJob, Job

LEMMA PendingType == Pending \in Result /\ Dropped \in Result
  BY NoSectionsType DEF Pending, Dropped, Result

LEMMA InitType ==
  ASSUME Init
  PROVE  TypeOK
<1>1. tasks \in Seq(Region) /\ box \in Box
  BY BakeAssumption DEF Init
<1>2. job \in [Workers -> Job]
  BY IdleJobType DEF Init
<1>3. results \in [TaskIds -> Result]
  BY NoSectionsType DEF Init, Result, Pending
<1>4. scratch \in [Workers -> Seq(Payload)]
  BY DEF Init
<1> QED
  BY <1>1, <1>2, <1>3, <1>4 DEF Init, TypeOK

LEMMA TypeStep ==
  ASSUME TypeOK, [Next]_vars
  PROVE  TypeOK'
<1>1. UNCHANGED inputs
  BY DEF Next, vars, WorkerStep, OpenRegion, OpenFails, SkipUnread, SkipUnparsable, PlaceChunk,
         FinishRegion, Collect, Finished
<1>2. tasks' \in Seq(Region) /\ box' \in Box
  BY <1>1 DEF inputs, TypeOK
<1>3. /\ TaskIds' = TaskIds /\ Payload' = Payload /\ HashEntry' = HashEntry
      /\ Job' = Job /\ Result' = Result
  BY <1>1, TypesFixed
<1> USE <1>2, <1>3
<1>4. ASSUME NEW w \in Workers, NEW i \in TaskIds, OpenRegion(w, i)
      PROVE  TypeOK'
  <2>1. job' \in [Workers -> Job]
    <3>1. [IdleJob EXCEPT !.task = i] \in Job
      BY IdleJobType DEF IdleJob, Job
    <3> QED
      BY <1>4, <3>1 DEF OpenRegion, TypeOK
  <2> QED
    BY <1>4, <2>1 DEF OpenRegion, TypeOK, Claim, outputs
<1>5. ASSUME NEW w \in Workers, NEW i \in TaskIds, OpenFails(w, i)
      PROVE  TypeOK'
  <2>1. results' \in [TaskIds -> Result]
    BY <1>5, PendingType DEF OpenFails, TypeOK
  <2> QED
    BY <1>5, <2>1 DEF OpenFails, TypeOK, Claim, outputs
<1>6. ASSUME NEW w \in Workers, SkipUnread(w)
      PROVE  TypeOK'
  <2>1. job' \in [Workers -> Job]
    BY <1>6, Current DEF SkipUnread, Advance, TypeOK, Job
  <2> QED
    BY <1>6, <2>1 DEF SkipUnread, TypeOK, outputs
<1>7. ASSUME NEW w \in Workers, SkipUnparsable(w)
      PROVE  TypeOK'
  <2>1. job' \in [Workers -> Job]
    BY <1>7, Current DEF SkipUnparsable, Advance, TypeOK, Job
  <2>2. scratch' \in [Workers -> Seq(Payload)]
    <3>1. [task |-> job[w].task, local |-> CurLocal(w)] \in Payload
      BY <1>7, Current DEF SkipUnparsable, Payload
    <3> QED
      BY <1>7, <3>1 DEF SkipUnparsable, Decompressed, TypeOK
  <2> QED
    BY <1>7, <2>1, <2>2 DEF SkipUnparsable, TypeOK, outputs
<1>8. ASSUME NEW w \in Workers, PlaceChunk(w)
      PROVE  TypeOK'
  <2> DEFINE i == job[w].task
             l == CurLocal(w)
             payload == [task |-> i, local |-> l]
             hash == [chunk_x |-> ChunkX(CurTask(w), l), chunk_z |-> ChunkZ(CurTask(w), l),
                      hash |-> payload]
             T == WithChunk(job[w].sections, CurTask(w), l, VoxelGrid(i, l))
  <2>1. /\ job[w] \in Job /\ i \in TaskIds /\ job[w].next + 1 \in 0 .. SlotCount
        /\ l \in Locals /\ CurTask(w) = tasks[i]
    BY <1>8, Current DEF PlaceChunk
  <2>2. payload \in Payload
    BY <2>1 DEF Payload
  <2>3. hash \in HashEntry
    BY <2>1, <2>2, Positions DEF HashEntry
  <2>4. T \in LocalSections
    BY <2>1, WithChunkType DEF Job
  <2>5. /\ scratch' = [scratch EXCEPT ![w] = <<payload>>]
        /\ job' = [job EXCEPT ![w].next = @ + 1, ![w].sections = T,
                              ![w].hashes = Append(@, hash), ![w].count = @ + 1]
    BY <1>8 DEF PlaceChunk, Decompressed
  <2> HIDE DEF payload, hash, T
  <2>6. scratch' \in [Workers -> Seq(Payload)]
    BY <2>2, <2>5 DEF TypeOK
  <2>7. job' \in [Workers -> Job]
    <3> DEFINE j == [task |-> i, next |-> job[w].next + 1, sections |-> T,
                     hashes |-> Append(job[w].hashes, hash), count |-> job[w].count + 1]
    <3>1. j \in Job
      <4>1. Append(job[w].hashes, hash) \in Seq(HashEntry)
        BY <2>1, <2>3 DEF Job
      <4> QED
        BY <2>1, <2>4, <4>1 DEF Job
    <3>2. job' \in [Workers -> Job]
      <4>1. job \in [Workers -> Job]
        BY DEF TypeOK
      <4>2. job'[w] = j
        BY <2>1, <2>5, <4>1 DEF Job
      <4>3. \A v \in Workers : v # w => job'[v] = job[v]
        BY <2>5, <4>1
      <4>4. DOMAIN job' = Workers /\ job' = [v \in DOMAIN job' |-> job'[v]]
        BY <2>5, <4>1
      <4> HIDE DEF j
      <4> QED
        BY <3>1, <4>1, <4>2, <4>3, <4>4
    <3> QED
      BY <3>2
  <2> QED
    BY <1>8, <2>6, <2>7 DEF PlaceChunk, TypeOK, outputs
<1>9. ASSUME NEW w \in Workers, FinishRegion(w)
      PROVE  TypeOK'
  <2>1. job[w] \in Job
    BY DEF TypeOK
  <2>2. total' \in Nat
    BY <1>9, <2>1 DEF FinishRegion, Counter, TypeOK, Job
  <2>3. results' \in [TaskIds -> Result]
    BY <1>9, <2>1 DEF FinishRegion, ResultSlot, TypeOK, Job, Result
  <2>4. job' \in [Workers -> Job]
    BY <1>9, IdleJobType DEF FinishRegion, TypeOK
  <2> QED
    BY <1>9, <2>2, <2>3, <2>4 DEF FinishRegion, TypeOK, outputs
<1>10. ASSUME Collect
       PROVE  TypeOK'
  BY <1>10 DEF Collect, TypeOK
<1>11. ASSUME UNCHANGED vars
       PROVE  TypeOK'
  BY <1>11 DEF vars, outputs, TypeOK
<1> QED
  BY <1>4, <1>5, <1>6, <1>7, <1>8, <1>9, <1>10, <1>11 DEF Next, WorkerStep, Finished
-----------------------------------------------------------------------------
(* The inputs never change. *)
LEMMA InputsStep ==
  ASSUME [Next]_vars
  PROVE  UNCHANGED inputs
BY DEF Next, vars, WorkerStep, OpenRegion, OpenFails, SkipUnread, SkipUnparsable, PlaceChunk,
       FinishRegion, Collect, Finished

LEMMA ClaimedStep ==
  ASSUME TypeOK, ClaimedOnce, [Next]_vars
  PROVE  ClaimedOnce'
<1>0. TaskIds' = TaskIds
  BY InputsStep, TypesFixed
<1> USE <1>0
<1>1. ASSUME NEW w \in Workers, NEW i \in TaskIds, OpenRegion(w, i)
      PROVE  ClaimedOnce'
  BY <1>1 DEF OpenRegion, Claim, IdleJob, ClaimedOnce, TypeOK, TaskIds
<1>2. ASSUME NEW w \in Workers, NEW i \in TaskIds, OpenFails(w, i)
      PROVE  ClaimedOnce'
  BY <1>2 DEF OpenFails, Claim, Dropped, ClaimedOnce, TypeOK, TaskIds, Job
<1>3. ASSUME NEW w \in Workers, Advance(w), UNCHANGED <<unclaimed, results>>
      PROVE  ClaimedOnce'
  BY <1>3 DEF Advance, ClaimedOnce, TypeOK, Job
<1>4. ASSUME NEW w \in Workers, PlaceChunk(w)
      PROVE  ClaimedOnce'
  <2>1. \A v \in Workers : job'[v].task = job[v].task
    BY <1>4 DEF PlaceChunk, TypeOK, Job
  <2> QED
    BY <1>4, <2>1 DEF PlaceChunk, ClaimedOnce
<1>5. ASSUME NEW w \in Workers, FinishRegion(w)
      PROVE  ClaimedOnce'
  <2>1. job[w].task \in TaskIds
    BY <1>5 DEF FinishRegion, TypeOK, Job
  <2>2. /\ job'[w].task = 0
        /\ \A v \in Workers : v # w => job'[v] = job[v]
        /\ \A i \in TaskIds : i # job[w].task => results'[i] = results[i]
    BY <1>5 DEF FinishRegion, ResultSlot, IdleJob, TypeOK
  <2>3. unclaimed' = unclaimed
    BY <1>5 DEF FinishRegion
  <2>4. \A v \in Workers : job[v].task # 0 => job[v].task \in TaskIds
    BY DEF TypeOK, Job
  <2>5. unclaimed \subseteq TaskIds /\ 0 \notin TaskIds
    BY DEF TypeOK, TaskIds
  <2> QED
    BY <2>1, <2>2, <2>3, <2>4, <2>5 DEF ClaimedOnce
<1>6. CASE Collect
  BY <1>6 DEF Collect, ClaimedOnce
<1>7. CASE UNCHANGED vars
  BY <1>7 DEF vars, ClaimedOnce
<1> QED
  BY <1>1, <1>2, <1>3, <1>4, <1>5, <1>6, <1>7
     DEF Next, WorkerStep, SkipUnread, SkipUnparsable, Finished

LEMMA OpenedStep ==
  ASSUME TypeOK, OnlyOpened, [Next]_vars
  PROVE  OnlyOpened'
<1>0. tasks' = tasks
  BY InputsStep DEF inputs
<1> USE <1>0
<1>1. ASSUME NEW w \in Workers, NEW i \in TaskIds, OpenRegion(w, i)
      PROVE  OnlyOpened'
  BY <1>1 DEF OpenRegion, IdleJob, OnlyOpened, TypeOK
<1>2. ASSUME NEW w \in Workers, NEW i \in TaskIds, OpenFails(w, i)
      PROVE  OnlyOpened'
  BY <1>2 DEF OpenFails, OnlyOpened
<1>3. ASSUME NEW w \in Workers, Advance(w)
      PROVE  OnlyOpened'
  BY <1>3 DEF Advance, OnlyOpened, TypeOK, Job
<1>4. ASSUME NEW w \in Workers, PlaceChunk(w)
      PROVE  OnlyOpened'
  <2>1. \A v \in Workers : job'[v].task = job[v].task
    BY <1>4 DEF PlaceChunk, TypeOK, Job
  <2> QED
    BY <2>1 DEF OnlyOpened
<1>5. ASSUME NEW w \in Workers, FinishRegion(w)
      PROVE  OnlyOpened'
  BY <1>5 DEF FinishRegion, IdleJob, OnlyOpened, TypeOK
<1>6. CASE Collect
  BY <1>6 DEF Collect, OnlyOpened
<1>7. CASE UNCHANGED vars
  BY <1>7 DEF vars, OnlyOpened
<1> QED
  BY <1>1, <1>2, <1>3, <1>4, <1>5, <1>6, <1>7
     DEF Next, WorkerStep, SkipUnread, SkipUnparsable, Finished

(* Every step leaves every worker's sections baked up to its slot. *)
LEMMA BakedStep ==
  ASSUME TypeOK, ClaimedOnce, OnlyOpened, Baked, [Next]_vars
  PROVE  Baked'
<1> DEFINE JobsDone(j) == \A w \in Workers : j[w].task # 0 =>
                            BakedUpTo(j[w].task, j[w].next, j[w].sections)
           ResultsDone(r) == \A i \in TaskIds : r[i].done =>
                            IF tasks[i].opens THEN BakedUpTo(i, SlotCount, r[i].sections)
                            ELSE r[i].sections = NoSections
<1>1. JobsDone(job) /\ ResultsDone(results)
  BY DEF Baked
<1>2. /\ UNCHANGED inputs /\ tasks' = tasks /\ TaskIds' = TaskIds
      /\ \A i, n, S : BakedUpTo(i, n, S)' <=> BakedUpTo(i, n, S)
  BY InputsStep, BakedFixed, TypesFixed DEF inputs
<1>3. ASSUME JobsDone(job'), ResultsDone(results')
      PROVE  Baked'
  BY <1>2, <1>3 DEF Baked
<1>4. \A v \in Workers : job[v] \in Job
  BY DEF TypeOK
<1>5. ASSUME NEW w \in Workers, NEW i \in TaskIds, OpenRegion(w, i)
      PROVE  Baked'
  <2>1. JobsDone(job')
    BY <1>1, <1>5, BakedStart DEF OpenRegion, IdleJob, TypeOK
  <2> QED
    BY <1>1, <1>3, <1>5, <2>1 DEF OpenRegion
<1>6. ASSUME NEW w \in Workers, NEW i \in TaskIds, OpenFails(w, i)
      PROVE  Baked'
  <2>1. ResultsDone(results')
    BY <1>1, <1>6 DEF OpenFails, Dropped, TypeOK
  <2> QED
    BY <1>1, <1>3, <1>6, <2>1 DEF OpenFails
<1>7. ASSUME NEW w \in Workers, SkipUnread(w) \/ SkipUnparsable(w)
      PROVE  Baked'
  <2> DEFINE i == job[w].task
             n == job[w].next
  <2>1. /\ Scanning(w) /\ results' = results
        /\ job' = [job EXCEPT ![w].next = n + 1]
    BY <1>7 DEF SkipUnread, SkipUnparsable, Advance
  <2>2. /\ i \in TaskIds /\ i # 0 /\ n \in 0 .. SlotCount - 1
        /\ CurTask(w) = tasks[i]
    BY <2>1, Current DEF Scanning
  <2>3. ~Accepted(i, Slot(n))
    BY <1>7, <2>2 DEF Accepted, SkipUnread, SkipUnparsable, CurChunk, CurInBox, CurLocal
  <2>4. BakedUpTo(i, n + 1, job[w].sections)
    BY <1>1, <2>2, <2>3, BakedSkip
  <2>5. JobsDone(job')
    <3>1. /\ job'[w].task = i /\ job'[w].next = n + 1 /\ job'[w].sections = job[w].sections
          /\ \A v \in Workers : v # w => job'[v] = job[v]
      BY <1>4, <2>1 DEF TypeOK, Job
    <3> QED
      BY <1>1, <2>4, <3>1
  <2> QED
    BY <1>1, <1>3, <2>1, <2>5
<1>8. ASSUME NEW w \in Workers, PlaceChunk(w)
      PROVE  Baked'
  <2> DEFINE i == job[w].task
             n == job[w].next
             T == WithChunk(job[w].sections, tasks[i], Slot(n), VoxelGrid(i, Slot(n)))
  <2>1. Scanning(w) /\ results' = results
    BY <1>8 DEF PlaceChunk
  <2>2. /\ i \in TaskIds /\ i # 0 /\ n \in 0 .. SlotCount - 1
        /\ CurTask(w) = tasks[i] /\ CurLocal(w) = Slot(n)
        /\ job[w].sections \in LocalSections
    BY <1>4, <2>1, Current DEF Scanning, CurLocal, Job
  <2>3. Accepted(i, Slot(n))
    BY <1>8, <2>2 DEF Accepted, PlaceChunk, CurChunk, CurInBox
  <2>4. BakedUpTo(i, n + 1, T)
    BY <1>1, <2>2, <2>3, BakedPlace
  <2>5. /\ job'[w].task = i /\ job'[w].next = n + 1 /\ job'[w].sections = T
        /\ \A v \in Workers : v # w => job'[v] = job[v]
    BY <1>4, <1>8, <2>2 DEF PlaceChunk, Decompressed, TypeOK, Job
  <2> HIDE DEF T
  <2>6. JobsDone(job')
    BY <1>1, <2>4, <2>5
  <2> QED
    BY <1>1, <1>3, <2>1, <2>6
<1>9. ASSUME NEW w \in Workers, FinishRegion(w)
      PROVE  Baked'
  <2> DEFINE i == job[w].task
  <2>1. i \in TaskIds /\ i # 0 /\ tasks[i].opens /\ job[w].next = SlotCount
    BY <1>4, <1>9 DEF FinishRegion, OnlyOpened, Job
  <2>2. BakedUpTo(i, SlotCount, job[w].sections)
    BY <1>1, <2>1
  <2>3. /\ results'[i].sections = job[w].sections
        /\ \A k \in TaskIds : k # i => results'[k] = results[k]
        /\ job'[w].task = 0
        /\ \A v \in Workers : v # w => job'[v] = job[v]
    BY <1>9, <2>1 DEF FinishRegion, ResultSlot, IdleJob, TypeOK
  <2>4. JobsDone(job') /\ ResultsDone(results')
    BY <1>1, <2>1, <2>2, <2>3
  <2> QED
    BY <1>3, <2>4
<1>10. CASE Collect
  BY <1>1, <1>3, <1>10 DEF Collect
<1>11. CASE UNCHANGED vars
  BY <1>1, <1>3, <1>11 DEF vars
<1> QED
  BY <1>5, <1>6, <1>7, <1>8, <1>9, <1>10, <1>11 DEF Next, WorkerStep, Finished
-----------------------------------------------------------------------------
(* The hash list a worker grows is the recursive reference one.            *)
LEMMA HashOfType ==
  ASSUME TypeOK, NEW i \in TaskIds, NEW l \in Locals
  PROVE  HashOf(i, l) \in HashEntry
BY Positions DEF HashOf, HashEntry, Payload

LEMMA HashesRecursive ==
  ASSUME TypeOK, NEW i \in TaskIds
  PROVE  /\ HashesUpTo(i)[0] = <<>>
         /\ \A n \in 0 .. SlotCount - 1 : HashesUpTo(i)[n + 1] =
              IF Accepted(i, Slot(n)) THEN Append(HashesUpTo(i)[n], HashOf(i, Slot(n)))
              ELSE HashesUpTo(i)[n]
         /\ \A n \in 0 .. SlotCount : HashesUpTo(i)[n] \in Seq(HashEntry)
<1> DEFINE V == Seq(HashEntry)
           F == [p \in V \X Nat |->
                   IF p[2] \in 1 .. SlotCount
                   THEN IF Accepted(i, Slot(p[2] - 1))
                        THEN Append(p[1], HashOf(i, Slot(p[2] - 1)))
                        ELSE p[1]
                   ELSE p[1]]
<1>1. SlotCount \in Nat
  BY Sizes
<1>2. \A n \in 1 .. SlotCount : Slot(n - 1) \in Locals /\ HashOf(i, Slot(n - 1)) \in HashEntry
  <2> TAKE n \in 1 .. SlotCount
  <2>1. n - 1 \in 0 .. SlotCount - 1
    BY <1>1
  <2>2. Slot(n - 1) \in Locals
    BY <2>1, SlotCorrect
  <2> QED
    BY <2>2, HashOfType
<1>3. F \in [V \X Nat -> V]
  <2> SUFFICES ASSUME NEW p \in V \X Nat
               PROVE  (IF p[2] \in 1 .. SlotCount
                       THEN IF Accepted(i, Slot(p[2] - 1))
                            THEN Append(p[1], HashOf(i, Slot(p[2] - 1)))
                            ELSE p[1]
                       ELSE p[1]) \in V
    OBVIOUS
  <2>1. p[1] \in V
    OBVIOUS
  <2> QED
    BY <1>2, <2>1, AppendProperties
<1>4. <<>> \in V
  OBVIOUS
<1> HIDE DEF F
<1>5. PICK f : Recursive(V, <<>>, F, f, SlotCount)
  BY <1>1, <1>3, <1>4, RecursionExists
<1>6. f \in [0 .. SlotCount -> V] /\ f[0] = <<>>
  BY <1>5 DEF Recursive
<1>7. ASSUME NEW n \in 1 .. SlotCount
      PROVE  f[n] = IF Accepted(i, Slot(n - 1)) THEN Append(f[n - 1], HashOf(i, Slot(n - 1)))
                    ELSE f[n - 1]
  <2>1. n \in Nat /\ n - 1 \in 0 .. SlotCount
    BY <1>1
  <2>2. <<f[n - 1], n>> \in V \X Nat
    BY <1>6, <2>1
  <2>3. f[n] = F[<<f[n - 1], n>>]
    BY <1>5 DEF Recursive
  <2> HIDE DEF V
  <2> QED
    BY <2>2, <2>3 DEF F
<1> DEFINE Is(h) == h = [n \in 0 .. SlotCount |->
                           IF n = 0 THEN <<>>
                           ELSE IF Accepted(i, Slot(n - 1))
                                THEN Append(h[n - 1], HashOf(i, Slot(n - 1)))
                           ELSE h[n - 1]]
           c == CHOOSE h : Is(h)
<1>8. Is(f)
  <2>1. ASSUME NEW n \in 0 .. SlotCount
        PROVE  f[n] = IF n = 0 THEN <<>>
                      ELSE IF Accepted(i, Slot(n - 1))
                           THEN Append(f[n - 1], HashOf(i, Slot(n - 1)))
                      ELSE f[n - 1]
    <3>1. CASE n = 0
      BY <1>6, <3>1
    <3>2. CASE n # 0
      <4>1. n \in 1 .. SlotCount
        BY <1>1, <3>2
      <4> QED
        BY <1>7, <3>2, <4>1
    <3> QED
      BY <3>1, <3>2
  <2>2. f = [n \in 0 .. SlotCount |-> f[n]]
    BY <1>6
  <2> QED
    BY <2>1, <2>2
<1>9. Is(c)
  <2> HIDE DEF Is
  <2> QED
    BY <1>8
<1>10. HashesUpTo(i) = c
  BY DEF HashesUpTo
<1> HIDE DEF c
<1>11. c[0] = <<>>
  <2>1. 0 \in 0 .. SlotCount
    BY <1>1
  <2> QED
    BY <1>9, <2>1
<1>12. ASSUME NEW n \in 0 .. SlotCount - 1
       PROVE  c[n + 1] = IF Accepted(i, Slot(n)) THEN Append(c[n], HashOf(i, Slot(n))) ELSE c[n]
  <2>1. n + 1 \in 0 .. SlotCount /\ n + 1 # 0 /\ (n + 1) - 1 = n
    BY <1>1
  <2> QED
    BY <1>9, <2>1
<1> HIDE DEF Is
<1> DEFINE T == {n \in Nat : n \in 0 .. SlotCount => c[n] \in V}
<1>13. 0 \in T
  BY <1>4, <1>11
<1>14. ASSUME NEW n \in Nat, n \in T PROVE n + 1 \in T
  <2>1. ASSUME n + 1 \in 0 .. SlotCount PROVE c[n + 1] \in V
    <3>1. n \in 0 .. SlotCount - 1 /\ n \in 0 .. SlotCount
      BY <1>1, <2>1
    <3>2. c[n] \in V
      BY <1>14, <3>1
    <3>3. HashOf(i, Slot(n)) \in HashEntry
      BY <3>1, SlotCorrect, HashOfType
    <3>4. Append(c[n], HashOf(i, Slot(n))) \in V
      BY <3>2, <3>3, AppendProperties
    <3> QED
      BY <1>12, <3>1, <3>2, <3>4
  <2> QED
    BY <2>1
<1> HIDE DEF T
<1>15. Nat \subseteq T
  BY <1>13, <1>14, SetInduction
<1>16. \A n \in 0 .. SlotCount : c[n] \in V
  <2> TAKE n \in 0 .. SlotCount
  <2>1. n \in Nat
    BY <1>1
  <2> QED
    BY <1>15, <2>1 DEF T
<1> QED
  BY <1>10, <1>11, <1>12, <1>16
-----------------------------------------------------------------------------
LEMMA HashesFixed ==
  ASSUME UNCHANGED inputs, NEW i
  PROVE  HashesUpTo(i)' = HashesUpTo(i) /\ ReferenceHashes(i)' = ReferenceHashes(i)
<1>1. tasks' = tasks /\ box' = box
  BY DEF inputs
<1> HIDE DEF vars
<1>2. HashesUpTo(i)' = HashesUpTo(i)
  BY <1>1 DEF HashesUpTo, Accepted, HashOf
<1> QED
  BY <1>1, <1>2 DEF ReferenceHashes

(* Every step keeps the hash lists and the counter what they should be.    *)
LEMMA HashedStep ==
  ASSUME TypeOK, ClaimedOnce, OnlyOpened, Hashed, [Next]_vars
  PROVE  Hashed'
<1> DEFINE Lists(r) == [i \in TaskIds |-> r[i].hashes]
           Growing(j) == \A w \in Workers : j[w].task # 0 =>
                           /\ j[w].hashes = HashesUpTo(j[w].task)[j[w].next]
                           /\ j[w].count = Len(j[w].hashes)
           Returned(r) == \A i \in TaskIds :
                            r[i].hashes = IF r[i].done THEN ReferenceHashes(i) ELSE <<>>
           Counted(r, t) == t = Len(FlattenSeq(Lists(r)))
<1>1. Growing(job) /\ Returned(results) /\ Counted(results, total)
  BY DEF Hashed
<1>2. /\ UNCHANGED inputs /\ tasks' = tasks /\ TaskIds' = TaskIds
      /\ \A i : HashesUpTo(i)' = HashesUpTo(i) /\ ReferenceHashes(i)' = ReferenceHashes(i)
  BY InputsStep, HashesFixed, TypesFixed DEF inputs
<1>3. ASSUME Growing(job'), Returned(results'), Counted(results', total')
      PROVE  Hashed'
  BY <1>2, <1>3 DEF Hashed
<1>4. \A v \in Workers : job[v] \in Job
  BY DEF TypeOK
<1>5. ASSUME NEW w \in Workers, NEW i \in TaskIds, OpenRegion(w, i)
      PROVE  Hashed'
  <2>1. /\ job'[w].hashes = <<>> /\ job'[w].count = 0 /\ job'[w].next = 0 /\ job'[w].task = i
        /\ \A v \in Workers : v # w => job'[v] = job[v]
    BY <1>5 DEF OpenRegion, IdleJob, TypeOK
  <2>2. HashesUpTo(i)[0] = <<>> /\ Len(<<>>) = 0
    BY HashesRecursive
  <2>3. Growing(job')
    BY <1>1, <2>1, <2>2
  <2>4. results' = results /\ total' = total
    BY <1>5 DEF OpenRegion
  <2> QED
    BY <1>1, <1>3, <2>3, <2>4
<1>6. ASSUME NEW w \in Workers, NEW i \in TaskIds, OpenFails(w, i)
      PROVE  Hashed'
  <2>1. /\ results'[i].hashes = <<>> /\ results'[i].done
        /\ \A k \in TaskIds : k # i => results'[k] = results[k]
        /\ job' = job /\ total' = total /\ ~tasks[i].opens /\ i \in unclaimed
    BY <1>6 DEF OpenFails, Dropped, TypeOK
  <2>2. Returned(results')
    BY <1>1, <2>1 DEF ReferenceHashes
  <2>3. results[i].hashes = <<>>
    BY <1>1, <2>1 DEF ClaimedOnce
  <2>4. Lists(results') = Lists(results)
    BY <2>1, <2>3
  <2> QED
    BY <1>1, <1>3, <2>1, <2>2, <2>4
<1>7. ASSUME NEW w \in Workers, SkipUnread(w) \/ SkipUnparsable(w)
      PROVE  Hashed'
  <2> DEFINE i == job[w].task
             n == job[w].next
  <2>1. /\ Scanning(w) /\ results' = results /\ total' = total
        /\ job' = [job EXCEPT ![w].next = n + 1]
    BY <1>7 DEF SkipUnread, SkipUnparsable, Advance
  <2>2. /\ i \in TaskIds /\ i # 0 /\ n \in 0 .. SlotCount - 1
        /\ CurTask(w) = tasks[i]
    BY <2>1, Current DEF Scanning
  <2>3. ~Accepted(i, Slot(n))
    BY <1>7, <2>2 DEF Accepted, SkipUnread, SkipUnparsable, CurChunk, CurInBox, CurLocal
  <2>4. HashesUpTo(i)[n + 1] = HashesUpTo(i)[n]
    BY <2>2, <2>3, HashesRecursive
  <2>5. /\ job'[w].task = i /\ job'[w].next = n + 1 /\ job'[w].hashes = job[w].hashes
        /\ job'[w].count = job[w].count
        /\ \A v \in Workers : v # w => job'[v] = job[v]
    BY <1>4, <2>1 DEF TypeOK, Job
  <2>6. Growing(job')
    BY <1>1, <2>2, <2>4, <2>5
  <2> QED
    BY <1>1, <1>3, <2>1, <2>6
<1>8. ASSUME NEW w \in Workers, PlaceChunk(w)
      PROVE  Hashed'
  <2> DEFINE i == job[w].task
             n == job[w].next
  <2>1. Scanning(w) /\ results' = results /\ total' = total
    BY <1>8 DEF PlaceChunk
  <2>2. /\ i \in TaskIds /\ i # 0 /\ n \in 0 .. SlotCount - 1
        /\ CurTask(w) = tasks[i] /\ CurLocal(w) = Slot(n) /\ Slot(n) \in Locals
        /\ job[w].hashes \in Seq(HashEntry)
    BY <1>4, <2>1, Current DEF Scanning, CurLocal, Job
  <2>3. Accepted(i, Slot(n))
    BY <1>8, <2>2 DEF Accepted, PlaceChunk, CurChunk, CurInBox
  <2>4. HashesUpTo(i)[n + 1] = Append(HashesUpTo(i)[n], HashOf(i, Slot(n)))
    BY <2>2, <2>3, HashesRecursive
  <2>5. /\ job'[w].task = i /\ job'[w].next = n + 1
        /\ job'[w].hashes = Append(job[w].hashes, HashOf(i, Slot(n)))
        /\ job'[w].count = job[w].count + 1
        /\ \A v \in Workers : v # w => job'[v] = job[v]
    BY <1>4, <1>8, <2>2 DEF PlaceChunk, Decompressed, TypeOK, Job, HashOf
  <2>6. Len(job'[w].hashes) = Len(job[w].hashes) + 1
    BY <2>2, <2>5, HashOfType, AppendProperties
  <2>7. Growing(job')
    BY <1>1, <2>2, <2>4, <2>5, <2>6
  <2> QED
    BY <1>1, <1>3, <2>1, <2>7
<1>9. ASSUME NEW w \in Workers, FinishRegion(w)
      PROVE  Hashed'
  <2> DEFINE i == job[w].task
  <2>1. /\ i \in TaskIds /\ i # 0 /\ tasks[i].opens /\ job[w].next = SlotCount
        /\ ~results[i].done /\ job[w].hashes \in Seq(HashEntry)
    BY <1>4, <1>9 DEF FinishRegion, OnlyOpened, Job, ClaimedOnce
  <2>2. /\ job[w].hashes = ReferenceHashes(i) /\ job[w].count = Len(job[w].hashes)
    BY <1>1, <2>1 DEF ReferenceHashes
  <2>3. /\ results'[i].hashes = job[w].hashes /\ results'[i].done
        /\ \A k \in TaskIds : k # i => results'[k] = results[k]
        /\ job'[w].task = 0 /\ total' = total + job[w].count
        /\ \A v \in Workers : v # w => job'[v] = job[v]
    BY <1>9, <2>1 DEF FinishRegion, ResultSlot, IdleJob, TypeOK, Counter
  <2>4. Growing(job') /\ Returned(results')
    BY <1>1, <2>1, <2>2, <2>3
  <2>5. Counted(results', total')
    <3> DEFINE ss == Lists(results)
    <3>1. TaskIds = 1 .. Len(tasks) /\ Len(tasks) \in Nat
      BY DEF TaskIds, TypeOK
    <3>2. \A k \in TaskIds : results[k].hashes \in Seq(HashEntry)
      BY DEF TypeOK, Result
    <3>3. ss \in Seq(Seq(HashEntry)) /\ Len(ss) = Len(tasks)
      BY <3>1, <3>2
    <3>4. ss[i] = <<>>
      BY <1>1, <2>1
    <3>5. Lists(results') = [ss EXCEPT ![i] = job[w].hashes]
      BY <2>1, <2>3
    <3>6. i \in 1 .. Len(ss)
      BY <2>1, <3>1, <3>3
    <3> HIDE DEF ss
    <3>7. Len(FlattenSeq([ss EXCEPT ![i] = job[w].hashes])) = Len(FlattenSeq(ss)) + Len(job[w].hashes)
      BY <2>1, <3>3, <3>4, <3>6, FlattenReplace
    <3> QED
      BY <1>1, <2>2, <2>3, <3>5, <3>7 DEF ss
  <2> QED
    BY <1>3, <2>4, <2>5
<1>10. CASE Collect
  BY <1>1, <1>3, <1>10 DEF Collect
<1>11. CASE UNCHANGED vars
  BY <1>1, <1>3, <1>11 DEF vars
<1> QED
  BY <1>5, <1>6, <1>7, <1>8, <1>9, <1>10, <1>11 DEF Next, WorkerStep, Finished

(* Once the results are collected no worker has anything left to do.       *)
LEMMA CollectedStep ==
  ASSUME TypeOK, ClaimedOnce, Hashed, Collected, [Next]_vars
  PROVE  Collected'
<1>1. /\ UNCHANGED inputs /\ TaskIds' = TaskIds
      /\ \A i : ReferenceHashes(i)' = ReferenceHashes(i)
  BY InputsStep, HashesFixed, TypesFixed
<1>2. ASSUME UNCHANGED <<results, joined, chunk_hashes>>
      PROVE  Collected'
  BY <1>1, <1>2 DEF Collected, AllReturned
<1>3. ASSUME NEW w \in Workers, NEW i \in TaskIds, OpenFails(w, i)
      PROVE  Collected'
  BY <1>3 DEF OpenFails, ClaimedOnce, Collected, AllReturned, outputs
<1>4. ASSUME NEW w \in Workers, FinishRegion(w)
      PROVE  Collected'
  <2>1. job[w].task \in TaskIds
    BY <1>4 DEF FinishRegion, TypeOK, Job
  <2> QED
    BY <1>4, <2>1 DEF FinishRegion, ClaimedOnce, Collected, AllReturned, outputs
<1>5. CASE Collect
  <2>1. /\ AllReturned /\ results' = results
        /\ chunk_hashes' = FlattenSeq([i \in TaskIds |-> results[i].hashes])
    BY <1>5 DEF Collect
  <2>2. [i \in TaskIds |-> results[i].hashes] = [i \in TaskIds |-> ReferenceHashes(i)]
    BY <2>1 DEF Hashed, AllReturned
  <2> QED
    BY <1>1, <2>1, <2>2 DEF Collected, AllReturned
<1>6. CASE UNCHANGED vars
  BY <1>2, <1>6 DEF vars, outputs
<1> QED
  BY <1>2, <1>3, <1>4, <1>5, <1>6
     DEF Next, WorkerStep, OpenRegion, SkipUnread, SkipUnparsable, PlaceChunk, Finished, vars, outputs
-----------------------------------------------------------------------------
(* LodSection::build_level_0 takes one grid after the other.               *)
Grid == [chunk_x : Int, chunk_z : Int, min_y : Int, max_y : Int, columns : [GridCols -> Provenance]]

LEMMA Level0WithType ==
  ASSUME NEW S \in SUBSET Section, NEW g \in Grid
  PROVE  Level0With(S, g) \in SUBSET Section
<1> DEFINE sec_x == g.chunk_x \div SecChunks
           sec_z == g.chunk_z \div SecChunks
           old == {sec \in S : sec.pos_x = sec_x /\ sec.pos_z = sec_z}
           base == IF old = {} THEN NewEmpty(0, sec_x, sec_z) ELSE CHOOSE sec \in old : TRUE
<1>1. /\ sec_x \in Int /\ sec_z \in Int
      /\ g.chunk_x % SecChunks \in Int /\ g.chunk_z % SecChunks \in Int
  <2>1. g.chunk_x \in Int /\ g.chunk_z \in Int
    BY DEF Grid
  <2>2. \A a \in Int : a \div SecChunks \in Int /\ a % SecChunks \in 0 .. SecChunks - 1
    BY DivMod, GridAssumption
  <2>3. \A a \in Int : a % SecChunks \in Int
    BY <2>2, GridAssumption
  <2> QED
    BY <2>1, <2>2, <2>3
<1>2. NewEmpty(0, sec_x, sec_z) \in Section
  <2>1. {} \in Provenance
    BY DEF Provenance
  <2> HIDE DEF sec_x, sec_z
  <2> QED
    BY <1>1, <2>1 DEF NewEmpty, Section
<1>3. base \in Section
  <2>1. old \subseteq Section
    OBVIOUS
  <2>2. old # {} => (CHOOSE sec \in old : TRUE) \in old
    OBVIOUS
  <2> QED
    BY <1>2, <2>1, <2>2
<1> HIDE DEF base
<1>4. PlaceGrid(base, g.chunk_x % SecChunks, g.chunk_z % SecChunks, g) \in Section
  <2>1. g.columns \in [GridCols -> Provenance] /\ g.min_y \in Int /\ g.max_y \in Int
    BY DEF Grid
  <2> QED
    BY <1>1, <1>3, <2>1, PlaceGridType
<1>5. Level0With(S, g)
        = (S \ old) \cup {PlaceGrid(base, g.chunk_x % SecChunks, g.chunk_z % SecChunks, g)}
  BY DEF Level0With, base
<1> HIDE DEF sec_x, sec_z
<1> QED
  BY <1>4, <1>5

Assembling(gs, f) ==
  /\ f \in [0 .. Len(gs) -> SUBSET Section]
  /\ f[0] = {}
  /\ \A n \in 1 .. Len(gs) : f[n] = Level0With(f[n - 1], gs[n])

LEMMA BuildRecursive ==
  ASSUME NEW gs \in Seq(Grid)
  PROVE  \E f : Assembling(gs, f) /\ BuildLevel0(gs) = f[Len(gs)]
<1> DEFINE N == Len(gs)
           V == SUBSET Section
           F == [p \in V \X Nat |-> IF p[2] \in 1 .. N THEN Level0With(p[1], gs[p[2]]) ELSE p[1]]
<1>1. N \in Nat /\ \A n \in 1 .. N : gs[n] \in Grid
  BY ElementOfSeq
<1>2. F \in [V \X Nat -> V]
  <2> SUFFICES ASSUME NEW p \in V \X Nat
               PROVE  (IF p[2] \in 1 .. N THEN Level0With(p[1], gs[p[2]]) ELSE p[1]) \in V
    OBVIOUS
  <2>1. p[1] \in V
    OBVIOUS
  <2> HIDE DEF N
  <2> QED
    BY <1>1, <2>1, Level0WithType
<1> HIDE DEF F
<1>3. PICK f : Recursive(V, {}, F, f, N)
  BY <1>1, <1>2, RecursionExists
<1>4. f \in [0 .. N -> V] /\ f[0] = {}
  BY <1>3 DEF Recursive
<1>5. ASSUME NEW n \in 1 .. N PROVE f[n] = Level0With(f[n - 1], gs[n])
  <2>1. n \in Nat /\ n - 1 \in 0 .. N
    BY <1>1
  <2>2. <<f[n - 1], n>> \in V \X Nat
    BY <1>4, <2>1
  <2>3. f[n] = F[<<f[n - 1], n>>]
    BY <1>3 DEF Recursive
  <2> HIDE DEF N, V
  <2> QED
    BY <2>2, <2>3 DEF F
<1>6. Assembling(gs, f)
  BY <1>4, <1>5 DEF Assembling
<1> DEFINE Is(h) == h = [n \in 0 .. N |-> IF n = 0 THEN {} ELSE Level0With(h[n - 1], gs[n])]
           c == CHOOSE h : Is(h)
<1>7. Is(f)
  <2>1. ASSUME NEW n \in 0 .. N
        PROVE  f[n] = IF n = 0 THEN {} ELSE Level0With(f[n - 1], gs[n])
    <3>1. CASE n = 0
      BY <1>4, <3>1
    <3>2. CASE n # 0
      <4>1. n \in 1 .. N
        BY <1>1, <3>2
      <4> QED
        BY <1>5, <3>2, <4>1
    <3> QED
      BY <3>1, <3>2
  <2>2. f = [n \in 0 .. N |-> f[n]]
    BY <1>4
  <2> QED
    BY <2>1, <2>2
<1>8. Is(c)
  <2> HIDE DEF Is
  <2> QED
    BY <1>7
<1>9. BuildLevel0(gs) = c[N]
  BY DEF BuildLevel0
<1> HIDE DEF c
<1> DEFINE T == {n \in Nat : n \in 0 .. N => c[n] = f[n]}
<1>10. 0 \in T
  <2>1. 0 \in 0 .. N
    BY <1>1
  <2> QED
    BY <1>4, <1>8, <2>1
<1>11. ASSUME NEW n \in Nat, n \in T PROVE n + 1 \in T
  <2>1. ASSUME n + 1 \in 0 .. N PROVE c[n + 1] = f[n + 1]
    <3>1. n \in 0 .. N /\ n + 1 # 0 /\ (n + 1) - 1 = n /\ n + 1 \in 1 .. N
      BY <1>1, <2>1
    <3>2. c[n + 1] = Level0With(c[n], gs[n + 1])
      BY <1>8, <2>1, <3>1
    <3>3. f[n + 1] = Level0With(f[n], gs[n + 1])
      BY <1>5, <3>1
    <3> QED
      BY <1>11, <3>1, <3>2, <3>3
  <2> QED
    BY <2>1
<1> HIDE DEF T
<1>12. c[N] = f[N]
  <2>1. N \in 0 .. N
    BY <1>1
  <2> QED
    BY <1>1, <1>10, <1>11, <2>1, SetInduction DEF T
<1> QED
  BY <1>6, <1>9, <1>12

LEMMA BuildEmpty == BuildLevel0(<<>>) = {}
<1>1. <<>> \in Seq(Grid) /\ Len(<<>>) = 0
  OBVIOUS
<1>2. PICK f : Assembling(<<>>, f) /\ BuildLevel0(<<>>) = f[Len(<<>>)]
  BY <1>1, BuildRecursive
<1> QED
  BY <1>1, <1>2 DEF Assembling

LEMMA BuildAppend ==
  ASSUME NEW gs \in Seq(Grid), NEW g \in Grid
  PROVE  BuildLevel0(Append(gs, g)) = Level0With(BuildLevel0(gs), g)
<1> DEFINE N == Len(gs)
           hs == Append(gs, g)
<1>1. /\ N \in Nat /\ hs \in Seq(Grid) /\ Len(hs) = N + 1
      /\ hs[N + 1] = g /\ \A n \in 1 .. N : hs[n] = gs[n]
  BY AppendProperties
<1> HIDE DEF hs
<1>2. PICK f : Assembling(gs, f) /\ BuildLevel0(gs) = f[N]
  BY BuildRecursive
<1>3. PICK e : Assembling(hs, e) /\ BuildLevel0(hs) = e[N + 1]
  BY <1>1, BuildRecursive
<1> DEFINE T == {n \in Nat : n \in 0 .. N => e[n] = f[n]}
<1>4. 0 \in T
  BY <1>2, <1>3 DEF Assembling
<1>5. ASSUME NEW n \in Nat, n \in T PROVE n + 1 \in T
  <2>1. ASSUME n + 1 \in 0 .. N PROVE e[n + 1] = f[n + 1]
    <3>1. n \in 0 .. N /\ (n + 1) - 1 = n /\ n + 1 \in 1 .. N /\ n + 1 \in 1 .. N + 1
      BY <1>1, <2>1
    <3>2. e[n + 1] = Level0With(e[n], hs[n + 1])
      BY <1>1, <1>3, <3>1 DEF Assembling
    <3>3. f[n + 1] = Level0With(f[n], gs[n + 1])
      BY <1>2, <3>1 DEF Assembling
    <3> QED
      BY <1>1, <1>5, <3>1, <3>2, <3>3
  <2> QED
    BY <2>1
<1> HIDE DEF T
<1>6. e[N] = f[N]
  <2>1. N \in 0 .. N
    BY <1>1
  <2> QED
    BY <1>1, <1>4, <1>5, <2>1, SetInduction DEF T
<1>7. e[N + 1] = Level0With(e[N], g)
  <2>1. N + 1 \in 1 .. N + 1 /\ (N + 1) - 1 = N
    BY <1>1
  <2> QED
    BY <1>1, <1>3, <2>1 DEF Assembling
<1> QED
  BY <1>2, <1>3, <1>6, <1>7 DEF hs

(* The place the inline loop gives a chunk is the one build_level_0 finds. *)
LEMMA SamePlace ==
  ASSUME TypeOK, NEW i \in TaskIds, NEW l \in Locals
  PROVE  /\ VoxelGrid(i, l).chunk_x \div SecChunks = tasks[i].rx * RegionSecs + LocalSec(l)[1]
         /\ VoxelGrid(i, l).chunk_z \div SecChunks = tasks[i].rz * RegionSecs + LocalSec(l)[2]
         /\ VoxelGrid(i, l).chunk_x % SecChunks = ChunkRel(l)[1]
         /\ VoxelGrid(i, l).chunk_z % SecChunks = ChunkRel(l)[2]
<1> DEFINE s == LocalSec(l)
           rel == ChunkRel(l)
<1>1. /\ s \in SecIdx /\ rel[1] \in 0 .. SecChunks - 1 /\ rel[2] \in 0 .. SecChunks - 1
      /\ l[1] = SecChunks * s[1] + rel[1] /\ l[2] = SecChunks * s[2] + rel[2]
  BY LocalSecType
<1>2. s[1] \in Int /\ s[2] \in Int
  BY <1>1, GridAssumption DEF SecIdx
<1> HIDE DEF s, rel
<1>3. \A m, q \in Int : \A a \in 0 .. SecChunks - 1 :
        /\ (m * (RegionSecs * SecChunks) + (SecChunks * q + a)) \div SecChunks = m * RegionSecs + q
        /\ (m * (RegionSecs * SecChunks) + (SecChunks * q + a)) % SecChunks = a
  <2> TAKE m, q \in Int
  <2> TAKE a \in 0 .. SecChunks - 1
  <2>1. m * RegionSecs + q \in Int
    BY GridAssumption
  <2>2. m * (RegionSecs * SecChunks) + (SecChunks * q + a) = SecChunks * (m * RegionSecs + q) + a
    BY GridAssumption
  <2> QED
    BY <2>1, <2>2, DivUnique, GridAssumption
<1>4. tasks[i].rx \in Int /\ tasks[i].rz \in Int
  BY Positions
<1>5. /\ VoxelGrid(i, l).chunk_x = tasks[i].rx * (RegionSecs * SecChunks) + (SecChunks * s[1] + rel[1])
      /\ VoxelGrid(i, l).chunk_z = tasks[i].rz * (RegionSecs * SecChunks) + (SecChunks * s[2] + rel[2])
  BY <1>1 DEF VoxelGrid, ChunkX, ChunkZ, RegionChunks
<1> QED
  BY <1>1, <1>2, <1>3, <1>4, <1>5 DEF s, rel

LEMMA VoxelGridIsGrid ==
  ASSUME TypeOK, NEW i \in TaskIds, NEW l \in Locals
  PROVE  VoxelGrid(i, l) \in Grid
BY VoxelGridType, Positions DEF VoxelGrid, Grid

LEMMA GridsType ==
  ASSUME TypeOK, NEW i \in TaskIds, NEW hs \in Seq(HashEntry)
  PROVE  /\ GridsOf(i, hs) \in Seq(Grid)
         /\ \A l \in Locals :
              GridsOf(i, Append(hs, HashOf(i, l))) = Append(GridsOf(i, hs), VoxelGrid(i, l))
<1> DEFINE N == Len(hs)
           gs == GridsOf(i, hs)
<1>1. N \in Nat /\ DOMAIN hs = 1 .. N /\ \A n \in 1 .. N : hs[n] \in HashEntry
  BY ElementOfSeq
<1>2. gs = [n \in 1 .. N |-> VoxelGrid(i, hs[n].hash.local)]
  BY <1>1 DEF GridsOf
<1>3. \A n \in 1 .. N : VoxelGrid(i, hs[n].hash.local) \in Grid
  BY <1>1, VoxelGridIsGrid DEF HashEntry, Payload
<1>4. gs \in Seq(Grid) /\ Len(gs) = N
  BY <1>1, <1>2, <1>3
<1>5. ASSUME NEW l \in Locals
      PROVE  GridsOf(i, Append(hs, HashOf(i, l))) = Append(gs, VoxelGrid(i, l))
  <2> DEFINE ks == Append(hs, HashOf(i, l))
             g == VoxelGrid(i, l)
  <2>1. /\ ks \in Seq(HashEntry) /\ Len(ks) = N + 1 /\ DOMAIN ks = 1 .. N + 1
        /\ ks[N + 1] = HashOf(i, l) /\ \A n \in 1 .. N : ks[n] = hs[n]
    BY HashOfType, AppendProperties
  <2>2. HashOf(i, l).hash.local = l
    BY DEF HashOf
  <2> HIDE DEF ks
  <2>3. GridsOf(i, ks) = [n \in 1 .. N + 1 |-> VoxelGrid(i, ks[n].hash.local)]
    BY <2>1 DEF GridsOf
  <2>4. /\ Append(gs, g) \in Seq(Grid) /\ Len(Append(gs, g)) = N + 1
        /\ Append(gs, g)[N + 1] = g /\ \A n \in 1 .. N : Append(gs, g)[n] = gs[n]
    BY <1>4, VoxelGridIsGrid, AppendProperties
  <2>5. \A n \in 1 .. N + 1 : VoxelGrid(i, ks[n].hash.local) = Append(gs, g)[n]
    <3> TAKE n \in 1 .. N + 1
    <3>1. CASE n = N + 1
      BY <2>1, <2>2, <2>4, <3>1
    <3>2. CASE n # N + 1
      <4>1. n \in 1 .. N
        BY <1>1, <3>2
      <4> HIDE DEF gs, g
      <4> QED
        BY <1>2, <2>1, <2>4, <4>1
    <3> QED
      BY <3>1, <3>2
  <2> DEFINE as == Append(gs, g)
  <2>6. as = [n \in 1 .. N + 1 |-> as[n]]
    <3>1. as \in Seq(Grid) /\ Len(as) = N + 1
      BY <2>4
    <3> HIDE DEF as
    <3>2. as \in [1 .. Len(as) -> Grid]
      BY <3>1, LenProperties
    <3> QED
      BY <3>1, <3>2
  <2>7. GridsOf(i, ks) = as
    <3>1. \A n \in 1 .. N + 1 : VoxelGrid(i, ks[n].hash.local) = as[n]
      BY <2>5
    <3> HIDE DEF as
    <3> QED
      BY <2>3, <2>6, <3>1
  <2> QED
    BY <2>7 DEF ks
<1> QED
  BY <1>4, <1>5
-----------------------------------------------------------------------------
(* Copying a chunk into local_sections is one round of build_level_0.      *)
LEMMA PresentPlaced ==
  ASSUME TypeOK, NEW i \in TaskIds, NEW l \in Locals, NEW n, NEW S \in LocalSections,
         AssembledUpTo(i, n, S)
  PROVE  Present(WithChunk(S, tasks[i], l, VoxelGrid(i, l))) = Level0With(Present(S), VoxelGrid(i, l))
<1> DEFINE s == LocalSec(l)
           g == VoxelGrid(i, l)
           T == WithChunk(S, tasks[i], l, g)
           x == tasks[i].rx * RegionSecs + s[1]
           z == tasks[i].rz * RegionSecs + s[2]
           old == {sec \in Present(S) : sec.pos_x = x /\ sec.pos_z = z}
           base == IF old = {} THEN NewEmpty(0, x, z) ELSE CHOOSE sec \in old : TRUE
           fresh == IF S[s] = NoSection THEN FreshSection(tasks[i], s) ELSE S[s]
           placed == PlaceGrid(fresh, ChunkRel(l)[1], ChunkRel(l)[2], g)
<1>1. s \in SecIdx
  BY LocalSecType
<1>2. /\ tasks[i].rx \in Int /\ tasks[i].rz \in Int
      /\ \A t \in SecIdx : t = <<t[1], t[2]>> /\ t[1] \in Int /\ t[2] \in Int
  BY Positions, GridAssumption DEF SecIdx
<1>3. \A t \in SecIdx : S[t] # NoSection =>
        (S[t].pos_x = x /\ S[t].pos_z = z <=> t = s)
  <2> TAKE t \in SecIdx
  <2> HAVE S[t] # NoSection
  <2>1. /\ S[t].pos_x = tasks[i].rx * RegionSecs + t[1]
        /\ S[t].pos_z = tasks[i].rz * RegionSecs + t[2]
    BY DEF AssembledUpTo, KeyOf
  <2> HIDE DEF s
  <2>2. \A m, a, b \in Int : m * RegionSecs + a = m * RegionSecs + b <=> a = b
    BY GridAssumption
  <2>3. (S[t].pos_x = x <=> t[1] = s[1]) /\ (S[t].pos_z = z <=> t[2] = s[2])
    BY <1>1, <1>2, <2>1, <2>2
  <2> QED
    BY <1>1, <1>2, <2>3
<1>4. old = {S[s]} \ {NoSection}
  <2> HIDE DEF s, x, z
  <2> QED
    BY <1>1, <1>3 DEF Present
<1>5. base = fresh
  <2>1. FreshSection(tasks[i], s) = NewEmpty(0, x, z)
    BY DEF FreshSection
  <2> HIDE DEF s, x, z, old
  <2>2. CASE S[s] = NoSection
    BY <1>4, <2>1, <2>2
  <2>3. CASE S[s] # NoSection
    BY <1>4, <2>3
  <2> QED
    BY <2>2, <2>3
<1>6. Level0With(Present(S), g) = (Present(S) \ old) \cup {placed}
  <2>1. /\ g.chunk_x \div SecChunks = x /\ g.chunk_z \div SecChunks = z
        /\ g.chunk_x % SecChunks = ChunkRel(l)[1] /\ g.chunk_z % SecChunks = ChunkRel(l)[2]
    BY SamePlace
  <2>2. Level0With(Present(S), g)
          = (Present(S) \ old) \cup {PlaceGrid(base, ChunkRel(l)[1], ChunkRel(l)[2], g)}
    <3> HIDE DEF g, x, z
    <3> QED
      BY <2>1 DEF Level0With
  <2> QED
    BY <1>5, <2>2
<1>7. T = [S EXCEPT ![s] = placed]
  BY DEF WithChunk
<1>8. placed # NoSection
  <2>1. T \in LocalSections
    BY WithChunkType
  <2>2. fresh \in Section
    <3>1. tasks[i] \in Region
      BY Positions
    <3> QED
      BY <1>1, <3>1, FreshSectionType DEF LocalSections
  <2>3. ChunkRel(l)[1] \in Int /\ ChunkRel(l)[2] \in Int
    BY LocalSecType, GridAssumption
  <2>4. placed \in Section
    <3> HIDE DEF fresh
    <3> QED
      BY <2>2, <2>3, VoxelGridType, PlaceGridType
  <2> QED
    BY <2>4, BakeAssumption
<1>9. \A t \in SecIdx : T[t] = IF t = s THEN placed ELSE S[t]
  <2>1. S \in [SecIdx -> Section \cup {NoSection}]
    BY DEF LocalSections
  <2> HIDE DEF T, s, placed
  <2> QED
    BY <1>1, <1>7, <2>1
<1> HIDE DEF T, s, placed, old
<1>10. Present(T) = (Present(S) \ ({S[s]} \ {NoSection})) \cup {placed}
  <2>1. \A t \in SecIdx : S[t] # NoSection /\ S[t] = S[s] => t = s
    BY <1>1, <1>3
  <2> QED
    BY <1>1, <1>8, <1>9, <2>1 DEF Present
<1> QED
  BY <1>4, <1>6, <1>10 DEF T

LEMMA PlacedStart ==
  ASSUME NEW i
  PROVE  Placed(i, <<>>, NoSections)
<1>1. Present(NoSections) = {}
  BY DEF Present, NoSections
<1>2. GridsOf(i, <<>>) = <<>>
  BY DEF GridsOf
<1> QED
  BY <1>1, <1>2, BuildEmpty DEF Placed

LEMMA PlacedFixed ==
  ASSUME UNCHANGED inputs, NEW i, NEW hashes, NEW S
  PROVE  Placed(i, hashes, S)' <=> Placed(i, hashes, S)
<1>1. \A l : VoxelGrid(i, l)' = VoxelGrid(i, l)
  BY DEF inputs, VoxelGrid
<1>2. GridsOf(i, hashes)' = GridsOf(i, hashes)
  BY <1>1 DEF GridsOf
<1> QED
  BY <1>2 DEF Placed

(* Every step keeps local_sections equal to build_level_0 of the hashed    *)
(* chunks so far.                                                          *)
LEMMA PlacedStep ==
  ASSUME TypeOK, ClaimedOnce, OnlyOpened, Baked, PlacedAll, [Next]_vars
  PROVE  PlacedAll'
<1> DEFINE JobsDone(j) == \A w \in Workers : j[w].task # 0 =>
                            Placed(j[w].task, j[w].hashes, j[w].sections)
           ResultsDone(r) == \A i \in TaskIds : r[i].done =>
                            Placed(i, r[i].hashes, r[i].sections)
<1>1. JobsDone(job) /\ ResultsDone(results)
  BY DEF PlacedAll
<1>2. /\ UNCHANGED inputs /\ TaskIds' = TaskIds
      /\ \A i, h, S : Placed(i, h, S)' <=> Placed(i, h, S)
  BY InputsStep, PlacedFixed, TypesFixed
<1>3. ASSUME JobsDone(job'), ResultsDone(results')
      PROVE  PlacedAll'
  BY <1>2, <1>3 DEF PlacedAll
<1>4. \A v \in Workers : job[v] \in Job
  BY DEF TypeOK
<1>5. ASSUME NEW w \in Workers, NEW i \in TaskIds, OpenRegion(w, i)
      PROVE  PlacedAll'
  <2>1. JobsDone(job')
    BY <1>1, <1>5, PlacedStart DEF OpenRegion, IdleJob, TypeOK
  <2> QED
    BY <1>1, <1>3, <1>5, <2>1 DEF OpenRegion
<1>6. ASSUME NEW w \in Workers, NEW i \in TaskIds, OpenFails(w, i)
      PROVE  PlacedAll'
  <2>1. ResultsDone(results')
    BY <1>1, <1>6, PlacedStart DEF OpenFails, Dropped, TypeOK
  <2> QED
    BY <1>1, <1>3, <1>6, <2>1 DEF OpenFails
<1>7. ASSUME NEW w \in Workers, SkipUnread(w) \/ SkipUnparsable(w)
      PROVE  PlacedAll'
  <2>1. results' = results /\ job' = [job EXCEPT ![w].next = @ + 1]
    BY <1>7 DEF SkipUnread, SkipUnparsable, Advance
  <2>2. \A v \in Workers : /\ job'[v].task = job[v].task /\ job'[v].hashes = job[v].hashes
                           /\ job'[v].sections = job[v].sections
    BY <1>4, <2>1 DEF TypeOK, Job
  <2>3. JobsDone(job')
    BY <1>1, <2>2
  <2> QED
    BY <1>1, <1>3, <2>1, <2>3
<1>8. ASSUME NEW w \in Workers, PlaceChunk(w)
      PROVE  PlacedAll'
  <2> DEFINE i == job[w].task
             l == Slot(job[w].next)
             T == WithChunk(job[w].sections, tasks[i], l, VoxelGrid(i, l))
             H == Append(job[w].hashes, HashOf(i, l))
  <2>1. Scanning(w) /\ results' = results
    BY <1>8 DEF PlaceChunk
  <2>2. /\ i \in TaskIds /\ i # 0 /\ CurTask(w) = tasks[i]
        /\ CurLocal(w) = l /\ l \in Locals
        /\ job[w].sections \in LocalSections /\ job[w].hashes \in Seq(HashEntry)
    BY <1>4, <2>1, Current DEF Scanning, CurLocal, Job
  <2>3. AssembledUpTo(i, job[w].next, job[w].sections)
    BY <2>2 DEF Baked, BakedUpTo
  <2>4. Placed(i, H, T)
    <3>1. Present(T) = Level0With(Present(job[w].sections), VoxelGrid(i, l))
      BY <2>2, <2>3, PresentPlaced
    <3>2. Present(job[w].sections) = BuildLevel0(GridsOf(i, job[w].hashes))
      BY <1>1, <2>2 DEF Placed
    <3>3. /\ GridsOf(i, job[w].hashes) \in Seq(Grid)
          /\ GridsOf(i, H) = Append(GridsOf(i, job[w].hashes), VoxelGrid(i, l))
      BY <2>2, GridsType
    <3>4. BuildLevel0(Append(GridsOf(i, job[w].hashes), VoxelGrid(i, l)))
            = Level0With(BuildLevel0(GridsOf(i, job[w].hashes)), VoxelGrid(i, l))
      BY <2>2, <3>3, VoxelGridIsGrid, BuildAppend
    <3> HIDE DEF T, H, i, l
    <3> QED
      BY <3>1, <3>2, <3>3, <3>4 DEF Placed
  <2>5. /\ job'[w].task = i /\ job'[w].hashes = H /\ job'[w].sections = T
        /\ \A v \in Workers : v # w => job'[v] = job[v]
    BY <1>4, <1>8, <2>2 DEF PlaceChunk, Decompressed, TypeOK, Job, HashOf
  <2> HIDE DEF T, H
  <2>6. JobsDone(job')
    BY <1>1, <2>4, <2>5
  <2> QED
    BY <1>1, <1>3, <2>1, <2>6
<1>9. ASSUME NEW w \in Workers, FinishRegion(w)
      PROVE  PlacedAll'
  <2> DEFINE i == job[w].task
  <2>1. i \in TaskIds /\ i # 0
    BY <1>4, <1>9 DEF FinishRegion, Job
  <2>2. Placed(i, job[w].hashes, job[w].sections)
    BY <1>1, <2>1
  <2>3. /\ results'[i].sections = job[w].sections /\ results'[i].hashes = job[w].hashes
        /\ \A k \in TaskIds : k # i => results'[k] = results[k]
        /\ job'[w].task = 0
        /\ \A v \in Workers : v # w => job'[v] = job[v]
    BY <1>9, <2>1 DEF FinishRegion, ResultSlot, IdleJob, TypeOK
  <2>4. JobsDone(job') /\ ResultsDone(results')
    BY <1>1, <2>1, <2>2, <2>3
  <2> QED
    BY <1>3, <2>4
<1>10. CASE Collect
  BY <1>1, <1>3, <1>10 DEF Collect
<1>11. CASE UNCHANGED vars
  BY <1>1, <1>3, <1>11 DEF vars
<1> QED
  BY <1>5, <1>6, <1>7, <1>8, <1>9, <1>10, <1>11 DEF Next, WorkerStep, Finished
-----------------------------------------------------------------------------
(* The strengthened invariant holds initially and every step keeps it. *)
LEMMA InitIInv ==
  ASSUME Init
  PROVE  IInv
<1>1. TypeOK
  BY InitType
<1>2. ClaimedOnce
  <2>1. /\ unclaimed = TaskIds
        /\ \A w \in Workers : job[w].task = 0
        /\ \A i \in TaskIds : ~results[i].done
    BY DEF Init, IdleJob, Pending
  <2> QED
    <3>1. 0 \notin TaskIds
      BY <1>1 DEF TypeOK, TaskIds
    <3>2. \A i \in unclaimed : ~results[i].done /\ \A w \in Workers : job[w].task # i
      BY <2>1, <3>1
    <3>3. \A v, w \in Workers : job[v].task = job[w].task /\ job[v].task # 0 => v = w
      BY <2>1
    <3> QED
      BY <2>1, <3>2, <3>3 DEF ClaimedOnce
<1>3. OnlyOpened
  BY DEF Init, OnlyOpened, IdleJob
<1>4. Baked
  BY DEF Init, Baked, IdleJob, Pending
<1>5. Hashed
  <2> DEFINE ss == [i \in TaskIds |-> results[i].hashes]
  <2>1. /\ total = 0
        /\ \A w \in Workers : job[w].task = 0
        /\ \A i \in TaskIds : results[i].hashes = <<>> /\ ~results[i].done
    BY DEF Init, IdleJob, Pending
  <2>2. ss \in Seq(Seq(HashEntry)) /\ \A n \in 1 .. Len(ss) : ss[n] = <<>>
    <3>1. TaskIds = 1 .. Len(tasks) /\ Len(tasks) \in Nat
      BY <1>1 DEF TaskIds, TypeOK
    <3>2. <<>> \in Seq(HashEntry)
      OBVIOUS
    <3>3. \A n \in 1 .. Len(tasks) : ss[n] = <<>>
      BY <2>1, <3>1
    <3>4. ss = [n \in 1 .. Len(tasks) |-> ss[n]]
      BY <3>1
    <3> HIDE DEF ss
    <3>5. ss \in [1 .. Len(tasks) -> Seq(HashEntry)]
      BY <3>2, <3>3, <3>4
    <3>6. ss \in Seq(Seq(HashEntry)) /\ Len(ss) = Len(tasks)
      BY <3>1, <3>5
    <3> QED
      BY <3>3, <3>6
  <2> HIDE DEF ss
  <2>3. Len(FlattenSeq(ss)) = 0
    BY <2>2, FlattenEmpty
  <2> QED
    BY <2>1, <2>3 DEF Hashed, ss
<1>6. Collected
  BY DEF Init, Collected
<1>7. PlacedAll
  BY DEF Init, PlacedAll, IdleJob, Pending
<1> QED
  BY <1>1, <1>2, <1>3, <1>4, <1>5, <1>6, <1>7 DEF IInv

LEMMA StepIInv ==
  ASSUME IInv, [Next]_vars
  PROVE  IInv'
BY TypeStep, ClaimedStep, OpenedStep, BakedStep, HashedStep, CollectedStep, PlacedStep DEF IInv

LEMMA SpecIInv == Spec => []IInv
<1>1. Init => IInv
  BY InitIInv
<1>2. IInv /\ [Next]_vars => IInv'
  BY StepIInv
<1> QED
  BY <1>1, <1>2, PTL DEF Spec

(* Every step of stage 2 keeps its state well typed: task and slot indices *)
(* stay in range and local_sections holds whole level-0 sections only.     *)
THEOREM SpecTypeOK == Spec => []TypeOK
<1>1. IInv => TypeOK
  BY DEF IInv
<1> QED
  BY <1>1, SpecIInv, PTL

(* A region file goes through the closure of stage 2 exactly once, however *)
(* many workers steal tasks.                                               *)
THEOREM SpecClaimedOnce == Spec => []ClaimedOnce
<1>1. IInv => ClaimedOnce
  BY DEF IInv
<1> QED
  BY <1>1, SpecIInv, PTL

(* The inline section assembly of stage 2 puts each block column of each   *)
(* accepted chunk at its own place in the world, and puts nothing else     *)
(* there, for every grid size, region list, box and number of workers.     *)
THEOREM SpecAssembled == Spec => []Assembled
<1>1. IInv => Assembled
  BY DEF IInv, Baked, BakedUpTo, Assembled
<1> QED
  BY <1>1, SpecIInv, PTL

(* However the workers share the region files and in whatever order they   *)
(* return, collect() yields the hash list of the sequential walk, and the  *)
(* shared counter ends at its length: no update of it is lost.             *)
THEOREM SpecJoinDeterministic == Spec => []JoinDeterministic
<1>1. IInv => JoinDeterministic
  <2> SUFFICES ASSUME IInv, joined
               PROVE  /\ chunk_hashes = FlattenSeq([i \in TaskIds |-> ReferenceHashes(i)])
                      /\ total = Len(chunk_hashes)
    BY DEF JoinDeterministic
  <2>1. AllReturned /\ chunk_hashes = FlattenSeq([i \in TaskIds |-> ReferenceHashes(i)])
    BY DEF IInv, Collected
  <2>2. [i \in TaskIds |-> results[i].hashes] = [i \in TaskIds |-> ReferenceHashes(i)]
    BY <2>1 DEF IInv, Hashed, AllReturned
  <2> QED
    BY <2>1, <2>2 DEF IInv, Hashed
<1> QED
  BY <1>1, SpecIInv, PTL

(* In whatever order the workers meet the chunks, the height range of a    *)
(* section spans the chunks copied into it, with the least of their minima *)
(* unless that is 0.                                                       *)
THEOREM SpecHeightsBound == Spec => []HeightsBound
<1>1. IInv => HeightsBound
  <2> SUFFICES ASSUME IInv, NEW i \in TaskIds, results[i].done, NEW s \in SecIdx, results[i].sections[s] # NoSection
               PROVE  SpansParts(results[i].sections[s], {tasks[i].chunk[l] : l \in Inside(i, s)})
    BY DEF HeightsBound
  <2>1. Inside(i, s) = InsideUpTo(i, SlotCount, s)
    BY DEF Inside, InsideUpTo
  <2>2. BoundedUpTo(i, SlotCount, results[i].sections)
    BY DEF IInv, Baked, BakedUpTo, NoSections
  <2>3. SpansChunks(results[i].sections[s], tasks[i].chunk, Inside(i, s))
    BY <2>1, <2>2 DEF BoundedUpTo
  <2> QED
    BY <2>3 DEF SpansChunks, SpansParts
<1> QED
  BY <1>1, SpecIInv, PTL

(* The sections a task returns, and so those the join collects, are the    *)
(* ones the library's build_level_0 makes of its chunks, height ranges     *)
(* included: the inline loop and the library function agree.               *)
THEOREM SpecSameAsBuildLevel0 == Spec => []SameAsBuildLevel0
<1>1. IInv => SameAsBuildLevel0
  BY DEF IInv, PlacedAll, Placed, SameAsBuildLevel0
<1> QED
  BY <1>1, SpecIInv, PTL
=============================================================================
