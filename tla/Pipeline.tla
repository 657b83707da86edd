------------------------------- MODULE Pipeline -------------------------------
(***************************************************************************)
(* mca2lod from the command line to its exit code, called several times on *)
(* one map and one database: stage 1 as in Discovery, stages 2 and 3 by    *)
(* what they compute, stage 4 by what BatchStore promises of it.           *)
(*                                                                         *)
(* The terrain of a section is the set of chunks it shows.  RegionBake has *)
(* stage 2 step by step and its result independent of the schedule, Octree *)
(* stage 3 and its result independent of the order of parents, SqliteStore *)
(* stage 4 statement by statement: here each is one step.                  *)
(*                                                                         *)
(* A file of the map is one of Discovery that also has [opens, chunks]:    *)
(* whether the reader accepts it, and of each chunk that can be read, by   *)
(* its place in the file, whether it is "terrain" or "void".               *)
(***************************************************************************)
EXTENDS Integers, Sequences, SequencesExt, Levels

CONSTANTS
  ChunkCols, RegionChunks, IntHalf, NoPos,  \* see Discovery
  SecChunks,    \* 4 chunks along a section
  Sessions,     \* a map and the calls of mca2lod on it, by configuration
  Keys,         \* the primary keys of the database
  NoRow, NoBatch

(* The options of the command line that bear on the result. *)
CliConfig ==
  [cx : -IntHalf .. IntHalf - 1, cz : -IntHalf .. IntHalf - 1, radius : -IntHalf .. IntHalf - 1,
   detail_levels : 0 .. 10]

ASSUME PipelineAssumption ==
  /\ {ChunkCols, RegionChunks, IntHalf, SecChunks} \subseteq Nat \ {0}
  /\ RegionChunks % SecChunks = 0
  /\ NoRow \notin [run : Nat, place : Nat]
  /\ \A s \in Sessions : s.calls # <<>> /\ s.calls \in Seq(CliConfig)

VARIABLES
  session,       \* fixed
  done,          \* calls of it begun
  stage,         \* of the call in progress, or "idle"
  exit,          \* of the latest call: "none", "success", "failure" or "killed"
  map, cfg, scan, archive, tasks, status,  \* of Discovery
  lod,           \* all_lod_sections
  chunk_hashes,  \* all_chunk_hashes, by position
  lvl,           \* the loop variable of stage 3
  store, pending, runs, outcome,           \* of BatchStore
  written        \* the batches handed to stage 4 so far, a history

discovery == <<map, cfg, scan, archive, tasks, status>>
memory == <<lod, chunk_hashes, lvl>>
database == <<store, pending, runs, outcome>>
vars == <<session, done, stage, exit, discovery, memory, database, written>>

Stage1 == INSTANCE Discovery WITH
  Maps <- {s.map : s \in Sessions}, Configs <- UNION {Range(s.calls) : s \in Sessions}
Stage4 == INSTANCE BatchStore WITH Batches <- Seq(Keys)

(* What the runs of mca2lod may find: a file system or an archive, and in  *)
(* a region file chunks at places of its header.                           *)
Locals == (0 .. RegionChunks - 1) \X (0 .. RegionChunks - 1)
ASSUME MapsAssumption ==
  \A s \in Sessions :
    /\ Stage1!IsMap(s.map)
    /\ \A file \in Stage1!FilesOf(s.map) :
         file.opens \in BOOLEAN /\ DOMAIN file.chunks \subseteq Locals

Init ==
  /\ session \in Sessions
  /\ done = 0 /\ stage = "idle" /\ exit = "none"
  /\ map = session.map /\ cfg = session.calls[1]
  /\ Stage1!Init
  /\ lod = <<>> /\ chunk_hashes = <<>> /\ lvl = 0
  /\ store = [k \in Keys |-> NoRow] /\ Stage4!Init
  /\ written = <<>>
-----------------------------------------------------------------------------
(* Stage 2: the sections of one region file that opens, from its chunks in *)
(* the box.                                                                *)
InBoxOfX(c) == c[1] >= Stage1!min_cx /\ c[1] <= Stage1!max_cx
InBox(c) == InBoxOfX(c) /\ c[2] >= Stage1!min_cz /\ c[2] <= Stage1!max_cz

ChunkAt(file, local) ==
  <<file.pos[1] * RegionChunks + local[1], file.pos[2] * RegionChunks + local[2]>>
Accepted(file) == {local \in DOMAIN file.chunks : file.opens /\ InBox(ChunkAt(file, local))}

LocalSec(local) == <<local[1] \div SecChunks, local[2] \div SecChunks>>
AbsSec(file, s) ==
  LET width == RegionChunks \div SecChunks
  IN  <<file.pos[1] * width + s[1], file.pos[2] * width + s[2]>>

LevelZero(file) ==
  LET terrain(s) == {local \in Accepted(file) : LocalSec(local) = s /\ file.chunks[local] = "terrain"}
  IN  SetToSeq({[level |-> 0, pos |-> AbsSec(file, s),
                 shows |-> {ChunkAt(file, local) : local \in terrain(s)}]
                : s \in {LocalSec(local) : local \in Accepted(file)}})
HashesOf(file) == SetToSeq({ChunkAt(file, local) : local \in Accepted(file)})

(* Stage 3: a child fills one quadrant of its parent; of two children at   *)
(* one position the later one stays.                                       *)
ParentPosTruncated(pos) == <<Stage1!DivTruncated(pos[1], 2), Stage1!DivTruncated(pos[2], 2)>>
ParentPos(pos) == <<pos[1] \div 2, pos[2] \div 2>>

Quadrant(pos) == <<pos[1] % 2, pos[2] % 2>>
Children(pos, quadrant) ==
  {n \in DOMAIN lod : /\ lod[n].level = lvl - 1
                      /\ ParentPos(lod[n].pos) = pos
                      /\ Quadrant(lod[n].pos) = quadrant}
Filled(children) == IF children = {} THEN {} ELSE lod[Max(children)].shows
Parent(pos) ==
  [level |-> lvl, pos |-> pos,
   shows |-> UNION {Filled(Children(pos, quadrant)) : quadrant \in (0 .. 1) \X (0 .. 1)}]
ParentsOfLevel ==
  SetToSeq({Parent(ParentPos(sec.pos)) : sec \in {s \in Range(lod) : s.level = lvl - 1}})

(* The rows a run writes, in order. *)
DataKey(level, pos) == [table |-> "FullData", level |-> level, pos |-> pos]
HashKey(pos) == [table |-> "ChunkHash", level |-> 0, pos |-> pos]
Batch ==
  [n \in DOMAIN lod |-> DataKey(lod[n].level, lod[n].pos)]
    \o [n \in DOMAIN chunk_hashes |-> HashKey(chunk_hashes[n])]
-----------------------------------------------------------------------------
(* A process starts with nothing but its arguments. *)
Call ==
  /\ stage = "idle"
  /\ done < Len(session.calls)
  /\ done' = done + 1
  /\ stage' = "discovery"
  /\ exit' = "none"
  /\ map' = session.map /\ cfg' = session.calls[done']
  /\ scan' = <<>> /\ archive' = <<>> /\ tasks' = <<>> /\ status' = "start"
  /\ UNCHANGED <<session, memory, database, written>>

(* main: the exit code, and the end of all that was in memory. *)
Exit(code) ==
  /\ stage' = "idle"
  /\ exit' = code
  /\ lod' = <<>> /\ chunk_hashes' = <<>> /\ lvl' = 0
  /\ UNCHANGED <<session, done, written>>

Discover ==
  /\ stage = "discovery"
  /\ Stage1!Proceed
  /\ UNCHANGED <<session, done, stage, exit, memory, database, written>>

DiscoverFails ==
  /\ stage = "discovery"
  /\ Stage1!Fail
  /\ Exit("failure")
  /\ UNCHANGED database

NothingFound ==
  /\ stage = "discovery"
  /\ status = "nothing"
  /\ Exit("success")
  /\ UNCHANGED <<discovery, database>>

(* The results of the parallel map are joined in the order of the tasks.   *)
Bake ==
  /\ stage = "discovery"
  /\ status = "found"
  /\ lod' = FlattenSeq([n \in DOMAIN tasks |-> LevelZero(tasks[n])])
  /\ chunk_hashes' = FlattenSeq([n \in DOMAIN tasks |-> HashesOf(tasks[n])])
  /\ stage' = "octree"
  /\ lvl' = 1
  /\ UNCHANGED <<session, done, exit, discovery, database, written>>

BuildLevel ==
  /\ stage = "octree"
  /\ lvl <= cfg.detail_levels
  /\ lod' = lod \o ParentsOfLevel
  /\ lvl' = lvl + 1
  /\ UNCHANGED <<session, done, stage, exit, chunk_hashes, discovery, database, written>>

(* The database is opened only when all sections are built. *)
OpenDatabase ==
  /\ stage = "octree"
  /\ lvl > cfg.detail_levels
  /\ pending' = Batch
  /\ Stage4!Begin
  /\ written' = Append(written, lod)
  /\ stage' = "ingest"
  /\ UNCHANGED <<session, done, exit, discovery, memory>>

Ingest ==
  /\ stage = "ingest"
  /\ Stage4!Succeed
  /\ Exit("success")
  /\ UNCHANGED discovery

IngestFails ==
  /\ stage = "ingest"
  /\ Stage4!Abandon
  /\ Exit("failure")
  /\ UNCHANGED discovery

(* A kill has an effect on the database only in stage 4. *)
Kill ==
  /\ stage # "idle"
  /\ IF stage = "ingest" THEN Stage4!Abandon ELSE UNCHANGED database
  /\ Exit("killed")
  /\ UNCHANGED discovery

AllCalled == stage = "idle" /\ done = Len(session.calls) /\ UNCHANGED vars

Proceed == Call \/ Discover \/ NothingFound \/ Bake \/ BuildLevel \/ OpenDatabase \/ Ingest
Next == Proceed \/ DiscoverFails \/ IngestFails \/ Kill \/ AllCalled

Spec == Init /\ [][Next]_vars
(* The process is scheduled; a map that is not there is noticed.  Nothing  *)
(* need fail and nobody need kill it.                                      *)
FairSpec == Spec /\ WF_vars(Proceed) /\ WF_vars(map.kind = "none" /\ DiscoverFails)
-----------------------------------------------------------------------------
(* The box of a call, in integers. *)
Centre(block) == CHOOSE c \in -IntHalf .. IntHalf : Stage1!CentreChunk(c, block)
Reach(block, radius) == [low |-> Centre(block) - radius, high |-> Centre(block) + radius]
Within(n, reach) == reach.low <= n /\ n <= reach.high
Near(c) == Within(c[1], Reach(cfg.cx, cfg.radius)) /\ Within(c[2], Reach(cfg.cz, cfg.radius))

(* Every chunk some file of the map has terrain for, if it can be read.    *)
TerrainOf(file) == {ChunkAt(file, local) : local \in {l \in DOMAIN file.chunks : file.chunks[l] = "terrain"}}
Terrain == UNION {TerrainOf(file) : file \in {f \in Stage1!AllFiles : f.mca /\ f.pos # NoPos /\ f.opens}}

Width(level) == SecChunks * Pow2[level]
Shown(row) == written[row.run][row.place].shows

(* Doc comment of LodSection: a section corresponds to a single database   *)
(* entry; README.txt: the level of detail terrain of the world is in the   *)
(* database.  When mca2lod exits with success, each chunk of terrain       *)
(* within the radius is shown by a row of this very run at level 0 and by  *)
(* one at every level the user asked for, whatever earlier calls, failed   *)
(* or killed, have left in the database.                                   *)
TerrainShown ==
  exit = "success" /\ Stage1!BoxFits =>
    \A c \in {t \in Terrain : Near(t)} : \A level \in 0 .. cfg.detail_levels :
      LET k == DataKey(level, <<c[1] \div Width(level), c[2] \div Width(level)>>)
      IN  k \in Keys /\ store[k] # NoRow /\ store[k].run = runs /\ c \in Shown(store[k])

(* The box of a negative radius is empty in integers, but may wrap around  *)
(* into one at the far end of them.                                        *)
Covers(call, earlier) ==
  /\ earlier.radius >= 0
  /\ call.detail_levels >= earlier.detail_levels
  /\ \A dim \in {"cx", "cz"} :
       /\ Reach(call[dim], call.radius).low <= Reach(earlier[dim], earlier.radius).low
       /\ Reach(earlier[dim], earlier.radius).high <= Reach(call[dim], call.radius).high

(* Calling again heals: a call that succeeds with a box and a depth that   *)
(* cover those of all calls before leaves no row of theirs behind, neither *)
(* of the calls that succeeded nor of those that were cut short.           *)
RerunHeals ==
  /\ exit = "success"
  /\ Stage1!BoxFits
  /\ \A n \in 1 .. done : Covers(cfg, session.calls[n])
  => \A k \in Keys : store[k] # NoRow => store[k].run = runs

(* The chunks whose terrain the row of a key may show. *)
Extent(k, dim) ==
  LET width == IF k.table = "ChunkHash" THEN 1 ELSE Width(k.level)
  IN  [low |-> k.pos[dim] * width, high |-> (k.pos[dim] + 1) * width - 1]
Meet(a, b) == a.low <= b.high /\ b.low <= a.high
InReachOf(k) ==
  Meet(Extent(k, 1), Reach(cfg.cx, cfg.radius)) /\ Meet(Extent(k, 2), Reach(cfg.cz, cfg.radius))

(* A call changes no row of an area its box does not touch, however it     *)
(* ends: what other calls have baked elsewhere stays.                      *)
OnlyBoxReplaced ==
  [][Stage1!BoxFits => \A k \in Keys : store'[k] # store[k] => InReachOf(k)]_vars

(* A scan that ends has found each region file that overlaps the box once. *)
FindsOverlapping == Stage1!FindsOverlapping

(* Every call exits, whatever the map holds and however many levels there  *)
(* are to build.                                                           *)
RunExits == stage # "idle" ~> stage = "idle"
==============================================================================
