----------------------------- MODULE RegionBake -----------------------------
(***************************************************************************)
(* Stage 2 of run_pipeline: the worker threads of the rayon pool take the  *)
(* region tasks, walk the chunk header of each file, decompress, parse and *)
(* voxelize the chunks inside the bounding box, and assemble the           *)
(* detail-level-0 sections of the region; collect() then joins the results *)
(* in task order.                                                          *)
(*                                                                         *)
(* A region task is a record with the region's position, whether the file  *)
(* opens (an I/O error or a header below 8 KB does not), and what the      *)
(* reader meets at each of the header's chunk slots.                       *)
(***************************************************************************)
EXTENDS LodGrid, FiniteSets, SequencesExt

CONSTANTS
  Workers,      \* threads of the rayon pool
  TaskSeqs,     \* the region_tasks vectors stage 1 may hand over
  Boxes,        \* the bounding boxes, in chunks
  NoSection     \* the None of local_sections

VARIABLES
  tasks,        \* region_tasks, fixed
  box,          \* min_cx, max_cx, min_cz, max_cz, fixed
  unclaimed,    \* indices of tasks no worker has taken yet
  job,          \* the closure's locals on each worker
  scratch,      \* DECOMPRESS_SCRATCH of each worker thread
  results,      \* what the closure returned for each task
  total,        \* total_chunks_counter
  joined,       \* collect() has returned
  lod,          \* all_lod_sections after the join
  chunk_hashes  \* all_chunk_hashes after the join

inputs == <<tasks, box>>
outputs == <<joined, lod, chunk_hashes>>
vars == <<inputs, unclaimed, job, scratch, results, total, outputs>>

(***************************************************************************)
(* What the reader can meet at a header slot, in the order it finds out:   *)
(*   absent       offset or sector count 0       get_chunk_location        *)
(*   bad_payload  offset or length out of file   get_raw_chunk_payload     *)
(*   bad_stream   unknown scheme, broken stream  decompress_chunk_payload  *)
(*   bad_nbt      not a chunk compound           parse_chunk_nbt           *)
(*   ok           solid is the set of columns that hold any voxel          *)
(***************************************************************************)
ChunkStates == {"absent", "bad_payload", "bad_stream", "bad_nbt", "ok"}
Chunk == [state : ChunkStates, min_y : Int, max_y : Int, solid : SUBSET GridCols]
Region == [rx : Int, rz : Int, opens : BOOLEAN, chunk : [Locals -> Chunk]]
Box == [min_cx : Int, max_cx : Int, min_cz : Int, max_cz : Int]


(* Provenance of a column: a block column <<x, z>> of the i-th task. *)
Provenance == SUBSET (Nat \X Int \X Int)
Section == [detail_level : Nat, pos_x : Int, pos_z : Int, min_y : Int, max_y : Int,
            columns : [Cols -> Provenance]]

ASSUME BakeAssumption ==
  /\ TaskSeqs \subseteq Seq(Region)
  /\ Boxes \subseteq Box
  /\ NoSection \notin Section

TaskIds == DOMAIN tasks
SlotCount == RegionChunks * RegionChunks

(* iter_present_chunks visits z outermost: slot n of the header. *)
Slot(n) == <<n % RegionChunks, n \div RegionChunks>>
SlotOf(l) == l[1] + l[2] * RegionChunks

ChunkX(t, l) == t.rx * RegionChunks + l[1]
ChunkZ(t, l) == t.rz * RegionChunks + l[2]

Outside(b, x, z) == x < b.min_cx \/ x > b.max_cx \/ z < b.min_cz \/ z > b.max_cz

(* ChunkVoxelGrid::from_chunk_data, with columns reduced to provenance:    *)
(* the column <<cx, cz>> of a chunk is a block column of the world.        *)
VoxelGrid(i, l) ==
  LET t == tasks[i]
      c == t.chunk[l]
  IN  [chunk_x |-> ChunkX(t, l), chunk_z |-> ChunkZ(t, l),
       min_y |-> c.min_y, max_y |-> c.max_y,
       columns |-> [q \in GridCols |->
          IF q \in c.solid
          THEN {<<i, ChunkX(t, l) * ChunkCols + q[1], ChunkZ(t, l) * ChunkCols + q[2]>>}
          ELSE {}]]

NoSections == [s \in SecIdx |-> NoSection]
IdleJob == [task |-> 0, next |-> 0, sections |-> NoSections, hashes |-> <<>>, count |-> 0]
Pending == [done |-> FALSE, sections |-> NoSections, hashes |-> <<>>]
Dropped == [done |-> TRUE, sections |-> NoSections, hashes |-> <<>>]

Init ==
  /\ tasks \in TaskSeqs
  /\ box \in Boxes
  /\ unclaimed = TaskIds
  /\ job = [w \in Workers |-> IdleJob]
  /\ scratch = [w \in Workers |-> <<>>]
  /\ results = [i \in TaskIds |-> Pending]
  /\ total = 0
  /\ joined = FALSE
  /\ lod = <<>>
  /\ chunk_hashes = <<>>
-----------------------------------------------------------------------------
(* into_par_iter: an idle worker steals any task nobody has taken. *)
ClaimShared(i) == unclaimed
Claim(i) == unclaimed \ {i}

OpenRegion(w, i) ==
  /\ job[w].task = 0
  /\ i \in unclaimed
  /\ tasks[i].opens
  /\ unclaimed' = Claim(i)
  /\ job' = [job EXCEPT ![w] = [IdleJob EXCEPT !.task = i]]
  /\ UNCHANGED <<inputs, scratch, results, total, outputs>>

(* An unreadable file yields an empty result; the counter is not touched. *)
OpenFails(w, i) ==
  /\ job[w].task = 0
  /\ i \in unclaimed
  /\ ~tasks[i].opens
  /\ unclaimed' = Claim(i)
  /\ results' = [results EXCEPT ![i] = Dropped]
  /\ UNCHANGED <<inputs, job, scratch, total, outputs>>

Scanning(w) == job[w].task # 0 /\ job[w].next < SlotCount
CurTask(w) == tasks[job[w].task]
CurLocal(w) == Slot(job[w].next)
CurChunk(w) == CurTask(w).chunk[CurLocal(w)]
CurInBox(w) ==
  ~Outside(box, ChunkX(CurTask(w), CurLocal(w)), ChunkZ(CurTask(w), CurLocal(w)))

AdvanceStuck(w) == UNCHANGED job
Advance(w) == job' = [job EXCEPT ![w].next = @ + 1]

(* The header slot is empty, the chunk is outside the box, or its payload  *)
(* does not lie in the file: the scratch buffer is not borrowed.           *)
SkipUnread(w) ==
  /\ Scanning(w)
  /\ CurChunk(w).state \in {"absent", "bad_payload"} \/ ~CurInBox(w)
  /\ Advance(w)
  /\ UNCHANGED <<inputs, unclaimed, scratch, results, total, outputs>>

(* decompress_chunk_payload clears the thread's buffer before it appends   *)
(* the chunk's bytes; a broken stream leaves a fragment behind.            *)
DecompressedNoClear(buffer, payload) == Append(buffer, payload)
Decompressed(buffer, payload) == <<payload>>

(* The payload does not decompress or is no chunk compound. *)
SkipUnparsable(w) ==
  /\ Scanning(w)
  /\ CurInBox(w)
  /\ CurChunk(w).state \in {"bad_stream", "bad_nbt"}
  /\ scratch' = [scratch EXCEPT ![w] =
                   Decompressed(@, [task |-> job[w].task, local |-> CurLocal(w)])]
  /\ Advance(w)
  /\ UNCHANGED <<inputs, unclaimed, results, total, outputs>>

(* Which section of the region a chunk belongs to, and where inside it. *)
LocalSecTransposed(l) == <<l[2] \div SecChunks, l[1] \div SecChunks>>
LocalSec(l) == <<l[1] \div SecChunks, l[2] \div SecChunks>>
ChunkRel(l) == <<l[1] % SecChunks, l[2] % SecChunks>>

(* new_empty(0, abs_sec_x, abs_sec_z) for section s of the region of t. *)
FreshSection(t, s) == NewEmpty(0, t.rx * RegionSecs + s[1], t.rz * RegionSecs + s[2])

(* local_sections[sec_idx].get_or_insert_with(...), then the copy loop. *)
WithChunk(sections, t, l, grid) ==
  LET s == LocalSec(l)
      old == IF sections[s] = NoSection THEN FreshSection(t, s) ELSE sections[s]
  IN  [sections EXCEPT ![s] = PlaceGrid(old, ChunkRel(l)[1], ChunkRel(l)[2], grid)]

(* The chunk decompresses and parses: it is hashed and placed.  What is    *)
(* parsed is what stands at the front of the scratch buffer.               *)
PlaceChunk(w) ==
  LET i == job[w].task
      l == CurLocal(w)
      buffer == Decompressed(scratch[w], [task |-> i, local |-> l])
      grid == VoxelGrid(buffer[1].task, buffer[1].local)
      hash == [chunk_x |-> ChunkX(CurTask(w), l), chunk_z |-> ChunkZ(CurTask(w), l),
               hash |-> buffer[1]]
  IN  /\ Scanning(w)
      /\ CurInBox(w)
      /\ CurChunk(w).state = "ok"
      /\ scratch' = [scratch EXCEPT ![w] = buffer]
      /\ job' = [job EXCEPT ![w].next = @ + 1,
                            ![w].sections = WithChunk(@, CurTask(w), l, grid),
                            ![w].hashes = Append(@, hash),
                            ![w].count = @ + 1]
      /\ UNCHANGED <<inputs, unclaimed, results, total, outputs>>

(* counter_ref.fetch_add *)
CounterWrapped(n) == n - total
Counter(n) == total + n

(* The place of a finished task in the collected vector. *)
ResultSlotByCompletion(w) == CHOOSE i \in TaskIds : /\ ~results[i].done
                                                    /\ \A j \in 1 .. i - 1 : results[j].done
ResultSlot(w) == job[w].task

(* The closure ends: the counter grows by the chunks of this region, and   *)
(* its sections and hashes become the result of this task, whatever the    *)
(* order in which the closures end.                                        *)
FinishRegion(w) ==
  /\ job[w].task # 0
  /\ job[w].next = SlotCount
  /\ total' = Counter(job[w].count)
  /\ results' = [results EXCEPT ![ResultSlot(w)] =
                   [done |-> TRUE, sections |-> job[w].sections, hashes |-> job[w].hashes]]
  /\ job' = [job EXCEPT ![w] = IdleJob]
  /\ UNCHANGED <<inputs, unclaimed, scratch, outputs>>

(* into_iter().flatten(): sec_idx = local_sec_x + local_sec_z * 8 order. *)
ValidSections(sections) ==
  SelectSeq([n \in 1 .. RegionSecs * RegionSecs |->
               sections[<<(n - 1) % RegionSecs, (n - 1) \div RegionSecs>>]],
            LAMBDA sec : sec # NoSection)

AllReturned == \A i \in TaskIds : results[i].done

(* collect() returns once every closure has; the results are appended in   *)
(* the order of region_tasks.                                              *)
Collect ==
  /\ AllReturned
  /\ ~joined
  /\ joined' = TRUE
  /\ lod' = FlattenSeq([i \in TaskIds |-> ValidSections(results[i].sections)])
  /\ chunk_hashes' = FlattenSeq([i \in TaskIds |-> results[i].hashes])
  /\ UNCHANGED <<inputs, unclaimed, job, scratch, results, total>>

(* Stage 2 is over; stage 3 takes lod from here. *)
Finished == joined /\ UNCHANGED vars

WorkerStep(w) ==
  \/ \E i \in TaskIds : OpenRegion(w, i)
  \/ \E i \in TaskIds : OpenFails(w, i)
  \/ SkipUnread(w)
  \/ SkipUnparsable(w)
  \/ PlaceChunk(w)
  \/ FinishRegion(w)

Next ==
  \/ \E w \in Workers : WorkerStep(w)
  \/ Collect
  \/ Finished

(* A worker thread that can run does run: rayon parks no worker while the  *)
(* pool holds tasks, and the operating system schedules every thread.      *)
Fairness == WF_vars(Collect) /\ \A w \in Workers : WF_vars(WorkerStep(w))

Spec == Init /\ [][Next]_vars
FairSpec == Spec /\ Fairness
-----------------------------------------------------------------------------
LocalSections == [SecIdx -> Section \cup {NoSection}]
Payload == [task : TaskIds, local : Locals]
HashEntry == [chunk_x : Int, chunk_z : Int, hash : Payload]
Job == [task : {0} \cup TaskIds, next : 0 .. SlotCount, sections : LocalSections,
        hashes : Seq(HashEntry), count : Nat]
Result == [done : BOOLEAN, sections : LocalSections, hashes : Seq(HashEntry)]

(* Every variable of stage 2 holds a value of the type the code gives it:  *)
(* header slots, task indices and sections are never out of range.         *)
TypeOK ==
  /\ tasks \in Seq(Region)
  /\ box \in Box
  /\ unclaimed \subseteq TaskIds
  /\ job \in [Workers -> Job]
  /\ scratch \in [Workers -> Seq(Payload)]
  /\ results \in [TaskIds -> Result]
  /\ total \in Nat
  /\ joined \in BOOLEAN

(* A task is unclaimed, on one worker, or returned, and never two of them: *)
(* a region file goes through the closure of stage 2 exactly once.         *)
ClaimedOnce ==
  /\ \A i \in unclaimed : ~results[i].done /\ \A w \in Workers : job[w].task # i
  /\ \A w \in Workers : job[w].task # 0 => ~results[job[w].task].done
  /\ \A v, w \in Workers : job[v].task = job[w].task /\ job[v].task # 0 => v = w

(***************************************************************************)
(* The reference the assembly loop is judged by.  It speaks of block       *)
(* coordinates of the world only, not of sections, quotients or remainders *)
(* the code computes: a chunk counts when the reader accepts it and it     *)
(* lies in the box, and a block column shows the chunk that covers it.     *)
(***************************************************************************)
Accepted(i, l) ==
  /\ tasks[i].chunk[l].state = "ok"
  /\ ~Outside(box, ChunkX(tasks[i], l), ChunkZ(tasks[i], l))

AcceptedBefore(i, n) == {l \in Locals : SlotOf(l) < n /\ Accepted(i, l)}

(* Is block column <<bx, bz>> a solid column of chunk l of task i? *)
Shows(i, l, bx, bz) ==
  <<bx - ChunkX(tasks[i], l) * ChunkCols, bz - ChunkZ(tasks[i], l) * ChunkCols>>
    \in tasks[i].chunk[l].solid

ReferenceColumn(i, n, bx, bz) ==
  {<<i, bx, bz>> : l \in {c \in AcceptedBefore(i, n) : Shows(i, c, bx, bz)}}

InSection(l, s) ==
  /\ l[1] \in s[1] * SecChunks .. s[1] * SecChunks + SecChunks - 1
  /\ l[2] \in s[2] * SecChunks .. s[2] * SecChunks + SecChunks - 1

(* What local_sections must hold once the first n header slots are done. *)
AssembledUpTo(i, n, sections) ==
  \A s \in SecIdx :
    /\ (sections[s] # NoSection) <=> \E l \in AcceptedBefore(i, n) : InSection(l, s)
    /\ sections[s] # NoSection =>
         /\ KeyOf(sections[s]) =
              <<0, tasks[i].rx * RegionSecs + s[1], tasks[i].rz * RegionSecs + s[2]>>
         /\ \A p \in Cols :
              sections[s].columns[p] =
                ReferenceColumn(i, n, sections[s].pos_x * SecCols + p[1],
                                      sections[s].pos_z * SecCols + p[2])

(* At every step of every worker the level-0 sections hold exactly the     *)
(* accepted chunks read so far, each block column at its own place in the  *)
(* world: no stale bytes of the thread's previous chunk, no chunk of a     *)
(* neighbour, no column twice or transposed, none lost.                    *)
Assembled ==
  /\ \A w \in Workers : job[w].task # 0 =>
       AssembledUpTo(job[w].task, job[w].next, job[w].sections)
  /\ \A i \in TaskIds : results[i].done =>
       IF tasks[i].opens THEN AssembledUpTo(i, SlotCount, results[i].sections)
       ELSE results[i].sections = NoSections

(* The hash entries of the first n header slots of a task, in header order. *)
HashOf(i, l) ==
  [chunk_x |-> ChunkX(tasks[i], l), chunk_z |-> ChunkZ(tasks[i], l),
   hash |-> [task |-> i, local |-> l]]
HashesUpTo(i) ==
  LET upTo[n \in 0 .. SlotCount] ==
        IF n = 0 THEN <<>>
        ELSE IF Accepted(i, Slot(n - 1)) THEN Append(upTo[n - 1], HashOf(i, Slot(n - 1)))
        ELSE upTo[n - 1]
  IN  upTo
ReferenceHashes(i) == IF tasks[i].opens THEN HashesUpTo(i)[SlotCount] ELSE <<>>

(* Whatever the interleaving of the workers, the joined hash list is the   *)
(* sequential one, in task order and header order, and the shared counter  *)
(* agrees with it: parallel stage 2 is deterministic.                      *)
JoinDeterministic ==
  joined => /\ chunk_hashes = FlattenSeq([i \in TaskIds |-> ReferenceHashes(i)])
            /\ total = Len(chunk_hashes)

GridsOf(i, hashes) == [k \in DOMAIN hashes |-> VoxelGrid(i, hashes[k].hash.local)]
Present(sections) == {sections[s] : s \in SecIdx} \ {NoSection}

(* LodSection::build_level_0, the library's own assembly, on the grids the *)
(* task yields, gives the sections the inline loop of stage 2 gives,       *)
(* height bounds included: the two implementations agree.                  *)
SameAsBuildLevel0 ==
  \A i \in TaskIds : results[i].done =>
    Present(results[i].sections) = BuildLevel0(GridsOf(i, results[i].hashes))

(* The chunks of task i that went into a section of its result. *)
Inside(i, s) == {l \in AcceptedBefore(i, SlotCount) : InSection(l, s)}

(* The height range of a section is that of the chunks it holds, in        *)
(* whatever order they come: the maximum reaches every one, and the        *)
(* minimum is the least one unless that is 0, which the code takes for     *)
(* "not set yet"; then it is that of some other chunk above it.            *)
HeightsBound ==
  \A i \in TaskIds : results[i].done => \A s \in SecIdx : results[i].sections[s] # NoSection =>
    SpansParts(results[i].sections[s], {tasks[i].chunk[l] : l \in Inside(i, s)})

(* min_y of a section is its minimum height bounding coordinate: no voxel  *)
(* of a chunk it holds lies below (doc comment of LodSection::min_y).      *)
MinYBounds ==
  \A i \in TaskIds : results[i].done => \A s \in SecIdx : results[i].sections[s] # NoSection =>
    \A l \in Inside(i, s) : tasks[i].chunk[l].solid # {} =>
      results[i].sections[s].min_y <= tasks[i].chunk[l].min_y

(* Every region file is dealt with and the join is reached, whatever       *)
(* files are unreadable and however the workers share them.                *)
Stage2Ends == <>joined
=============================================================================
