------------------------------ MODULE Discovery ------------------------------
(***************************************************************************)
(* The start of run_pipeline and its stage 1: the bounding box in chunks   *)
(* is computed in i32 arithmetic from the configuration, and the map, a    *)
(* world folder or a .zip archive, is searched for the region files that   *)
(* overlap it.                                                             *)
(*                                                                         *)
(* An i32 is an integer of -IntHalf .. IntHalf - 1 (2^31 in the code); the *)
(* release profile switches overflow checks off, so arithmetic wraps.      *)
(***************************************************************************)
EXTENDS Integers, Sequences, FiniteSets

CONSTANTS
  ChunkCols,     \* 16 block columns along a chunk
  RegionChunks,  \* 32 chunks along a region
  IntHalf,       \* 2^31
  Configs,       \* --cx, --cz, --radius
  Maps,          \* what --map may point to
  NoPos          \* a file name that is not r.<X>.<Z>

(***************************************************************************)
(* A map is [kind, tree, archive]: tree gives the entries of each folder   *)
(* of a world folder, archive the entries of a .zip in order.  A file has  *)
(* the folder it is in, whether its extension is mca, the position its     *)
(* name parses to, and whether its folder is named region.                 *)
(***************************************************************************)
VARIABLES
  map,      \* cfg.map, fixed
  cfg,      \* the configuration, fixed
  scan,     \* folders being read, innermost first: the entries still to visit
  archive,  \* entries of the archive still to visit
  tasks,    \* region_tasks
  status    \* "start", "scan", "found", "nothing" or "error"

vars == <<map, cfg, scan, archive, tasks, status>>

Init ==
  /\ map \in Maps
  /\ cfg \in Configs
  /\ scan = <<>>
  /\ archive = <<>>
  /\ tasks = <<>>
  /\ status = "start"
-----------------------------------------------------------------------------
(* i32 subtraction and addition without overflow checks. *)
WrapWide(n) == n
Wrap(n) == ((n + IntHalf) % (2 * IntHalf)) - IntHalf

(* div_euclid by a positive number rounds down, `/` would round to zero. *)
DivTruncated(n, d) == IF n < 0 THEN -((-n) \div d) ELSE n \div d
DivEuclid(n, d) == n \div d

center_chunk_x == DivEuclid(cfg.cx, ChunkCols)
center_chunk_z == DivEuclid(cfg.cz, ChunkCols)
min_cx == Wrap(center_chunk_x - cfg.radius)
max_cx == Wrap(center_chunk_x + cfg.radius)
min_cz == Wrap(center_chunk_z - cfg.radius)
max_cz == Wrap(center_chunk_z + cfg.radius)

min_rx == DivEuclid(min_cx, RegionChunks)
max_rx == DivEuclid(max_cx, RegionChunks)
min_rz == DivEuclid(min_cz, RegionChunks)
max_rz == DivEuclid(max_cz, RegionChunks)

InRange(pos) ==
  /\ pos # NoPos
  /\ pos[1] >= min_rx /\ pos[1] <= max_rx
  /\ pos[2] >= min_rz /\ pos[2] <= max_rz

(* Which files become tasks: in a folder every .mca that parses, in an     *)
(* archive only those whose path contains region/r.                        *)
TakenFromFolder(file) == file.mca /\ InRange(file.pos)
TakenFromArchive(file) == file.mca /\ file.in_region /\ InRange(file.pos)

FromFolder == map.kind = "folder"
FromArchive == map.kind = "zip"

StartFolder ==
  /\ status = "start"
  /\ FromFolder
  /\ scan' = <<map.tree["/"]>>
  /\ status' = "scan"
  /\ UNCHANGED <<map, cfg, archive, tasks>>

StartArchive ==
  /\ status = "start"
  /\ FromArchive
  /\ archive' = map.archive
  /\ status' = "scan"
  /\ UNCHANGED <<map, cfg, scan, tasks>>

(* Neither a file nor a directory, or not readable. *)
StartFails ==
  /\ status = "start"
  /\ status' = "error"
  /\ UNCHANGED <<map, cfg, scan, archive, tasks>>

(* The entries of the folder being read; read_dir yields them in any order. *)
InFolder == status = "scan" /\ scan # <<>>
Entries == IF InFolder THEN Head(scan) ELSE {}
Without(e) == <<Head(scan) \ {e}>> \o Tail(scan)

(* find_mca_files_in_dir calls itself on a sub-folder at once. *)
EnterFolder(e) ==
  /\ InFolder
  /\ e.type = "dir"
  /\ scan' = <<map.tree[e.name]>> \o Without(e)
  /\ UNCHANGED <<map, cfg, archive, tasks, status>>

LeaveFolderAgain ==
  /\ InFolder
  /\ Head(scan) = {}
  /\ UNCHANGED <<map, cfg, archive, tasks, status, scan>>

LeaveFolder ==
  /\ InFolder
  /\ Head(scan) = {}
  /\ scan' = Tail(scan)
  /\ UNCHANGED <<map, cfg, archive, tasks, status>>

VisitFile(e) ==
  /\ InFolder
  /\ e.type = "file"
  /\ scan' = Without(e)
  /\ tasks' = IF TakenFromFolder(e) THEN Append(tasks, e) ELSE tasks
  /\ UNCHANGED <<map, cfg, archive, status>>

ReadEntry ==
  /\ status = "scan"
  /\ archive # <<>>
  /\ archive' = Tail(archive)
  /\ tasks' = IF TakenFromArchive(Head(archive)) THEN Append(tasks, Head(archive)) ELSE tasks
  /\ UNCHANGED <<map, cfg, scan, status>>

(* A folder, an entry or a member of the archive that cannot be read ends  *)
(* the run with an error: the tasks found so far are dropped.              *)
ReadFails ==
  /\ status = "scan"
  /\ scan # <<>> \/ archive # <<>>
  /\ status' = "error"
  /\ tasks' = <<>>
  /\ UNCHANGED <<map, cfg, scan, archive>>

(* Nothing left to visit.  Without tasks the run is over, successfully.    *)
EndScan ==
  /\ status = "scan"
  /\ scan = <<>>
  /\ archive = <<>>
  /\ status' = IF tasks = <<>> THEN "nothing" ELSE "found"
  /\ UNCHANGED <<map, cfg, scan, archive, tasks>>

Over == status \in {"found", "nothing", "error"}

Proceed ==
  \/ StartFolder \/ StartArchive
  \/ \E e \in Entries : EnterFolder(e) \/ VisitFile(e)
  \/ LeaveFolder
  \/ ReadEntry \/ EndScan
Fail == StartFails \/ ReadFails

Next == Proceed \/ Fail

Spec == Init /\ [][Next]_vars
-----------------------------------------------------------------------------
I32 == -IntHalf .. IntHalf - 1
FilesIn(entries) == {e \in entries : e.type = "file"}
Range0(s) == {s[i] : i \in DOMAIN s}

(* What can be at the path of --map.  Folders form a tree: each folder and *)
(* each file has one place in it, and no folder is out of reach.           *)
IsFile(e) ==
  e.type = "file" /\ {e.mca, e.in_region} \subseteq BOOLEAN /\ (e.pos = NoPos \/ e.pos \in Int \X Int)
IsFolder(e, names) == e.type = "dir" /\ e.name \in names \ {"/"}
SameEntry(e, f) == e = f \/ (e.type = "dir" /\ f.type = "dir" /\ e.name = f.name)

IsTree(tree) ==
  /\ "/" \in DOMAIN tree
  /\ \A d \in DOMAIN tree : \A e \in tree[d] : IsFile(e) \/ IsFolder(e, DOMAIN tree)
  /\ \A c, d \in DOMAIN tree : \A e \in tree[c], f \in tree[d] : SameEntry(e, f) => c = d /\ e = f
  /\ \A reached \in SUBSET DOMAIN tree :
       /\ "/" \in reached
       /\ \A d \in reached : \A e \in tree[d] : e.type = "dir" => e.name \in reached
       => reached = DOMAIN tree
IsArchive(entries) ==
  /\ entries \in Seq(Range0(entries))
  /\ \A n \in DOMAIN entries : IsFile(entries[n])
  /\ \A m, n \in DOMAIN entries : entries[m] = entries[n] => m = n
IsMap(m) ==
  \/ m.kind = "folder" /\ IsTree(m.tree)
  \/ m.kind = "zip" /\ IsArchive(m.archive)
  \/ m.kind = "none"

FilesOf(m) ==
  CASE m.kind = "folder" -> UNION {FilesIn(m.tree[d]) : d \in DOMAIN m.tree}
    [] m.kind = "zip" -> Range0(m.archive)
    [] OTHER -> {}
AllFiles == FilesOf(map)

(* The chunk that holds the centre block, without any division. *)
CentreChunk(c, block) == c * ChunkCols <= block /\ block < (c + 1) * ChunkCols

(* Does the box around the centre reach region coordinate r?  In integers, *)
(* looking at every chunk of the region.                                   *)
Reaches(block, r) ==
  \E c \in r * RegionChunks .. (r + 1) * RegionChunks - 1 :
    \E m \in c - cfg.radius .. c + cfg.radius : CentreChunk(m, block)

Overlaps(pos) == pos # NoPos /\ Reaches(cfg.cx, pos[1]) /\ Reaches(cfg.cz, pos[2])

(* The corners of the box are not beyond the i32 range, nor the wrong way  *)
(* round: with a negative radius a region may still lie between them, and  *)
(* stage 2 takes no chunk of it.                                           *)
BoxFits ==
  cfg.radius >= 0 /\ \A c \in {center_chunk_x, center_chunk_z} : {c - cfg.radius, c + cfg.radius} \subseteq I32

(* A scan that ends has found exactly the region files some chunk of which *)
(* is within the radius, at negative coordinates too, each file once.      *)
FindsOverlapping ==
  BoxFits /\ status \in {"found", "nothing"} =>
    /\ Range0(tasks) = {f \in AllFiles : f.mca /\ (FromArchive => f.in_region) /\ Overlaps(f.pos)}
    /\ \A i, j \in DOMAIN tasks : tasks[i] = tasks[j] => i = j
==============================================================================
