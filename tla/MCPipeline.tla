------------------------------ MODULE MCPipeline ------------------------------
(* Small maps and sessions for Pipeline: chunks of 4 columns, sections of   *)
(* 2 chunks, regions of 4 chunks and 8-bit integers.                        *)
EXTENDS Pipeline

File(dir, x, z, chunks) ==
  [type |-> "file", dir |-> dir, mca |-> TRUE, pos |-> <<x, z>>, in_region |-> dir = "region",
   opens |-> TRUE, chunks |-> chunks]
Broken(x, z) == [File("region", x, z, <<>>) EXCEPT !.opens = FALSE]
Other(dir, name) ==
  [type |-> "file", dir |-> dir, mca |-> name = "backup.mca", pos |-> NoPos,
   in_region |-> dir = "region", opens |-> FALSE, chunks |-> <<>>]
Folder(name) == [type |-> "dir", name |-> name]

(* Two sections of one file, two chunks of one section, a chunk without    *)
(* terrain, and a file on the other side of the origin.                    *)
East == File("region", 0, 0, <<0, 0>> :> "terrain" @@ <<1, 1>> :> "terrain" @@ <<3, 2>> :> "terrain")
West == File("region", -1, 0, <<3, 0>> :> "terrain" @@ <<1, 1>> :> "void")
Mobs == File("entities", 0, 0, <<0, 0>> :> "void")

World(files) == [kind |-> "folder", tree |->
  [d \in {"/", "region"} |-> IF d = "/" THEN {Folder("region"), Other("/", "level.dat")} ELSE files]]
Plain == World({East, West, Broken(1, -2), File("region", -8, 7, <<>>), Other("region", "backup.mca")})
Flat == [kind |-> "folder", tree |-> [d \in {"/"} |-> {East, West}]]
Zipped == [kind |-> "zip", archive |->
  <<Other("/", "level.dat"), Broken(1, -2), East, Mobs, West, Other("region", "backup.mca")>>]
Absent == [kind |-> "none"]

(* A world as the game saves it since 1.17: entities beside the terrain. *)
Saved == [kind |-> "folder", tree |->
  [d \in {"/", "region", "entities"} |->
     CASE d = "/" -> {Folder("region"), Folder("entities")}
       [] d = "region" -> {East}
       [] d = "entities" -> {Mobs}]]

At(x, z, r, levels) == [cx |-> x, cz |-> z, radius |-> r, detail_levels |-> levels]
Session(m, calls) == [map |-> m, calls |-> calls]

Once == {At(0, 0, 1, 2), At(-1, 5, 0, 1), At(-17, 0, 3, 0), At(20, -30, 4, 1), At(-128, 127, 2, 0),
         At(3, 3, -1, 1), At(-9, 0, 127, 1)}
Again == {<<At(0, 0, 0, 1), At(0, 0, 1, 1)>>, <<At(1, 1, 1, 1), At(-4, 4, 0, 0)>>,
          <<At(0, 0, 0, 0), At(-4, 0, 0, 0), At(0, 0, 1, 1)>>}

MCSessions == {Session(m, <<call>>) : m \in {Plain, Zipped, Absent}, call \in Once}
                \cup {Session(Flat, calls) : calls \in Again}
                \cup {Session(Zipped, <<At(-4, 0, 0, 1), At(0, 0, 1, 1)>>)}
MCSaved == {Session(Saved, <<At(0, 0, 3, 1)>>)}

MCKeys ==
  {DataKey(level, pos) : level \in 0 .. 2, pos \in (-2 .. 1) \X (-1 .. 1)}
    \cup {HashKey(pos) : pos \in (-4 .. 3) \X (0 .. 3)}
==============================================================================
