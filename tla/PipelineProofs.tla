---------------------------- MODULE PipelineProofs ----------------------------
(***************************************************************************)
(* Theorems about the pipeline as a whole.  First the bounding box and     *)
(* stage 1, for every width of integers, every tree of folders and every   *)
(* archive; then which rows of the database the calls of mca2lod touch,    *)
(* and that calling again heals, for every map, every sequence of calls,   *)
(* and every way a call may fail or be killed.                             *)
(***************************************************************************)
EXTENDS Pipeline, SharedLemmas, FiniteSetTheorems, TLAPS

(* A number within the range of i32 survives unchecked arithmetic.         *)
LEMMA WrapFits ==
  ASSUME NEW n \in Stage1!I32
  PROVE  Stage1!Wrap(n) = n
<1>1. IntHalf \in Nat \ {0} /\ n \in Int /\ n + IntHalf \in 0 .. 2 * IntHalf - 1 /\ 2 * IntHalf \in Nat \ {0}
  BY PipelineAssumption DEF Stage1!I32
<1> DEFINE m == n + IntHalf
           d == 2 * IntHalf
<1>2. (d * 0 + m) % d = m
  BY <1>1, DivUnique
<1>3. d * 0 + m = m
  BY <1>1
<1> QED
  BY <1>1, <1>2, <1>3 DEF Stage1!Wrap

LEMMA SizesPositive ==
  ChunkCols \in Nat \ {0} /\ RegionChunks \in Nat \ {0} /\ IntHalf \in Nat \ {0} /\ SecChunks \in Nat \ {0}
BY PipelineAssumption

(* The chunk that holds a block.                                           *)
LEMMA CentreIs ==
  ASSUME NEW block \in Int, NEW m \in Int
  PROVE  Stage1!CentreChunk(m, block) <=> m = block \div ChunkCols
<1>1. /\ block \div ChunkCols >= m <=> block >= m * ChunkCols
      /\ block \div ChunkCols <= m <=> block < (m + 1) * ChunkCols
      /\ block \div ChunkCols \in Int /\ m * ChunkCols \in Int
  BY DivBounds, DivMod, SizesPositive
<1> QED
  BY <1>1 DEF Stage1!CentreChunk

(* One dimension of the region range: the floor divisions of the corners   *)
(* of the box give exactly the regions that have a chunk in it.            *)
LEMMA ReachesRegion ==
  ASSUME NEW block \in Int, cfg.radius \in Nat, NEW r \in Int
  PROVE  Stage1!Reaches(block, r) <=>
           /\ r >= (block \div ChunkCols - cfg.radius) \div RegionChunks
           /\ r <= (block \div ChunkCols + cfg.radius) \div RegionChunks
<1> DEFINE c == block \div ChunkCols
           low == c - cfg.radius
           high == c + cfg.radius
<1>1. c \in Int /\ low \in Int /\ high \in Int /\ low <= high
  BY DivMod, SizesPositive
<1> HIDE DEF c
<1>2. /\ low \div RegionChunks <= r <=> low < (r + 1) * RegionChunks
      /\ high \div RegionChunks >= r <=> high >= r * RegionChunks
      /\ low \div RegionChunks \in Int /\ high \div RegionChunks \in Int
  BY <1>1, DivBounds, DivMod, SizesPositive
<1>3. r * RegionChunks \in Int /\ (r + 1) * RegionChunks = r * RegionChunks + RegionChunks
  BY SizesPositive
<1>4. Stage1!Reaches(block, r) <=>
        \E d \in r * RegionChunks .. (r + 1) * RegionChunks - 1 : low <= d /\ d <= high
  <2>1. \A d, m \in Int : Stage1!CentreChunk(m, block) <=> m = c
    BY CentreIs DEF c
  <2>2. \A d \in r * RegionChunks .. (r + 1) * RegionChunks - 1 :
          (\E m \in d - cfg.radius .. d + cfg.radius : Stage1!CentreChunk(m, block))
            <=> low <= d /\ d <= high
    BY <1>1, <1>3, <2>1
  <2> QED
    BY <2>2 DEF Stage1!Reaches
<1>5. (\E d \in r * RegionChunks .. (r + 1) * RegionChunks - 1 : low <= d /\ d <= high)
        <=> low < (r + 1) * RegionChunks /\ high >= r * RegionChunks
  <2> DEFINE d == IF low >= r * RegionChunks THEN low ELSE r * RegionChunks
  <2>1. ASSUME low < (r + 1) * RegionChunks, high >= r * RegionChunks
        PROVE  d \in r * RegionChunks .. (r + 1) * RegionChunks - 1 /\ low <= d /\ d <= high
    BY <1>1, <1>3, <2>1, SizesPositive
  <2> HIDE DEF d
  <2> QED
    BY <1>1, <1>3, <2>1, SizesPositive
<1> QED
  BY <1>2, <1>4, <1>5 DEF c

(* The configuration of the call in progress.                              *)
LEMMA Corners ==
  ASSUME cfg \in CliConfig, Stage1!BoxFits
  PROVE  /\ cfg.radius \in Nat
         /\ Stage1!min_cx = cfg.cx \div ChunkCols - cfg.radius
         /\ Stage1!max_cx = cfg.cx \div ChunkCols + cfg.radius
         /\ Stage1!min_cz = cfg.cz \div ChunkCols - cfg.radius
         /\ Stage1!max_cz = cfg.cz \div ChunkCols + cfg.radius
<1>1. cfg.radius \in Nat
  BY SizesPositive DEF CliConfig, Stage1!BoxFits
<1> QED
  BY <1>1, WrapFits
     DEF Stage1!BoxFits, Stage1!center_chunk_x, Stage1!center_chunk_z, Stage1!DivEuclid,
         Stage1!min_cx, Stage1!max_cx, Stage1!min_cz, Stage1!max_cz

LEMMA RangeOverlaps ==
  ASSUME cfg \in CliConfig, Stage1!BoxFits, NEW pos, pos = NoPos \/ pos \in Int \X Int
  PROVE  Stage1!InRange(pos) <=> Stage1!Overlaps(pos)
<1>1. CASE pos = NoPos
  BY <1>1 DEF Stage1!InRange, Stage1!Overlaps
<1>2. CASE pos # NoPos
  <2>1. pos[1] \in Int /\ pos[2] \in Int /\ cfg.cx \in Int /\ cfg.cz \in Int
    BY <1>2, SizesPositive DEF CliConfig
  <2>2. /\ Stage1!Reaches(cfg.cx, pos[1]) <=> pos[1] >= Stage1!min_rx /\ pos[1] <= Stage1!max_rx
        /\ Stage1!Reaches(cfg.cz, pos[2]) <=> pos[2] >= Stage1!min_rz /\ pos[2] <= Stage1!max_rz
    BY <2>1, Corners, ReachesRegion
       DEF Stage1!DivEuclid, Stage1!min_rx, Stage1!max_rx, Stage1!min_rz, Stage1!max_rz
  <2> QED
    BY <1>2, <2>2 DEF Stage1!InRange, Stage1!Overlaps
<1> QED
  BY <1>1, <1>2
-----------------------------------------------------------------------------
(* What is on a stack of folders, and how pushing a folder changes it.     *)
Left(stack) == UNION {stack[n] : n \in DOMAIN stack}
Apart(stack) == \A m, n \in DOMAIN stack : m # n => stack[m] \cap stack[n] = {}

LEMMA Push ==
  ASSUME NEW V, NEW x \in SUBSET V, NEW rest \in Seq(SUBSET V)
  PROVE  /\ <<x>> \o rest \in Seq(SUBSET V)
         /\ <<x>> \o rest # <<>>
         /\ Left(<<x>> \o rest) = x \cup Left(rest)
         /\ Apart(<<x>> \o rest) <=> Apart(rest) /\ x \cap Left(rest) = {}
<1> DEFINE s == <<x>> \o rest
           N == Len(rest)
<1>1. N \in Nat /\ DOMAIN rest = 1 .. N
  BY LenProperties
<1>2. <<x>> \in Seq(SUBSET V) /\ Len(<<x>>) = 1 /\ <<x>>[1] = x
  OBVIOUS
<1>3. s \in Seq(SUBSET V) /\ Len(s) = N + 1
  BY <1>2, ConcatProperties
<1>4. s[1] = x /\ \A n \in 1 .. N : s[n + 1] = rest[n]
  BY <1>1, <1>2, ConcatProperties
<1>5. DOMAIN s = 1 .. N + 1
  BY <1>3, LenProperties
<1> HIDE DEF s
<1>6. \A n \in 1 .. N + 1 : n = 1 \/ (n - 1 \in 1 .. N /\ n = (n - 1) + 1)
  BY <1>1
<1>7. 1 \in 1 .. N + 1 /\ \A n \in 1 .. N : n + 1 \in 1 .. N + 1 /\ n + 1 # 1
  BY <1>1
<1>8. Left(s) = x \cup Left(rest)
  <2>1. ASSUME NEW n \in 1 .. N + 1 PROVE s[n] \subseteq x \cup Left(rest)
    <3>1. CASE n = 1
      BY <1>4, <3>1
    <3>2. CASE n - 1 \in 1 .. N /\ n = (n - 1) + 1
      <4>1. s[n] = rest[n - 1]
        BY <1>4, <3>2
      <4> QED
        BY <1>1, <3>2, <4>1 DEF Left
    <3> QED
      BY <1>6, <3>1, <3>2
  <2>2. ASSUME NEW n \in 1 .. N PROVE rest[n] \subseteq Left(s)
    BY <1>4, <1>5, <1>7, <2>2 DEF Left
  <2>3. x \subseteq Left(s)
    BY <1>4, <1>5, <1>7 DEF Left
  <2>4. Left(s) \subseteq x \cup Left(rest)
    BY <1>5, <2>1 DEF Left
  <2>5. Left(rest) \subseteq Left(s)
    BY <1>1, <2>2 DEF Left
  <2> QED
    BY <2>3, <2>4, <2>5
<1>9. Apart(s) <=> Apart(rest) /\ x \cap Left(rest) = {}
  <2>1. ASSUME Apart(s) PROVE Apart(rest) /\ x \cap Left(rest) = {}
    <3>1. \A n \in 1 .. N : x \cap rest[n] = {}
      BY <1>4, <1>5, <1>7, <2>1 DEF Apart
    <3>2. \A m, n \in 1 .. N : m # n => rest[m] \cap rest[n] = {}
      <4> TAKE m, n \in 1 .. N
      <4>1. m # n => m + 1 # n + 1
        BY <1>1
      <4> QED
        BY <1>4, <1>5, <1>7, <2>1, <4>1 DEF Apart
    <3> QED
      BY <1>1, <3>1, <3>2 DEF Apart, Left
  <2>2. ASSUME Apart(rest), x \cap Left(rest) = {} PROVE Apart(s)
    <3>1. \A n \in 1 .. N : x \cap rest[n] = {}
      BY <1>1, <2>2 DEF Left
    <3>2. ASSUME NEW m \in 1 .. N + 1, NEW n \in 1 .. N + 1, m # n PROVE s[m] \cap s[n] = {}
      <4>1. CASE m = 1
        <5>1. n - 1 \in 1 .. N /\ s[n] = rest[n - 1]
          BY <1>4, <1>6, <3>2, <4>1
        <5> QED
          BY <1>4, <3>1, <4>1, <5>1
      <4>2. CASE n = 1
        <5>1. m - 1 \in 1 .. N /\ s[m] = rest[m - 1]
          BY <1>4, <1>6, <3>2, <4>2
        <5> QED
          BY <1>4, <3>1, <4>2, <5>1
      <4>3. CASE m # 1 /\ n # 1
        <5>1. /\ m - 1 \in 1 .. N /\ s[m] = rest[m - 1]
              /\ n - 1 \in 1 .. N /\ s[n] = rest[n - 1]
          BY <1>4, <1>6, <4>3
        <5>2. m - 1 # n - 1
          BY <3>2
        <5> QED
          BY <1>1, <2>2, <5>1, <5>2 DEF Apart
      <4> QED
        BY <4>1, <4>2, <4>3
    <3> QED
      BY <1>5, <3>2 DEF Apart
  <2> QED
    BY <2>1, <2>2
<1> QED
  BY <1>3, <1>5, <1>7, <1>8, <1>9 DEF s

Pushed(V, x, rest, s) ==
  /\ s \in Seq(SUBSET V)
  /\ Left(s) = x \cup Left(rest)
  /\ Apart(s) <=> Apart(rest) /\ x \cap Left(rest) = {}

LEMMA PushIs ==
  ASSUME NEW V, NEW x \in SUBSET V, NEW rest \in Seq(SUBSET V)
  PROVE  Pushed(V, x, rest, <<x>> \o rest)
BY Push DEF Pushed

LEMMA Top ==
  ASSUME NEW V, NEW stack \in Seq(SUBSET V), stack # <<>>
  PROVE  /\ stack = <<Head(stack)>> \o Tail(stack)
         /\ Head(stack) \in SUBSET V /\ Tail(stack) \in Seq(SUBSET V)
BY HeadTailProperties, ConcatProperties

(***************************************************************************)
(* The exploration of a tree of folders: left is still to visit, files     *)
(* have been taken, the folders in entered have been opened.               *)
(***************************************************************************)
Listed(tree, folders) == UNION {tree[d] : d \in folders}

Explored(tree, left, files, entered, wanted) ==
  /\ entered \subseteq DOMAIN tree /\ "/" \in entered
  /\ left \subseteq Listed(tree, entered)
  /\ \A d \in entered \ {"/"} : \E e \in Listed(tree, entered) : e.type = "dir" /\ e.name = d
  /\ \A e \in Listed(tree, entered) : e.type = "dir" => (e \in left <=> e.name \notin entered)
  /\ files = {e \in Listed(tree, entered) : e.type = "file" /\ e \in wanted /\ e \notin left}

LEMMA ListedMore ==
  ASSUME NEW tree, NEW folders, NEW d
  PROVE  Listed(tree, folders \cup {d}) = Listed(tree, folders) \cup tree[d]
BY DEF Listed

LEMMA ExploreRoot ==
  ASSUME NEW tree, Stage1!IsTree(tree), NEW wanted
  PROVE  Explored(tree, tree["/"], {}, {"/"}, wanted)
<1>1. Listed(tree, {"/"}) = tree["/"]
  BY DEF Listed
<1>2. \A e \in tree["/"] : e.type = "dir" => e.name \notin {"/"}
  BY DEF Stage1!IsTree, Stage1!IsFile, Stage1!IsFolder
<1> QED
  BY <1>1, <1>2 DEF Explored, Stage1!IsTree

LEMMA ExploreFolder ==
  ASSUME NEW tree, Stage1!IsTree(tree), NEW left, NEW files, NEW entered, NEW wanted,
         Explored(tree, left, files, entered, wanted),
         NEW e \in left, e.type = "dir"
  PROVE  /\ e.name \in DOMAIN tree
         /\ tree[e.name] \cap left = {}
         /\ Explored(tree, tree[e.name] \cup (left \ {e}), files, entered \cup {e.name}, wanted)
<1> DEFINE n == e.name
           L == Listed(tree, entered)
           more == tree[n]
           after == more \cup (left \ {e})
<1>1. PICK d \in entered : e \in tree[d]
  BY DEF Explored, Listed
<1>2. entered \subseteq DOMAIN tree /\ left \subseteq L /\ e \in L /\ n \notin entered
  BY DEF Explored
<1>3. n \in DOMAIN tree
  <2>1. Stage1!IsFile(e) \/ Stage1!IsFolder(e, DOMAIN tree)
    BY <1>1, <1>2 DEF Stage1!IsTree
  <2> QED
    BY <2>1 DEF Stage1!IsFile, Stage1!IsFolder
<1>4. \A c, b \in DOMAIN tree : \A g \in tree[c], h \in tree[b] : Stage1!SameEntry(g, h) => c = b /\ g = h
  BY DEF Stage1!IsTree
<1>5. more \cap L = {}
  BY <1>2, <1>3, <1>4 DEF Listed, Stage1!SameEntry
<1>6. Listed(tree, entered \cup {n}) = L \cup more
  BY ListedMore
<1>7. \A g \in L \cup more : g.type = "dir" /\ g.name = n => g = e
  <2> TAKE g \in L \cup more
  <2> HAVE g.type = "dir" /\ g.name = n
  <2>1. PICK c \in DOMAIN tree : g \in tree[c]
    BY <1>2, <1>3 DEF Listed
  <2> QED
    BY <1>1, <1>2, <1>4, <2>1 DEF Stage1!SameEntry
<1>8. \A g \in L \cup more : g.type = "dir" => (g \in after <=> g.name \notin entered \cup {n})
  <2> TAKE g \in L \cup more
  <2> HAVE g.type = "dir"
  <2>1. CASE g = e
    BY <1>2, <1>5, <2>1
  <2>2. CASE g # e /\ g \in L
    <3>1. g.name # n /\ g \notin more /\ (g \in left <=> g.name \notin entered)
      BY <1>5, <1>7, <2>2 DEF Explored
    <3> QED
      BY <2>2, <3>1
  <2>3. CASE g \in more
    <3>1. g.name # n
      BY <1>2, <1>5, <1>7, <2>3
    <3>2. g.name \notin entered
      <4> SUFFICES ASSUME g.name \in entered PROVE FALSE
        OBVIOUS
      <4>1. g.name # "/"
        <5>1. Stage1!IsFile(g) \/ Stage1!IsFolder(g, DOMAIN tree)
          BY <1>3, <2>3 DEF Stage1!IsTree
        <5> QED
          BY <5>1 DEF Stage1!IsFile, Stage1!IsFolder
      <4>2. PICK h \in L : h.type = "dir" /\ h.name = g.name
        BY <4>1 DEF Explored
      <4>3. PICK c \in entered : h \in tree[c]
        BY DEF Listed
      <4>4. c = n
        BY <1>2, <1>3, <1>4, <2>3, <4>2, <4>3 DEF Stage1!SameEntry
      <4> QED
        BY <1>2, <4>4
    <3> QED
      BY <2>3, <3>1, <3>2
  <2> QED
    BY <2>1, <2>2, <2>3
<1>9. files = {g \in L \cup more : g.type = "file" /\ g \in wanted /\ g \notin after}
  <2>1. files = {g \in L : g.type = "file" /\ g \in wanted /\ g \notin left}
    BY DEF Explored
  <2>2. \A g \in L : g.type = "file" => (g \notin after <=> g \notin left)
    BY <1>5
  <2> QED
    BY <2>1, <2>2
<1>10. \A b \in (entered \cup {n}) \ {"/"} : \E g \in L \cup more : g.type = "dir" /\ g.name = b
  BY <1>2 DEF Explored
<1>11. entered \cup {n} \subseteq DOMAIN tree /\ "/" \in entered \cup {n}
  BY <1>3 DEF Explored
<1>12. after \subseteq L \cup more
  BY <1>2
<1> HIDE DEF L, more, n, after
<1>13. Explored(tree, after, files, entered \cup {n}, wanted)
  BY <1>6, <1>8, <1>9, <1>10, <1>11, <1>12 DEF Explored
<1> QED
  BY <1>2, <1>3, <1>5, <1>13 DEF after, more, n

LEMMA ExploreFile ==
  ASSUME NEW tree, NEW left, NEW files, NEW entered, NEW wanted,
         Explored(tree, left, files, entered, wanted),
         NEW e \in left, e.type = "file"
  PROVE  /\ e \notin files
         /\ e \in Listed(tree, DOMAIN tree)
         /\ Explored(tree, left \ {e}, IF e \in wanted THEN files \cup {e} ELSE files, entered, wanted)
<1>1. e \in Listed(tree, entered) /\ entered \subseteq DOMAIN tree
  BY DEF Explored
<1> QED
  BY <1>1 DEF Explored, Listed

LEMMA ExploreEnd ==
  ASSUME NEW tree, Stage1!IsTree(tree), NEW files, NEW entered, NEW wanted,
         Explored(tree, {}, files, entered, wanted)
  PROVE  files = {e \in Listed(tree, DOMAIN tree) : e.type = "file" /\ e \in wanted}
<1>1. \A d \in entered : \A e \in tree[d] : e.type = "dir" => e.name \in entered
  BY DEF Explored, Listed
<1>2. entered = DOMAIN tree
  BY <1>1 DEF Explored, Stage1!IsTree
<1> QED
  BY <1>2 DEF Explored
-----------------------------------------------------------------------------
(* Lists without repetition.                                               *)
Once0(s) == \A i, j \in DOMAIN s : s[i] = s[j] => i = j

LEMMA AppendOnce ==
  ASSUME NEW S, NEW s \in Seq(S), Once0(s), NEW e \in S, e \notin Stage1!Range0(s)
  PROVE  /\ Append(s, e) \in Seq(S) /\ Append(s, e) # <<>>
         /\ Stage1!Range0(Append(s, e)) = Stage1!Range0(s) \cup {e}
         /\ Once0(Append(s, e))
<1> DEFINE a == Append(s, e)
           N == Len(s)
<1>1. N \in Nat /\ DOMAIN s = 1 .. N
  BY LenProperties
<1>2. a \in Seq(S) /\ a # <<>> /\ Len(a) = N + 1 /\ (\A i \in 1 .. N : a[i] = s[i]) /\ a[N + 1] = e
  BY AppendProperties
<1>3. DOMAIN a = 1 .. N + 1
  BY <1>2, LenProperties
<1>4. \A i \in 1 .. N + 1 : i \in 1 .. N \/ i = N + 1
  BY <1>1
<1>5. N + 1 \in 1 .. N + 1 /\ 1 .. N \subseteq 1 .. N + 1
  BY <1>1
<1> HIDE DEF a, N
<1>6. Stage1!Range0(a) = Stage1!Range0(s) \cup {e}
  <2>1. \A i \in 1 .. N + 1 : a[i] \in Stage1!Range0(s) \cup {e}
    BY <1>1, <1>2, <1>4 DEF Stage1!Range0
  <2>2. \A i \in 1 .. N : s[i] \in Stage1!Range0(a)
    BY <1>2, <1>3, <1>5 DEF Stage1!Range0
  <2>3. e \in Stage1!Range0(a)
    BY <1>2, <1>3, <1>5 DEF Stage1!Range0
  <2> QED
    BY <1>1, <1>3, <2>1, <2>2, <2>3 DEF Stage1!Range0
<1>7. Once0(a)
  <2>1. \A i \in 1 .. N : a[i] # e
    BY <1>1, <1>2 DEF Stage1!Range0
  <2> QED
    BY <1>1, <1>2, <1>3, <1>4, <2>1 DEF Once0
<1> QED
  BY <1>2, <1>6, <1>7 DEF a

LEMMA TailOnce ==
  ASSUME NEW S, NEW s \in Seq(S), Once0(s), s # <<>>
  PROVE  /\ Head(s) \in Stage1!Range0(s)
         /\ Tail(s) \in Seq(S)
         /\ Stage1!Range0(Tail(s)) = Stage1!Range0(s) \ {Head(s)}
         /\ Once0(Tail(s))
<1> DEFINE a == Tail(s)
           N == Len(s)
<1>1. N \in Nat \ {0} /\ DOMAIN s = 1 .. N
  BY LenProperties, EmptySeq
<1>2. a \in Seq(S) /\ Len(a) = N - 1 /\ (\A i \in 1 .. N - 1 : a[i] = s[i + 1]) /\ Head(s) = s[1]
  BY HeadTailProperties
<1>3. DOMAIN a = 1 .. N - 1
  BY <1>2, LenProperties
<1>4. \A i \in 1 .. N : i = 1 \/ (i - 1 \in 1 .. N - 1 /\ i = (i - 1) + 1)
  BY <1>1
<1>5. 1 \in 1 .. N /\ \A i \in 1 .. N - 1 : i + 1 \in 1 .. N /\ i + 1 # 1
  BY <1>1
<1>6. \A i, j \in 1 .. N - 1 : i + 1 = j + 1 => i = j
  BY <1>1
<1> HIDE DEF a, N
<1>7. Stage1!Range0(a) = Stage1!Range0(s) \ {s[1]}
  <2>1. \A i \in 1 .. N - 1 : a[i] \in Stage1!Range0(s) \ {s[1]}
    <3> SUFFICES ASSUME NEW i \in 1 .. N - 1 PROVE a[i] \in Stage1!Range0(s) \ {s[1]}
      OBVIOUS
    <3>1. PICK j \in 1 .. N : j = i + 1 /\ j # 1 /\ a[i] = s[j]
      BY <1>2, <1>5
    <3>2. s[j] # s[1]
      BY <1>1, <1>5, <3>1 DEF Once0
    <3> QED
      BY <1>1, <3>1, <3>2 DEF Stage1!Range0
  <2>2. \A i \in 1 .. N : s[i] # s[1] => s[i] \in Stage1!Range0(a)
    <3> SUFFICES ASSUME NEW i \in 1 .. N, s[i] # s[1] PROVE s[i] \in Stage1!Range0(a)
      OBVIOUS
    <3>1. i - 1 \in 1 .. N - 1 /\ i = (i - 1) + 1
      BY <1>4
    <3>2. a[i - 1] = s[i]
      BY <1>2, <3>1
    <3> QED
      BY <1>3, <3>1, <3>2 DEF Stage1!Range0
  <2> QED
    BY <1>1, <1>3, <2>1, <2>2 DEF Stage1!Range0
<1>8. Once0(a)
  BY <1>1, <1>2, <1>3, <1>5, <1>6 DEF Once0
<1> QED
  BY <1>1, <1>2, <1>5, <1>7, <1>8 DEF a, Stage1!Range0
-----------------------------------------------------------------------------
(***************************************************************************)
(* The inductive invariant of stage 1.  What is taken so far is what is    *)
(* wanted of the entries that have been visited: of a folder, those of the *)
(* folders entered that are not left on the stack; of an archive, those    *)
(* not left of it.                                                         *)
(***************************************************************************)
Calls ==
  /\ session \in Sessions
  /\ done \in 0 .. Len(session.calls)
  /\ map = session.map
  /\ cfg = session.calls[IF done = 0 THEN 1 ELSE done]

Wants(e) == IF map.kind = "folder" THEN Stage1!TakenFromFolder(e) ELSE Stage1!TakenFromArchive(e)
Wanted == {f \in Stage1!AllFiles : Wants(f)}
Taken == Stage1!Range0(tasks)

InFolders ==
  /\ scan \in Seq(SUBSET Listed(map.tree, DOMAIN map.tree))
  /\ Apart(scan)
  /\ archive = <<>>
  /\ \E entered : Explored(map.tree, Left(scan), Taken, entered, Wanted)
InArchive ==
  /\ scan = <<>>
  /\ archive \in Seq(Stage1!AllFiles)
  /\ Once0(archive)
  /\ Taken = {f \in Wanted : f \notin Stage1!Range0(archive)}

Searching ==
  /\ tasks \in Seq(Stage1!AllFiles)
  /\ Once0(tasks)
  /\ status = "start" => scan = <<>> /\ archive = <<>> /\ tasks = <<>>
  /\ status = "scan" => \/ map.kind = "folder" /\ InFolders
                        \/ map.kind = "zip" /\ InArchive
  /\ status \in {"found", "nothing"} => Taken = Wanted
  /\ status = "nothing" => tasks = <<>>

LEMMA TheCall ==
  ASSUME Calls
  PROVE  /\ cfg \in CliConfig
         /\ Stage1!IsMap(map)
         /\ \A file \in Stage1!AllFiles : file.opens \in BOOLEAN /\ DOMAIN file.chunks \subseteq Locals
<1>1. session.calls \in Seq(CliConfig) /\ session.calls # <<>>
  BY PipelineAssumption DEF Calls
<1>2. Len(session.calls) \in Nat \ {0}
  BY <1>1, LenProperties, EmptySeq
<1>3. (IF done = 0 THEN 1 ELSE done) \in 1 .. Len(session.calls)
  BY <1>2 DEF Calls
<1>4. cfg \in CliConfig
  BY <1>1, <1>3, ElementOfSeq DEF Calls
<1> QED
  BY <1>4, MapsAssumption DEF Calls, Stage1!AllFiles

(* The files of a folder, and of an archive.                               *)
LEMMA FilesListed ==
  ASSUME map.kind = "folder"
  PROVE  Stage1!AllFiles = {e \in Listed(map.tree, DOMAIN map.tree) : e.type = "file"}
BY DEF Stage1!AllFiles, Stage1!FilesOf, Stage1!FilesIn, Listed

LEMMA FilesArchived ==
  ASSUME map.kind = "zip"
  PROVE  Stage1!AllFiles = Stage1!Range0(map.archive)
BY DEF Stage1!AllFiles, Stage1!FilesOf
-----------------------------------------------------------------------------
(* What is wanted of the map depends on the map and the configuration.     *)
LEMMA SameWanted ==
  ASSUME map' = map, cfg' = cfg
  PROVE  /\ Wanted' = Wanted /\ Stage1!AllFiles' = Stage1!AllFiles
         /\ \A e : Wants(e)' <=> Wants(e)
BY DEF Wanted, Wants, Stage1!AllFiles,
   Stage1!TakenFromFolder, Stage1!TakenFromArchive, Stage1!InRange,
   Stage1!min_rx, Stage1!max_rx, Stage1!min_rz, Stage1!max_rz,
   Stage1!min_cx, Stage1!max_cx, Stage1!min_cz, Stage1!max_cz, Stage1!center_chunk_x, Stage1!center_chunk_z

(* The step of a scan of folders, from what it does to the stack.          *)
LEMMA ScanFolders ==
  ASSUME map.kind = "folder", map' = map, cfg' = cfg, archive' = <<>>, status' = "scan",
         scan' \in Seq(SUBSET Listed(map.tree, DOMAIN map.tree)), Apart(scan'),
         NEW entered, Explored(map.tree, Left(scan'), Taken', entered, Wanted),
         tasks' \in Seq(Stage1!AllFiles), Once0(tasks')
  PROVE  Searching'
<1>1. Wanted' = Wanted /\ Stage1!AllFiles' = Stage1!AllFiles
  BY SameWanted
<1>2. InFolders'
  <2>1. map'.tree = map.tree
    OBVIOUS
  <2>2. /\ scan' \in Seq(SUBSET Listed(map'.tree, DOMAIN map'.tree))
        /\ Apart(scan') /\ archive' = <<>>
        /\ \E en : Explored(map'.tree, Left(scan'), Taken', en, Wanted')
    BY <1>1, <2>1
  <2> QED
    BY <2>2 DEF InFolders
<1> QED
  BY <1>1, <1>2 DEF Searching

LEMMA StartsFolder ==
  ASSUME Calls, Searching, Stage1!StartFolder
  PROVE  Searching'
<1>1. /\ tasks = <<>> /\ tasks' = <<>> /\ archive' = <<>> /\ status' = "scan" /\ map.kind = "folder"
      /\ map' = map /\ cfg' = cfg
  BY DEF Searching, Stage1!StartFolder, Stage1!FromFolder
<1>2. Stage1!IsTree(map.tree)
  BY <1>1, TheCall DEF Stage1!IsMap
<1> DEFINE tree == map.tree
           V == Listed(tree, DOMAIN tree)
           root == tree["/"]
<1>3. root \in SUBSET V
  BY <1>2 DEF Listed, Stage1!IsTree
<1>4. scan' = <<root>>
  BY DEF Stage1!StartFolder
<1>5. /\ scan' \in Seq(SUBSET V)
      /\ Left(scan') = root
      /\ Apart(scan')
  <2>1. DOMAIN <<root>> = {1} /\ <<root>>[1] = root
    OBVIOUS
  <2>2. Left(<<root>>) = root
    BY <2>1 DEF Left
  <2>3. Apart(<<root>>)
    BY <2>1 DEF Apart
  <2>4. <<root>> \in Seq(SUBSET V)
    BY <1>3
  <2> QED
    BY <1>4, <2>2, <2>3, <2>4
<1>6. Explored(tree, root, {}, {"/"}, Wanted)
  BY <1>2, ExploreRoot
<1>7. Taken' = {}
  BY <1>1 DEF Taken, Stage1!Range0
<1>8. tasks' \in Seq(Stage1!AllFiles) /\ Once0(tasks')
  BY <1>1 DEF Once0
<1> QED
  BY <1>1, <1>5, <1>6, <1>7, <1>8, ScanFolders

(* What a scan of folders in progress has on top of its stack.             *)
LEMMA InTop ==
  ASSUME Calls, Searching, Stage1!InFolder
  PROVE  /\ map.kind = "folder" /\ InFolders /\ Stage1!IsTree(map.tree)
         /\ Stage1!Entries = Head(scan)
         /\ scan = <<Head(scan)>> \o Tail(scan)
         /\ Head(scan) \in SUBSET Listed(map.tree, DOMAIN map.tree)
         /\ Tail(scan) \in Seq(SUBSET Listed(map.tree, DOMAIN map.tree))
         /\ Left(scan) = Head(scan) \cup Left(Tail(scan))
         /\ Apart(Tail(scan)) /\ Head(scan) \cap Left(Tail(scan)) = {}
<1>1. map.kind = "folder" /\ InFolders
  BY DEF Searching, Stage1!InFolder, InArchive
<1>2. Stage1!IsTree(map.tree)
  BY <1>1, TheCall DEF Stage1!IsMap
<1> DEFINE V == Listed(map.tree, DOMAIN map.tree)
<1>3. scan \in Seq(SUBSET V) /\ Apart(scan) /\ scan # <<>>
  BY <1>1 DEF InFolders, Stage1!InFolder
<1> HIDE DEF V
<1>4. scan = <<Head(scan)>> \o Tail(scan) /\ Head(scan) \in SUBSET V /\ Tail(scan) \in Seq(SUBSET V)
  BY <1>3, Top
<1>5. /\ Left(scan) = Head(scan) \cup Left(Tail(scan))
      /\ Apart(scan) <=> Apart(Tail(scan)) /\ Head(scan) \cap Left(Tail(scan)) = {}
  <2>1. PICK x \in SUBSET V, rest \in Seq(SUBSET V) : scan = <<x>> \o rest /\ x = Head(scan) /\ rest = Tail(scan)
    BY <1>4
  <2>2. Left(<<x>> \o rest) = x \cup Left(rest)
    BY Push
  <2>3. Apart(<<x>> \o rest) <=> Apart(rest) /\ x \cap Left(rest) = {}
    BY Push
  <2> QED
    BY <2>1, <2>2, <2>3
<1> QED
  BY <1>1, <1>2, <1>3, <1>4, <1>5 DEF V, Stage1!Entries

LEMMA EntersFolder ==
  ASSUME Calls, Searching, Stage1!InFolder, NEW e \in Stage1!Entries, Stage1!EnterFolder(e)
  PROVE  Searching'
<1> DEFINE V == Listed(map.tree, DOMAIN map.tree)
<1>1. PICK top, rest :
        /\ top = Head(scan) /\ rest = Tail(scan) /\ scan = <<top>> \o rest /\ e \in top
        /\ top \in SUBSET V /\ rest \in Seq(SUBSET V)
        /\ Left(scan) = top \cup Left(rest) /\ Apart(rest) /\ top \cap Left(rest) = {}
  BY InTop
<1>2. map.kind = "folder" /\ InFolders /\ Stage1!IsTree(map.tree)
  BY InTop
<1>3. PICK entered : Explored(map.tree, Left(scan), Taken, entered, Wanted)
  BY <1>2 DEF InFolders
<1>4. /\ e.type = "dir" /\ scan' = <<map.tree[e.name]>> \o (<<top \ {e}>> \o rest)
      /\ map' = map /\ cfg' = cfg /\ archive' = archive /\ tasks' = tasks /\ status' = status
  BY <1>1 DEF Stage1!EnterFolder, Stage1!Without
<1>5. PICK more : more = map.tree[e.name]
  OBVIOUS
<1>6. e \in Left(scan)
  BY <1>1
<1>7. e.name \in DOMAIN map.tree /\ more \cap Left(scan) = {}
  BY <1>2, <1>3, <1>4, <1>5, <1>6, ExploreFolder
<1>8. Explored(map.tree, more \cup (Left(scan) \ {e}), Taken, entered \cup {e.name}, Wanted)
  BY <1>2, <1>3, <1>4, <1>5, <1>6, ExploreFolder
<1>9. more \in SUBSET V /\ top \ {e} \in SUBSET V
  BY <1>1, <1>5, <1>7 DEF Listed
<1> HIDE DEF V
<1>10. PICK under : under = <<top \ {e}>> \o rest
  OBVIOUS
<1>11. /\ under \in Seq(SUBSET V) /\ Left(under) = (top \ {e}) \cup Left(rest)
       /\ Apart(under)
  <2>1. (top \ {e}) \cap Left(rest) = {}
    BY <1>1
  <2>2. PICK less \in SUBSET V : less = top \ {e}
    BY <1>9
  <2>3. Pushed(V, less, rest, <<less>> \o rest)
    <3>1. rest \in Seq(SUBSET V)
      BY <1>1
    <3> QED
      BY <3>1, PushIs, Zenon
  <2> QED
    BY <1>1, <1>10, <2>1, <2>2, <2>3 DEF Pushed
<1>12. Left(under) = Left(scan) \ {e}
  BY <1>1, <1>11
<1>13. /\ scan' \in Seq(SUBSET V) /\ Left(scan') = more \cup (Left(scan) \ {e}) /\ Apart(scan')
  <2>1. more \cap Left(under) = {}
    BY <1>7, <1>12
  <2>2. /\ <<more>> \o under \in Seq(SUBSET V)
        /\ Left(<<more>> \o under) = more \cup Left(under)
        /\ Apart(<<more>> \o under) <=> Apart(under) /\ more \cap Left(under) = {}
    BY <1>9, <1>11, Push
  <2>3. scan' = <<more>> \o under
    BY <1>4, <1>5, <1>10
  <2> QED
    BY <1>11, <1>12, <2>1, <2>2, <2>3
<1>14. Taken' = Taken /\ tasks' \in Seq(Stage1!AllFiles) /\ Once0(tasks')
  BY <1>4 DEF Searching, Taken
<1>15. archive' = <<>> /\ status' = "scan"
  BY <1>2, <1>4 DEF InFolders, Stage1!InFolder
<1>16. Explored(map.tree, Left(scan'), Taken', entered \cup {e.name}, Wanted)
  BY <1>8, <1>13, <1>14
<1> QED
  BY <1>2, <1>4, <1>13, <1>14, <1>15, <1>16, ScanFolders DEF V

LEMMA LeavesFolder ==
  ASSUME Calls, Searching, Stage1!InFolder, Stage1!LeaveFolder
  PROVE  Searching'
<1>1. /\ Head(scan) = {} /\ scan' = Tail(scan)
      /\ map' = map /\ cfg' = cfg /\ archive' = archive /\ tasks' = tasks /\ status' = status
  BY DEF Stage1!LeaveFolder
<1>2. map.kind = "folder" /\ InFolders
  BY InTop
<1>3. Left(scan') = Left(scan) /\ Apart(scan') /\ scan' \in Seq(SUBSET Listed(map.tree, DOMAIN map.tree))
  BY <1>1, InTop
<1>4. Taken' = Taken /\ tasks' \in Seq(Stage1!AllFiles) /\ Once0(tasks')
  BY <1>1 DEF Searching, Taken
<1>5. archive' = <<>> /\ status' = "scan"
  BY <1>1, <1>2 DEF InFolders, Stage1!InFolder
<1>6. PICK entered : Explored(map.tree, Left(scan), Taken, entered, Wanted)
  BY <1>2 DEF InFolders
<1>7. Explored(map.tree, Left(scan'), Taken', entered, Wanted)
  BY <1>3, <1>4, <1>6
<1> QED
  BY <1>1, <1>2, <1>3, <1>4, <1>5, <1>7, ScanFolders

LEMMA VisitsFile ==
  ASSUME Calls, Searching, Stage1!InFolder, NEW e \in Stage1!Entries, Stage1!VisitFile(e)
  PROVE  Searching'
<1> DEFINE V == Listed(map.tree, DOMAIN map.tree)
<1>1. PICK top, rest :
        /\ top = Head(scan) /\ rest = Tail(scan) /\ scan = <<top>> \o rest /\ e \in top
        /\ top \in SUBSET V /\ rest \in Seq(SUBSET V)
        /\ Left(scan) = top \cup Left(rest) /\ Apart(rest) /\ top \cap Left(rest) = {}
  BY InTop
<1>2. map.kind = "folder" /\ InFolders /\ Stage1!IsTree(map.tree)
  BY InTop
<1>3. PICK entered : Explored(map.tree, Left(scan), Taken, entered, Wanted)
  BY <1>2 DEF InFolders
<1>4. /\ e.type = "file" /\ scan' = <<top \ {e}>> \o rest
      /\ map' = map /\ cfg' = cfg /\ archive' = archive /\ status' = status
  BY <1>1 DEF Stage1!VisitFile, Stage1!Without
<1>5. e \in Left(scan) /\ top \ {e} \in SUBSET V
  BY <1>1
<1>6. PICK tree, left, files, wanted :
        /\ tree = map.tree /\ left = Left(scan) /\ files = Taken /\ wanted = Wanted
        /\ Explored(tree, left, files, entered, wanted) /\ e \in left
  BY <1>3, <1>5
<1>7. /\ e \notin files /\ e \in Listed(tree, DOMAIN tree)
      /\ Explored(tree, left \ {e}, IF e \in wanted THEN files \cup {e} ELSE files, entered, wanted)
  BY <1>4, <1>6, ExploreFile
<1>8. e \in Stage1!AllFiles
  BY <1>2, <1>4, <1>6, <1>7, FilesListed
<1>9. e \in Wanted <=> Stage1!TakenFromFolder(e)
  BY <1>2, <1>8 DEF Wanted, Wants
<1> HIDE DEF V
<1>10. /\ scan' \in Seq(SUBSET V) /\ Left(scan') = (top \ {e}) \cup Left(rest)
       /\ Apart(scan')
  <2>1. (top \ {e}) \cap Left(rest) = {}
    BY <1>1
  <2>2. PICK less \in SUBSET V : less = top \ {e}
    BY <1>5
  <2>3. Pushed(V, less, rest, <<less>> \o rest)
    <3>1. rest \in Seq(SUBSET V)
      BY <1>1
    <3> QED
      BY <3>1, PushIs, Zenon
  <2> QED
    BY <1>1, <1>4, <2>1, <2>2, <2>3 DEF Pushed
<1>11. Left(scan') = Left(scan) \ {e}
  BY <1>1, <1>10
<1>12. /\ tasks' \in Seq(Stage1!AllFiles) /\ Once0(tasks')
       /\ Taken' = IF e \in Wanted THEN Taken \cup {e} ELSE Taken
  <2>1. tasks \in Seq(Stage1!AllFiles) /\ Once0(tasks)
    BY DEF Searching
  <2>2. tasks' = IF e \in Wanted THEN Append(tasks, e) ELSE tasks
    BY <1>9 DEF Stage1!VisitFile
  <2>3. CASE e \in Wanted
    BY <1>6, <1>7, <1>8, <2>1, <2>2, <2>3, AppendOnce DEF Taken
  <2>4. CASE e \notin Wanted
    BY <2>1, <2>2, <2>4 DEF Taken
  <2> QED
    BY <2>3, <2>4
<1>13. archive' = <<>> /\ status' = "scan"
  BY <1>2, <1>4 DEF InFolders, Stage1!InFolder
<1>14. Explored(map.tree, Left(scan'), Taken', entered, Wanted)
  BY <1>6, <1>7, <1>11, <1>12
<1> QED
  BY <1>2, <1>4, <1>10, <1>12, <1>13, <1>14, ScanFolders DEF V

LEMMA StartsArchive ==
  ASSUME Calls, Searching, Stage1!StartArchive
  PROVE  Searching'
<1>1. /\ tasks = <<>> /\ tasks' = tasks /\ archive' = map.archive /\ status' = "scan" /\ map.kind = "zip"
      /\ map' = map /\ cfg' = cfg /\ scan = <<>> /\ scan' = scan
  BY DEF Searching, Stage1!StartArchive, Stage1!FromArchive
<1>2. Stage1!IsArchive(map.archive)
  BY <1>1, TheCall DEF Stage1!IsMap
<1>3. Stage1!AllFiles = Stage1!Range0(map.archive)
  BY <1>1, FilesArchived
<1>4. Wanted' = Wanted /\ Stage1!AllFiles' = Stage1!AllFiles
  BY <1>1, SameWanted
<1>5. archive' \in Seq(Stage1!AllFiles) /\ Once0(archive')
  BY <1>1, <1>2, <1>3 DEF Stage1!IsArchive, Once0
<1>6. Taken' = {} /\ Wanted \subseteq Stage1!Range0(archive')
  BY <1>1, <1>3 DEF Taken, Stage1!Range0, Wanted
<1>7. InArchive'
  <2>1. Taken' = {f \in Wanted' : f \notin Stage1!Range0(archive')}
    BY <1>4, <1>6
  <2>2. Stage1!Range0(archive)' = Stage1!Range0(archive')
    BY DEF Stage1!Range0
  <2> QED
    BY <1>1, <1>4, <1>5, <2>1, <2>2 DEF InArchive
<1>8. tasks' \in Seq(Stage1!AllFiles') /\ Once0(tasks')
  BY <1>1 DEF Once0
<1> QED
  BY <1>1, <1>7, <1>8 DEF Searching

LEMMA ReadsEntry ==
  ASSUME Calls, Searching, Stage1!ReadEntry
  PROVE  Searching'
<1>1. /\ status = "scan" /\ status' = status /\ archive # <<>> /\ archive' = Tail(archive)
      /\ map' = map /\ cfg' = cfg /\ scan' = scan
      /\ tasks' = IF Stage1!TakenFromArchive(Head(archive)) THEN Append(tasks, Head(archive)) ELSE tasks
  BY DEF Stage1!ReadEntry
<1>2. map.kind = "zip" /\ InArchive
  BY <1>1 DEF Searching, InFolders
<1>3. PICK S : S = Stage1!AllFiles
  OBVIOUS
<1>4. PICK e, seen : e = Head(archive) /\ seen = Stage1!Range0(archive)
  OBVIOUS
<1>5. archive \in Seq(S) /\ Once0(archive) /\ tasks \in Seq(S) /\ Once0(tasks)
  BY <1>2, <1>3 DEF InArchive, Searching
<1>6. e \in seen /\ archive' \in Seq(S) /\ Stage1!Range0(archive') = seen \ {e} /\ Once0(archive')
  BY <1>1, <1>4, <1>5, TailOnce
<1>7. e \in S
  <2>1. \A i \in DOMAIN archive : archive[i] \in S
    BY <1>5
  <2> QED
    BY <1>4, <1>6, <2>1 DEF Stage1!Range0
<1>8. e \notin Taken /\ Taken = {f \in Wanted : f \notin seen}
  BY <1>2, <1>4, <1>6 DEF InArchive
<1>9. e \in Wanted <=> Stage1!TakenFromArchive(e)
  BY <1>2, <1>3, <1>7 DEF Wanted, Wants
<1>10. tasks' = IF e \in Wanted THEN Append(tasks, e) ELSE tasks
  BY <1>1, <1>4, <1>9
<1>11. /\ tasks' \in Seq(S) /\ Once0(tasks')
       /\ Stage1!Range0(tasks') = IF e \in Wanted THEN Taken \cup {e} ELSE Taken
  <2>1. CASE e \in Wanted
    BY <1>5, <1>7, <1>8, <1>10, <2>1, AppendOnce DEF Taken
  <2>2. CASE e \notin Wanted
    BY <1>5, <1>10, <2>2 DEF Taken
  <2> QED
    BY <2>1, <2>2
<1>12. Stage1!Range0(tasks') = {f \in Wanted : f \notin Stage1!Range0(archive')}
  BY <1>6, <1>8, <1>11
<1>13. Wanted' = Wanted /\ Stage1!AllFiles' = S
  BY <1>1, <1>3, SameWanted
<1>14. Taken' = Stage1!Range0(tasks') /\ Stage1!Range0(archive)' = Stage1!Range0(archive')
  BY DEF Taken, Stage1!Range0
<1>15. InArchive'
  BY <1>1, <1>2, <1>6, <1>12, <1>13, <1>14 DEF InArchive
<1> QED
  BY <1>1, <1>2, <1>11, <1>13, <1>15 DEF Searching

LEMMA EndsScan ==
  ASSUME Calls, Searching, Stage1!EndScan
  PROVE  Searching'
<1>1. /\ status = "scan" /\ scan = <<>> /\ archive = <<>> /\ map' = map /\ cfg' = cfg
      /\ scan' = scan /\ archive' = archive /\ tasks' = tasks
      /\ status' = IF tasks = <<>> THEN "nothing" ELSE "found"
  BY DEF Stage1!EndScan
<1>2. Taken = Wanted
  <2>1. CASE map.kind = "folder" /\ InFolders
    <3>1. Left(scan) = {}
      BY <1>1 DEF Left
    <3>2. Stage1!IsTree(map.tree)
      BY <2>1, TheCall DEF Stage1!IsMap
    <3>3. PICK tree, files, wanted, entered :
            tree = map.tree /\ files = Taken /\ wanted = Wanted /\ Explored(tree, {}, files, entered, wanted)
      BY <2>1, <3>1 DEF InFolders
    <3>4. files = {e \in Listed(tree, DOMAIN tree) : e.type = "file" /\ e \in wanted}
      BY <3>2, <3>3, ExploreEnd
    <3> QED
      BY <2>1, <3>3, <3>4, FilesListed DEF Wanted
  <2>2. CASE map.kind = "zip" /\ InArchive
    BY <1>1, <2>2 DEF InArchive, Stage1!Range0
  <2> QED
    BY <1>1, <2>1, <2>2 DEF Searching
<1>3. Wanted' = Wanted /\ Stage1!AllFiles' = Stage1!AllFiles /\ Taken' = Taken
  BY <1>1, SameWanted DEF Taken
<1>4. tasks' \in Seq(Stage1!AllFiles') /\ Once0(tasks')
  BY <1>1, <1>3 DEF Searching
<1> QED
  BY <1>1, <1>2, <1>3, <1>4 DEF Searching

LEMMA SearchFails ==
  ASSUME Calls, Searching, Stage1!Fail
  PROVE  Searching'
<1>1. /\ map' = map /\ cfg' = cfg /\ status' = "error"
      /\ tasks' = <<>>
  BY DEF Searching, Stage1!Fail, Stage1!StartFails, Stage1!ReadFails
<1>2. tasks' \in Seq(Stage1!AllFiles') /\ Once0(tasks')
  BY <1>1 DEF Once0
<1> QED
  BY <1>1, <1>2 DEF Searching

LEMMA Searches ==
  ASSUME Calls, Searching, Stage1!Proceed
  PROVE  Searching' /\ map' = map /\ cfg' = cfg
<1>1. CASE Stage1!StartFolder
  BY <1>1, StartsFolder DEF Stage1!StartFolder
<1>2. CASE Stage1!StartArchive
  BY <1>2, StartsArchive DEF Stage1!StartArchive
<1>3. ASSUME NEW e \in Stage1!Entries, Stage1!EnterFolder(e) PROVE Searching' /\ map' = map /\ cfg' = cfg
  BY <1>3, EntersFolder DEF Stage1!EnterFolder
<1>4. ASSUME NEW e \in Stage1!Entries, Stage1!VisitFile(e) PROVE Searching' /\ map' = map /\ cfg' = cfg
  BY <1>4, VisitsFile DEF Stage1!VisitFile
<1>5. CASE Stage1!LeaveFolder
  BY <1>5, LeavesFolder DEF Stage1!LeaveFolder
<1>6. CASE Stage1!ReadEntry
  BY <1>6, ReadsEntry DEF Stage1!ReadEntry
<1>7. CASE Stage1!EndScan
  BY <1>7, EndsScan DEF Stage1!EndScan
<1> QED
  BY <1>1, <1>2, <1>3, <1>4, <1>5, <1>6, <1>7 DEF Stage1!Proceed
-----------------------------------------------------------------------------
(* Every step of the pipeline is a step of stage 1, starts a call, or      *)
(* leaves stage 1 as it is.                                                *)
LEMMA NewCall ==
  ASSUME Calls, Call
  PROVE  (Calls /\ Searching)'
<1>1. /\ session' = session /\ done' = done + 1 /\ done < Len(session.calls)
      /\ map' = session.map /\ cfg' = session.calls[done']
      /\ scan' = <<>> /\ archive' = <<>> /\ tasks' = <<>> /\ status' = "start"
  BY DEF Call
<1>2. Len(session.calls) \in Nat
  BY PipelineAssumption, LenProperties DEF Calls
<1>3. Calls'
  BY <1>1, <1>2 DEF Calls
<1>4. tasks' \in Seq(Stage1!AllFiles') /\ Once0(tasks')
  BY <1>1 DEF Once0
<1>5. Searching'
  BY <1>1, <1>4 DEF Searching
<1> QED
  BY <1>3, <1>5

LEMMA SearchStays ==
  ASSUME Calls, Searching, session' = session, done' = done, discovery' = discovery
  PROVE  (Calls /\ Searching)'
<1>1. /\ map' = map /\ cfg' = cfg /\ scan' = scan /\ archive' = archive /\ tasks' = tasks /\ status' = status
  BY DEF discovery
<1>2. Wanted' = Wanted /\ Stage1!AllFiles' = Stage1!AllFiles
  BY <1>1, SameWanted
<1>3. InFolders' <=> InFolders
  BY <1>1, <1>2 DEF InFolders, Taken
<1>4. InArchive' <=> InArchive
  BY <1>1, <1>2 DEF InArchive, Taken
<1>5. Taken' = Taken
  BY <1>1 DEF Taken
<1>6. Searching'
  BY <1>1, <1>2, <1>3, <1>4, <1>5 DEF Searching
<1>7. Calls'
  BY <1>1 DEF Calls
<1> QED
  BY <1>6, <1>7

LEMMA SearchStep ==
  ASSUME Calls, Searching, [Next]_vars
  PROVE  (Calls /\ Searching)'
<1>1. CASE Call
  BY <1>1, NewCall
<1>2. CASE Discover
  <2>1. Stage1!Proceed /\ session' = session /\ done' = done
    BY <1>2 DEF Discover
  <2>2. Searching' /\ map' = map /\ cfg' = cfg
    BY <2>1, Searches
  <2> QED
    BY <2>1, <2>2 DEF Calls
<1>3. CASE DiscoverFails
  <2>1. Stage1!Fail /\ session' = session /\ done' = done
    BY <1>3 DEF DiscoverFails, Exit
  <2>2. map' = map /\ cfg' = cfg
    BY <2>1 DEF Stage1!Fail, Stage1!StartFails, Stage1!ReadFails
  <2>3. Searching'
    BY <2>1, SearchFails
  <2> QED
    BY <2>1, <2>2, <2>3 DEF Calls
<1>4. CASE NothingFound \/ Bake \/ BuildLevel \/ OpenDatabase \/ Ingest \/ IngestFails \/ Kill \/ AllCalled
  <2>1. session' = session /\ done' = done /\ discovery' = discovery
    BY <1>4 DEF NothingFound, Bake, BuildLevel, OpenDatabase, Ingest, IngestFails, Kill, AllCalled, Exit, vars
  <2> QED
    BY <2>1, SearchStays
<1>5. CASE UNCHANGED vars
  <2>1. session' = session /\ done' = done /\ discovery' = discovery
    BY <1>5 DEF vars
  <2> QED
    BY <2>1, SearchStays
<1> QED
  BY <1>1, <1>2, <1>3, <1>4, <1>5 DEF Next, Proceed

LEMMA SearchInit ==
  ASSUME Init
  PROVE  Calls /\ Searching
<1>1. /\ session \in Sessions /\ done = 0 /\ map = session.map /\ cfg = session.calls[1]
      /\ scan = <<>> /\ archive = <<>> /\ tasks = <<>> /\ status = "start"
  BY DEF Init, Stage1!Init
<1>2. Len(session.calls) \in Nat
  BY <1>1, PipelineAssumption, LenProperties
<1>3. Calls
  BY <1>1, <1>2 DEF Calls
<1>4. tasks \in Seq(Stage1!AllFiles) /\ Once0(tasks)
  BY <1>1 DEF Once0
<1> QED
  BY <1>1, <1>3, <1>4 DEF Searching

(* The invariant says what the property does, with the region range of the *)
(* code in the place of the box around the centre.                         *)
LEMMA SearchedFinds ==
  ASSUME Calls, Searching
  PROVE  FindsOverlapping
<1> SUFFICES ASSUME Stage1!BoxFits, status \in {"found", "nothing"}
             PROVE  /\ Stage1!Range0(tasks) =
                         {f \in Stage1!AllFiles : f.mca /\ (Stage1!FromArchive => f.in_region) /\ Stage1!Overlaps(f.pos)}
                    /\ \A i, j \in DOMAIN tasks : tasks[i] = tasks[j] => i = j
  BY DEF FindsOverlapping, Stage1!FindsOverlapping
<1>1. cfg \in CliConfig /\ Stage1!IsMap(map)
  BY TheCall
<1>2. Taken = Wanted /\ Once0(tasks)
  BY DEF Searching
<1>3. \A f \in Stage1!AllFiles : Stage1!IsFile(f)
  <2>1. CASE map.kind = "folder"
    <3>1. Stage1!IsTree(map.tree)
      BY <1>1, <2>1 DEF Stage1!IsMap
    <3> QED
      BY <2>1, <3>1, FilesListed DEF Stage1!IsTree, Listed, Stage1!IsFolder
  <2>2. CASE map.kind = "zip"
    <3>1. Stage1!IsArchive(map.archive)
      BY <1>1, <2>2 DEF Stage1!IsMap
    <3> QED
      BY <2>2, <3>1, FilesArchived DEF Stage1!IsArchive, Stage1!Range0
  <2>3. CASE map.kind = "none"
    BY <2>3 DEF Stage1!AllFiles, Stage1!FilesOf
  <2> QED
    BY <1>1, <2>1, <2>2, <2>3 DEF Stage1!IsMap
<1>4. \A f \in Stage1!AllFiles : Stage1!InRange(f.pos) <=> Stage1!Overlaps(f.pos)
  BY <1>1, <1>3, RangeOverlaps DEF Stage1!IsFile
<1>5. map.kind \in {"folder", "zip"} \/ Stage1!AllFiles = {}
  BY DEF Stage1!AllFiles, Stage1!FilesOf
<1>6. \A f \in Stage1!AllFiles :
        Wants(f) <=> f.mca /\ (Stage1!FromArchive => f.in_region) /\ Stage1!Overlaps(f.pos)
  BY <1>4, <1>5 DEF Wants, Stage1!TakenFromFolder, Stage1!TakenFromArchive, Stage1!FromArchive
<1> QED
  BY <1>2, <1>6 DEF Taken, Wanted, Once0

(* A scan that ends has found each region file that overlaps the box once: *)
(* whatever the tree of folders or the archive, in whichever order entries *)
(* are visited (find_mca_files_in_dir, the loop over the archive), however *)
(* wide the integers and wherever the centre is.                           *)
THEOREM SpecFindsOverlapping == Spec => []FindsOverlapping
<1>1. Init => Calls /\ Searching
  BY SearchInit
<1>2. Calls /\ Searching /\ [Next]_vars => (Calls /\ Searching)'
  BY SearchStep
<1>3. Calls /\ Searching => FindsOverlapping
  BY SearchedFinds
<1> QED
  BY <1>1, <1>2, <1>3, PTL DEF Spec
-----------------------------------------------------------------------------
(* What is in the lists the stages hand over.                              *)
LEMMA FiniteImage ==
  ASSUME NEW D, IsFiniteSet(D), NEW T, NEW f \in [D -> T]
  PROVE  IsFiniteSet({f[x] : x \in D})
<1> DEFINE R == {f[x] : x \in D}
<1>1. f \in [D -> R]
  OBVIOUS
<1>2. f \in Surjection(D, R)
  BY <1>1 DEF Surjection
<1> QED
  BY <1>2, FS_Surjection

LEMMA ListOfSet ==
  ASSUME NEW S, IsFiniteSet(S)
  PROVE  SetToSeq(S) \in Seq(S) /\ Range(SetToSeq(S)) = S
<1> DEFINE n == Cardinality(S)
           Lists == {f \in [1 .. n -> S] : IsInjective(f)}
<1>1. n \in Nat /\ ExistsBijection(1 .. n, S)
  BY FS_CardinalityType
<1>2. PICK b : b \in Bijection(1 .. n, S)
  BY <1>1 DEF ExistsBijection
<1>3. b \in [1 .. n -> S] /\ IsInjective(b)
  BY <1>2 DEF Bijection, Injection, IsInjective
<1>4. SetToSeq(S) \in [1 .. n -> S] /\ IsInjective(SetToSeq(S))
  <2>1. \E f \in [1 .. n -> S] : IsInjective(f)
    BY <1>3
  <2> HIDE DEF n
  <2>2. SetToSeq(S) = CHOOSE f \in [1 .. n -> S] : IsInjective(f)
    BY DEF SetToSeq, n
  <2> QED
    BY <2>1, <2>2
<1> HIDE DEF n
<1>5. PICK s : s = SetToSeq(S)
  OBVIOUS
<1>6. s \in Injection(1 .. n, S)
  BY <1>4, <1>5 DEF Injection, IsInjective
<1>7. IsFiniteSet(1 .. n) /\ Cardinality(1 .. n) = n
  BY <1>1, FS_Interval
<1>8. s \in Surjection(1 .. n, S)
  BY <1>6, <1>7, FS_Injection DEF n
<1>9. Range(s) = S
  BY <1>8 DEF Surjection, Range
<1>10. s \in Seq(S)
  BY <1>1, <1>4, <1>5
<1> QED
  BY <1>5, <1>9, <1>10

LEMMA FlattenRange ==
  ASSUME NEW S, NEW ss \in Seq(Seq(S))
  PROVE  /\ FlattenSeq(ss) \in Seq(S)
         /\ \A x : x \in Range(FlattenSeq(ss)) <=> \E n \in 1 .. Len(ss) : x \in Range(ss[n])
<1> DEFINE N == Len(ss)
<1>1. N \in Nat /\ \A n \in 1 .. N : ss[n] \in Seq(S)
  BY LenProperties, ElementOfSeq
<1>2. PICK f : Flattening(S, ss, f) /\ FlattenSeq(ss) = f[N]
  BY FlattenIsRecursive
<1>3. f \in [0 .. N -> Seq(S)] /\ f[0] = <<>> /\ \A n \in 1 .. N : f[n] = f[n - 1] \o ss[n]
  BY <1>2 DEF Flattening
<1> HIDE DEF N
<1>4. \A s, t \in Seq(S) : Range(s \o t) = Range(s) \cup Range(t)
  BY RangeConcatenation
<1> DEFINE T == {n \in Nat : n \in 0 .. N =>
                   \A x : x \in Range(f[n]) <=> \E i \in 1 .. n : x \in Range(ss[i])}
<1>5. 0 \in T
  <2>1. Range(<<>>) = {}
    BY DEF Range
  <2> QED
    BY <1>3, <2>1
<1>6. ASSUME NEW n \in Nat, n \in T PROVE n + 1 \in T
  <2>1. ASSUME n + 1 \in 0 .. N, NEW x
        PROVE x \in Range(f[n + 1]) <=> \E i \in 1 .. n + 1 : x \in Range(ss[i])
    <3>1. n + 1 \in 1 .. N /\ (n + 1) - 1 = n /\ n \in 0 .. N
      BY <1>1, <2>1
    <3>2. f[n + 1] = f[n] \o ss[n + 1] /\ f[n] \in Seq(S) /\ ss[n + 1] \in Seq(S)
      BY <1>1, <1>3, <3>1
    <3>3. Range(f[n + 1]) = Range(f[n]) \cup Range(ss[n + 1])
      BY <1>4, <3>2
    <3>4. x \in Range(f[n]) <=> \E i \in 1 .. n : x \in Range(ss[i])
      BY <1>6, <3>1
    <3>5. \A i : i \in 1 .. n + 1 <=> i \in 1 .. n \/ i = n + 1
      OBVIOUS
    <3> QED
      BY <3>3, <3>4, <3>5
  <2> QED
    BY <2>1
<1> HIDE DEF T
<1>7. Nat \subseteq T
  BY <1>5, <1>6, SetInduction
<1>8. N \in 0 .. N
  BY <1>1
<1> QED
  BY <1>1, <1>2, <1>3, <1>7, <1>8 DEF T, N
-----------------------------------------------------------------------------
(***************************************************************************)
(* What a call with configuration conf makes of a map m, in one piece: the *)
(* chunks it takes, those of them that have terrain, the sections it       *)
(* builds and the keys it writes.  The box is the one the code computes,   *)
(* wrapped around where it does not fit.                                   *)
(***************************************************************************)
LowOf(block, radius) == Stage1!Wrap(Stage1!DivEuclid(block, ChunkCols) - radius)
HighOf(block, radius) == Stage1!Wrap(Stage1!DivEuclid(block, ChunkCols) + radius)

InBoxOf(conf, c) ==
  /\ c[1] >= LowOf(conf.cx, conf.radius) /\ c[1] <= HighOf(conf.cx, conf.radius)
  /\ c[2] >= LowOf(conf.cz, conf.radius) /\ c[2] <= HighOf(conf.cz, conf.radius)

InRangeOf(conf, pos) ==
  /\ pos # NoPos
  /\ pos[1] >= LowOf(conf.cx, conf.radius) \div RegionChunks
  /\ pos[1] <= HighOf(conf.cx, conf.radius) \div RegionChunks
  /\ pos[2] >= LowOf(conf.cz, conf.radius) \div RegionChunks
  /\ pos[2] <= HighOf(conf.cz, conf.radius) \div RegionChunks

Takes(m, conf, f) == f.mca /\ (m.kind = "folder" \/ f.in_region) /\ InRangeOf(conf, f.pos)

Picked(m, conf, f, local) ==
  /\ f \in Stage1!FilesOf(m) /\ Takes(m, conf, f) /\ f.opens
  /\ local \in DOMAIN f.chunks /\ InBoxOf(conf, ChunkAt(f, local))

Places == Int \X Int
Chosen(m, conf) ==
  {c \in Places : \E f \in Stage1!FilesOf(m) : \E local \in Locals :
     Picked(m, conf, f, local) /\ c = ChunkAt(f, local)}
Solid(m, conf) ==
  {c \in Places : \E f \in Stage1!FilesOf(m) : \E local \in Locals :
     Picked(m, conf, f, local) /\ f.chunks[local] = "terrain" /\ c = ChunkAt(f, local)}

Under(c, level) == <<c[1] \div Width(level), c[2] \div Width(level)>>
ShowsOf(m, conf, level, pos) == {c \in Solid(m, conf) : Under(c, level) = pos}

WritesKey(m, conf, k) ==
  \/ \E level \in 0 .. conf.detail_levels : \E c \in Chosen(m, conf) : k = DataKey(level, Under(c, level))
  \/ \E c \in Chosen(m, conf) : k = HashKey(c)

(* Of the files a call may take, each region position has one. *)
Unshared ==
  \A s \in Sessions : \A f, g \in Stage1!FilesOf(s.map) :
    /\ f.mca /\ (s.map.kind = "folder" \/ f.in_region)
    /\ g.mca /\ (s.map.kind = "folder" \/ g.in_region)
    /\ f.pos # NoPos /\ f.pos = g.pos
    => f = g

Sound(m) ==
  \A f \in Stage1!FilesOf(m) :
    /\ f.opens \in BOOLEAN /\ DOMAIN f.chunks \subseteq Locals
    /\ f.pos = NoPos \/ f.pos \in Places

LEMMA SoundMaps ==
  ASSUME NEW s \in Sessions
  PROVE  Sound(s.map)
<1> DEFINE m == s.map
<1>1. Stage1!IsMap(m) /\ \A f \in Stage1!FilesOf(m) : f.opens \in BOOLEAN /\ DOMAIN f.chunks \subseteq Locals
  BY MapsAssumption
<1> HIDE DEF m
<1>2. \A f \in Stage1!FilesOf(m) : Stage1!IsFile(f)
  <2>1. CASE m.kind = "folder"
    <3>1. Stage1!IsTree(m.tree)
      BY <1>1, <2>1 DEF Stage1!IsMap
    <3> QED
      BY <2>1, <3>1 DEF Stage1!IsTree, Stage1!IsFolder, Stage1!FilesOf, Stage1!FilesIn
  <2>2. CASE m.kind = "zip"
    <3>1. Stage1!IsArchive(m.archive)
      BY <1>1, <2>2 DEF Stage1!IsMap
    <3> QED
      BY <2>2, <3>1 DEF Stage1!IsArchive, Stage1!FilesOf, Stage1!Range0
  <2>3. CASE m.kind = "none"
    BY <2>3 DEF Stage1!FilesOf
  <2> QED
    BY <1>1, <2>1, <2>2, <2>3 DEF Stage1!IsMap
<1>3. Sound(m)
  BY <1>1, <1>2 DEF Sound, Stage1!IsFile, Places
<1> QED
  BY <1>3 DEF m

(* The sizes, and what a chunk, a region and a section have in common.     *)
LEMMA RegionWidth ==
  \E w \in Nat \ {0} : RegionChunks = SecChunks * w /\ w = RegionChunks \div SecChunks
<1>1. RegionChunks = SecChunks * (RegionChunks \div SecChunks) + 0 /\ RegionChunks \div SecChunks \in Int
  <2>1. RegionChunks \in Int /\ SecChunks \in Nat \ {0} /\ RegionChunks % SecChunks = 0
    BY PipelineAssumption
  <2> QED
    BY <2>1, DivMod
<1>2. PICK w \in Int : w = RegionChunks \div SecChunks
  BY <1>1
<1>3. RegionChunks = SecChunks * w
  BY <1>1, <1>2, SizesPositive
<1>4. w >= 1
  <2>1. w <= 0 => SecChunks * w <= 0
    BY SizesPositive
  <2> QED
    BY <1>3, <2>1, SizesPositive
<1> QED
  BY <1>2, <1>3, <1>4

LEMMA WidthType ==
  ASSUME NEW level \in Nat
  PROVE  Width(level) \in Nat \ {0} /\ Width(level + 1) = Width(level) * 2 /\ Width(0) = SecChunks
<1>1. PICK s \in Nat \ {0}, p \in Nat \ {0} : s = SecChunks /\ p = Pow2[level] /\ Pow2[level + 1] = 2 * p
  BY Powers, SizesPositive
<1>2. s * p \in Nat \ {0} /\ s * (2 * p) = (s * p) * 2
  OBVIOUS
<1>3. Pow2[0] = 1 /\ s * 1 = s
  BY Powers
<1> QED
  BY <1>1, <1>2, <1>3 DEF Width

LEMMA UnderType ==
  ASSUME NEW c \in Places, NEW level \in Nat
  PROVE  Under(c, level) \in Places
BY WidthType, DivMod DEF Under, Places

LEMMA UnderUp ==
  ASSUME NEW c \in Places, NEW level \in Nat
  PROVE  ParentPos(Under(c, level)) = Under(c, level + 1)
<1>1. PICK x \in Int, z \in Int : c = <<x, z>>
  BY DEF Places
<1>2. PICK w \in Nat \ {0} : w = Width(level) /\ Width(level + 1) = w * 2
  BY WidthType
<1>3. (x \div w) \div 2 = x \div (w * 2) /\ (z \div w) \div 2 = z \div (w * 2)
  BY DivDiv
<1> QED
  BY <1>1, <1>2, <1>3 DEF Under, ParentPos

LEMMA ChunkPlace ==
  ASSUME NEW f, f.pos \in Places, NEW local \in Locals
  PROVE  /\ ChunkAt(f, local) \in Places
         /\ <<ChunkAt(f, local)[1] \div RegionChunks, ChunkAt(f, local)[2] \div RegionChunks>> = f.pos
         /\ AbsSec(f, LocalSec(local)) = Under(ChunkAt(f, local), 0)
<1>1. PICK x \in Int, z \in Int : f.pos = <<x, z>>
  BY DEF Places
<1>2. PICK a \in 0 .. RegionChunks - 1, b \in 0 .. RegionChunks - 1 : local = <<a, b>>
  BY DEF Locals
<1>3. PICK w \in Nat \ {0} : RegionChunks = SecChunks * w /\ w = RegionChunks \div SecChunks
  BY RegionWidth
<1>4. \A p \in Int, q \in 0 .. RegionChunks - 1 :
        /\ p * RegionChunks + q \in Int
        /\ (p * RegionChunks + q) \div RegionChunks = p
        /\ (p * RegionChunks + q) \div SecChunks = p * w + q \div SecChunks
  <2> TAKE p \in Int, q \in 0 .. RegionChunks - 1
  <2>0. RegionChunks \in Nat \ {0} /\ SecChunks \in Nat \ {0} /\ q \in Int
    BY SizesPositive
  <2>1. RegionChunks * p + q = p * RegionChunks + q
    BY <2>0
  <2>2. (RegionChunks * p + q) \div RegionChunks = p
    BY <2>0, DivUnique
  <2>3. PICK u \in Int, v \in 0 .. SecChunks - 1 : u = q \div SecChunks /\ q = SecChunks * u + v
    BY <2>0, DivMod
  <2>4. p * w + u \in Int
    OBVIOUS
  <2>5. (SecChunks * (p * w + u) + v) \div SecChunks = p * w + u
    BY <2>0, <2>4, DivUnique
  <2>6. SecChunks * (p * w + u) + v = p * (SecChunks * w) + (SecChunks * u + v)
    <3>1. PICK s \in Int : s = SecChunks
      BY <2>0
    <3>2. s * (p * w + u) + v = p * (s * w) + (s * u + v)
      <4>1. s * (p * w + u) = s * (p * w) + s * u
        OBVIOUS
      <4>2. s * (p * w) = p * (s * w)
        OBVIOUS
      <4>3. v \in Int /\ s * u \in Int /\ p * (s * w) \in Int
        BY <2>0
      <4> QED
        BY <4>1, <4>2, <4>3
    <3> QED
      BY <3>1, <3>2
  <2> QED
    BY <1>3, <2>0, <2>1, <2>2, <2>3, <2>5, <2>6
<1>5. ChunkAt(f, local) = <<x * RegionChunks + a, z * RegionChunks + b>>
  BY <1>1, <1>2 DEF ChunkAt
<1>6. ChunkAt(f, local) \in Places
  BY <1>4, <1>5 DEF Places
<1>7. AbsSec(f, LocalSec(local)) = <<x * w + a \div SecChunks, z * w + b \div SecChunks>>
  BY <1>1, <1>2, <1>3 DEF AbsSec, LocalSec
<1>8. Width(0) = SecChunks
  BY WidthType
<1> QED
  BY <1>1, <1>4, <1>5, <1>6, <1>7, <1>8 DEF Under

LEMMA PickedPlace ==
  ASSUME NEW m, Sound(m), NEW conf, NEW f, NEW local, Picked(m, conf, f, local)
  PROVE  /\ f \in Stage1!FilesOf(m) /\ f.pos \in Places /\ local \in Locals
         /\ ChunkAt(f, local) \in Chosen(m, conf)
         /\ f.chunks[local] = "terrain" => ChunkAt(f, local) \in Solid(m, conf)
<1>1. f \in Stage1!FilesOf(m) /\ f.pos \in Places /\ local \in Locals
  BY DEF Sound, Picked, Takes, InRangeOf
<1> QED
  BY <1>1, ChunkPlace DEF Chosen, Solid
-----------------------------------------------------------------------------
(* The box where it fits: the chunks around the centre.                    *)
Mid(block) == block \div ChunkCols
Fits(conf) ==
  /\ conf.radius \in Nat
  /\ \A block \in {conf.cx, conf.cz} :
       /\ block \in Stage1!I32
       /\ Mid(block) - conf.radius \in Stage1!I32 /\ Mid(block) + conf.radius \in Stage1!I32

LEMMA BoxFitsIs ==
  ASSUME cfg \in CliConfig
  PROVE  Stage1!BoxFits <=> Fits(cfg)
<1>1. cfg.radius \in Int /\ {cfg.cx, cfg.cz} \subseteq Stage1!I32
  BY SizesPositive DEF CliConfig, Stage1!I32
<1>2. cfg.radius >= 0 <=> cfg.radius \in Nat
  BY <1>1
<1> QED
  BY <1>1, <1>2
     DEF Stage1!BoxFits, Fits, Mid, Stage1!center_chunk_x, Stage1!center_chunk_z, Stage1!DivEuclid

LEMMA CentreMid ==
  ASSUME NEW block \in Stage1!I32
  PROVE  Centre(block) = Mid(block) /\ Mid(block) \in Int
<1>1. PICK h \in Nat \ {0}, d \in Nat \ {0} : h = IntHalf /\ d = ChunkCols
  BY SizesPositive
<1>2. block \in Int /\ block >= -h /\ block < h
  BY <1>1 DEF Stage1!I32
<1>3. -h * d <= -h /\ h < (h + 1) * d /\ -h * d \in Int /\ (h + 1) * d \in Int
  OBVIOUS
<1>4. block \div d \in Int /\ block \div d >= -h /\ block \div d <= h
  <2>1. block \div d \in Int /\ (block \div d >= -h <=> block >= -h * d)
    BY <1>2, DivBounds, DivMod
  <2>2. block \div d <= h <=> block < (h + 1) * d
    BY <1>2, DivBounds
  <2> QED
    BY <1>2, <1>3, <2>1, <2>2
<1>5. \A c \in -IntHalf .. IntHalf : Stage1!CentreChunk(c, block) <=> c = Mid(block)
  BY <1>1, <1>2, CentreIs DEF Mid
<1>6. Mid(block) \in -IntHalf .. IntHalf
  BY <1>1, <1>4 DEF Mid
<1> QED
  BY <1>1, <1>4, <1>5, <1>6 DEF Centre, Mid

LEMMA Bounds ==
  ASSUME NEW conf, Fits(conf), NEW block \in {conf.cx, conf.cz}
  PROVE  /\ LowOf(block, conf.radius) = Mid(block) - conf.radius
         /\ HighOf(block, conf.radius) = Mid(block) + conf.radius
         /\ Reach(block, conf.radius).low = Mid(block) - conf.radius
         /\ Reach(block, conf.radius).high = Mid(block) + conf.radius
         /\ Mid(block) - conf.radius \in Int /\ Mid(block) + conf.radius \in Int
<1>1. block \in Stage1!I32 /\ Mid(block) - conf.radius \in Stage1!I32 /\ Mid(block) + conf.radius \in Stage1!I32
  BY DEF Fits
<1>2. Centre(block) = Mid(block)
  BY <1>1, CentreMid
<1>3. /\ LowOf(block, conf.radius) = Mid(block) - conf.radius
      /\ HighOf(block, conf.radius) = Mid(block) + conf.radius
  BY <1>1, WrapFits DEF LowOf, HighOf, Mid, Stage1!DivEuclid
<1> QED
  BY <1>1, <1>2, <1>3, SizesPositive DEF Reach, Stage1!I32

(* A box inside another one that fits, fits.                               *)
LEMMA CoversFits ==
  ASSUME NEW conf \in CliConfig, Fits(conf), NEW earlier \in CliConfig, Covers(conf, earlier)
  PROVE  /\ Fits(earlier)
         /\ Mid(conf.cx) - conf.radius <= Mid(earlier.cx) - earlier.radius
         /\ Mid(conf.cz) - conf.radius <= Mid(earlier.cz) - earlier.radius
         /\ Mid(earlier.cx) + earlier.radius <= Mid(conf.cx) + conf.radius
         /\ Mid(earlier.cz) + earlier.radius <= Mid(conf.cz) + conf.radius
<1>1. /\ earlier.radius \in Nat
      /\ earlier.cx \in Stage1!I32 /\ earlier.cz \in Stage1!I32
      /\ conf.cx \in Stage1!I32 /\ conf.cz \in Stage1!I32
  BY SizesPositive DEF Covers, CliConfig, Stage1!I32
<1>2. ASSUME NEW a, NEW b, a \in {conf.cx, conf.cz}, b \in {earlier.cx, earlier.cz},
             Reach(a, conf.radius).low <= Reach(b, earlier.radius).low,
             Reach(b, earlier.radius).high <= Reach(a, conf.radius).high
      PROVE  /\ Mid(a) - conf.radius <= Mid(b) - earlier.radius
             /\ Mid(b) + earlier.radius <= Mid(a) + conf.radius
             /\ Mid(b) - earlier.radius \in Stage1!I32 /\ Mid(b) + earlier.radius \in Stage1!I32
  <2>1. Centre(b) = Mid(b) /\ Mid(b) \in Int
    BY <1>1, <1>2, CentreMid
  <2>2. PICK l \in Int, u \in Int :
          /\ l = Mid(a) - conf.radius /\ u = Mid(a) + conf.radius
          /\ Reach(a, conf.radius).low = l /\ Reach(a, conf.radius).high = u
          /\ l \in Stage1!I32 /\ u \in Stage1!I32
    BY <1>2, Bounds DEF Fits
  <2>3. PICK m \in Int, r \in Nat : m = Mid(b) /\ r = earlier.radius
    BY <1>1, <2>1
  <2>4. Reach(b, earlier.radius).low = m - r /\ Reach(b, earlier.radius).high = m + r
    BY <2>1, <2>3 DEF Reach
  <2>5. l <= m - r /\ m + r <= u
    BY <1>2, <2>2, <2>4
  <2>6. m - r \in Stage1!I32 /\ m + r \in Stage1!I32
    BY <2>2, <2>5, SizesPositive DEF Stage1!I32
  <2> QED
    BY <2>2, <2>3, <2>5, <2>6
<1>3. /\ Reach(conf.cx, conf.radius).low <= Reach(earlier.cx, earlier.radius).low
      /\ Reach(earlier.cx, earlier.radius).high <= Reach(conf.cx, conf.radius).high
      /\ Reach(conf.cz, conf.radius).low <= Reach(earlier.cz, earlier.radius).low
      /\ Reach(earlier.cz, earlier.radius).high <= Reach(conf.cz, conf.radius).high
  BY DEF Covers
<1> QED
  BY <1>1, <1>2, <1>3 DEF Fits

(* The regions of a box are those its chunks are in.                       *)
LEMMA ChunkInRange ==
  ASSUME NEW n \in Int, NEW low \in Int, NEW high \in Int, low <= n, n <= high
  PROVE  low \div RegionChunks <= n \div RegionChunks /\ n \div RegionChunks <= high \div RegionChunks
<1>1. PICK d \in Nat \ {0} : d = RegionChunks
  BY SizesPositive
<1>2. PICK p \in Int : p = n \div d
  BY DivMod
<1>3. p * d \in Int /\ (p + 1) * d \in Int /\ n >= p * d /\ n < (p + 1) * d
  <2>1. (n \div d >= p <=> n >= p * d) /\ (n \div d <= p <=> n < (p + 1) * d)
    BY DivBounds
  <2> QED
    BY <1>2, <2>1
<1>4. low \div d <= p
  <2>1. low \div d <= p <=> low < (p + 1) * d
    BY DivBounds
  <2> QED
    BY <1>3, <2>1
<1>5. p <= high \div d
  <2>1. high \div d >= p <=> high >= p * d
    BY DivBounds
  <2>2. high \div d \in Int
    BY DivMod
  <2> QED
    BY <1>3, <2>1, <2>2
<1> QED
  BY <1>1, <1>2, <1>4, <1>5

LEMMA CoversPicked ==
  ASSUME NEW conf \in CliConfig, Fits(conf), NEW earlier \in CliConfig, Covers(conf, earlier),
         NEW m, Sound(m), NEW f, NEW local, Picked(m, earlier, f, local)
  PROVE  Picked(m, conf, f, local)
<1>1. f.pos \in Places /\ local \in Locals
  BY PickedPlace
<1>2. PICK x \in Int, z \in Int :
        /\ ChunkAt(f, local)[1] = x /\ ChunkAt(f, local)[2] = z
        /\ f.pos[1] = x \div RegionChunks /\ f.pos[2] = z \div RegionChunks
  BY <1>1, ChunkPlace DEF Places
<1>3. Fits(earlier)
  BY CoversFits
<1>4. PICK lx \in Int, ux \in Int, lz \in Int, uz \in Int :
        /\ LowOf(conf.cx, conf.radius) = lx /\ HighOf(conf.cx, conf.radius) = ux
        /\ LowOf(conf.cz, conf.radius) = lz /\ HighOf(conf.cz, conf.radius) = uz
        /\ lx = Mid(conf.cx) - conf.radius /\ ux = Mid(conf.cx) + conf.radius
        /\ lz = Mid(conf.cz) - conf.radius /\ uz = Mid(conf.cz) + conf.radius
  BY Bounds
<1>5. PICK ax \in Int, bx \in Int, az \in Int, bz \in Int :
        /\ LowOf(earlier.cx, earlier.radius) = ax /\ HighOf(earlier.cx, earlier.radius) = bx
        /\ LowOf(earlier.cz, earlier.radius) = az /\ HighOf(earlier.cz, earlier.radius) = bz
        /\ ax = Mid(earlier.cx) - earlier.radius /\ bx = Mid(earlier.cx) + earlier.radius
        /\ az = Mid(earlier.cz) - earlier.radius /\ bz = Mid(earlier.cz) + earlier.radius
  BY <1>3, Bounds
<1>6. lx <= ax /\ lz <= az /\ bx <= ux /\ bz <= uz
  BY <1>4, <1>5, CoversFits
<1>7. ax <= x /\ x <= bx /\ az <= z /\ z <= bz
  BY <1>2, <1>5 DEF Picked, InBoxOf
<1>8. lx <= x /\ x <= ux /\ lz <= z /\ z <= uz
  BY <1>6, <1>7
<1>9. InBoxOf(conf, ChunkAt(f, local))
  BY <1>2, <1>4, <1>8 DEF InBoxOf
<1>10. InRangeOf(conf, f.pos)
  <2>1. /\ x \div RegionChunks >= lx \div RegionChunks /\ x \div RegionChunks <= ux \div RegionChunks
        /\ z \div RegionChunks >= lz \div RegionChunks /\ z \div RegionChunks <= uz \div RegionChunks
    <3>1. \A a, b \in Int : a <= b => b >= a
      OBVIOUS
    <3>2. /\ x \div RegionChunks \in Int /\ z \div RegionChunks \in Int
          /\ lx \div RegionChunks \in Int /\ lz \div RegionChunks \in Int
      BY SizesPositive, DivMod
    <3> QED
      BY <1>8, <3>1, <3>2, ChunkInRange
  <2>2. f.pos # NoPos
    BY DEF Picked, Takes, InRangeOf
  <2> QED
    BY <1>2, <1>4, <2>1, <2>2 DEF InRangeOf
<1> QED
  BY <1>9, <1>10 DEF Picked, Takes

LEMMA CoversKeys ==
  ASSUME NEW conf \in CliConfig, Fits(conf), NEW earlier \in CliConfig, Covers(conf, earlier),
         NEW m, Sound(m), NEW k, WritesKey(m, earlier, k)
  PROVE  WritesKey(m, conf, k)
<1>1. Chosen(m, earlier) \subseteq Chosen(m, conf)
  BY CoversPicked DEF Chosen
<1>2. 0 .. earlier.detail_levels \subseteq 0 .. conf.detail_levels
  BY DEF Covers, CliConfig
<1> QED
  BY <1>1, <1>2 DEF WritesKey
-----------------------------------------------------------------------------
(* A row a call writes is of an area its box touches.                      *)
LEMMA UnderSpans ==
  ASSUME NEW n \in Int, NEW d \in Nat \ {0}, NEW p, p = n \div d
  PROVE  p * d <= n /\ n <= (p + 1) * d - 1 /\ p * d \in Int /\ (p + 1) * d - 1 \in Int
<1>1. p \in Int
  BY DivMod
<1>2. (n \div d >= p <=> n >= p * d) /\ (n \div d <= p <=> n < (p + 1) * d)
  BY <1>1, DivBounds
<1>3. p * d \in Int /\ (p + 1) * d \in Int
  BY <1>1
<1> QED
  BY <1>1, <1>2, <1>3

LEMMA KeyInReach ==
  ASSUME cfg \in CliConfig, Fits(cfg), NEW m, Sound(m), NEW k, WritesKey(m, cfg, k)
  PROVE  InReachOf(k)
<1>1. PICK c \in Chosen(m, cfg), d \in Nat \ {0} :
        /\ d = IF k.table = "ChunkHash" THEN 1 ELSE Width(k.level)
        /\ k.pos[1] = c[1] \div d /\ k.pos[2] = c[2] \div d
        /\ c \in Places
  <2>1. ASSUME NEW level \in 0 .. cfg.detail_levels, NEW c \in Chosen(m, cfg), k = DataKey(level, Under(c, level))
        PROVE  /\ Width(level) \in Nat \ {0}
               /\ Width(level) = IF k.table = "ChunkHash" THEN 1 ELSE Width(k.level)
               /\ k.pos[1] = c[1] \div Width(level) /\ k.pos[2] = c[2] \div Width(level)
    BY <2>1, WidthType DEF DataKey, Under, CliConfig
  <2>2. ASSUME NEW c \in Chosen(m, cfg), k = HashKey(c)
        PROVE  /\ 1 = IF k.table = "ChunkHash" THEN 1 ELSE Width(k.level)
               /\ k.pos[1] = c[1] \div 1 /\ k.pos[2] = c[2] \div 1
    BY <2>2 DEF HashKey, Chosen, Places
  <2>3. Chosen(m, cfg) \subseteq Places
    BY DEF Chosen
  <2>4. CASE \E level \in 0 .. cfg.detail_levels : \E c \in Chosen(m, cfg) : k = DataKey(level, Under(c, level))
    BY <2>1, <2>3, <2>4
  <2>5. CASE \E c \in Chosen(m, cfg) : k = HashKey(c)
    <3>1. 1 \in Nat \ {0}
      OBVIOUS
    <3> QED
      BY <2>2, <2>3, <2>5, <3>1
  <2> QED
    BY <2>4, <2>5 DEF WritesKey
<1>2. PICK x \in Int, z \in Int : x = c[1] /\ z = c[2]
  BY <1>1 DEF Places
<1>3. InBoxOf(cfg, c)
  BY <1>1 DEF Chosen, Picked
<1>4. PICK lx \in Int, ux \in Int, lz \in Int, uz \in Int :
        /\ LowOf(cfg.cx, cfg.radius) = lx /\ HighOf(cfg.cx, cfg.radius) = ux
        /\ LowOf(cfg.cz, cfg.radius) = lz /\ HighOf(cfg.cz, cfg.radius) = uz
        /\ Reach(cfg.cx, cfg.radius).low = lx /\ Reach(cfg.cx, cfg.radius).high = ux
        /\ Reach(cfg.cz, cfg.radius).low = lz /\ Reach(cfg.cz, cfg.radius).high = uz
  BY Bounds
<1>5. lx <= x /\ x <= ux /\ lz <= z /\ z <= uz
  BY <1>2, <1>3, <1>4 DEF InBoxOf
<1>6. \A n \in Int : /\ (n \div d) * d <= n /\ n <= (n \div d + 1) * d - 1
                     /\ (n \div d) * d \in Int /\ (n \div d + 1) * d - 1 \in Int
  BY UnderSpans
<1>7. /\ Extent(k, 1).low = (x \div d) * d /\ Extent(k, 1).high = (x \div d + 1) * d - 1
      /\ Extent(k, 2).low = (z \div d) * d /\ Extent(k, 2).high = (z \div d + 1) * d - 1
  BY <1>1, <1>2 DEF Extent
<1>8. PICK ex \in Int, fx \in Int, ez \in Int, fz \in Int :
        /\ Extent(k, 1).low = ex /\ Extent(k, 1).high = fx
        /\ Extent(k, 2).low = ez /\ Extent(k, 2).high = fz
        /\ ex <= x /\ x <= fx /\ ez <= z /\ z <= fz
  BY <1>6, <1>7
<1>9. ex <= ux /\ lx <= fx /\ ez <= uz /\ lz <= fz
  BY <1>5, <1>8
<1> QED
  BY <1>4, <1>8, <1>9 DEF InReachOf, Meet
-----------------------------------------------------------------------------
(* Stage 2: the sections and the hashes of the files found.                *)
Sections == [level : Nat, pos : Places, shows : SUBSET Places]

Built(m, conf, secs, level) ==
  /\ \A sec \in secs : sec.level \in 0 .. level - 1 /\ \E c \in Chosen(m, conf) : sec.pos = Under(c, sec.level)
  /\ \A i \in 0 .. level - 1 : \A c \in Chosen(m, conf) : \E sec \in secs : sec.level = i /\ sec.pos = Under(c, i)
  /\ Unshared => \A sec \in secs : sec.shows = ShowsOf(m, conf, sec.level, sec.pos)

LEMMA RangeIs == \A pos : Stage1!InRange(pos) <=> InRangeOf(cfg, pos)
BY DEF Stage1!InRange, InRangeOf, LowOf, HighOf,
   Stage1!min_rx, Stage1!max_rx, Stage1!min_rz, Stage1!max_rz,
   Stage1!min_cx, Stage1!max_cx, Stage1!min_cz, Stage1!max_cz,
   Stage1!center_chunk_x, Stage1!center_chunk_z, Stage1!DivEuclid

LEMMA TaskPicks ==
  ASSUME Calls, Searching, status = "found"
  PROVE  /\ map \in {s.map : s \in Sessions} /\ Sound(map)
         /\ \A f : f \in Taken <=> f \in Stage1!FilesOf(map) /\ Takes(map, cfg, f)
         /\ \A f \in Taken : \A local : local \in Accepted(f) <=> Picked(map, cfg, f, local)
<1>1. map \in {s.map : s \in Sessions} /\ Sound(map)
  BY SoundMaps DEF Calls
<1>2. Taken = Wanted
  BY DEF Searching
<1>3. \A pos : Stage1!InRange(pos) <=> InRangeOf(cfg, pos)
  BY RangeIs
<1>4. \A f : Wants(f) <=> Takes(map, cfg, f)
  BY <1>3 DEF Wants, Takes, Stage1!TakenFromFolder, Stage1!TakenFromArchive
<1>5. \A f : f \in Taken <=> f \in Stage1!FilesOf(map) /\ Takes(map, cfg, f)
  BY <1>2, <1>4 DEF Wanted, Stage1!AllFiles
<1>6. \A c : InBox(c) <=> InBoxOf(cfg, c)
  BY DEF InBox, InBoxOfX, InBoxOf, LowOf, HighOf,
     Stage1!min_cx, Stage1!max_cx, Stage1!min_cz, Stage1!max_cz,
     Stage1!center_chunk_x, Stage1!center_chunk_z
<1>7. \A f \in Taken : \A local : local \in Accepted(f) <=> Picked(map, cfg, f, local)
  BY <1>5, <1>6 DEF Accepted, Picked
<1> QED
  BY <1>1, <1>5, <1>7

(* Two chunks of one section are in one region, at one place of it.        *)
LEMMA SameSection ==
  ASSUME NEW f, f.pos \in Places, NEW g, g.pos \in Places, NEW l \in Locals, NEW r \in Locals,
         Under(ChunkAt(f, l), 0) = Under(ChunkAt(g, r), 0)
  PROVE  f.pos = g.pos /\ LocalSec(l) = LocalSec(r)
<1>1. PICK x \in Int, z \in Int, u \in Int, v \in Int : ChunkAt(f, l) = <<x, z>> /\ ChunkAt(g, r) = <<u, v>>
  BY ChunkPlace DEF Places
<1>2. x \div SecChunks = u \div SecChunks /\ z \div SecChunks = v \div SecChunks
  BY <1>1, WidthType DEF Under
<1>3. PICK w \in Nat \ {0} : RegionChunks = SecChunks * w /\ w = RegionChunks \div SecChunks
  BY RegionWidth
<1>4. \A n \in Int : n \div RegionChunks = (n \div SecChunks) \div w
  BY <1>3, SizesPositive, DivDiv
<1>5. f.pos = g.pos
  BY <1>1, <1>2, <1>4, ChunkPlace
<1>6. PICK p \in Int, q \in Int : f.pos = <<p, q>>
  BY DEF Places
<1>7. PICK a \in Int, b \in Int, c \in Int, d \in Int : LocalSec(l) = <<a, b>> /\ LocalSec(r) = <<c, d>>
  <2>1. \A s \in Locals : s[1] \in Int /\ s[2] \in Int
    BY SizesPositive DEF Locals
  <2>2. \A n \in Int : n \div SecChunks \in Int
    BY SizesPositive, DivMod
  <2>3. \A s \in Locals : s[1] \div SecChunks \in Int /\ s[2] \div SecChunks \in Int
    BY <2>1, <2>2
  <2> QED
    BY <2>3 DEF LocalSec
<1>8. AbsSec(f, LocalSec(l)) = <<p * w + a, q * w + b>> /\ AbsSec(g, LocalSec(r)) = <<p * w + c, q * w + d>>
  BY <1>3, <1>5, <1>6, <1>7 DEF AbsSec
<1>9. p * w + a = p * w + c /\ q * w + b = q * w + d
  BY <1>8, ChunkPlace
<1>10. a = c /\ b = d
  BY <1>9
<1> QED
  BY <1>5, <1>7, <1>10

LEMMA LevelZeroIs ==
  ASSUME Calls, Searching, status = "found", NEW f \in Taken
  PROVE  /\ LevelZero(f) \in Seq(Sections)
         /\ \A sec \in Range(LevelZero(f)) :
              /\ sec.level = 0
              /\ \E l \in Accepted(f) : sec.pos = Under(ChunkAt(f, l), 0)
              /\ Unshared => sec.shows = ShowsOf(map, cfg, 0, sec.pos)
         /\ \A l \in Accepted(f) : \E sec \in Range(LevelZero(f)) :
              sec.level = 0 /\ sec.pos = Under(ChunkAt(f, l), 0)
         /\ HashesOf(f) \in Seq(Places)
         /\ Range(HashesOf(f)) = {ChunkAt(f, l) : l \in Accepted(f)}
<1> DEFINE A == Accepted(f)
           at == [l \in A |-> ChunkAt(f, l)]
           D == {LocalSec(l) : l \in A}
           sub == [l \in A |-> LocalSec(l)]
           terrain(s) == {l \in A : LocalSec(l) = s /\ f.chunks[l] = "terrain"}
           show(s) == {ChunkAt(f, l) : l \in terrain(s)}
           section(s) == [level |-> 0, pos |-> AbsSec(f, s), shows |-> show(s)]
           sections == [s \in D |-> section(s)]
           S == {section(s) : s \in D}
<1>1. /\ Sound(map) /\ Takes(map, cfg, f) /\ f \in Stage1!FilesOf(map)
      /\ \A l : l \in A <=> Picked(map, cfg, f, l)
  BY TaskPicks
<1>2. f.pos \in Places
  BY <1>1 DEF Sound, Takes, InRangeOf
<1>3. A \subseteq Locals
  BY <1>1, PickedPlace
<1>4. \A l \in A : /\ ChunkAt(f, l) \in Places
                   /\ AbsSec(f, LocalSec(l)) = Under(ChunkAt(f, l), 0)
  BY <1>2, <1>3, ChunkPlace
<1>5. IsFiniteSet(A)
  <2>1. IsFiniteSet(Locals)
    <3>1. IsFiniteSet(0 .. RegionChunks - 1)
      BY SizesPositive, FS_Interval
    <3> QED
      BY <3>1, FS_Product DEF Locals
  <2> HIDE DEF A
  <2> QED
    BY <1>3, <2>1, FS_Subset
<1> HIDE DEF A
<1>6. IsFiniteSet(D)
  <2>1. sub \in [A -> D]
    OBVIOUS
  <2>2. IsFiniteSet({sub[l] : l \in A})
    <3> HIDE DEF sub, D
    <3> QED
      BY <1>5, <2>1, FiniteImage
  <2>3. D = {sub[l] : l \in A}
    OBVIOUS
  <2> QED
    BY <2>2, <2>3
<1>7. IsFiniteSet(S)
  <2>1. sections \in [D -> S]
    OBVIOUS
  <2>2. IsFiniteSet({sections[s] : s \in D})
    <3> HIDE DEF sections, S, D
    <3> QED
      BY <1>6, <2>1, FiniteImage
  <2>3. S = {sections[s] : s \in D}
    OBVIOUS
  <2> QED
    BY <2>2, <2>3
<1>8. LevelZero(f) = SetToSeq(S)
  BY DEF LevelZero, A
<1>9. S \subseteq Sections
  <2> SUFFICES ASSUME NEW l \in A PROVE section(LocalSec(l)) \in Sections
    OBVIOUS
  <2>1. AbsSec(f, LocalSec(l)) \in Places
    <3>1. 0 \in Nat
      OBVIOUS
    <3> QED
      BY <1>4, <3>1, UnderType
  <2>2. show(LocalSec(l)) \subseteq Places
    BY <1>4
  <2> HIDE DEF show
  <2> QED
    BY <2>1, <2>2 DEF Sections
<1>10. LevelZero(f) \in Seq(Sections) /\ Range(LevelZero(f)) = S
  <2> HIDE DEF S
  <2>1. LevelZero(f) \in Seq(S) /\ Range(LevelZero(f)) = S
    BY <1>7, <1>8, ListOfSet
  <2>2. \A T, U : T \subseteq U => Seq(T) \subseteq Seq(U)
    OBVIOUS
  <2> QED
    BY <1>9, <2>1, <2>2
<1>11. ASSUME NEW l \in A PROVE
         /\ section(LocalSec(l)).level = 0 /\ section(LocalSec(l)).pos = Under(ChunkAt(f, l), 0)
         /\ Unshared => section(LocalSec(l)).shows = ShowsOf(map, cfg, 0, Under(ChunkAt(f, l), 0))
  <2>1. section(LocalSec(l)).level = 0 /\ section(LocalSec(l)).pos = Under(ChunkAt(f, l), 0)
    BY <1>4
  <2>2. ASSUME Unshared PROVE show(LocalSec(l)) = ShowsOf(map, cfg, 0, Under(ChunkAt(f, l), 0))
    <3>1. ASSUME NEW c \in show(LocalSec(l)) PROVE c \in ShowsOf(map, cfg, 0, Under(ChunkAt(f, l), 0))
      <4>1. PICK r \in A : LocalSec(r) = LocalSec(l) /\ f.chunks[r] = "terrain" /\ c = ChunkAt(f, r)
        OBVIOUS
      <4>2. c \in Solid(map, cfg)
        BY <1>1, <4>1, PickedPlace
      <4>3. Under(c, 0) = Under(ChunkAt(f, l), 0)
        BY <1>4, <4>1
      <4> QED
        BY <4>2, <4>3 DEF ShowsOf
    <3>2. ASSUME NEW c \in ShowsOf(map, cfg, 0, Under(ChunkAt(f, l), 0)) PROVE c \in show(LocalSec(l))
      <4>1. PICK g, r : Picked(map, cfg, g, r) /\ g.chunks[r] = "terrain" /\ c = ChunkAt(g, r)
        BY DEF ShowsOf, Solid
      <4>2. Under(ChunkAt(f, l), 0) = Under(ChunkAt(g, r), 0)
        BY <4>1 DEF ShowsOf
      <4>3. g \in Stage1!FilesOf(map) /\ g.pos \in Places /\ r \in Locals
        BY <1>1, <4>1, PickedPlace
      <4>4. f.pos = g.pos /\ LocalSec(l) = LocalSec(r)
        BY <1>2, <1>3, <4>2, <4>3, SameSection
      <4>5. g = f
        <5>1. Takes(map, cfg, g)
          BY <4>1 DEF Picked
        <5>2. PICK s \in Sessions : map = s.map
          BY DEF Calls
        <5> QED
          BY <1>1, <2>2, <4>3, <4>4, <5>1, <5>2 DEF Unshared, Takes, InRangeOf
      <4>6. r \in A
        BY <1>1, <4>1, <4>5
      <4> QED
        BY <4>1, <4>4, <4>5, <4>6
    <3> HIDE DEF show
    <3> QED
      BY <3>1, <3>2
  <2> HIDE DEF show
  <2> QED
    BY <2>1, <2>2
<1>12. IsFiniteSet({at[l] : l \in A}) /\ {at[l] : l \in A} = {ChunkAt(f, l) : l \in A}
  <2>1. at \in [A -> Places]
    BY <1>4
  <2>2. {at[l] : l \in A} = {ChunkAt(f, l) : l \in A}
    OBVIOUS
  <2> HIDE DEF at
  <2>3. IsFiniteSet({at[l] : l \in A})
    BY <1>5, <2>1, FiniteImage
  <2> QED
    BY <2>2, <2>3
<1>13. HashesOf(f) \in Seq(Places) /\ Range(HashesOf(f)) = {ChunkAt(f, l) : l \in A}
  <2>1. PICK C : C = {ChunkAt(f, l) : l \in A}
    OBVIOUS
  <2>2. IsFiniteSet(C) /\ C \subseteq Places
    BY <1>4, <1>12, <2>1
  <2>3. HashesOf(f) = SetToSeq(C)
    BY <2>1 DEF HashesOf, A
  <2>4. HashesOf(f) \in Seq(C) /\ Range(HashesOf(f)) = C
    BY <2>2, <2>3, ListOfSet
  <2>5. \A T, U : T \subseteq U => Seq(T) \subseteq Seq(U)
    OBVIOUS
  <2> QED
    BY <2>1, <2>2, <2>4, <2>5
<1> HIDE DEF section
<1> QED
  BY <1>10, <1>11, <1>13 DEF A

LEMMA BakeBuilds ==
  ASSUME Calls, Searching, status = "found", Bake
  PROVE  /\ lod' \in Seq(Sections) /\ chunk_hashes' \in Seq(Places)
         /\ Built(map, cfg, Range(lod'), 1)
         /\ Range(chunk_hashes') = Chosen(map, cfg)
<1> DEFINE zero == [n \in DOMAIN tasks |-> LevelZero(tasks[n])]
           hash == [n \in DOMAIN tasks |-> HashesOf(tasks[n])]
           N == Len(tasks)
<1>1. N \in Nat /\ DOMAIN tasks = 1 .. N
  BY LenProperties DEF Searching
<1>2. Taken = {tasks[n] : n \in 1 .. N}
  BY <1>1 DEF Taken, Stage1!Range0
<1>3. /\ Sound(map)
      /\ \A f : f \in Taken <=> f \in Stage1!FilesOf(map) /\ Takes(map, cfg, f)
      /\ \A f \in Taken : \A local : local \in Accepted(f) <=> Picked(map, cfg, f, local)
  BY TaskPicks
<1>4. \A f, l : Picked(map, cfg, f, l) => f \in Taken /\ l \in Accepted(f)
  BY <1>3 DEF Picked
<1>5. zero \in Seq(Seq(Sections)) /\ Len(zero) = N /\ \A n \in 1 .. N : zero[n] = LevelZero(tasks[n])
  <2>1. \A n \in 1 .. N : LevelZero(tasks[n]) \in Seq(Sections)
    BY <1>2, LevelZeroIs
  <2> HIDE DEF N
  <2> QED
    BY <1>1, <2>1
<1>6. hash \in Seq(Seq(Places)) /\ Len(hash) = N /\ \A n \in 1 .. N : hash[n] = HashesOf(tasks[n])
  <2>1. \A n \in 1 .. N : HashesOf(tasks[n]) \in Seq(Places)
    BY <1>2, LevelZeroIs
  <2> HIDE DEF N
  <2> QED
    BY <1>1, <2>1
<1>7. lod' = FlattenSeq(zero) /\ chunk_hashes' = FlattenSeq(hash)
  BY DEF Bake
<1> HIDE DEF zero, hash, N
<1>8. lod' \in Seq(Sections) /\ \A x : x \in Range(lod') <=> \E n \in 1 .. N : x \in Range(LevelZero(tasks[n]))
  <2>1. /\ FlattenSeq(zero) \in Seq(Sections)
        /\ \A x : x \in Range(FlattenSeq(zero)) <=> \E n \in 1 .. Len(zero) : x \in Range(zero[n])
    BY <1>5, FlattenRange
  <2> QED
    BY <1>5, <1>7, <2>1
<1>9. chunk_hashes' \in Seq(Places) /\ \A x : x \in Range(chunk_hashes') <=> \E n \in 1 .. N : x \in Range(HashesOf(tasks[n]))
  <2>1. /\ FlattenSeq(hash) \in Seq(Places)
        /\ \A x : x \in Range(FlattenSeq(hash)) <=> \E n \in 1 .. Len(hash) : x \in Range(hash[n])
    BY <1>6, FlattenRange
  <2> QED
    BY <1>6, <1>7, <2>1
<1>10. \A x : x \in Range(lod') <=> \E f \in Taken : x \in Range(LevelZero(f))
  BY <1>2, <1>8
<1>11. \A x : x \in Range(chunk_hashes') <=> \E f \in Taken : x \in Range(HashesOf(f))
  BY <1>2, <1>9
<1>12. \A f \in Taken : \A l \in Accepted(f) : ChunkAt(f, l) \in Chosen(map, cfg) /\ ChunkAt(f, l) \in Places
  BY <1>3, PickedPlace DEF Chosen
<1>13. Range(chunk_hashes') = Chosen(map, cfg)
  <2>1. \A f \in Taken : Range(HashesOf(f)) = {ChunkAt(f, l) : l \in Accepted(f)}
    BY LevelZeroIs
  <2>2. \A c \in Chosen(map, cfg) : \E f \in Taken : \E l \in Accepted(f) : c = ChunkAt(f, l)
    BY <1>4 DEF Chosen
  <2>3. \A c : c \in Range(chunk_hashes') => c \in Chosen(map, cfg)
    BY <1>11, <1>12, <2>1
  <2>4. \A c : c \in Chosen(map, cfg) => c \in Range(chunk_hashes')
    <3> SUFFICES ASSUME NEW c \in Chosen(map, cfg) PROVE c \in Range(chunk_hashes')
      OBVIOUS
    <3>1. PICK f, l : f \in Taken /\ l \in Accepted(f) /\ c = ChunkAt(f, l)
      BY <2>2
    <3>2. c \in Range(HashesOf(f))
      BY <2>1, <3>1
    <3> QED
      BY <1>11, <3>1, <3>2
  <2> QED
    BY <2>3, <2>4
<1>14. ASSUME NEW sec \in Range(lod')
       PROVE  /\ sec.level \in 0 .. 1 - 1 /\ \E c \in Chosen(map, cfg) : sec.pos = Under(c, sec.level)
              /\ Unshared => sec.shows = ShowsOf(map, cfg, sec.level, sec.pos)
  <2>1. PICK f \in Taken : sec \in Range(LevelZero(f))
    BY <1>10
  <2>2. /\ sec.level = 0
        /\ \E l \in Accepted(f) : sec.pos = Under(ChunkAt(f, l), 0)
        /\ Unshared => sec.shows = ShowsOf(map, cfg, 0, sec.pos)
    BY <2>1, LevelZeroIs
  <2> QED
    BY <1>12, <2>2
<1>15. ASSUME NEW i \in 0 .. 1 - 1, NEW c \in Chosen(map, cfg)
       PROVE  \E sec \in Range(lod') : sec.level = i /\ sec.pos = Under(c, i)
  <2>1. PICK f, l : f \in Taken /\ l \in Accepted(f) /\ c = ChunkAt(f, l)
    BY <1>4 DEF Chosen
  <2>2. i = 0
    OBVIOUS
  <2>3. PICK sec \in Range(LevelZero(f)) : sec.level = 0 /\ sec.pos = Under(ChunkAt(f, l), 0)
    BY <2>1, LevelZeroIs
  <2> QED
    BY <1>10, <2>1, <2>2, <2>3
<1>16. Built(map, cfg, Range(lod'), 1)
  BY <1>14, <1>15 DEF Built
<1> QED
  BY <1>8, <1>9, <1>13, <1>16
-----------------------------------------------------------------------------
(* Stage 3: the sections of one more level.                                *)
LEMMA PositionParts ==
  ASSUME NEW p \in Places, NEW q \in Places, ParentPos(p) = ParentPos(q), Quadrant(p) = Quadrant(q)
  PROVE  p = q /\ Quadrant(p) \in (0 .. 1) \X (0 .. 1)
<1>1. PICK x \in Int, z \in Int, u \in Int, v \in Int : p = <<x, z>> /\ q = <<u, v>>
  BY DEF Places
<1>2. x \div 2 = u \div 2 /\ z \div 2 = v \div 2 /\ x % 2 = u % 2 /\ z % 2 = v % 2
  BY <1>1 DEF ParentPos, Quadrant
<1>3. \A n \in Int : n = 2 * (n \div 2) + (n % 2) /\ n % 2 \in 0 .. 1
  BY DivMod
<1> QED
  BY <1>1, <1>2, <1>3 DEF Quadrant

LEMMA ParentShowsAll ==
  ASSUME Unshared, lod \in Seq(Sections), lvl \in Nat \ {0}, Built(map, cfg, Range(lod), lvl), NEW pos
  PROVE  Parent(pos).shows = ShowsOf(map, cfg, lvl, pos)
<1> DEFINE quads == (0 .. 1) \X (0 .. 1)
           shows == UNION {Filled(Children(pos, q)) : q \in quads}
<1>1. Len(lod) \in Nat /\ DOMAIN lod = 1 .. Len(lod)
  BY LenProperties
<1>2. ASSUME NEW n \in DOMAIN lod
      PROVE  /\ lod[n].shows = ShowsOf(map, cfg, lod[n].level, lod[n].pos)
             /\ lod[n].pos \in Places
  <2>1. lod[n] \in Range(lod) /\ lod[n] \in Sections
    BY <1>1, ElementOfSeq DEF Range
  <2> QED
    BY <2>1 DEF Built, Sections
<1>3. ASSUME NEW q, Children(pos, q) # {}
      PROVE  Max(Children(pos, q)) \in Children(pos, q)
  <2>1. Children(pos, q) \in SUBSET (1 .. Len(lod))
    BY <1>1 DEF Children
  <2> HIDE DEF Children
  <2> QED
    BY <1>1, <1>3, <2>1, MaxIsIn
<1>4. PICK below \in Nat : below = lvl - 1 /\ lvl = below + 1
  OBVIOUS
<1>5. \A c \in Solid(map, cfg) : c \in Places /\ c \in Chosen(map, cfg) /\ ParentPos(Under(c, below)) = Under(c, lvl)
  BY <1>4, UnderUp DEF Solid, Chosen
<1>6. ASSUME NEW c \in shows PROVE c \in ShowsOf(map, cfg, lvl, pos)
  <2>1. PICK q \in quads : c \in Filled(Children(pos, q))
    OBVIOUS
  <2>2. PICK n : n \in Children(pos, q) /\ c \in lod[n].shows
    BY <1>3, <2>1 DEF Filled
  <2>3. n \in DOMAIN lod /\ lod[n].level = below /\ ParentPos(lod[n].pos) = pos
    BY <1>4, <2>2 DEF Children
  <2>4. c \in Solid(map, cfg) /\ Under(c, below) = lod[n].pos
    BY <1>2, <2>2, <2>3 DEF ShowsOf
  <2> QED
    BY <1>5, <2>3, <2>4 DEF ShowsOf
<1>7. ASSUME NEW c \in ShowsOf(map, cfg, lvl, pos) PROVE c \in shows
  <2>1. c \in Solid(map, cfg) /\ Under(c, lvl) = pos
    BY DEF ShowsOf
  <2>2. PICK sec \in Range(lod) : sec.level = below /\ sec.pos = Under(c, below)
    <3>1. below \in 0 .. lvl - 1
      BY <1>4
    <3> QED
      BY <1>5, <2>1, <3>1 DEF Built
  <2>3. PICK n \in DOMAIN lod : lod[n].level = below /\ lod[n].pos = Under(c, below)
    BY <2>2 DEF Range
  <2>4. PICK q : q = Quadrant(lod[n].pos)
    OBVIOUS
  <2>5. q \in quads
    BY <1>2, <2>3, <2>4, PositionParts
  <2>6. n \in Children(pos, q)
    BY <1>4, <1>5, <2>1, <2>3, <2>4 DEF Children
  <2>7. PICK m : m = Max(Children(pos, q)) /\ m \in Children(pos, q)
    BY <1>3, <2>6
  <2>8. m \in DOMAIN lod /\ lod[m].level = below /\ ParentPos(lod[m].pos) = pos /\ Quadrant(lod[m].pos) = q
    BY <1>4, <2>7 DEF Children
  <2>9. lod[m].pos = lod[n].pos
    <3>1. ParentPos(lod[n].pos) = pos
      BY <1>5, <2>1, <2>3
    <3> QED
      BY <1>2, <2>4, <2>8, <3>1, PositionParts
  <2>10. c \in lod[m].shows
    BY <1>2, <2>1, <2>3, <2>8, <2>9 DEF ShowsOf
  <2>11. c \in Filled(Children(pos, q))
    BY <2>6, <2>7, <2>10 DEF Filled
  <2> QED
    BY <2>5, <2>11
<1>8. Parent(pos).shows = shows
  BY DEF Parent
<1> HIDE DEF shows
<1> QED
  BY <1>6, <1>7, <1>8

LEMMA ParentsBuilt ==
  ASSUME lod \in Seq(Sections), lvl \in Nat \ {0}, Built(map, cfg, Range(lod), lvl)
  PROVE  /\ lod \o ParentsOfLevel \in Seq(Sections)
         /\ Built(map, cfg, Range(lod \o ParentsOfLevel), lvl + 1)
<1> DEFINE last == {s \in Range(lod) : s.level = lvl - 1}
           up == [sec \in last |-> Parent(ParentPos(sec.pos))]
           P == {Parent(ParentPos(sec.pos)) : sec \in last}
<1>1. Len(lod) \in Nat /\ DOMAIN lod = 1 .. Len(lod) /\ \A n \in DOMAIN lod : lod[n] \in Sections
  BY LenProperties, ElementOfSeq
<1>2. PICK below \in Nat : below = lvl - 1 /\ lvl = below + 1
  OBVIOUS
<1>3. IsFiniteSet(last)
  <2>1. IsFiniteSet(Range(lod))
    <3>0. 1 \in Int /\ Len(lod) \in Int
      BY <1>1
    <3>1. IsFiniteSet(1 .. Len(lod))
      BY <3>0, FS_Interval
    <3>2. PICK D, T, L : D = 1 .. Len(lod) /\ L = lod /\ L \in [D -> T] /\ IsFiniteSet(D)
      <4>1. lod \in [1 .. Len(lod) -> Sections]
        BY <1>1
      <4> QED
        BY <3>1, <4>1
    <3>3. IsFiniteSet({L[x] : x \in D})
      <4>1. L \in [D -> T] /\ IsFiniteSet(D)
        BY <3>2
      <4> QED
        BY <4>1, FiniteImage
    <3>4. Range(lod) = {L[x] : x \in D}
      BY <1>1, <3>2 DEF Range
    <3> QED
      BY <3>3, <3>4
  <2> QED
    BY <2>1, FS_Subset
<1>4. IsFiniteSet(P)
  <2>1. up \in [last -> P]
    OBVIOUS
  <2>2. IsFiniteSet({up[x] : x \in last})
    <3> HIDE DEF up, P, last
    <3> QED
      BY <1>3, <2>1, FiniteImage
  <2>3. P = {up[x] : x \in last}
    OBVIOUS
  <2> QED
    BY <2>2, <2>3
<1>5. ASSUME NEW sec \in last
      PROVE  \E c \in Chosen(map, cfg) :
               /\ sec.pos = Under(c, below) /\ ParentPos(sec.pos) = Under(c, lvl)
               /\ Under(c, lvl) \in Places
  <2>1. PICK c \in Chosen(map, cfg) : sec.pos = Under(c, sec.level) /\ sec.level = below
    BY <1>2 DEF Built
  <2>2. c \in Places
    BY DEF Chosen
  <2> QED
    BY <1>2, <2>1, <2>2, UnderUp, UnderType
<1>6. ASSUME NEW pos PROVE Parent(pos).level = lvl /\ Parent(pos).pos = pos /\ Parent(pos).shows \subseteq Places
  <2>1. ASSUME NEW children, children \subseteq 1 .. Len(lod) PROVE Filled(children) \subseteq Places
    <3>1. CASE children = {}
      BY <3>1 DEF Filled
    <3>2. CASE children # {}
      <4>1. Max(children) \in DOMAIN lod
        BY <1>1, <2>1, <3>2, MaxIsIn
      <4> QED
        BY <1>1, <3>2, <4>1 DEF Filled, Sections
    <3> QED
      BY <3>1, <3>2
  <2>2. \A q : Children(pos, q) \subseteq 1 .. Len(lod)
    BY <1>1 DEF Children
  <2>3. \A q : Filled(Children(pos, q)) \subseteq Places
    BY <2>1, <2>2
  <2> QED
    BY <2>3 DEF Parent
<1>7. P \subseteq Sections
  <2> SUFFICES ASSUME NEW sec \in last PROVE Parent(ParentPos(sec.pos)) \in Sections
    OBVIOUS
  <2>1. PICK pos \in Places : pos = ParentPos(sec.pos)
    BY <1>5
  <2>2. Parent(pos) = [level |-> Parent(pos).level, pos |-> Parent(pos).pos, shows |-> Parent(pos).shows]
    BY DEF Parent
  <2> QED
    BY <1>6, <2>1, <2>2 DEF Sections
<1>8. ParentsOfLevel \in Seq(Sections) /\ Range(ParentsOfLevel) = P
  <2>1. ParentsOfLevel = SetToSeq(P)
    BY DEF ParentsOfLevel
  <2> HIDE DEF P
  <2>2. ParentsOfLevel \in Seq(P) /\ Range(ParentsOfLevel) = P
    BY <1>4, <2>1, ListOfSet
  <2>3. \A T, U : T \subseteq U => Seq(T) \subseteq Seq(U)
    OBVIOUS
  <2> QED
    BY <1>7, <2>2, <2>3
<1>9. lod \o ParentsOfLevel \in Seq(Sections) /\ Range(lod \o ParentsOfLevel) = Range(lod) \cup P
  BY <1>8, ConcatProperties, RangeConcatenation
<1>10. ASSUME NEW sec \in Range(lod) \cup P
       PROVE  /\ sec.level \in 0 .. lvl + 1 - 1 /\ \E c \in Chosen(map, cfg) : sec.pos = Under(c, sec.level)
              /\ Unshared => sec.shows = ShowsOf(map, cfg, sec.level, sec.pos)
  <2>1. CASE sec \in Range(lod)
    <3>1. sec.level \in 0 .. lvl - 1
      BY <2>1 DEF Built
    <3>2. sec.level \in 0 .. lvl + 1 - 1
      BY <3>1
    <3> QED
      BY <2>1, <3>2 DEF Built
  <2>2. CASE sec \in P
    <3>1. PICK child \in last : sec = Parent(ParentPos(child.pos))
      BY <2>2
    <3>2. sec.level = lvl /\ sec.pos = ParentPos(child.pos)
      BY <1>6, <3>1
    <3>3. \E c \in Chosen(map, cfg) : sec.pos = Under(c, sec.level)
      BY <1>5, <3>2
    <3>4. Unshared => sec.shows = ShowsOf(map, cfg, sec.level, sec.pos)
      BY <3>1, <3>2, ParentShowsAll
    <3>5. sec.level \in 0 .. lvl + 1 - 1
      BY <3>2
    <3> QED
      BY <3>3, <3>4, <3>5
  <2> QED
    BY <2>1, <2>2
<1>11. ASSUME NEW i \in 0 .. lvl + 1 - 1, NEW c \in Chosen(map, cfg)
       PROVE  \E sec \in Range(lod) \cup P : sec.level = i /\ sec.pos = Under(c, i)
  <2>1. CASE i \in 0 .. lvl - 1
    BY <2>1 DEF Built
  <2>2. CASE i = lvl
    <3>1. below \in 0 .. lvl - 1
      BY <1>2
    <3>2. PICK sec \in Range(lod) : sec.level = below /\ sec.pos = Under(c, below)
      BY <3>1 DEF Built
    <3>3. sec \in last
      BY <1>2, <3>2
    <3>4. ParentPos(sec.pos) = Under(c, lvl)
      <4>1. c \in Places
        BY DEF Chosen
      <4> QED
        BY <1>2, <3>2, <4>1, UnderUp
    <3>5. Parent(ParentPos(sec.pos)) \in P
      BY <3>3
    <3> QED
      BY <1>6, <2>2, <3>4, <3>5
  <2>3. i \in 0 .. lvl - 1 \/ i = lvl
    BY <1>2
  <2> QED
    BY <2>1, <2>2, <2>3
<1> HIDE DEF P
<1>12. Built(map, cfg, Range(lod) \cup P, lvl + 1)
  BY <1>10, <1>11 DEF Built
<1> QED
  BY <1>9, <1>12
-----------------------------------------------------------------------------
(* The batch of a run: it has every key the call writes, and the row of a  *)
(* section shows what the call shows there.                                *)
Ready(m, conf, batch, secs) ==
  /\ \E N \in Nat : DOMAIN batch = 1 .. N
  /\ \A n \in DOMAIN batch : batch[n] \in Keys /\ WritesKey(m, conf, batch[n])
  /\ \A k : WritesKey(m, conf, k) => \E n \in DOMAIN batch : batch[n] = k
  /\ Unshared =>
       \A n \in DOMAIN batch : \A level \in Nat : \A pos \in Places :
         batch[n] = DataKey(level, pos) => secs[n].shows = ShowsOf(m, conf, level, pos)

LEMMA KeysDiffer ==
  ASSUME NEW i, NEW p, NEW j, NEW q
  PROVE  /\ DataKey(i, p) = DataKey(j, q) => i = j /\ p = q
         /\ HashKey(p) # DataKey(j, q)
BY DEF DataKey, HashKey

LEMMA BatchReady ==
  ASSUME cfg \in CliConfig, lod \in Seq(Sections), chunk_hashes \in Seq(Places),
         Built(map, cfg, Range(lod), lvl), Range(chunk_hashes) = Chosen(map, cfg),
         lvl = cfg.detail_levels + 1, Batch \in Seq(Keys)
  PROVE  Ready(map, cfg, Batch, lod)
<1> DEFINE N == Len(lod)
           M == Len(chunk_hashes)
           a == [n \in DOMAIN lod |-> DataKey(lod[n].level, lod[n].pos)]
           b == [n \in DOMAIN chunk_hashes |-> HashKey(chunk_hashes[n])]
           U == {a[n] : n \in DOMAIN lod} \cup {b[n] : n \in DOMAIN chunk_hashes}
<1>1. /\ N \in Nat /\ DOMAIN lod = 1 .. N /\ M \in Nat /\ DOMAIN chunk_hashes = 1 .. M
  BY LenProperties
<1>2. /\ a \in Seq(U) /\ Len(a) = N /\ b \in Seq(U) /\ Len(b) = M
      /\ \A n \in 1 .. N : a[n] = DataKey(lod[n].level, lod[n].pos)
      /\ \A n \in 1 .. M : b[n] = HashKey(chunk_hashes[n])
  <2>1. a \in [1 .. N -> U] /\ b \in [1 .. M -> U]
    BY <1>1
  <2> HIDE DEF a, b, U, N, M
  <2>2. a \in Seq(U) /\ Len(a) = N /\ b \in Seq(U) /\ Len(b) = M
    BY <1>1, <2>1
  <2> QED
    BY <1>1, <2>2 DEF a, b
<1>3. Batch = a \o b
  BY DEF Batch
<1>4. PICK c : c = Batch
  OBVIOUS
<1> HIDE DEF a, b, U
<1>5. /\ Len(c) = N + M /\ c \in Seq(U)
      /\ \A n \in 1 .. N + M : c[n] = IF n <= N THEN a[n] ELSE b[n - N]
  <2>1. /\ a \o b \in Seq(U) /\ Len(a \o b) = Len(a) + Len(b)
        /\ \A n \in 1 .. Len(a) + Len(b) : (a \o b)[n] = IF n <= Len(a) THEN a[n] ELSE b[n - Len(a)]
    <3>1. PICK V, x, y : V = U /\ x = a /\ y = b /\ x \in Seq(V) /\ y \in Seq(V)
      BY <1>2
    <3>2. /\ x \o y \in Seq(V) /\ Len(x \o y) = Len(x) + Len(y)
          /\ \A n \in 1 .. Len(x) + Len(y) : (x \o y)[n] = IF n <= Len(x) THEN x[n] ELSE y[n - Len(x)]
      <4>1. x \in Seq(V)
        BY <3>1
      <4>2. y \in Seq(V)
        BY <3>1
      <4> QED
        BY <4>1, <4>2, ConcatProperties
    <3> QED
      BY <3>1, <3>2
  <2> QED
    BY <1>2, <1>3, <1>4, <2>1
<1>6. DOMAIN c = 1 .. N + M /\ N + M \in Nat
  BY <1>1, <1>5, LenProperties
<1> HIDE DEF N, M
<1>7. \A n \in 1 .. N + M : (n \in 1 .. N /\ n <= N) \/ (n - N \in 1 .. M /\ ~(n <= N))
  BY <1>1
<1>8. \A n \in 1 .. N : n \in 1 .. N + M /\ c[n] = DataKey(lod[n].level, lod[n].pos)
  BY <1>1, <1>2, <1>5
<1>9. \A n \in 1 .. M : n + N \in 1 .. N + M /\ c[n + N] = HashKey(chunk_hashes[n])
  <2> TAKE n \in 1 .. M
  <2>1. n + N \in 1 .. N + M /\ ~(n + N <= N) /\ (n + N) - N = n
    BY <1>1
  <2> QED
    BY <1>2, <1>5, <2>1
<1>10. \A n \in 1 .. N + M : n \in 1 .. N \/ \E i \in 1 .. M : c[n] = HashKey(chunk_hashes[i])
  BY <1>2, <1>5, <1>7
<1>11. \A n \in 1 .. N : /\ lod[n] \in Range(lod)
                         /\ lod[n].level \in 0 .. cfg.detail_levels
                         /\ \E d \in Chosen(map, cfg) : lod[n].pos = Under(d, lod[n].level)
                         /\ Unshared => lod[n].shows = ShowsOf(map, cfg, lod[n].level, lod[n].pos)
  <2>1. \A n \in 1 .. N : lod[n] \in Range(lod)
    BY <1>1 DEF Range
  <2>2. 0 .. lvl - 1 = 0 .. cfg.detail_levels
    BY DEF CliConfig
  <2> QED
    BY <2>1, <2>2 DEF Built
<1>12. \A n \in 1 .. M : chunk_hashes[n] \in Chosen(map, cfg)
  BY <1>1 DEF Range
<1>13. \A n \in 1 .. N + M : WritesKey(map, cfg, c[n])
  BY <1>8, <1>10, <1>11, <1>12 DEF WritesKey
<1>14. \A n \in 1 .. N + M : c[n] \in Keys
  BY <1>4, <1>5, <1>6, ElementOfSeq
<1>15. ASSUME NEW k, WritesKey(map, cfg, k) PROVE \E n \in 1 .. N + M : c[n] = k
  <2>1. ASSUME NEW level \in 0 .. cfg.detail_levels, NEW d \in Chosen(map, cfg), k = DataKey(level, Under(d, level))
        PROVE  \E n \in 1 .. N + M : c[n] = k
    <3>1. level \in 0 .. lvl - 1
      BY DEF CliConfig
    <3>2. PICK sec \in Range(lod) : sec.level = level /\ sec.pos = Under(d, level)
      BY <3>1 DEF Built
    <3>3. PICK n \in 1 .. N : lod[n] = sec
      BY <1>1 DEF Range
    <3> QED
      BY <1>8, <2>1, <3>2, <3>3
  <2>2. ASSUME NEW d \in Chosen(map, cfg), k = HashKey(d) PROVE \E n \in 1 .. N + M : c[n] = k
    <3>1. PICK n \in 1 .. M : chunk_hashes[n] = d
      BY <1>1 DEF Range
    <3> QED
      BY <1>9, <2>2, <3>1
  <2> QED
    BY <1>15, <2>1, <2>2 DEF WritesKey
<1>16. ASSUME Unshared, NEW n \in 1 .. N + M, NEW level \in Nat, NEW pos \in Places, c[n] = DataKey(level, pos)
       PROVE  lod[n].shows = ShowsOf(map, cfg, level, pos)
  <2>1. n \in 1 .. N
    BY <1>10, <1>16, KeysDiffer
  <2>2. lod[n].level = level /\ lod[n].pos = pos
    BY <1>8, <1>16, <2>1, KeysDiffer
  <2> QED
    BY <1>11, <1>16, <2>1, <2>2
<1>17. Ready(map, cfg, c, lod)
  BY <1>6, <1>13, <1>14, <1>15, <1>16 DEF Ready
<1> QED
  BY <1>4, <1>17

(* The end of stage 4: only keys of the batch get a row, and if all rows   *)
(* are written each of them gets one of its rows.                          *)
LEMMA Flushed ==
  ASSUME NEW N \in Nat, DOMAIN pending = 1 .. N, NEW places \in SUBSET DOMAIN pending, NEW result,
         Stage4!End(result, places), DOMAIN store = Keys
  PROVE  /\ runs' = runs /\ DOMAIN store' = Keys
         /\ \A k \in Keys : store'[k] # store[k] => \E n \in DOMAIN pending : pending[n] = k
         /\ places = DOMAIN pending =>
              \A k \in Keys : (\E n \in DOMAIN pending : pending[n] = k) =>
                \E p \in DOMAIN pending : pending[p] = k /\ store'[k] = [run |-> runs, place |-> p]
<1> DEFINE mine(k) == {n \in places : pending[n] = k}
<1>1. runs' = runs /\ store' = [k \in Keys |-> Stage4!Kept(store[k], places, k)]
  BY DEF Stage4!End, Stage4!After
<1>2. ASSUME NEW k \in Keys, mine(k) = {} PROVE store'[k] = store[k]
  BY <1>1, <1>2 DEF Stage4!Kept
<1>3. ASSUME NEW k \in Keys, mine(k) # {}
      PROVE  \E p \in mine(k) : store'[k] = [run |-> runs, place |-> p]
  <2>1. mine(k) \in SUBSET (1 .. N)
    OBVIOUS
  <2>2. store'[k] = [run |-> runs, place |-> Stage4!Max(mine(k))]
    BY <1>1, <1>3 DEF Stage4!Kept
  <2> HIDE DEF mine
  <2>3. Max(mine(k)) \in mine(k)
    BY <1>3, <2>1, MaxIsIn
  <2>4. Stage4!Max(mine(k)) = Max(mine(k))
    BY DEF Stage4!Max, Max
  <2> QED
    BY <2>2, <2>3, <2>4
<1>4. DOMAIN store' = Keys
  BY <1>1
<1> QED
  BY <1>1, <1>2, <1>3, <1>4
-----------------------------------------------------------------------------
(***************************************************************************)
(* The inductive invariant of the pipeline.  What a call hands from stage  *)
(* to stage is what its configuration says of the map; every row of the    *)
(* database is of some call so far; after a success every key of the call  *)
(* has a row of this very run.                                             *)
(***************************************************************************)
Phase ==
  /\ stage \in {"idle", "discovery", "octree", "ingest"}
  /\ stage # "idle" => exit = "none" /\ done >= 1
  /\ stage \in {"octree", "ingest"} => status = "found"
  /\ stage = "octree" =>
       /\ lod \in Seq(Sections) /\ chunk_hashes \in Seq(Places)
       /\ lvl \in 1 .. cfg.detail_levels + 1
       /\ Built(map, cfg, Range(lod), lvl)
       /\ Range(chunk_hashes) = Chosen(map, cfg)

Handed ==
  /\ runs \in Nat /\ written \in Seq(Seq(Sections)) /\ Len(written) = runs
  /\ stage = "ingest" => Ready(map, cfg, pending, written[runs])

Fresh(k) ==
  /\ k \in Keys /\ store[k] # NoRow /\ store[k].run = runs
  /\ Unshared => \A level \in Nat : \A pos \in Places :
       k = DataKey(level, pos) => Shown(store[k]) = ShowsOf(map, cfg, level, pos)

Rows ==
  /\ DOMAIN store = Keys
  /\ \A k \in Keys : store[k] # NoRow => \E n \in 1 .. done : WritesKey(map, session.calls[n], k)
  /\ exit = "success" => \A k : WritesKey(map, cfg, k) => Fresh(k)

IInv == Calls /\ Searching /\ Phase /\ Handed /\ Rows

LEMMA InitIInv ==
  ASSUME Init
  PROVE  IInv
<1>1. Calls /\ Searching
  BY SearchInit
<1>2. /\ done = 0 /\ stage = "idle" /\ exit = "none" /\ runs = 0 /\ written = <<>>
      /\ store = [k \in Keys |-> NoRow]
  BY DEF Init, Stage4!Init
<1>3. Phase
  BY <1>2 DEF Phase
<1>4. Handed
  BY <1>2 DEF Handed
<1>5. Rows
  BY <1>2 DEF Rows
<1> QED
  BY <1>1, <1>3, <1>4, <1>5 DEF IInv

(* What the database holds is not touched.                                 *)
LEMMA RowsStay ==
  ASSUME IInv, session' = session, done' = done, map' = map, cfg' = cfg,
         store' = store, runs' = runs, written' = written,
         exit' = "success" => exit = "success"
  PROVE  Rows'
<1>1. \A k : Fresh(k) => Fresh(k)'
  BY DEF Fresh, Shown
<1>2. \A k : WritesKey(map, cfg, k)' <=> WritesKey(map, cfg, k)
  OBVIOUS
<1>3. \A k : \A n : WritesKey(map, session.calls[n], k)' <=> WritesKey(map, session.calls[n], k)
  OBVIOUS
<1> QED
  BY <1>1, <1>2, <1>3 DEF Rows, IInv

LEMMA HandedStays ==
  ASSUME IInv, runs' = runs, written' = written, stage' # "ingest"
  PROVE  Handed'
BY DEF Handed, IInv

LEMMA CallStep ==
  ASSUME IInv, Call
  PROVE  Phase' /\ Handed' /\ Rows'
<1>1. /\ session' = session /\ done' = done + 1 /\ stage' = "discovery" /\ exit' = "none"
      /\ map' = session.map
      /\ store' = store /\ runs' = runs /\ written' = written
  BY DEF Call, database
<1>2. done \in Nat /\ map' = map
  <2>1. Len(session.calls) \in Nat
    BY PipelineAssumption, LenProperties DEF IInv, Calls
  <2> QED
    BY <1>1, <2>1 DEF IInv, Calls
<1>3. Phase'
  BY <1>1, <1>2 DEF Phase
<1>4. Handed'
  BY <1>1, HandedStays
<1>5. Rows'
  <2>1. 1 .. done \subseteq 1 .. done'
    BY <1>1, <1>2
  <2>2. ASSUME NEW k \in Keys, store[k] # NoRow PROVE \E n \in 1 .. done' : WritesKey(map', session'.calls[n], k)
    <3>1. PICK n \in 1 .. done : WritesKey(map, session.calls[n], k)
      BY <2>2 DEF IInv, Rows
    <3> QED
      BY <1>1, <1>2, <2>1, <3>1
  <2> QED
    BY <1>1, <2>2 DEF Rows, IInv
<1> QED
  BY <1>3, <1>4, <1>5

(* The end of a call that has not succeeded in stage 4.                    *)
LEMMA ExitStep ==
  ASSUME IInv, NEW code, Exit(code), code # "success", database' = database,
         map' = map, cfg' = cfg
  PROVE  Phase' /\ Handed' /\ Rows'
<1>1. /\ stage' = "idle" /\ exit' = code /\ session' = session /\ done' = done /\ written' = written
      /\ store' = store /\ runs' = runs
  BY DEF Exit, database
<1>2. Phase'
  BY <1>1 DEF Phase
<1>3. Handed'
  BY <1>1, HandedStays
<1>4. Rows'
  BY <1>1, RowsStay
<1> QED
  BY <1>2, <1>3, <1>4

LEMMA NothingStep ==
  ASSUME IInv, NothingFound
  PROVE  Phase' /\ Handed' /\ Rows'
<1>1. /\ stage' = "idle" /\ exit' = "success" /\ session' = session /\ done' = done /\ written' = written
      /\ store' = store /\ runs' = runs /\ map' = map /\ cfg' = cfg /\ status = "nothing"
  BY DEF NothingFound, Exit, database, discovery
<1>2. Phase'
  BY <1>1 DEF Phase
<1>3. Handed'
  BY <1>1, HandedStays
<1>4. \A f \in Stage1!FilesOf(map) : ~Takes(map, cfg, f)
  <2>1. Wanted = {}
    BY <1>1 DEF IInv, Searching, Taken, Stage1!Range0
  <2>2. \A pos : Stage1!InRange(pos) <=> InRangeOf(cfg, pos)
    BY RangeIs
  <2> QED
    BY <2>1, <2>2 DEF Wanted, Wants, Takes, Stage1!AllFiles, Stage1!TakenFromFolder, Stage1!TakenFromArchive
<1>5. \A k : ~WritesKey(map, cfg, k)
  BY <1>4 DEF WritesKey, Chosen, Picked
<1>6. Rows'
  <2>1. \A k : ~WritesKey(map', cfg', k)
    BY <1>1, <1>5
  <2>2. \A k \in Keys : store[k] # NoRow => \E n \in 1 .. done' : WritesKey(map', session'.calls[n], k)
    BY <1>1 DEF IInv, Rows
  <2> QED
    BY <1>1, <2>1, <2>2 DEF IInv, Rows
<1> QED
  BY <1>2, <1>3, <1>6

LEMMA BakeStep ==
  ASSUME IInv, Bake
  PROVE  Phase' /\ Handed' /\ Rows'
<1>1. /\ stage = "discovery" /\ stage' = "octree" /\ exit' = exit /\ done' = done /\ session' = session /\ written' = written
      /\ lvl' = 1 /\ status = "found" /\ status' = status /\ map' = map /\ cfg' = cfg /\ store' = store /\ runs' = runs
  BY DEF Bake, discovery, database
<1>2. /\ lod' \in Seq(Sections) /\ chunk_hashes' \in Seq(Places)
      /\ Built(map, cfg, Range(lod'), 1)
      /\ Range(chunk_hashes') = Chosen(map, cfg)
  BY <1>1, BakeBuilds DEF IInv
<1>3. lvl' \in 1 .. cfg'.detail_levels + 1
  <2>1. cfg.detail_levels \in Nat
    BY TheCall DEF IInv, CliConfig
  <2> QED
    BY <1>1, <2>1
<1>4. Built(map', cfg', Range(lod'), lvl') /\ Range(chunk_hashes') = Chosen(map', cfg')
  BY <1>1, <1>2
<1>5. Phase'
  BY <1>1, <1>2, <1>3, <1>4 DEF Phase, IInv
<1>6. Handed'
  BY <1>1, HandedStays
<1>7. Rows'
  BY <1>1, RowsStay
<1> QED
  BY <1>5, <1>6, <1>7

LEMMA LevelStep ==
  ASSUME IInv, BuildLevel
  PROVE  Phase' /\ Handed' /\ Rows'
<1>1. /\ stage = "octree" /\ stage' = stage /\ exit' = exit /\ done' = done /\ session' = session /\ written' = written
      /\ lvl' = lvl + 1 /\ lvl <= cfg.detail_levels /\ status' = status /\ map' = map /\ cfg' = cfg
      /\ store' = store /\ runs' = runs /\ chunk_hashes' = chunk_hashes
      /\ lod' = lod \o ParentsOfLevel
  BY DEF BuildLevel, discovery, database
<1>2. /\ lod \in Seq(Sections) /\ chunk_hashes \in Seq(Places)
      /\ lvl \in 1 .. cfg.detail_levels + 1
      /\ Built(map, cfg, Range(lod), lvl)
      /\ Range(chunk_hashes) = Chosen(map, cfg)
  BY <1>1 DEF IInv, Phase
<1>3. cfg.detail_levels \in Nat
  BY TheCall DEF IInv, CliConfig
<1>4. lvl \in Nat \ {0} /\ lvl + 1 \in 1 .. cfg.detail_levels + 1
  BY <1>1, <1>2, <1>3
<1>5. lod' \in Seq(Sections) /\ Built(map, cfg, Range(lod'), lvl + 1)
  BY <1>1, <1>2, <1>4, ParentsBuilt
<1>6. Built(map', cfg', Range(lod'), lvl') /\ Range(chunk_hashes') = Chosen(map', cfg')
  BY <1>1, <1>2, <1>5
<1>7. Phase'
  BY <1>1, <1>2, <1>4, <1>5, <1>6 DEF Phase, IInv
<1>8. Handed'
  BY <1>1, HandedStays
<1>9. Rows'
  BY <1>1, RowsStay
<1> QED
  BY <1>7, <1>8, <1>9

LEMMA OpenStep ==
  ASSUME IInv, OpenDatabase
  PROVE  Phase' /\ Handed' /\ Rows'
<1>1. /\ stage = "octree" /\ stage' = "ingest" /\ exit' = exit /\ done' = done /\ session' = session
      /\ written' = Append(written, lod)
      /\ lvl > cfg.detail_levels /\ status' = status /\ map' = map /\ cfg' = cfg
      /\ store' = store /\ runs' = runs + 1 /\ pending' = Batch /\ pending' \in Seq(Keys)
  BY DEF OpenDatabase, discovery, Stage4!Begin
<1>2. /\ lod \in Seq(Sections) /\ chunk_hashes \in Seq(Places)
      /\ lvl \in 1 .. cfg.detail_levels + 1
      /\ Built(map, cfg, Range(lod), lvl)
      /\ Range(chunk_hashes) = Chosen(map, cfg)
      /\ exit = "none"
  BY <1>1 DEF IInv, Phase
<1>3. cfg \in CliConfig /\ cfg.detail_levels \in Nat
  BY TheCall DEF IInv, CliConfig
<1>4. lvl = cfg.detail_levels + 1
  BY <1>1, <1>2, <1>3
<1>5. Ready(map, cfg, Batch, lod)
  BY <1>1, <1>2, <1>3, <1>4, BatchReady
<1>6. runs \in Nat /\ written \in Seq(Seq(Sections)) /\ Len(written) = runs
  BY DEF IInv, Handed
<1>7. runs' \in Nat /\ written' \in Seq(Seq(Sections)) /\ Len(written') = runs' /\ written'[runs'] = lod
  BY <1>1, <1>2, <1>6, AppendProperties
<1>8. Ready(map', cfg', pending', written'[runs'])
  BY <1>1, <1>5, <1>7
<1>9. Handed'
  BY <1>7, <1>8 DEF Handed
<1>10. Phase'
  BY <1>1 DEF Phase, IInv
<1>11. Rows'
  <2>1. \A k \in Keys : store[k] # NoRow => \E n \in 1 .. done' : WritesKey(map', session'.calls[n], k)
    BY <1>1 DEF IInv, Rows
  <2>2. exit' # "success"
    BY <1>1, <1>2
  <2> QED
    BY <1>1, <2>1, <2>2 DEF IInv, Rows
<1> QED
  BY <1>9, <1>10, <1>11

(* However stage 4 ends, only keys of the call get a row.                  *)
LEMMA EndStep ==
  ASSUME IInv, stage = "ingest", NEW places \in SUBSET DOMAIN pending, NEW result, Stage4!End(result, places),
         NEW code, Exit(code), code = "success" => places = DOMAIN pending,
         discovery' = discovery
  PROVE  /\ Phase' /\ Handed' /\ Rows'
         /\ \A k \in Keys : store'[k] # store[k] => WritesKey(map, cfg, k)
<1>1. /\ stage' = "idle" /\ exit' = code /\ session' = session /\ done' = done /\ written' = written
      /\ map' = map /\ cfg' = cfg
  BY DEF Exit, discovery
<1>2. Ready(map, cfg, pending, written[runs]) /\ runs \in Nat
  BY DEF IInv, Handed
<1>3. PICK N \in Nat : DOMAIN pending = 1 .. N
  BY <1>2 DEF Ready
<1>4. DOMAIN store = Keys
  BY DEF IInv, Rows
<1>5. /\ runs' = runs /\ DOMAIN store' = Keys
      /\ \A k \in Keys : store'[k] # store[k] => \E n \in DOMAIN pending : pending[n] = k
      /\ places = DOMAIN pending =>
           \A k \in Keys : (\E n \in DOMAIN pending : pending[n] = k) =>
             \E p \in DOMAIN pending : pending[p] = k /\ store'[k] = [run |-> runs, place |-> p]
  BY <1>3, <1>4, Flushed
<1>6. \A k \in Keys : store'[k] # store[k] => WritesKey(map, cfg, k)
  BY <1>2, <1>5 DEF Ready
<1>7. Phase'
  BY <1>1 DEF Phase
<1>8. Handed'
  BY <1>1, <1>5, HandedStays
<1>9. cfg = session.calls[done] /\ done \in 1 .. done
  <2>1. done \in Nat /\ done >= 1
    <3>1. Len(session.calls) \in Nat
      BY PipelineAssumption, LenProperties DEF IInv, Calls
    <3> QED
      BY <3>1 DEF IInv, Calls, Phase
  <2> QED
    BY <2>1 DEF IInv, Calls
<1>10. ASSUME NEW k \in Keys, store'[k] # NoRow PROVE \E n \in 1 .. done' : WritesKey(map', session'.calls[n], k)
  <2>1. CASE store'[k] = store[k]
    BY <1>1, <1>10, <2>1 DEF IInv, Rows
  <2>2. CASE store'[k] # store[k]
    BY <1>1, <1>6, <1>9, <2>2
  <2> QED
    BY <2>1, <2>2
<1>11. ASSUME exit' = "success", NEW k, WritesKey(map', cfg', k) PROVE Fresh(k)'
  <2>1. WritesKey(map, cfg, k) /\ places = DOMAIN pending
    BY <1>1, <1>11
  <2>2. PICK n \in DOMAIN pending : pending[n] = k
    BY <1>2, <2>1 DEF Ready
  <2>3. k \in Keys
    BY <1>2, <2>2 DEF Ready
  <2>4. PICK p \in DOMAIN pending : pending[p] = k /\ store'[k] = [run |-> runs, place |-> p]
    BY <1>5, <2>1, <2>2, <2>3
  <2>5. store'[k] # NoRow
    BY <1>2, <1>3, <2>4, PipelineAssumption
  <2>6. store'[k].run = runs' /\ store'[k].run = runs /\ store'[k].place = p
    BY <1>5, <2>4
  <2>7. ASSUME Unshared, NEW level \in Nat, NEW pos \in Places, k = DataKey(level, pos)
        PROVE  written'[store'[k].run][store'[k].place].shows = ShowsOf(map', cfg', level, pos)
    <3>1. written[runs][p].shows = ShowsOf(map, cfg, level, pos)
      BY <1>2, <2>4, <2>7 DEF Ready
    <3> QED
      BY <1>1, <2>6, <3>1
  <2> QED
    BY <2>3, <2>5, <2>6, <2>7 DEF Fresh, Shown
<1>12. Rows'
  BY <1>5, <1>10, <1>11 DEF Rows
<1> QED
  BY <1>6, <1>7, <1>8, <1>12
-----------------------------------------------------------------------------
LEMMA StageStep ==
  ASSUME IInv, Next
  PROVE  /\ Phase' /\ Handed' /\ Rows'
         /\ \A k \in Keys : store'[k] # store[k] => WritesKey(map, cfg, k)
<1> DEFINE Kept0 == \A k \in Keys : store'[k] # store[k] => WritesKey(map, cfg, k)
<1>1. CASE Call
  <2>1. store' = store
    BY <1>1 DEF Call, database
  <2> QED
    BY <1>1, <2>1, CallStep
<1>2. CASE Discover
  <2>1. /\ session' = session /\ done' = done /\ stage' = stage /\ exit' = exit /\ stage = "discovery"
        /\ written' = written /\ store' = store /\ runs' = runs /\ map' = map /\ cfg' = cfg
    BY <1>2, Searches DEF Discover, database, IInv
  <2>2. Phase'
    BY <2>1 DEF Phase, IInv
  <2>3. Handed'
    BY <2>1, HandedStays
  <2>4. Rows'
    BY <2>1, RowsStay
  <2> QED
    BY <2>1, <2>2, <2>3, <2>4
<1>3. CASE DiscoverFails
  <2>1. Exit("failure") /\ database' = database /\ map' = map /\ cfg' = cfg
    BY <1>3 DEF DiscoverFails, Stage1!Fail, Stage1!StartFails, Stage1!ReadFails
  <2>2. store' = store
    BY <2>1 DEF database
  <2>3. Phase' /\ Handed' /\ Rows'
    BY <2>1, ExitStep
  <2> QED
    BY <2>2, <2>3
<1>4. CASE NothingFound
  <2>1. store' = store
    BY <1>4 DEF NothingFound, database
  <2> QED
    BY <1>4, <2>1, NothingStep
<1>5. CASE Bake
  <2>1. store' = store
    BY <1>5 DEF Bake, database
  <2> QED
    BY <1>5, <2>1, BakeStep
<1>6. CASE BuildLevel
  <2>1. store' = store
    BY <1>6 DEF BuildLevel, database
  <2> QED
    BY <1>6, <2>1, LevelStep
<1>7. CASE OpenDatabase
  <2>1. store' = store
    BY <1>7 DEF OpenDatabase, Stage4!Begin
  <2> QED
    BY <1>7, <2>1, OpenStep
<1>8. CASE Ingest
  <2>1. stage = "ingest" /\ Stage4!End("ok", DOMAIN pending) /\ Exit("success") /\ discovery' = discovery
    BY <1>8 DEF Ingest, Stage4!Succeed
  <2>2. DOMAIN pending \in SUBSET DOMAIN pending
    OBVIOUS
  <2> QED
    BY <2>1, <2>2, EndStep
<1>9. ASSUME stage = "ingest", Stage4!Abandon, NEW code, code # "success", Exit(code), discovery' = discovery
      PROVE  Phase' /\ Handed' /\ Rows' /\ Kept0
  <2>1. PICK places \in SUBSET DOMAIN pending : Stage4!End("failed", places)
    BY <1>9 DEF Stage4!Abandon
  <2> QED
    BY <1>9, <2>1, EndStep
<1>10. CASE IngestFails
  <2>1. stage = "ingest" /\ Stage4!Abandon /\ Exit("failure") /\ discovery' = discovery
    BY <1>10 DEF IngestFails
  <2> QED
    BY <1>9, <2>1
<1>11. CASE Kill
  <2>1. Exit("killed") /\ discovery' = discovery
    BY <1>11 DEF Kill
  <2>2. CASE stage = "ingest"
    <3>1. Stage4!Abandon
      BY <1>11, <2>2 DEF Kill
    <3> QED
      BY <1>9, <2>1, <2>2, <3>1
  <2>3. CASE stage # "ingest"
    <3>1. database' = database /\ map' = map /\ cfg' = cfg
      BY <1>11, <2>1, <2>3 DEF Kill, discovery
    <3>2. store' = store
      BY <3>1 DEF database
    <3>3. Phase' /\ Handed' /\ Rows'
      BY <2>1, <3>1, ExitStep
    <3> QED
      BY <3>2, <3>3
  <2> QED
    BY <2>2, <2>3
<1>12. CASE AllCalled
  <2>1. /\ session' = session /\ done' = done /\ stage' = stage /\ exit' = exit /\ stage = "idle"
        /\ written' = written /\ store' = store /\ runs' = runs /\ map' = map /\ cfg' = cfg
    BY <1>12 DEF AllCalled, vars, discovery, database
  <2>2. Phase'
    BY <2>1 DEF Phase, IInv
  <2>3. Handed'
    BY <2>1, HandedStays
  <2>4. Rows'
    BY <2>1, RowsStay
  <2> QED
    BY <2>1, <2>2, <2>3, <2>4
<1> QED
  BY <1>1, <1>2, <1>3, <1>4, <1>5, <1>6, <1>7, <1>8, <1>10, <1>11, <1>12 DEF Next, Proceed

LEMMA StepIInv ==
  ASSUME IInv, [Next]_vars
  PROVE  IInv'
<1>1. (Calls /\ Searching)'
  BY SearchStep DEF IInv
<1>2. CASE Next
  BY <1>1, <1>2, StageStep DEF IInv
<1>3. CASE UNCHANGED vars
  <2>1. /\ session' = session /\ done' = done /\ stage' = stage /\ exit' = exit /\ status' = status
        /\ map' = map /\ cfg' = cfg /\ lod' = lod /\ chunk_hashes' = chunk_hashes /\ lvl' = lvl
        /\ written' = written /\ store' = store /\ runs' = runs /\ pending' = pending
    BY <1>3 DEF vars, discovery, memory, database
  <2>2. Phase'
    BY <2>1 DEF Phase, IInv
  <2>3. Handed'
    BY <2>1 DEF Handed, IInv
  <2>4. Rows'
    BY <2>1, RowsStay
  <2> QED
    BY <1>1, <2>2, <2>3, <2>4 DEF IInv
<1> QED
  BY <1>2, <1>3

LEMMA SpecIInv == Spec => []IInv
<1>1. Init => IInv
  BY InitIInv
<1>2. IInv /\ [Next]_vars => IInv'
  BY StepIInv
<1> QED
  BY <1>1, <1>2, PTL DEF Spec
-----------------------------------------------------------------------------
(* A call changes no row of an area its box does not touch, however it     *)
(* ends: the keys stage 4 is given are those of chunks in the box, at      *)
(* every level that is built (MIN/MAX chunk bounds of run_pipeline).       *)
THEOREM SpecOnlyBoxReplaced == Spec => OnlyBoxReplaced
<1>1. IInv /\ [Next]_vars =>
        [Stage1!BoxFits => \A k \in Keys : store'[k] # store[k] => InReachOf(k)]_vars
  <2> SUFFICES ASSUME IInv, Next, Stage1!BoxFits, NEW k \in Keys, store'[k] # store[k]
               PROVE  InReachOf(k)
    OBVIOUS
  <2>1. cfg \in CliConfig
    BY TheCall DEF IInv
  <2>2. Sound(map)
    BY SoundMaps DEF IInv, Calls
  <2>3. Fits(cfg)
    BY <2>1, BoxFitsIs
  <2>4. WritesKey(map, cfg, k)
    BY StageStep
  <2> QED
    BY <2>1, <2>2, <2>3, <2>4, KeyInReach
<1> QED
  BY <1>1, SpecIInv, PTL DEF Spec, OnlyBoxReplaced

(* Calling again heals: after a success with a box and a depth that cover  *)
(* those of all calls before, every row is of the latest run, whatever     *)
(* failed or killed calls had left (INSERT OR REPLACE of the writer).      *)
THEOREM SpecRerunHeals == Spec => []RerunHeals
<1>1. IInv => RerunHeals
  <2> SUFFICES ASSUME IInv, exit = "success", Stage1!BoxFits,
                      \A n \in 1 .. done : Covers(cfg, session.calls[n]),
                      NEW k \in Keys, store[k] # NoRow
               PROVE  store[k].run = runs
    BY DEF RerunHeals
  <2>1. cfg \in CliConfig
    BY TheCall DEF IInv
  <2>2. Sound(map)
    BY SoundMaps DEF IInv, Calls
  <2>3. Fits(cfg)
    BY <2>1, BoxFitsIs
  <2>4. PICK n \in 1 .. done : WritesKey(map, session.calls[n], k)
    BY DEF IInv, Rows
  <2>5. session.calls[n] \in CliConfig
    <3>1. session.calls \in Seq(CliConfig)
      BY PipelineAssumption DEF IInv, Calls
    <3>2. Len(session.calls) \in Nat /\ done \in 0 .. Len(session.calls)
      BY <3>1, LenProperties DEF IInv, Calls
    <3>3. n \in 1 .. Len(session.calls)
      BY <3>2
    <3> QED
      BY <3>1, <3>3, ElementOfSeq
  <2>6. WritesKey(map, cfg, k)
    BY <2>1, <2>2, <2>3, <2>4, <2>5, CoversKeys
  <2> QED
    BY <2>6 DEF IInv, Rows, Fresh
<1> QED
  BY <1>1, SpecIInv, PTL

(* The maps a user expects to be shown in full: no two of the files that   *)
(* are taken have one region position (as those of entities and poi have), *)
(* and in an archive terrain is in the folder region.                      *)
TerrainInRegions ==
  \A s \in Sessions : \A f \in Stage1!FilesOf(s.map) :
    f.mca /\ f.pos # NoPos /\ TerrainOf(f) # {} => s.map.kind = "folder" \/ f.in_region

(* When mca2lod exits with success, each chunk of terrain within the       *)
(* radius is shown by a row of this very run at level 0 and at each level  *)
(* asked for, on every map whose region files have a position each.  On    *)
(* other maps the property fails: see the run PipelineEntities.            *)
THEOREM SpecTerrainShown == Spec => [](Unshared /\ TerrainInRegions => TerrainShown)
<1>1. IInv => (Unshared /\ TerrainInRegions => TerrainShown)
  <2> SUFFICES ASSUME IInv, Unshared, TerrainInRegions, exit = "success", Stage1!BoxFits,
                      NEW c \in Terrain, Near(c), NEW level \in 0 .. cfg.detail_levels
               PROVE  LET k == DataKey(level, <<c[1] \div Width(level), c[2] \div Width(level)>>)
                      IN  k \in Keys /\ store[k] # NoRow /\ store[k].run = runs /\ c \in Shown(store[k])
    BY DEF TerrainShown
  <2>1. cfg \in CliConfig /\ level \in Nat
    BY TheCall DEF IInv, CliConfig
  <2>2. Sound(map)
    BY SoundMaps DEF IInv, Calls
  <2>3. Fits(cfg)
    BY <2>1, BoxFitsIs
  <2>4. PICK f, l : /\ f \in Stage1!FilesOf(map) /\ f.mca /\ f.pos # NoPos /\ f.opens
                    /\ l \in DOMAIN f.chunks /\ f.chunks[l] = "terrain" /\ c = ChunkAt(f, l)
    BY DEF Terrain, TerrainOf, Stage1!AllFiles
  <2>5. f.pos \in Places /\ l \in Locals /\ c \in Places
    BY <2>2, <2>4, ChunkPlace DEF Sound
  <2>6. PICK x \in Int, z \in Int :
          c = <<x, z>> /\ f.pos[1] = x \div RegionChunks /\ f.pos[2] = z \div RegionChunks
    BY <2>4, <2>5, ChunkPlace DEF Places
  <2>7. PICK lx \in Int, ux \in Int, lz \in Int, uz \in Int :
          /\ LowOf(cfg.cx, cfg.radius) = lx /\ HighOf(cfg.cx, cfg.radius) = ux
          /\ LowOf(cfg.cz, cfg.radius) = lz /\ HighOf(cfg.cz, cfg.radius) = uz
          /\ Reach(cfg.cx, cfg.radius).low = lx /\ Reach(cfg.cx, cfg.radius).high = ux
          /\ Reach(cfg.cz, cfg.radius).low = lz /\ Reach(cfg.cz, cfg.radius).high = uz
    BY <2>3, Bounds
  <2>8. lx <= x /\ x <= ux /\ lz <= z /\ z <= uz
    BY <2>6, <2>7 DEF Near, Within
  <2>9. InBoxOf(cfg, c)
    BY <2>6, <2>7, <2>8 DEF InBoxOf
  <2>10. InRangeOf(cfg, f.pos)
    <3>1. /\ lx \div RegionChunks <= x \div RegionChunks /\ x \div RegionChunks <= ux \div RegionChunks
          /\ lz \div RegionChunks <= z \div RegionChunks /\ z \div RegionChunks <= uz \div RegionChunks
      BY <2>8, ChunkInRange
    <3>2. /\ x \div RegionChunks \in Int /\ z \div RegionChunks \in Int
          /\ lx \div RegionChunks \in Int /\ lz \div RegionChunks \in Int
      BY SizesPositive, DivMod
    <3>3. \A a, b \in Int : a <= b => b >= a
      OBVIOUS
    <3> QED
      BY <2>4, <2>6, <2>7, <3>1, <3>2, <3>3 DEF InRangeOf
  <2>11. map.kind = "folder" \/ f.in_region
    <3>1. TerrainOf(f) # {}
      BY <2>4 DEF TerrainOf
    <3> QED
      BY <2>4, <3>1 DEF TerrainInRegions, IInv, Calls
  <2>12. Picked(map, cfg, f, l)
    BY <2>4, <2>9, <2>10, <2>11 DEF Picked, Takes
  <2>13. c \in Solid(map, cfg) /\ c \in Chosen(map, cfg)
    BY <2>2, <2>4, <2>12, PickedPlace
  <2>14. PICK pos \in Places : pos = Under(c, level)
    BY <2>1, <2>5, UnderType
  <2>15. Fresh(DataKey(level, pos))
    <3>1. WritesKey(map, cfg, DataKey(level, pos))
      BY <2>13, <2>14 DEF WritesKey
    <3> QED
      BY <3>1 DEF IInv, Rows
  <2>16. c \in ShowsOf(map, cfg, level, pos)
    BY <2>13, <2>14 DEF ShowsOf
  <2>17. c \in Shown(store[DataKey(level, pos)])
    BY <2>1, <2>15, <2>16 DEF Fresh
  <2>18. DataKey(level, pos) = DataKey(level, <<c[1] \div Width(level), c[2] \div Width(level)>>)
    BY <2>14 DEF Under
  <2> QED
    BY <2>15, <2>17, <2>18 DEF Fresh
<1> QED
  BY <1>1, SpecIInv, PTL
==============================================================================
