--------------------------- MODULE McaParserProofs ---------------------------
(***************************************************************************)
(* Theorems about the mca_parser crate: about the region reader next to a  *)
(* server that saves chunks, for every number of slots, size of the file   *)
(* and of chunks, and number of saves; about the sections it decodes, for  *)
(* every number of blocks and cells, width of a long and least width of an *)
(* index.                                                                  *)
(***************************************************************************)
EXTENDS LiveRegion, SectionDecode, SharedLemmas, TLAPS

(***************************************************************************)
(* LiveRegion                                                              *)
(***************************************************************************)

Content == [chunk : Nat, save : Nat, part : Nat, size : Nat]
Part(c, save, part, count) == [chunk |-> c, save |-> save, part |-> part, size |-> count]

Kinds == {"none", "read", "lost", "torn"}

Typed ==
  /\ sectors \in Seq(Content)
  /\ header \in [Chunks -> [start : Nat, size : Nat]]
  /\ saving \in [chunk : Nat, start : Nat, size : Nat, written : Nat]
  /\ saves \in Nat
  /\ phase \in {"start", "header", "chunks", "body", "end", "failed"}
  /\ mapped \in 0 .. Len(sectors)
  /\ slot \in Nat \ {0}
  /\ present \in Seq([chunk : Chunks, start : Nat \ {0}])
  /\ seen \in Seq(Content)
  /\ size \in Nat
  /\ results \in [Chunks -> [kind : Kinds, chunk : Nat, save : Nat]]
  /\ moved \subseteq Chunks

(* A header entry points to all parts of the last save of its chunk, the   *)
(* save in progress to the parts written so far.                           *)
Stored(c) ==
  LET entry == header[c]
  IN  IF entry.start = 0 THEN entry.size = 0
      ELSE /\ entry.size >= 1 /\ entry.start + entry.size - 1 <= Len(sectors)
           /\ \A n \in SpanOf(entry) : sectors[n] = Part(c, sectors[entry.start].save, n - entry.start, entry.size)
SavingStored ==
  saving # Idle =>
    /\ saving.chunk \in Chunks /\ saving.start >= 1 /\ saving.size >= 1
    /\ saving.written <= saving.size /\ saving.start + saving.written <= Len(sectors) + 1
    /\ \A n \in saving.start .. saving.start + saving.written - 1 :
         sectors[n] = Part(saving.chunk, saves, n - saving.start, saving.size)

(* No sector has two owners. *)
Disjoint ==
  \A c \in Chunks :
    /\ SpanOf(header[c]) \cap SpanOf(saving) = {}
    /\ \A d \in Chunks \ {c} : SpanOf(header[c]) \cap SpanOf(header[d]) = {}

FileInv == (\A c \in Chunks : Stored(c)) /\ SavingStored /\ Disjoint

(* The reader has looked at the slots before `slot` and at no other.       *)
Walked ==
  /\ \A i \in DOMAIN present : present[i].chunk < slot
  /\ phase \in {"start", "header", "failed"} => \A c \in Chunks : results[c] = None
  /\ phase \in {"chunks", "body", "end"} => slot > Slots
  /\ phase = "body" => present # <<>> /\ size >= 1 /\ Len(seen) <= size
  /\ phase # "body" => seen = <<>>

(* What the reader knows of a chunk is still so if the chunk is not moved. *)
Listing(c) == \A i \in DOMAIN present : present[i].chunk = c => present[i].start = header[c].start
Seeing(c) ==
  phase = "body" /\ Current.chunk = c =>
    /\ size = header[c].size
    /\ \A n \in DOMAIN seen : seen[n] = sectors[Current.start + n - 1]
Expected(c) ==
  IF header[c].start + header[c].size - 1 <= mapped
  THEN [kind |-> "read", chunk |-> c, save |-> sectors[header[c].start].save]
  ELSE Lost
Known(c) ==
  /\ Listing(c) /\ Seeing(c)
  /\ results[c] # None => header[c].start # 0 /\ results[c] = Expected(c)

IInv == Typed /\ FileInv /\ Walked /\ ReadsInside /\ \A c \in Chunks \ moved : Known(c)
-----------------------------------------------------------------------------
(* What is typed, taken apart.                                             *)
LEMMA FileTypes ==
  ASSUME Typed
  PROVE  /\ sectors \in Seq(Content) /\ Len(sectors) \in Nat
         /\ \A n \in 1 .. Len(sectors) : sectors[n] \in Content
         /\ \A c \in Chunks : c \in Nat \ {0} /\ header[c].start \in Nat /\ header[c].size \in Nat
         /\ saving.chunk \in Nat /\ saving.start \in Nat /\ saving.size \in Nat /\ saving.written \in Nat
         /\ saves \in Nat /\ mapped \in Nat /\ mapped <= Len(sectors)
<1>1. sectors \in Seq(Content) /\ saves \in Nat /\ mapped \in 0 .. Len(sectors) /\ Len(sectors) \in Nat
  BY DEF Typed
<1>2. \A n \in 1 .. Len(sectors) : sectors[n] \in Content
  BY <1>1, ElementOfSeq
<1>3. ASSUME NEW c \in Chunks PROVE c \in Nat \ {0} /\ header[c].start \in Nat /\ header[c].size \in Nat
  <2>1. c \in Nat \ {0}
    BY LiveRegionAssumption DEF Chunks
  <2>2. header[c] \in [start : Nat, size : Nat]
    BY DEF Typed
  <2> QED
    BY <2>1, <2>2
<1>4. saving.chunk \in Nat /\ saving.start \in Nat /\ saving.size \in Nat /\ saving.written \in Nat
  BY DEF Typed
<1> QED
  BY <1>1, <1>2, <1>3, <1>4

LEMMA ReaderTypes ==
  ASSUME Typed
  PROVE  /\ slot \in Nat \ {0} /\ size \in Nat /\ Len(seen) \in Nat /\ Len(present) \in Nat
         /\ DOMAIN present = 1 .. Len(present) /\ DOMAIN seen = 1 .. Len(seen)
         /\ \A i \in 1 .. Len(present) : present[i].chunk \in Chunks /\ present[i].start \in Nat \ {0}
         /\ present # <<>> => /\ 1 \in DOMAIN present /\ Current = present[1]
                              /\ Current.chunk \in Chunks /\ Current.start \in Nat \ {0}
<1>1. present \in Seq([chunk : Chunks, start : Nat \ {0}])
  BY DEF Typed
<1>2. \A i \in 1 .. Len(present) : present[i] \in [chunk : Chunks, start : Nat \ {0}]
  BY <1>1, ElementOfSeq
<1>3. present # <<>> => 1 \in 1 .. Len(present) /\ Current = present[1]
  BY <1>1 DEF Current
<1>4. slot \in Nat \ {0} /\ size \in Nat /\ Len(seen) \in Nat /\ Len(present) \in Nat /\ DOMAIN present = 1 .. Len(present)
      /\ DOMAIN seen = 1 .. Len(seen)
  BY DEF Typed
<1> QED
  BY <1>2, <1>3, <1>4

(* The sectors of a header entry are in the file.                          *)
LEMMA SpanInFile ==
  ASSUME Typed, NEW c \in Chunks, Stored(c)
  PROVE  /\ \A n \in SpanOf(header[c]) : n \in 1 .. Len(sectors)
         /\ header[c].start # 0 => header[c].start \in SpanOf(header[c])
<1> USE FileTypes
<1>1. CASE header[c].start = 0
  BY <1>1 DEF Stored, SpanOf
<1>2. CASE header[c].start # 0
  BY <1>2 DEF Stored, SpanOf
<1> QED
  BY <1>1, <1>2

(* What the reader knows of a chunk stays true as long as the entry and    *)
(* the sectors of the chunk stay.                                          *)
LEMMA KnownKept ==
  ASSUME IInv, NEW c \in Chunks \ moved, UNCHANGED reader, header'[c] = header[c],
         \A n \in SpanOf(header[c]) : sectors'[n] = sectors[n]
  PROVE  Known(c)'
<1> USE FileTypes, ReaderTypes DEF IInv, reader
<1>1. Listing(c)'
  BY DEF Known, Listing
<1>2. Seeing(c)'
  <2> SUFFICES ASSUME phase = "body", Current.chunk = c
               PROVE  size = header[c].size /\ \A n \in DOMAIN seen : seen[n] = sectors'[Current.start + n - 1]
    BY DEF Seeing, Current
  <2>1. Current.start = header[c].start /\ size = header[c].size /\ Len(seen) <= size
    BY DEF Known, Listing, Seeing, Walked
  <2>2. ASSUME NEW n \in DOMAIN seen PROVE Current.start + n - 1 \in SpanOf(header[c])
    <3>1. n \in 1 .. Len(seen) /\ header[c].start \in Nat /\ header[c].size \in Nat
      OBVIOUS
    <3>2. \A k, t, z, l \in Nat : k \in 1 .. l /\ l <= z => t + k - 1 \in t .. t + z - 1
      OBVIOUS
    <3> QED
      BY <2>1, <3>1, <3>2 DEF SpanOf
  <2> QED
    BY <2>1, <2>2 DEF Known, Seeing
<1>3. ASSUME results[c] # None PROVE header[c].start # 0 /\ results[c] = Expected(c)'
  <2>1. header[c].start # 0 /\ results[c] = Expected(c) /\ header[c].start \in SpanOf(header[c])
    BY <1>3, SpanInFile DEF Known, FileInv
  <2>2. Expected(c)' = Expected(c)
    BY <2>1 DEF Expected
  <2> QED
    BY <2>1, <2>2
<1> QED
  BY <1>1, <1>2, <1>3 DEF Known
-----------------------------------------------------------------------------
LEMMA InitIInv == Init => IInv
<1> SUFFICES ASSUME Init PROVE IInv
  OBVIOUS
<1> USE DEF Init
<1>1. Typed
  <2>1. sectors \in Seq(Content) /\ Len(sectors) = 1 /\ present \in Seq([chunk : Chunks, start : Nat \ {0}]) /\ seen \in Seq(Content)
    <3>1. Stamps \in Content
      BY DEF Stamps, Content
    <3> QED
      BY <3>1
  <2>2. header \in [Chunks -> [start : Nat, size : Nat]] /\ saving \in [chunk : Nat, start : Nat, size : Nat, written : Nat]
    BY DEF Idle
  <2>3. results \in [Chunks -> [kind : Kinds, chunk : Nat, save : Nat]]
    <3>1. None \in [kind : Kinds, chunk : Nat, save : Nat]
      BY DEF None, Kinds
    <3> QED
      BY <3>1
  <2> QED
    BY <2>1, <2>2, <2>3 DEF Typed
<1>2. FileInv
  BY DEF FileInv, Stored, SavingStored, Disjoint, SpanOf, Idle
<1>3. Walked /\ ReadsInside
  BY DEF Walked, ReadsInside
<1>4. \A c \in Chunks \ moved : Known(c)
  BY DEF Known, Listing, Seeing
<1> QED
  BY <1>1, <1>2, <1>3, <1>4 DEF IInv
-----------------------------------------------------------------------------
(* The server.  What the reader holds it does not touch.                   *)
LEMMA ReaderKept ==
  ASSUME IInv, UNCHANGED reader, Len(sectors) \in Nat, Len(sectors') \in Nat, Len(sectors') >= Len(sectors)
  PROVE  Walked' /\ ReadsInside' /\ mapped' \in 0 .. Len(sectors')
<1> USE DEF IInv, reader
<1>1. Walked'
  BY DEF Walked
<1>2. ReadsInside'
  BY DEF ReadsInside, Current
<1>3. mapped' \in 0 .. Len(sectors')
  BY DEF Typed
<1> QED
  BY <1>1, <1>2, <1>3

LEMMA CreateStep == IInv /\ Create => IInv'
<1> SUFFICES ASSUME IInv, Create PROVE IInv'
  OBVIOUS
<1> USE FileTypes DEF IInv, Create
<1>1. Typed'
  BY DEF Typed, reader
<1>2. FileInv'
  BY DEF FileInv, Stored, SavingStored, Disjoint
<1>3. Walked' /\ ReadsInside'
  BY ReaderKept
<1>4. \A c \in Chunks \ moved' : Known(c)'
  BY KnownKept
<1> QED
  BY <1>1, <1>2, <1>3, <1>4

LEMMA BeginStep ==
  ASSUME IInv, NEW c \in Chunks, NEW start \in 1 .. MaxSectors, NEW count \in 1 .. MaxSize, BeginSave(c, start, count)
  PROVE  IInv'
<1> USE FileTypes DEF IInv
<1>1. c \in Nat \ {0} /\ start \in Nat \ {0} /\ count \in Nat \ {0}
  BY LiveRegionAssumption DEF Chunks
<1>2. /\ saving = Idle /\ start <= Len(sectors) + 1 /\ (start .. start + count - 1) \cap Used = {}
      /\ saving' = [chunk |-> c, start |-> start, size |-> count, written |-> 0] /\ saves' = saves + 1
      /\ UNCHANGED <<created, sectors, header, reader, moved>>
  BY DEF BeginSave
<1>3. saving' \in [chunk : Nat, start : Nat, size : Nat, written : Nat]
  BY <1>1, <1>2
<1>4. SpanOf(saving') = start .. start + count - 1
  BY <1>2 DEF SpanOf
<1>5. Typed'
  BY <1>2, <1>3 DEF Typed, reader
<1>6. \A d \in Chunks : Stored(d)'
  BY <1>2 DEF FileInv, Stored
<1>7. SavingStored'
  BY <1>1, <1>2 DEF SavingStored
<1>8. \A d \in Chunks : SpanOf(header'[d]) \cap SpanOf(saving') = {}
  BY <1>2, <1>4 DEF Used
<1>9. Disjoint'
  BY <1>2, <1>8 DEF FileInv, Disjoint
<1>10. Walked' /\ ReadsInside'
  BY <1>2, ReaderKept
<1>11. \A d \in Chunks \ moved' : Known(d)'
  BY <1>2, KnownKept
<1> QED
  BY <1>5, <1>6, <1>7, <1>9, <1>10, <1>11 DEF FileInv

(* A sector that is written is in no span but that of the save.            *)
LEMMA WriteStep == IInv /\ WriteSector => IInv'
<1> SUFFICES ASSUME IInv, WriteSector PROVE IInv'
  OBVIOUS
<1> USE FileTypes DEF IInv, WriteSector
<1> DEFINE m == saving.start + saving.written
           new == Part(saving.chunk, saves, saving.written, saving.size)
<1>1. saving # Idle /\ saving.written < saving.size /\ saving.start >= 1
  BY DEF FileInv, SavingStored, Idle
<1>2. m \in 1 .. Len(sectors) + 1 /\ m \in SpanOf(saving) /\ new \in Content
  BY <1>1 DEF FileInv, SavingStored, SpanOf, Content, Part
<1>3. /\ sectors' \in Seq(Content) /\ Len(sectors') \in Nat /\ Len(sectors') >= Len(sectors) /\ Len(sectors') >= m
      /\ sectors'[m] = new /\ \A n \in 1 .. Len(sectors) : n # m => sectors'[n] = sectors[n]
  <2>1. sectors' = IF m > Len(sectors) THEN Append(sectors, new) ELSE [sectors EXCEPT ![m] = new]
    BY DEF Part
  <2> HIDE DEF m, new
  <2>2. CASE m > Len(sectors)
    BY <2>1, <2>2, <1>2, AppendProperties
  <2>3. CASE ~(m > Len(sectors))
    <3>1. m \in 1 .. Len(sectors)
      BY <2>3, <1>2
    <3> QED
      <4> DEFINE t == [sectors EXCEPT ![m] = new]
      <4>1. t \in Seq(Content) /\ Len(t) = Len(sectors)
            /\ \A n \in 1 .. Len(sectors) : t[n] = IF n = m THEN new ELSE sectors[n]
        BY <3>1, <1>2, ExceptSeq
      <4>2. sectors' = t
        BY <2>1, <2>3
      <4>3. Len(sectors) \in Nat /\ m <= Len(sectors) /\ t[m] = new
        BY <3>1, <4>1
      <4> HIDE FileTypes DEF t, IInv, WriteSector
      <4> QED
        BY <4>1, <4>2, <4>3
  <2> QED
    BY <2>2, <2>3
<1>4. saving' = [saving EXCEPT !.written = saving.written + 1]
  OBVIOUS
<1>5. /\ saving' \in [chunk : Nat, start : Nat, size : Nat, written : Nat] /\ saving'.written = saving.written + 1
      /\ saving'.chunk = saving.chunk /\ saving'.start = saving.start /\ saving'.size = saving.size
  <2>1. saving \in [chunk : Nat, start : Nat, size : Nat, written : Nat]
    BY DEF Typed
  <2> HIDE DEF IInv, WriteSector
  <2> QED
    BY <2>1, <1>4
<1>6. SpanOf(saving') = SpanOf(saving)
  BY <1>5 DEF SpanOf
<1>7. Walked' /\ ReadsInside' /\ mapped' \in 0 .. Len(sectors')
  BY <1>3, ReaderKept
<1>8. Typed'
  BY <1>3, <1>5, <1>7 DEF Typed, reader
<1>9. \A c \in Chunks : \A n \in SpanOf(header[c]) : n \in 1 .. Len(sectors) /\ sectors'[n] = sectors[n]
  <2> TAKE c \in Chunks
  <2>1. m \notin SpanOf(header[c])
    BY <1>2 DEF FileInv, Disjoint
  <2> QED
    BY <2>1, <1>3, SpanInFile DEF FileInv
<1>10. ASSUME NEW c \in Chunks PROVE Stored(c)'
  <2>1. Stored(c) /\ header'[c] = header[c]
    BY DEF FileInv
  <2>2. header[c].start # 0 => header[c].start \in SpanOf(header[c])
    BY <2>1, SpanInFile
  <2>3. CASE header[c].start = 0
    BY <2>1, <2>3 DEF Stored
  <2>4. CASE header[c].start # 0
    <3>1. header[c].size >= 1 /\ header[c].start + header[c].size - 1 <= Len(sectors')
      BY <2>1, <2>4, <1>3 DEF Stored
    <3>2. \A n \in SpanOf(header[c]) :
            sectors'[n] = Part(c, sectors'[header[c].start].save, n - header[c].start, header[c].size)
      BY <2>1, <2>2, <2>4, <1>9 DEF Stored
    <3> QED
      BY <2>1, <2>4, <3>1, <3>2 DEF Stored
  <2> QED
    BY <2>3, <2>4
<1>11. SavingStored'
  <2>1. saving.chunk \in Chunks /\ saving.size >= 1
    BY <1>1 DEF FileInv, SavingStored
  <2>2. ASSUME NEW n \in saving.start .. m PROVE sectors'[n] = Part(saving.chunk, saves, n - saving.start, saving.size)
    <3>1. CASE n = m
      BY <3>1, <1>3
    <3>2. CASE n # m
      <4>1. n \in saving.start .. saving.start + saving.written - 1 /\ n \in 1 .. Len(sectors)
        BY <3>2, <1>1, <1>2
      <4> QED
        BY <3>2, <4>1, <1>1, <1>3 DEF FileInv, SavingStored
    <3> QED
      BY <3>1, <3>2
  <2>3. saving'.start + saving'.written - 1 = m /\ saving'.written <= saving'.size /\ m + 1 <= Len(sectors') + 1 /\ saves' = saves
    BY <1>1, <1>3, <1>5
  <2> QED
    <3>1. saving'.start .. saving'.start + saving'.written - 1 = saving.start .. m
      BY <1>5, <2>3
    <3> HIDE DEF m
    <3>2. \A n \in saving'.start .. saving'.start + saving'.written - 1 :
            sectors'[n] = Part(saving'.chunk, saves', n - saving'.start, saving'.size)
      BY <1>5, <2>2, <2>3, <3>1
    <3>3. saving'.chunk \in Chunks /\ saving'.start >= 1 /\ saving'.size >= 1
          /\ saving'.written <= saving'.size /\ saving'.start + saving'.written <= Len(sectors') + 1
      BY <1>1, <1>3, <1>5, <2>1, <2>3
    <3> QED
      BY <3>2, <3>3 DEF SavingStored
<1>12. Disjoint'
  BY <1>6 DEF FileInv, Disjoint
<1>13. \A c \in Chunks \ moved' : Known(c)'
  BY <1>9, KnownKept
<1> QED
  BY <1>7, <1>8, <1>10, <1>11, <1>12, <1>13 DEF FileInv

(* The entry of the saved chunk takes over the sectors of the save.        *)
LEMMA WriteHeaderStep ==
  ASSUME IInv, WriteHeader
  PROVE  /\ FileInv' /\ saving.chunk \in Chunks
         /\ header' \in [Chunks -> [start : Nat, size : Nat]]
         /\ saving' \in [chunk : Nat, start : Nat, size : Nat, written : Nat]
         /\ \A c \in Chunks : c # saving.chunk => header'[c] = header[c]
<1> USE FileTypes DEF IInv
<1> DEFINE entry == [start |-> saving.start, size |-> saving.size]
<1>0. PICK s \in Chunks : s = saving.chunk
  BY DEF WriteHeader, FileInv, SavingStored
<1>1. /\ saving.start >= 1 /\ saving.size >= 1 /\ saving.start + saving.size - 1 <= Len(sectors)
      /\ \A n \in SpanOf(saving) : sectors[n] = Part(s, saves, n - saving.start, saving.size)
  BY <1>0 DEF WriteHeader, FileInv, SavingStored, SpanOf
<1>2. header' = [header EXCEPT ![s] = entry] /\ saving' = Idle /\ UNCHANGED <<sectors, saves>>
  BY <1>0 DEF WriteHeader
<1>3. entry \in [start : Nat, size : Nat] /\ Idle \in [chunk : Nat, start : Nat, size : Nat, written : Nat]
  BY DEF Idle
<1>4. header \in [Chunks -> [start : Nat, size : Nat]]
  BY DEF Typed
<1>5. /\ header' \in [Chunks -> [start : Nat, size : Nat]] /\ header'[s] = entry
      /\ \A c \in Chunks : c # s => header'[c] = header[c]
  <2> HIDE DEF entry
  <2> QED
    BY <1>1, <1>2, <1>3, <1>4
<1>6. SpanOf(entry) = SpanOf(saving) /\ SpanOf(saving') = {}
  BY <1>2 DEF SpanOf, Idle
<1>7. Stored(s)'
  <2>1. saving.start \in SpanOf(saving)
    BY <1>1 DEF SpanOf
  <2>2. sectors[saving.start] = Part(s, saves, saving.start - saving.start, saving.size)
    BY <1>1, <2>1
  <2>3. sectors[saving.start].save = saves
    BY <2>2 DEF Part
  <2> HIDE FileTypes DEF IInv
  <2>4. /\ header'[s].start = saving.start /\ header'[s].size = saving.size /\ SpanOf(header'[s]) = SpanOf(saving)
        /\ sectors' = sectors /\ saving.start # 0
    BY <1>1, <1>2, <1>5, <1>6
  <2> QED
    BY <1>1, <2>3, <2>4 DEF Stored
<1>8. \A c \in Chunks : c # s => Stored(c)'
  BY <1>2, <1>5 DEF FileInv, Stored
<1>9. SavingStored'
  BY <1>2 DEF SavingStored
<1>10. Disjoint'
  <2>1. \A c \in Chunks : SpanOf(header'[c]) \cap SpanOf(saving') = {}
    BY <1>6
  <2>2. ASSUME NEW c \in Chunks, NEW d \in Chunks \ {c} PROVE SpanOf(header'[c]) \cap SpanOf(header'[d]) = {}
    <3>1. CASE c = s
      BY <3>1, <1>0, <1>5, <1>6 DEF FileInv, Disjoint
    <3>2. CASE d = s
      BY <3>2, <1>0, <1>5, <1>6 DEF FileInv, Disjoint
    <3>3. CASE c # s /\ d # s
      BY <3>3, <1>5 DEF FileInv, Disjoint
    <3> QED
      BY <3>1, <3>2, <3>3
  <2> QED
    BY <2>1, <2>2 DEF Disjoint
<1> QED
  <2>1. FileInv'
    BY <1>7, <1>8, <1>9, <1>10 DEF FileInv
  <2>2. saving' \in [chunk : Nat, start : Nat, size : Nat, written : Nat]
    BY <1>2, <1>3
  <2> QED
    BY <1>0, <1>5, <2>1, <2>2

LEMMA SaveListedStep == IInv /\ SaveListed => IInv'
<1> SUFFICES ASSUME IInv, SaveListed PROVE IInv'
  OBVIOUS
<1> USE FileTypes, ReaderTypes DEF IInv
<1>1. WriteHeader /\ UNCHANGED <<sectors, saves, reader>>
      /\ moved' = IF saving.chunk < slot THEN moved \cup {saving.chunk} ELSE moved
  BY DEF SaveListed, WriteHeader
<1>2. /\ FileInv' /\ saving.chunk \in Chunks /\ header' \in [Chunks -> [start : Nat, size : Nat]]
      /\ saving' \in [chunk : Nat, start : Nat, size : Nat, written : Nat]
      /\ \A c \in Chunks : c # saving.chunk => header'[c] = header[c]
  BY <1>1, WriteHeaderStep
<1>3. Walked' /\ ReadsInside'
  BY <1>1, ReaderKept
<1>4. Typed'
  BY <1>1, <1>2 DEF Typed, reader
<1>5. ASSUME NEW c \in Chunks \ moved' PROVE Known(c)'
  <2>1. CASE c # saving.chunk
    BY <1>1, <1>2, <2>1, KnownKept
  <2>2. CASE c = saving.chunk
    <3>1. c \in Nat /\ c <= Slots /\ ~(c < slot)
      BY <1>1, <2>2, LiveRegionAssumption DEF Chunks
    <3>2. \A i \in DOMAIN present : present[i].chunk # c
      BY <3>1 DEF Walked
    <3>3. Slots \in Nat /\ ~(slot > Slots)
      BY <3>1, LiveRegionAssumption
    <3>4. phase # "body" /\ results[c] = None
      BY <3>3 DEF Walked, Typed
    <3> QED
      BY <1>1, <3>2, <3>4 DEF Known, Listing, Seeing, reader
  <2> QED
    BY <2>1, <2>2
<1> QED
  BY <1>2, <1>3, <1>4, <1>5
-----------------------------------------------------------------------------
(* The reader's walk over the header.  A chunk is listed with the start    *)
(* that is read for it.                                                    *)
LEMMA ListedStep ==
  ASSUME Typed, Walked, NEW entry \in [start : Nat, size : Nat], Listed(entry)
  PROVE  /\ present' \in Seq([chunk : Chunks, start : Nat \ {0}]) /\ slot' \in Nat \ {0} /\ slot \in Chunks
         /\ \A i \in DOMAIN present' :
              /\ present'[i].chunk < slot'
              /\ IF i \in DOMAIN present THEN present'[i] = present[i]
                 ELSE present'[i] = [chunk |-> slot, start |-> entry.start]
         /\ Walked' /\ phase = "header" /\ UNCHANGED <<phase, mapped, seen, size, results>>
<1> USE ReaderTypes
<1> DEFINE e == [chunk |-> slot, start |-> entry.start]
           Entries == [chunk : Chunks, start : Nat \ {0}]
<1>1. /\ phase = "header" /\ slot <= Slots /\ slot' = slot + 1 /\ UNCHANGED <<phase, mapped, seen, size, results>>
      /\ present' = IF entry.start = 0 \/ entry.size = 0 THEN present ELSE Append(present, e)
  BY DEF Listed
<1>2. slot \in Chunks
  BY <1>1, LiveRegionAssumption DEF Chunks
<1>3. present \in Seq(Entries) /\ Len(present) \in Nat /\ DOMAIN present = 1 .. Len(present)
  BY DEF Typed
<1>4. \A i \in DOMAIN present : present[i].chunk < slot /\ present[i].chunk \in Nat
  BY <1>3, LiveRegionAssumption DEF Walked, Chunks
<1>5. /\ present' \in Seq(Entries)
      /\ \A i \in DOMAIN present' : /\ present'[i].chunk < slot'
                                    /\ IF i \in DOMAIN present THEN present'[i] = present[i] ELSE present'[i] = e
  <2>1. CASE present' = present
    BY <2>1, <1>1, <1>3, <1>4
  <2>2. CASE present' = Append(present, e) /\ entry.start # 0
    <3>1. e \in Entries /\ e.chunk < slot'
      BY <1>1, <1>2, <2>2
    <3> HIDE DEF e, Entries
    <3>2. /\ present' \in Seq(Entries) /\ Len(present') = Len(present) + 1
          /\ \A i \in 1 .. Len(present) : present'[i] = present[i]
          /\ present'[Len(present) + 1] = e
      BY <1>3, <2>2, <3>1, AppendProperties
    <3>3. DOMAIN present' = 1 .. Len(present) + 1
      BY <3>2
    <3>4. \A i \in DOMAIN present' : i \in DOMAIN present \/ i = Len(present) + 1
      BY <1>3, <3>3
    <3>5. Len(present) + 1 \notin DOMAIN present
      BY <1>3
    <3> QED
      BY <1>1, <1>3, <1>4, <3>1, <3>2, <3>4, <3>5
  <2> QED
    BY <1>1, <2>1, <2>2
<1>6. Walked'
  BY <1>1, <1>5 DEF Walked
<1> QED
  BY <1>1, <1>2, <1>5, <1>6

(* A step of the reader leaves the file alone.                             *)
LEMMA FileKept ==
  ASSUME IInv, UNCHANGED <<file, moved>>, mapped' \in 0 .. Len(sectors),
         phase' \in {"start", "header", "chunks", "body", "end", "failed"}, slot' \in Nat \ {0},
         present' \in Seq([chunk : Chunks, start : Nat \ {0}]), seen' \in Seq(Content), size' \in Nat,
         results' \in [Chunks -> [kind : Kinds, chunk : Nat, save : Nat]]
  PROVE  Typed' /\ FileInv'
<1>1. Typed'
  BY DEF IInv, Typed, file
<1>2. FileInv'
  BY DEF IInv, FileInv, Stored, SavingStored, Disjoint, file
<1> QED
  BY <1>1, <1>2

LEMMA LocationStep == IInv /\ get_chunk_location => IInv'
<1> SUFFICES ASSUME IInv, get_chunk_location PROVE IInv'
  OBVIOUS
<1> USE DEF IInv
<1>1. Listed(header[slot]) /\ UNCHANGED <<file, moved>>
  BY DEF get_chunk_location
<1>2. header[slot] \in [start : Nat, size : Nat]
  <2>1. slot \in Nat \ {0} /\ slot <= Slots /\ Slots \in Nat
    BY <1>1, LiveRegionAssumption, ReaderTypes DEF Listed
  <2>2. slot \in Chunks
    BY <2>1 DEF Chunks
  <2> QED
    BY <2>2 DEF Typed
<1>3. /\ present' \in Seq([chunk : Chunks, start : Nat \ {0}]) /\ slot' \in Nat \ {0}
      /\ \A i \in DOMAIN present' : IF i \in DOMAIN present THEN present'[i] = present[i]
                                    ELSE present'[i] = [chunk |-> slot, start |-> header[slot].start]
      /\ Walked' /\ phase = "header" /\ UNCHANGED <<phase, mapped, seen, size, results>>
  BY <1>1, <1>2, ListedStep
<1>4. Typed' /\ FileInv'
  BY <1>1, <1>3, FileKept DEF Typed
<1>5. ReadsInside'
  BY <1>3 DEF ReadsInside
<1>6. ASSUME NEW c \in Chunks \ moved' PROVE Known(c)'
  <2>1. Listing(c)'
    BY <1>1, <1>3, <1>6 DEF Known, Listing, file
  <2>2. Seeing(c)' /\ results'[c] = None
    BY <1>3 DEF Seeing, Walked
  <2> QED
    BY <2>1, <2>2 DEF Known
<1> QED
  BY <1>3, <1>4, <1>5, <1>6

LEMMA RewrittenStep == IInv /\ LocationRewritten => IInv'
<1> SUFFICES ASSUME IInv, LocationRewritten PROVE IInv'
  OBVIOUS
<1> USE DEF IInv
<1>1. PICK start \in 0 .. MaxSectors + 1 : Listed([start |-> start, size |-> 1])
  BY DEF LocationRewritten
<1>2. [start |-> start, size |-> 1] \in [start : Nat, size : Nat]
  BY LiveRegionAssumption
<1>3. WriteHeader /\ saving.chunk = slot /\ moved' = moved \cup {slot} /\ UNCHANGED <<sectors, saves>>
  BY DEF LocationRewritten, WriteHeader
<1>4. /\ present' \in Seq([chunk : Chunks, start : Nat \ {0}]) /\ slot' \in Nat \ {0} /\ slot \in Chunks
      /\ \A i \in DOMAIN present' : IF i \in DOMAIN present THEN present'[i] = present[i]
                                    ELSE present'[i] = [chunk |-> slot, start |-> start]
      /\ Walked' /\ phase = "header" /\ UNCHANGED <<phase, mapped, seen, size, results>>
  <2>1. [start |-> start, size |-> 1].start = start
    OBVIOUS
  <2> QED
    BY <1>1, <1>2, <2>1, ListedStep
<1>5. /\ FileInv' /\ header' \in [Chunks -> [start : Nat, size : Nat]]
      /\ saving' \in [chunk : Nat, start : Nat, size : Nat, written : Nat]
      /\ \A c \in Chunks : c # slot => header'[c] = header[c]
  BY <1>3, WriteHeaderStep
<1>6. Typed'
  BY <1>3, <1>4, <1>5 DEF Typed
<1>7. ReadsInside'
  BY <1>4 DEF ReadsInside
<1>8. ASSUME NEW c \in Chunks \ moved' PROVE Known(c)'
  <2>1. Listing(c)'
    <3>1. c \in Chunks \ moved /\ c # slot /\ header'[c] = header[c]
      BY <1>3, <1>5, <1>8
    <3>2. \A i \in DOMAIN present' : present'[i].chunk = c => i \in DOMAIN present /\ present'[i] = present[i]
      BY <1>4, <3>1
    <3> QED
      BY <3>1, <3>2 DEF Known, Listing
  <2>2. Seeing(c)' /\ results'[c] = None
    BY <1>4 DEF Seeing, Walked
  <2> QED
    BY <2>1, <2>2 DEF Known
<1> QED
  BY <1>4, <1>5, <1>6, <1>7, <1>8

(* Steps that read nothing.                                                *)
LEMMA PhaseStep ==
  ASSUME IInv, Open \/ OpenFails \/ HeaderRead \/ AllRead
  PROVE  IInv'
<1> USE FileTypes DEF IInv
<1>1. /\ UNCHANGED <<file, slot, present, seen, size, results, moved>> /\ phase # "body" /\ phase' # "body"
      /\ mapped' \in 0 .. Len(sectors) /\ phase' \in {"header", "failed", "chunks", "end"}
      /\ phase \in {"start", "header"} => mapped' = mapped \/ phase = "start"
      /\ phase \notin {"start", "header"} => mapped' = mapped
  BY DEF Open, OpenFails, HeaderRead, AllRead
<1>2. Typed' /\ FileInv'
  BY <1>1, FileKept DEF Typed
<1>3. Walked'
  BY <1>1 DEF Walked, Open, OpenFails, HeaderRead, AllRead
<1>4. ReadsInside'
  BY <1>1 DEF ReadsInside
<1>5. ASSUME NEW c \in Chunks \ moved' PROVE Known(c)'
  <2>1. Listing(c)' /\ Seeing(c)'
    BY <1>1 DEF Known, Listing, Seeing, file
  <2>2. CASE phase \in {"start", "header"}
    BY <1>1, <2>1, <2>2 DEF Known, Walked
  <2>3. CASE phase \notin {"start", "header"}
    BY <1>1, <2>1, <2>3 DEF Known, Expected, file
  <2> QED
    BY <2>2, <2>3
<1> QED
  BY <1>2, <1>3, <1>4, <1>5

(* The sectors of an entry are not those being written, so the length word *)
(* of a chunk that is not moved is what the entry says.                    *)
LEMMA EntryQuiet ==
  ASSUME IInv, NEW c \in Chunks, NEW n \in SpanOf(header[c])
  PROVE  ~BeingWritten(n)
<1> USE FileTypes DEF IInv
<1> SUFFICES ASSUME BeingWritten(n) PROVE FALSE
  OBVIOUS
<1>1. n \in SpanOf(saving)
  BY DEF BeingWritten, SpanOf
<1> QED
  BY <1>1 DEF FileInv, Disjoint

LEMMA EntryParts ==
  ASSUME IInv, NEW c \in Chunks, header[c].start # 0
  PROVE  /\ header[c].size >= 1 /\ header[c].start \in SpanOf(header[c])
         /\ \A n \in SpanOf(header[c]) :
              n \in 1 .. Len(sectors) /\ sectors[n] = Part(c, sectors[header[c].start].save, n - header[c].start, header[c].size)
         /\ Lengths(header[c].start) = {header[c].size}
<1> USE FileTypes DEF IInv
<1>1. Stored(c)
  BY DEF FileInv
<1>2. header[c].start \in SpanOf(header[c]) /\ \A n \in SpanOf(header[c]) : n \in 1 .. Len(sectors)
  BY <1>1, SpanInFile
<1>3. header[c].size >= 1
      /\ \A n \in SpanOf(header[c]) : sectors[n] = Part(c, sectors[header[c].start].save, n - header[c].start, header[c].size)
  BY <1>1 DEF Stored
<1>4. sectors[header[c].start] = Part(c, sectors[header[c].start].save, 0, header[c].size)
  BY <1>2, <1>3
<1>5. sectors[header[c].start].part = 0 /\ sectors[header[c].start].size = header[c].size
  BY <1>4 DEF Part
<1> QED
  BY <1>2, <1>3, <1>5, EntryQuiet DEF Lengths

LEMMA CurrentKnown ==
  ASSUME IInv, present # <<>>
  PROVE  /\ Current = present[1] /\ Current.chunk \in Chunks /\ Current.start \in Nat \ {0}
         /\ Current.chunk \notin moved =>
              Known(Current.chunk) /\ Current.start = header[Current.chunk].start /\ header[Current.chunk].start # 0
<1>1. /\ 1 \in DOMAIN present /\ Current = present[1] /\ Current.chunk \in Chunks /\ Current.start \in Nat \ {0}
  BY ReaderTypes DEF IInv
<1>2. ASSUME Current.chunk \notin moved PROVE Known(Current.chunk)
  BY <1>1, <1>2 DEF IInv
<1> QED
  BY <1>1, <1>2 DEF Known, Listing

LEMMA LengthsNat ==
  ASSUME Typed, NEW n \in 1 .. Len(sectors)
  PROVE  Lengths(n) \subseteq Nat
<1>1. sectors[n].size \in Nat
  BY FileTypes DEF Content
<1> QED
  BY <1>1, LiveRegionAssumption DEF Lengths

LEMMA PayloadStep == IInv /\ Payload => IInv'
<1> SUFFICES ASSUME IInv, Payload PROVE IInv'
  OBVIOUS
<1> USE FileTypes, ReaderTypes DEF IInv
<1>1. /\ phase = "chunks" /\ present # <<>> /\ phase' = "body" /\ UNCHANGED <<file, mapped, slot, present, seen, results, moved>>
      /\ Current.start <= mapped
  BY DEF Payload, StartsInside
<1>2. size' \in Lengths(Current.start) /\ size' # 0 /\ EndsInside(Current.start, size')
  BY DEF Payload
<1>3. Current.start \in Nat \ {0} /\ Current.start \in 1 .. Len(sectors) /\ Current' = Current
  <2>1. Current.start \in Nat \ {0} /\ Current' = Current
    BY <1>1, CurrentKnown DEF Current
  <2> QED
    BY <1>1, <2>1
<1>4. size' \in Nat /\ size' >= 1
  BY <1>2, <1>3, LengthsNat
<1>5. Typed' /\ FileInv'
  BY <1>1, <1>4, FileKept DEF Typed
<1>6. Walked'
  BY <1>1, <1>4 DEF Walked
<1>7. ReadsInside'
  BY <1>1, <1>2, <1>3, <1>4 DEF ReadsInside, EndsInside
<1>8. ASSUME NEW c \in Chunks \ moved' PROVE Known(c)'
  <2>1. c \in Chunks \ moved /\ Known(c) /\ header' = header
    BY <1>1, <1>8 DEF file
  <2>2. Listing(c)' /\ (results'[c] # None => header'[c].start # 0 /\ results'[c] = Expected(c)')
    BY <1>1, <2>1 DEF Known, Listing, Expected, file
  <2>3. ASSUME Current.chunk = c PROVE size' = header[c].size
    <3>1. Current.start = header[c].start /\ header[c].start # 0
      BY <1>1, <2>1, <2>3, CurrentKnown
    <3> HIDE FileTypes, ReaderTypes DEF IInv
    <3>2. Lengths(header[c].start) = {header[c].size}
      BY <2>1, <3>1, EntryParts
    <3> QED
      BY <1>2, <3>1, <3>2
  <2>4. Seeing(c)'
    BY <1>1, <1>3, <2>1, <2>3 DEF Seeing, Walked
  <2> QED
    BY <2>2, <2>4 DEF Known
<1> QED
  BY <1>5, <1>6, <1>7, <1>8

(* A chunk that is done leaves the list with its result.                   *)
LEMMA ResultStep ==
  ASSUME IInv, UNCHANGED <<file, mapped, slot, size, moved>>, phase \in {"chunks", "body"}, phase' = "chunks",
         present # <<>>, NEW r \in [kind : Kinds, chunk : Nat, save : Nat], Result(r),
         Current.chunk \notin moved => header[Current.chunk].start # 0 /\ r = Expected(Current.chunk)
  PROVE  IInv'
<1> USE FileTypes, ReaderTypes DEF IInv
<1>1. /\ results' = [results EXCEPT ![Current.chunk] = r] /\ present' = Tail(present) /\ seen' = <<>>
      /\ UNCHANGED <<sectors, header>>
  BY DEF Result, file
<1>2. /\ present' \in Seq([chunk : Chunks, start : Nat \ {0}])
      /\ \A i \in DOMAIN present' : i + 1 \in DOMAIN present /\ present'[i] = present[i + 1]
  <2> DEFINE Entries == [chunk : Chunks, start : Nat \ {0}]
  <2>1. present \in Seq(Entries)
    BY DEF Typed
  <2> HIDE FileTypes, ReaderTypes DEF IInv, Entries
  <2>2. Tail(present) \in Seq(Entries) /\ Len(Tail(present)) = Len(present) - 1
        /\ \A i \in 1 .. Len(Tail(present)) : Tail(present)[i] = present[i + 1]
    BY <2>1, HeadTailProperties
  <2>3. DOMAIN Tail(present) = 1 .. Len(present) - 1 /\ DOMAIN present = 1 .. Len(present) /\ Len(present) \in Nat
    BY <2>1, <2>2
  <2>4. \A i \in 1 .. Len(present) - 1 : i + 1 \in 1 .. Len(present)
    BY <2>3
  <2> QED
    BY <1>1, <2>2, <2>3, <2>4 DEF Entries
<1>3. /\ results' \in [Chunks -> [kind : Kinds, chunk : Nat, save : Nat]]
      /\ \A c \in Chunks : results'[c] = IF c = Current.chunk THEN r ELSE results[c]
  <2>1. results \in [Chunks -> [kind : Kinds, chunk : Nat, save : Nat]]
    BY DEF Typed
  <2> QED
    BY <1>1, <2>1
<1>4. Typed' /\ FileInv'
  <2>1. seen' \in Seq(Content)
    BY <1>1
  <2> QED
    BY <1>2, <1>3, <2>1, FileKept DEF Typed
<1>5. Walked' /\ ReadsInside'
  BY <1>1, <1>2 DEF Walked, ReadsInside
<1>6. ASSUME NEW c \in Chunks \ moved' PROVE Known(c)'
  <2>1. Known(c) /\ c \in Chunks \ moved
    BY <1>6
  <2>2. Listing(c)'
    BY <1>1, <1>2, <2>1 DEF Known, Listing
  <2>3. Seeing(c)'
    BY DEF Seeing
  <2>4. Expected(c)' = Expected(c)
    BY <1>1 DEF Expected
  <2>5. results'[c] # None => header'[c].start # 0 /\ results'[c] = Expected(c)'
    BY <1>1, <1>3, <2>1, <2>4 DEF Known
  <2> QED
    BY <2>2, <2>3, <2>5 DEF Known
<1> QED
  BY <1>4, <1>5, <1>6

LEMMA RefusedStep == IInv /\ PayloadRefused => IInv'
<1> SUFFICES ASSUME IInv, PayloadRefused PROVE IInv'
  OBVIOUS
<1> USE FileTypes, ReaderTypes DEF IInv
<1>1. /\ phase = "chunks" /\ present # <<>> /\ Result(Lost) /\ UNCHANGED <<file, phase, mapped, slot, size, moved>>
      /\ Current.start <= mapped =>
           \E count \in Lengths(Current.start) : count = 0 \/ ~(Current.start + count - 1 <= mapped)
  BY DEF PayloadRefused, StartsInside, EndsInside
<1>2. Lost \in [kind : Kinds, chunk : Nat, save : Nat]
  BY DEF Lost, Kinds
<1>3. ASSUME Current.chunk \notin moved
      PROVE  header[Current.chunk].start # 0 /\ Lost = Expected(Current.chunk)
  <2>1. Current.chunk \in Chunks \ moved /\ Current.start = header[Current.chunk].start /\ Current.start # 0
    BY <1>1, <1>3, CurrentKnown
  <2>2. header[Current.chunk].size >= 1 /\ Lengths(Current.start) = {header[Current.chunk].size}
    BY <2>1, EntryParts
  <2>3. ~(header[Current.chunk].start + header[Current.chunk].size - 1 <= mapped)
    BY <1>1, <2>1, <2>2
  <2> QED
    BY <2>1, <2>3 DEF Expected
<1> QED
  BY <1>1, <1>2, <1>3, ResultStep

LEMMA ReadStep == IInv /\ ReadSector => IInv'
<1> SUFFICES ASSUME IInv, ReadSector PROVE IInv'
  OBVIOUS
<1> USE FileTypes, ReaderTypes DEF IInv
<1> DEFINE n == Current.start + Len(seen)
<1>1. /\ phase = "body" /\ Len(seen) < size /\ UNCHANGED <<file, phase, mapped, slot, present, size, results, moved>>
  BY DEF ReadSector
<1>2. PICK content \in {sectors[n]} \cup (IF BeingWritten(n) THEN {Mixed} ELSE {}) : seen' = Append(seen, content)
  BY DEF ReadSector
<1>3. present # <<>> /\ Current.start \in Nat \ {0} /\ Current' = Current /\ n \in 1 .. Len(sectors)
  BY <1>1 DEF Walked, ReadsInside, Current
<1>4. content \in Content
  <2>1. sectors[n] \in Content /\ Mixed \in Content
    BY <1>3 DEF Mixed, Content
  <2> QED
    BY <1>2, <2>1
<1>5. /\ seen' \in Seq(Content) /\ Len(seen') = Len(seen) + 1 /\ DOMAIN seen' = 1 .. Len(seen) + 1
      /\ \A i \in 1 .. Len(seen) : seen'[i] = seen[i]
      /\ seen'[Len(seen) + 1] = content
  <2>1. seen \in Seq(Content)
    BY DEF Typed
  <2> QED
    BY <1>2, <1>4, <2>1, AppendProperties
<1>6. Typed' /\ FileInv'
  BY <1>1, <1>5, FileKept DEF Typed
<1>7. Walked'
  BY <1>1, <1>5 DEF Walked
<1>8. ReadsInside'
  BY <1>1, <1>3 DEF ReadsInside
<1>9. ASSUME NEW c \in Chunks \ moved' PROVE Known(c)'
  <2>1. c \in Chunks \ moved /\ Known(c) /\ UNCHANGED <<header, sectors>>
    BY <1>1, <1>9 DEF file
  <2>2. Listing(c)' /\ (results'[c] # None => header'[c].start # 0 /\ results'[c] = Expected(c)')
    BY <1>1, <2>1 DEF Known, Listing, Expected
  <2>3. ASSUME Current.chunk = c PROVE content = sectors[n]
    <3>1. Current.start = header[c].start /\ size = header[c].size
      BY <1>1, <1>3, <2>1, <2>3 DEF Known, Listing, Seeing
    <3>2. n \in SpanOf(header[c])
      <4>1. \A t, l, z \in Nat : l < z => t + l \in t .. t + z - 1
        OBVIOUS
      <4> QED
        BY <1>1, <1>3, <3>1, <4>1 DEF SpanOf
    <3> HIDE DEF n
    <3> QED
      BY <1>2, <3>2, EntryQuiet
  <2>4. ASSUME Current.chunk = c, NEW i \in DOMAIN seen' PROVE seen'[i] = sectors[Current.start + i - 1]
    <3>1. CASE i = Len(seen) + 1
      BY <1>3, <1>5, <2>3, <2>4, <3>1
    <3>2. CASE i # Len(seen) + 1
      <4>1. i \in DOMAIN seen
        BY <1>5, <3>2
      <4> QED
        BY <1>1, <1>5, <2>1, <2>4, <4>1 DEF Known, Seeing
    <3> QED
      BY <3>1, <3>2
  <2>5. Seeing(c)'
    BY <1>1, <1>3, <2>1, <2>4 DEF Known, Seeing
  <2> QED
    BY <2>2, <2>5 DEF Known
<1> QED
  BY <1>6, <1>7, <1>8, <1>9

(* A payload of a chunk that is not moved has been seen whole.             *)
LEMMA DecompressStep == IInv /\ Decompress => IInv'
<1> SUFFICES ASSUME IInv, Decompress PROVE IInv'
  OBVIOUS
<1> USE FileTypes, ReaderTypes DEF IInv
<1>1. /\ phase = "body" /\ Len(seen) = size /\ phase' = "chunks" /\ UNCHANGED <<file, mapped, slot, size, moved>>
      /\ IF Whole(seen) THEN Result(Read(seen[1])) ELSE Result(Lost) \/ Result(Torn)
  BY DEF Decompress
<1>2. present # <<>> /\ size >= 1 /\ 1 \in DOMAIN seen
  BY <1>1 DEF Walked
<1>3. seen[1] \in Content
  BY <1>2 DEF Typed
<1>4. \A r \in {Read(seen[1]), Lost, Torn} : r \in [kind : Kinds, chunk : Nat, save : Nat]
  <2>1. seen[1].chunk \in Nat /\ seen[1].save \in Nat
    BY <1>3 DEF Content
  <2> QED
    BY <2>1 DEF Read, Lost, Torn, Kinds
<1>5. ASSUME Current.chunk \notin moved
      PROVE  Whole(seen) /\ header[Current.chunk].start # 0 /\ Read(seen[1]) = Expected(Current.chunk)
  <2>1. PICK c \in Chunks \ moved : c = Current.chunk
    BY <1>2, <1>5
  <2>2. Current.start = header[c].start /\ header[c].start # 0 /\ size = header[c].size
    BY <1>1, <1>2, <2>1, CurrentKnown DEF Known, Seeing
  <2> DEFINE save == sectors[header[c].start].save
  <2>3. ASSUME NEW i \in DOMAIN seen PROVE seen[i] = Part(c, save, i - 1, size)
    <3>1. PICK n \in SpanOf(header[c]) : n = header[c].start + i - 1
      <4>1. header[c].start + i - 1 \in SpanOf(header[c])
        BY <1>1, <2>2 DEF SpanOf
      <4> HIDE FileTypes, ReaderTypes
      <4> QED
        BY <4>1
    <3>2. n - header[c].start = i - 1
      BY <1>1, <2>2, <3>1
    <3>3. seen[i] = sectors[n]
      BY <1>1, <2>1, <2>2, <3>1 DEF Known, Seeing
    <3>4. sectors[n] = Part(c, save, n - header[c].start, header[c].size)
      BY <2>1, <2>2, <3>1, EntryParts
    <3> HIDE DEF save
    <3> QED
      BY <2>2, <3>2, <3>3, <3>4
  <2> HIDE DEF save
  <2>4. Whole(seen)
    <3>1. seen[1] = Part(c, save, 0, size)
      BY <1>2, <2>3
    <3>2. ASSUME NEW i \in DOMAIN seen PROVE seen[i] = [seen[1] EXCEPT !.part = i - 1, !.size = Len(seen)]
      <4> DEFINE t == [Part(c, save, 0, size) EXCEPT !.part = i - 1, !.size = size]
      <4>1. t \in [chunk : {c}, save : {save}, part : {i - 1}, size : {size}]
        BY DEF Part
      <4> HIDE DEF t
      <4>2. t = Part(c, save, i - 1, size)
        BY <4>1 DEF Part
      <4> QED
        BY <1>1, <2>3, <3>1, <4>2 DEF t
    <3> QED
      BY <3>2 DEF Whole
  <2>5. Read(seen[1]) = [kind |-> "read", chunk |-> c, save |-> save]
    BY <1>2, <2>3 DEF Read, Part
  <2>6. header[c].start + header[c].size - 1 <= mapped
    BY <1>1, <2>2 DEF ReadsInside
  <2> QED
    BY <2>1, <2>2, <2>4, <2>5, <2>6 DEF Expected, save
<1>6. CASE Current.chunk \notin moved
  BY <1>1, <1>2, <1>4, <1>5, <1>6, ResultStep
<1>7. CASE Current.chunk \in moved
  BY <1>1, <1>2, <1>4, <1>7, ResultStep
<1> QED
  BY <1>6, <1>7
-----------------------------------------------------------------------------
LEMMA StepIInv == IInv /\ [Next]_vars => IInv'
<1> SUFFICES ASSUME IInv, [Next]_vars PROVE IInv'
  OBVIOUS
<1>1. CASE Server
  BY <1>1, CreateStep, BeginStep, WriteStep, SaveListedStep DEF Server
<1>2. CASE Reader
  BY <1>2, PhaseStep, LocationStep, PayloadStep, RefusedStep, ReadStep, DecompressStep DEF Reader
<1>3. CASE LocationRewritten
  BY <1>3, RewrittenStep
<1>4. CASE UNCHANGED vars
  <2> USE FileTypes DEF IInv, vars
  <2>1. Typed' /\ FileInv'
    BY <1>4, FileKept DEF Typed, reader
  <2>2. Walked' /\ ReadsInside'
    BY <1>4, ReaderKept, FileTypes DEF file
  <2>3. \A c \in Chunks \ moved' : Known(c)'
    BY <1>4, KnownKept DEF file
  <2> QED
    BY <2>1, <2>2, <2>3
<1> QED
  BY <1>1, <1>2, <1>3, <1>4 DEF Next, Finished

THEOREM SpecIInv == Spec => []IInv
  BY InitIInv, StepIInv, PTL DEF Spec

(* Whatever the server writes while the reader works, and wherever a torn  *)
(* header entry or length word points, no byte outside the mapping is read *)
(* in get_raw_chunk_payload or later.                                      *)
THEOREM SpecReadsInside == Spec => []ReadsInside
<1>1. IInv => ReadsInside
  BY DEF IInv
<1> QED
  BY <1>1, SpecIInv, PTL

(* A chunk the server has not saved since the reader saw its entry is read *)
(* exactly as last saved, or lost if it lies behind the mapping.           *)
THEOREM SpecUntouchedExact == Spec => []UntouchedExact
<1>1. IInv => UntouchedExact
  BY DEF IInv, Known, Expected, UntouchedExact
<1> QED
  BY <1>1, SpecIInv, PTL
-----------------------------------------------------------------------------
(***************************************************************************)
(* SectionDecode: entries of a packed array.                               *)
(***************************************************************************)
(* Powers of two multiply.                                                 *)
LEMMA PowSum == \A a, b \in Nat : Pow2[a + b] = Pow2[a] * Pow2[b]
<1> SUFFICES ASSUME NEW a \in Nat PROVE \A b \in Nat : Pow2[a + b] = Pow2[a] * Pow2[b]
  OBVIOUS
<1> DEFINE S == {b \in Nat : Pow2[a + b] = Pow2[a] * Pow2[b]}
<1>1. 0 \in S
  <2>1. Pow2[a] \in Nat /\ Pow2[0] = 1 /\ a + 0 = a
    BY Powers
  <2>2. Pow2[a] * 1 = Pow2[a]
    BY <2>1
  <2> QED
    BY <2>1, <2>2
<1>2. ASSUME NEW b \in Nat, b \in S PROVE b + 1 \in S
  <2>1. PICK x \in Nat, y \in Nat, z \in Nat :
          x = Pow2[a] /\ y = Pow2[b] /\ z = Pow2[a + b] /\ Pow2[b + 1] = 2 * y /\ Pow2[(a + b) + 1] = 2 * z
    <3>1. a + b \in Nat
      OBVIOUS
    <3>2. Pow2[a] \in Nat /\ Pow2[b] \in Nat /\ Pow2[a + b] \in Nat
      BY <3>1, Powers
    <3> QED
      BY <3>1, <3>2, Powers, Zenon
  <2>2. z = x * y
    BY <1>2, <2>1
  <2>3. 2 * (x * y) = x * (2 * y)
    OBVIOUS
  <2>4. a + (b + 1) = (a + b) + 1
    OBVIOUS
  <2> QED
    BY <2>1, <2>2, <2>3, <2>4
<1> HIDE DEF S
<1>3. Nat \subseteq S
  BY <1>1, <1>2, SetInduction
<1> QED
  BY <1>3 DEF S

(* The long with the first n of its entries.                               *)
Item(bits, index, from, n) == index[from + n - 1] * Pow2[bits * (n - 1)]
Packing(bits, index, from, count, f) ==
  /\ f[0] = 0
  /\ \A n \in 1 .. count : f[n] = f[n - 1] + Item(bits, index, from, n)
Entries(bits, index, from, count) ==
  \A n \in 1 .. count : index[from + n - 1] \in 0 .. Pow2[bits] - 1

LEMMA PackIs ==
  ASSUME NEW bits \in Nat, NEW index, NEW from \in Nat, NEW count \in Nat, Entries(bits, index, from, count)
  PROVE  \E f : Packing(bits, index, from, count, f) /\ PackLong(bits, index, from, count) = f[count]
<1> DEFINE F == [p \in Nat \X Nat |-> IF p[2] \in 1 .. count THEN p[1] + Item(bits, index, from, p[2]) ELSE p[1]]
           Is(h) == h = [n \in 0 .. count |-> IF n = 0 THEN 0 ELSE h[n - 1] + Item(bits, index, from, n)]
           c == CHOOSE h : Is(h)
<1>1. \A n \in 1 .. count : Item(bits, index, from, n) \in Nat
  <2> TAKE n \in 1 .. count
  <2>1. n - 1 \in Nat
    OBVIOUS
  <2>2. bits * (n - 1) \in Nat
    BY <2>1
  <2>3. PICK x \in Nat, y \in Nat : x = index[from + n - 1] /\ y = Pow2[bits * (n - 1)]
    <3>1. Pow2[bits] \in Nat /\ Pow2[bits * (n - 1)] \in Nat
      BY <2>2, Powers
    <3> QED
      BY <3>1 DEF Entries
  <2>4. x * y \in Nat
    OBVIOUS
  <2> QED
    BY <2>3, <2>4, Zenon DEF Item
<1>2. F \in [Nat \X Nat -> Nat]
  BY <1>1
<1> HIDE DEF F
<1>3. PICK t : Recursive(Nat, 0, F, t, count)
  BY <1>2, RecursionExists
<1>4. t \in [0 .. count -> Nat] /\ t[0] = 0
  BY <1>3 DEF Recursive
<1>5. ASSUME NEW n \in 1 .. count PROVE t[n] = t[n - 1] + Item(bits, index, from, n)
  <2>1. n \in Nat /\ n - 1 \in 0 .. count
    OBVIOUS
  <2>2. <<t[n - 1], n>> \in Nat \X Nat
    BY <1>4, <2>1
  <2>3. t[n] = F[<<t[n - 1], n>>]
    BY <1>3 DEF Recursive
  <2> QED
    BY <2>2, <2>3 DEF F
<1>6. Is(t)
  <2>1. ASSUME NEW n \in 0 .. count
        PROVE  t[n] = IF n = 0 THEN 0 ELSE t[n - 1] + Item(bits, index, from, n)
    <3>1. CASE n = 0
      BY <1>4, <3>1
    <3>2. CASE n # 0
      <4>1. n \in 1 .. count
        BY <3>2
      <4> QED
        BY <1>5, <3>2, <4>1
    <3> QED
      BY <3>1, <3>2
  <2>2. t = [n \in 0 .. count |-> t[n]]
    BY <1>4
  <2> QED
    BY <2>1, <2>2
<1>7. Is(c)
  BY <1>6
<1>8. PackLong(bits, index, from, count) = c[count]
  BY DEF PackLong, Item
<1>9. Packing(bits, index, from, count, c)
  <2> HIDE DEF c
  <2>1. \A n \in 0 .. count : c[n] = IF n = 0 THEN 0 ELSE c[n - 1] + Item(bits, index, from, n)
    BY <1>7
  <2> QED
    BY <2>1 DEF Packing
<1> HIDE DEF c
<1> QED
  BY <1>8, <1>9

(* A multiple of V * B added to p leaves the digit of p at V, to base B.   *)
LEMMA AddHigh ==
  ASSUME NEW p \in Int, NEW y \in Int, NEW V \in Nat \ {0}, NEW B \in Nat \ {0}
  PROVE  ((p + (y * B) * V) \div V) % B = (p \div V) % B
<1>1. PICK q \in Int, r \in 0 .. V - 1 : q = p \div V /\ p = V * q + r
  BY DivMod
<1>2. PICK s \in Int, t \in 0 .. B - 1 : t = q % B /\ q = B * s + t
  BY DivMod
<1>3. q + y * B \in Int /\ p + (y * B) * V = V * (q + y * B) + r
  <2>1. PICK z \in Int : z = y * B
    OBVIOUS
  <2>2. z * V = V * z /\ V * (q + z) = V * q + V * z
    OBVIOUS
  <2>3. V * q \in Int /\ V * z \in Int
    OBVIOUS
  <2> QED
    BY <1>1, <2>1, <2>2, <2>3
<1>4. (p + (y * B) * V) \div V = q + y * B
  BY <1>3, DivUnique
<1>5. s + y \in Int /\ q + y * B = B * (s + y) + t
  <2>1. B * (s + y) = B * s + B * y /\ B * y = y * B /\ B * s \in Int /\ B * y \in Int
    OBVIOUS
  <2> QED
    BY <1>2, <2>1
<1>6. (q + y * B) % B = t
  BY <1>5, DivUnique
<1> QED
  BY <1>1, <1>2, <1>4, <1>6

(* A long gives its entries back.                                          *)
Holds(long, bits, index, from, count) ==
  /\ long \in 0 .. Pow2[bits * count] - 1
  /\ \A i \in 0 .. count - 1 : (long \div Pow2[bits * i]) % Pow2[bits] = index[from + i]

LEMMA PackedEntries ==
  ASSUME NEW bits \in Nat, NEW index, NEW from \in Nat, NEW count \in Nat, Entries(bits, index, from, count)
  PROVE  Holds(PackLong(bits, index, from, count), bits, index, from, count)
<1>1. PICK f : Packing(bits, index, from, count, f) /\ PackLong(bits, index, from, count) = f[count]
  BY PackIs
<1>2. PICK B \in Nat \ {0} : B = Pow2[bits]
  BY Powers
<1> DEFINE S == {n \in Nat : n <= count =>
                   /\ f[n] \in 0 .. Pow2[bits * n] - 1
                   /\ \A i \in 0 .. n - 1 : (f[n] \div Pow2[bits * i]) % B = index[from + i]}
<1>3. 0 \in S
  <2>1. Pow2[bits * 0] = 1
    <3>1. bits * 0 = 0
      OBVIOUS
    <3> QED
      BY <3>1, Powers
  <2>2. f[0] = 0
    BY <1>1 DEF Packing
  <2> QED
    BY <2>1, <2>2
<1>4. ASSUME NEW n \in Nat, n \in S, n + 1 <= count
      PROVE  /\ f[n + 1] \in 0 .. Pow2[bits * (n + 1)] - 1
             /\ \A i \in 0 .. n : (f[n + 1] \div Pow2[bits * i]) % B = index[from + i]
  <2>1. /\ n <= count /\ n + 1 \in 1 .. count /\ (n + 1) - 1 = n /\ from + (n + 1) - 1 = from + n
        /\ bits * n \in Nat /\ bits * (n + 1) = bits * n + bits
    BY <1>4
  <2>2. PICK U \in Nat \ {0} : U = Pow2[bits * n] /\ Pow2[bits * (n + 1)] = U * B
    <3>1. Pow2[bits * n] \in Nat \ {0}
      BY <2>1, Powers
    <3>2. Pow2[bits * n + bits] = Pow2[bits * n] * Pow2[bits]
      BY <2>1, PowSum
    <3> QED
      BY <1>2, <2>1, <3>1, <3>2
  <2>3. PICK p \in 0 .. U - 1 : p = f[n] /\ \A i \in 0 .. n - 1 : (p \div Pow2[bits * i]) % B = index[from + i]
    BY <1>4, <2>1, <2>2
  <2>4. PICK x \in 0 .. B - 1 : x = index[from + n]
    <3>1. index[from + (n + 1) - 1] \in 0 .. Pow2[bits] - 1
      BY <2>1 DEF Entries
    <3> QED
      BY <1>2, <2>1, <3>1
  <2>5. f[n + 1] = p + x * U
    <3>1. f[n + 1] = f[n] + Item(bits, index, from, n + 1)
      <4>1. f[n + 1] = f[(n + 1) - 1] + Item(bits, index, from, n + 1)
        BY <1>1, <2>1 DEF Packing
      <4> QED
        BY <2>1, <4>1
    <3>2. Item(bits, index, from, n + 1) = x * U
      BY <2>1, <2>2, <2>4 DEF Item
    <3> QED
      BY <2>3, <3>1, <3>2
  <2>6. p + x * U \in 0 .. U * B - 1
    <3>1. (x + 1) * U = x * U + U /\ x * U \in Nat /\ U * B = B * U
      OBVIOUS
    <3>2. (x + 1) * U <= B * U
      OBVIOUS
    <3>3. B * U \in Nat
      OBVIOUS
    <3> QED
      BY <3>1, <3>2, <3>3
  <2>7. ASSUME NEW i \in 0 .. n - 1 PROVE ((p + x * U) \div Pow2[bits * i]) % B = index[from + i]
    <3>1. /\ bits * i \in Nat /\ n - i - 1 \in Nat /\ bits * (n - i - 1) \in Nat
          /\ bits * n = (bits * i + bits) + bits * (n - i - 1) /\ bits * i + bits \in Nat
      <4>1. i \in Nat /\ n - i - 1 \in Nat
        OBVIOUS
      <4>2. PICK j \in Nat : j = n - i - 1
        BY <4>1
      <4>3. n = i + 1 + j
        BY <4>2
      <4>4. bits * (i + 1 + j) = (bits * i + bits) + bits * j /\ bits * i \in Nat /\ bits * j \in Nat
        BY <4>1
      <4> QED
        BY <4>1, <4>2, <4>3, <4>4
    <3>2. PICK V \in Nat \ {0}, C \in Nat : V = Pow2[bits * i] /\ C = Pow2[bits * (n - i - 1)]
      <4>1. Pow2[bits * i] \in Nat \ {0} /\ Pow2[bits * (n - i - 1)] \in Nat
        BY <3>1, Powers
      <4> QED
        BY <4>1
    <3>3. U = (V * B) * C
      <4>1. Pow2[bits * i + bits] = V * B
        BY <1>2, <3>1, <3>2, PowSum
      <4>2. Pow2[(bits * i + bits) + bits * (n - i - 1)] = Pow2[bits * i + bits] * Pow2[bits * (n - i - 1)]
        BY <3>1, PowSum
      <4> QED
        BY <2>2, <3>1, <3>2, <4>1, <4>2, Zenon
    <3>4. PICK z \in Int : x * U = (z * B) * V
      <4>1. x * ((V * B) * C) = ((x * C) * B) * V /\ x * C \in Int
        OBVIOUS
      <4> QED
        BY <3>3, <4>1
    <3>5. p \in Int
      OBVIOUS
    <3>6. ((p + (z * B) * V) \div V) % B = (p \div V) % B
      BY <3>5, AddHigh
    <3> QED
      BY <2>3, <3>2, <3>4, <3>6, Zenon
  <2>8. ((p + x * U) \div Pow2[bits * n]) % B = index[from + n]
    <3>1. p + x * U = U * x + p /\ x \in Int
      OBVIOUS
    <3>2. (U * x + p) \div U = x
      BY <3>1, DivUnique
    <3>3. x % B = x
      OBVIOUS
    <3> QED
      BY <2>2, <2>4, <3>1, <3>2, <3>3, Zenon
  <2>9. \A i \in 0 .. n : i \in 0 .. n - 1 \/ i = n
    OBVIOUS
  <2> QED
    BY <2>2, <2>5, <2>6, <2>7, <2>8, <2>9, Zenon
<1>5. ASSUME NEW n \in Nat, n \in S PROVE n + 1 \in S
  <2>1. (n + 1) - 1 = n /\ n + 1 \in Nat
    OBVIOUS
  <2> QED
    BY <1>4, <1>5, <2>1
<1> HIDE DEF S
<1>6. Nat \subseteq S
  BY <1>3, <1>5, SetInduction
<1>7. count \in S /\ count <= count
  BY <1>6
<1> QED
  BY <1>1, <1>2, <1>7 DEF S, Holds

LEMMA Divided ==
  ASSUME NEW a \in Int, NEW d \in Nat \ {0}
  PROVE  \E q \in Int, r \in 0 .. d - 1 : q = a \div d /\ r = a % d /\ a = d * q + r
BY DivMod

LEMMA AddMultiple ==
  ASSUME NEW z \in Int, NEW y \in Int, NEW B \in Nat \ {0}
  PROVE  (z + y * B) % B = z % B
<1>1. PICK s \in Int, t \in 0 .. B - 1 : t = z % B /\ z = B * s + t
  BY DivMod
<1>2. s + y \in Int /\ z + y * B = B * (s + y) + t
  <2>1. B * (s + y) = B * s + B * y /\ B * y = y * B /\ B * s \in Int /\ B * y \in Int
    OBVIOUS
  <2> QED
    BY <1>1, <2>1
<1> QED
  BY <1>1, <1>2, DivUnique

(* The digit of S at P * O, to base B, from the long of S at P: the digit  *)
(* lies in one long ...                                                    *)
HasDigit(Q, O, B) == \E C \in Nat \ {0} : Q = (O * B) * C
LEMMA DigitInLong ==
  ASSUME NEW S \in Int, NEW P \in Nat \ {0}, NEW O \in Nat \ {0}, NEW B \in Nat \ {0},
         NEW Q, HasDigit(Q, O, B)
  PROVE  (((S \div P) % Q) \div O) % B = (S \div (P * O)) % B
<1> PICK C \in Nat \ {0} : Q = (O * B) * C
  BY DEF HasDigit
<1>1. Q \in Nat \ {0}
  <2>1. O * B \in Nat \ {0}
    OBVIOUS
  <2> QED
    BY <2>1
<1>2. PICK X \in Int : X = S \div P
  BY DivMod
<1>3. PICK h \in Int, m \in 0 .. Q - 1 : h = X \div Q /\ m = X % Q /\ X = Q * h + m
  BY <1>1, Divided, Zenon
<1>4. PICK z \in Int : X = m + (z * B) * O
  <2>1. PICK z \in Int : z = h * C
    OBVIOUS
  <2>2. PICK t \in Int : t = (z * B) * O
    OBVIOUS
  <2>3. ((O * B) * C) * h = ((h * C) * B) * O
    OBVIOUS
  <2>4. X = t + m
    BY <1>3, <2>1, <2>2, <2>3, Zenon
  <2>5. t + m = m + t
    OBVIOUS
  <2> QED
    BY <2>2, <2>4, <2>5, Zenon
<1>5. m \in Int
  OBVIOUS
<1>6. (X \div O) % B = (m \div O) % B
  <2>1. ((m + (z * B) * O) \div O) % B = (m \div O) % B
    BY <1>5, AddHigh, Zenon
  <2> QED
    BY <1>4, <2>1, Zenon
<1>7. X \div O = S \div (P * O)
  BY <1>2, DivDiv
<1> QED
  BY <1>2, <1>3, <1>6, <1>7, Zenon

(* ... or its low part is the high end of one long and its high part the   *)
(* low end of the next.                                                    *)
Cut(Q, O, R, B) == Q = O * R /\ \E E \in Nat \ {0} : Q = B * E
JoinsTwo(S, P, Q, O, R, B) ==
  ((((S \div P) % Q) \div O) + ((S \div (P * Q)) % Q) * R) % B = (S \div (P * O)) % B
LEMMA DigitInTwo ==
  ASSUME NEW S \in Int, NEW P \in Nat \ {0}, NEW O \in Nat \ {0}, NEW B \in Nat \ {0},
         NEW R \in Nat \ {0}, NEW Q, Cut(Q, O, R, B)
  PROVE  JoinsTwo(S, P, Q, O, R, B)
<1> PICK E \in Nat \ {0} : Q = O * R /\ Q = B * E
  BY DEF Cut
<1>1. Q \in Nat \ {0}
  OBVIOUS
<1>2. PICK X \in Int : X = S \div P
  BY DivMod
<1>3. PICK h \in Int, m \in 0 .. Q - 1 : h = X \div Q /\ m = X % Q /\ X = Q * h + m
  BY <1>1, Divided, Zenon
<1>4. h = S \div (P * Q)
  BY <1>1, <1>2, <1>3, DivDiv
<1>5. PICK g \in Int, w \in 0 .. Q - 1 : g = h \div Q /\ w = h % Q /\ h = Q * g + w
  BY <1>1, Divided, Zenon
<1>6. PICK a \in Int, b \in 0 .. O - 1 : a = m \div O /\ b = m % O /\ m = O * a + b
  <2>1. m \in Int
    OBVIOUS
  <2> QED
    BY <2>1, Divided, Zenon
<1>7. R * h + a \in Int /\ X = O * (R * h + a) + b
  <2>1. PICK u \in Int : u = R * h
    OBVIOUS
  <2>2. (O * R) * h = O * (R * h)
    OBVIOUS
  <2>3. X = O * u + (O * a + b)
    BY <1>3, <1>6, <2>1, <2>2, Zenon
  <2>4. O * u + (O * a + b) = O * (u + a) + b /\ u + a \in Int
    <3>1. O * (u + a) = O * u + O * a /\ O * u \in Int /\ O * a \in Int
      OBVIOUS
    <3> QED
      BY <3>1
  <2> QED
    BY <2>1, <2>3, <2>4, Zenon
<1>8. X \div O = R * h + a
  BY <1>7, DivUnique
<1>9. PICK y \in Int : R * h + a = (a + w * R) + y * B
  <2>1. PICK y \in Int : y = (R * E) * g
    OBVIOUS
  <2>2. PICK u \in Int : u = (B * E) * g
    OBVIOUS
  <2>3. R * u = y * B
    <3>1. R * ((B * E) * g) = ((R * E) * g) * B
      OBVIOUS
    <3> QED
      BY <2>1, <2>2, <3>1, Zenon
  <2>4. h = u + w
    BY <1>5, <2>2, Zenon
  <2>5. R * (u + w) + a = (a + w * R) + R * u
    <3>1. R * (u + w) = R * u + w * R /\ R * u \in Int /\ w * R \in Int
      OBVIOUS
    <3> QED
      BY <3>1
  <2> QED
    BY <2>3, <2>4, <2>5, Zenon
<1>10. a + w * R \in Int
  OBVIOUS
<1>11. (R * h + a) % B = (a + w * R) % B
  <2>1. ((a + w * R) + y * B) % B = (a + w * R) % B
    BY <1>10, AddMultiple, Zenon
  <2> QED
    BY <1>9, <2>1, Zenon
<1>12. X \div O = S \div (P * O)
  BY <1>2, DivDiv
<1> QED
  BY <1>2, <1>3, <1>4, <1>5, <1>6, <1>8, <1>11, <1>12, Zenon DEF JoinsTwo

LEMMA CeilDivIs ==
  ASSUME NEW n \in Nat, NEW d \in Nat \ {0}
  PROVE  CeilDiv(n, d) \in Nat /\ \A j \in Nat : j < CeilDiv(n, d) <=> j * d < n
<1>1. PICK q \in Int : q = (n + d - 1) \div d
  BY DivMod
<1>2. \A r \in Int : q >= r <=> n + d - 1 >= r * d
  BY <1>1, DivBounds
<1>3. q >= 0
  BY <1>2
<1>4. ASSUME NEW j \in Nat PROVE j < q <=> j * d < n
  <2>1. q >= j + 1 <=> n + d - 1 >= (j + 1) * d
    BY <1>2
  <2>2. (j + 1) * d = j * d + d /\ j * d \in Int
    OBVIOUS
  <2> QED
    BY <2>1, <2>2
<1> QED
  BY <1>1, <1>3, <1>4 DEF CeilDiv

LEMMA ListOf ==
  ASSUME NEW S, NEW N \in Nat, NEW f, f = [k \in 1 .. N |-> f[k]], \A k \in 1 .. N : f[k] \in S
  PROVE  f \in Seq(S) /\ Len(f) = N
<1>1. f \in [1 .. N -> S]
  BY Zenon
<1> QED
  BY <1>1

(* Entries of a width, by their index.                                     *)
Fill(bits, index, n) == \A i \in 0 .. n - 1 : index[i] \in 0 .. Pow2[bits] - 1
Same(f, index, n) == f = [i \in 0 .. n - 1 |-> index[i]]

LEMMA PerLong ==
  ASSUME NEW bits \in 1 .. LongBits
  PROVE  LongBits \div bits \in Nat \ {0}
<1>1. bits \in Nat \ {0} /\ LongBits \in Nat /\ LongBits >= 1 * bits
  BY DecodeAssumption
<1> QED
  BY <1>1, DivBounds, DivMod

(* The length of an aligned array, and what it holds.                      *)
LEMMA AlignedArray ==
  ASSUME NEW bits \in 1 .. LongBits, NEW n \in Nat, NEW index, Fill(bits, index, n)
  PROVE  /\ PackAligned(bits, index, n) \in Seq(Nat)
         /\ Len(PackAligned(bits, index, n)) = CeilDiv(n, LongBits \div bits)
         /\ Same(Aligned(bits, PackAligned(bits, index, n), n), index, n)
<1>1. PICK per \in Nat \ {0} : per = LongBits \div bits
  BY PerLong
<1>2. PICK L \in Nat : L = CeilDiv(n, per) /\ \A j \in Nat : j < L <=> j * per < n
  BY <1>1, CeilDivIs
<1> DEFINE Count(k) == Min({per, n - (k - 1) * per})
           packed == [k \in 1 .. L |-> PackLong(bits, index, (k - 1) * per, Count(k))]
<1>3. PackAligned(bits, index, n) = packed
  BY <1>1, <1>2 DEF PackAligned
<1>4. ASSUME NEW k \in Nat, k < L
      PROVE  /\ PackLong(bits, index, k * per, Count(k + 1)) \in Nat
             /\ \A j \in 0 .. per - 1 : k * per + j < n =>
                  (PackLong(bits, index, k * per, Count(k + 1)) \div Pow2[bits * j]) % Pow2[bits] = index[k * per + j]
  <2>1. PICK from \in Nat : from = k * per
    OBVIOUS
  <2>2. from < n
    BY <1>2, <1>4, <2>1
  <2>3. n - from \in Nat
    BY <2>2
  <2>4. PICK count \in Nat : count = Min({per, n - from}) /\ count <= n - from /\ (count = per \/ count = n - from)
    BY <2>3, SmallerOf
  <2>5. Count(k + 1) = count
    <3>1. (k + 1) - 1 = k
      OBVIOUS
    <3> QED
      BY <2>1, <2>4, <3>1
  <2>6. Entries(bits, index, from, count)
    <3>1. ASSUME NEW m \in 1 .. count PROVE index[from + m - 1] \in 0 .. Pow2[bits] - 1
      <4>1. from + m - 1 \in 0 .. n - 1
        BY <2>4
      <4> QED
        BY <4>1 DEF Fill
    <3> QED
      BY <3>1 DEF Entries
  <2>7. bits \in Nat
    OBVIOUS
  <2>8. Holds(PackLong(bits, index, from, count), bits, index, from, count)
    BY <2>6, <2>7, PackedEntries
  <2>9. PackLong(bits, index, from, count) \in Nat
    <3>1. bits * count \in Nat
      BY <2>7
    <3>2. Pow2[bits * count] \in Nat
      BY <3>1, Powers
    <3> QED
      BY <2>8, <3>2 DEF Holds
  <2>10. \A j \in 0 .. per - 1 : from + j < n => j \in 0 .. count - 1
    BY <2>2, <2>4
  <2> QED
    BY <2>1, <2>5, <2>8, <2>9, <2>10, Zenon DEF Holds
<1> HIDE DEF Count
<1>5. ASSUME NEW k \in 1 .. L PROVE packed[k] \in Nat
  <2>1. k - 1 \in Nat /\ k - 1 < L /\ (k - 1) + 1 = k
    OBVIOUS
  <2>2. PackLong(bits, index, (k - 1) * per, Count(k)) \in Nat
    BY <1>4, <2>1
  <2> QED
    BY <2>2
<1>6. packed = [k \in 1 .. L |-> packed[k]]
  OBVIOUS
<1>7. packed \in Seq(Nat) /\ Len(packed) = L
  <2> HIDE DEF packed
  <2> QED
    BY <1>5, <1>6, ListOf
<1>8. ASSUME NEW i \in 0 .. n - 1
      PROVE  (Long(packed, i \div per) \div Pow2[bits * (i % per)]) % Pow2[bits] = index[i]
  <2>1. PICK k \in Int, j \in 0 .. per - 1 : k = i \div per /\ j = i % per /\ i = per * k + j
    <3>1. i \in Int
      OBVIOUS
    <3> QED
      BY <3>1, Divided
  <2>2. k \in Nat
    BY <2>1, DivBounds
  <2>3. k * per + j = i /\ k * per < n
    <3>1. per * k = k * per /\ k * per \in Int
      OBVIOUS
    <3> QED
      BY <2>1, <3>1
  <2>4. k < L
    BY <1>2, <2>2, <2>3
  <2>5. Long(packed, k) = PackLong(bits, index, k * per, Count(k + 1))
    <3>1. Long(packed, k) = packed[k + 1]
      <4> HIDE DEF packed
      <4> QED
        BY <1>7, <2>4 DEF Long
    <3>2. k + 1 \in 1 .. L /\ (k + 1) - 1 = k
      BY <2>2, <2>4
    <3>3. packed[k + 1] = PackLong(bits, index, ((k + 1) - 1) * per, Count(k + 1))
      BY <3>2
    <3> QED
      BY <3>1, <3>2, <3>3, Zenon
  <2>6. k * per + j < n
    BY <2>3
  <2>7. (PackLong(bits, index, k * per, Count(k + 1)) \div Pow2[bits * j]) % Pow2[bits] = index[k * per + j]
    BY <1>4, <2>2, <2>4, <2>6
  <2> QED
    BY <2>1, <2>3, <2>5, <2>7, Zenon
<1> HIDE DEF packed
<1>9. Same(Aligned(bits, packed, n), index, n)
  BY <1>1, <1>8 DEF Aligned, Same
<1> QED
  BY <1>1, <1>2, <1>3, <1>7, <1>9, Zenon

(* An array that is one stream of bits: N, cut into longs.                 *)
Streams(packed, N, L) ==
  /\ packed \in Seq(Nat) /\ Len(packed) = L
  /\ \A k \in Nat : k < L => Long(packed, k) = (N \div Pow2[LongBits * k]) % Pow2[LongBits]
StreamHolds(N, bits, index, n) ==
  \A i \in 0 .. n - 1 : (N \div Pow2[bits * i]) % Pow2[bits] = index[i]

LEMMA SpanningArray ==
  ASSUME NEW bits \in 1 .. LongBits, NEW n \in Nat, NEW index, Fill(bits, index, n)
  PROVE  \E N \in Nat : /\ Streams(PackSpanning(bits, index, n), N, CeilDiv(n * bits, LongBits))
                        /\ StreamHolds(N, bits, index, n)
<1>1. bits \in Nat /\ LongBits \in Nat \ {0} /\ n * bits \in Nat
  BY DecodeAssumption
<1>2. PICK L \in Nat : L = CeilDiv(n * bits, LongBits)
  BY <1>1, CeilDivIs
<1>3. Entries(bits, index, 0, n)
  <2>1. ASSUME NEW m \in 1 .. n PROVE index[0 + m - 1] \in 0 .. Pow2[bits] - 1
    <3>1. 0 + m - 1 \in 0 .. n - 1
      OBVIOUS
    <3> QED
      BY <3>1 DEF Fill
  <2> QED
    BY <2>1 DEF Entries
<1>4. PICK N \in Nat : N = PackLong(bits, index, 0, n) /\ Holds(N, bits, index, 0, n)
  <2>1. Holds(PackLong(bits, index, 0, n), bits, index, 0, n)
    BY <1>1, <1>3, PackedEntries
  <2>2. Pow2[bits * n] \in Nat
    <3>1. bits * n \in Nat
      BY <1>1
    <3> QED
      BY <3>1, Powers
  <2>3. PackLong(bits, index, 0, n) \in Nat
    BY <2>1, <2>2 DEF Holds
  <2> QED
    BY <2>1, <2>3
<1>5. StreamHolds(N, bits, index, n)
  <2>1. \A i \in 0 .. n - 1 : 0 + i = i
    OBVIOUS
  <2> QED
    BY <1>4, <2>1 DEF Holds, StreamHolds
<1> DEFINE packed == [k \in 1 .. L |-> (N \div Pow2[LongBits * (k - 1)]) % Pow2[LongBits]]
<1>6. PackSpanning(bits, index, n) = packed
  BY <1>2, <1>4 DEF PackSpanning
<1>7. ASSUME NEW k \in Nat PROVE (N \div Pow2[LongBits * k]) % Pow2[LongBits] \in Nat
  <2>1. LongBits * k \in Nat
    BY <1>1
  <2>2. PICK P \in Nat \ {0}, Q \in Nat \ {0} : P = Pow2[LongBits * k] /\ Q = Pow2[LongBits]
    BY <1>1, <2>1, Powers
  <2>3. (N \div P) % Q \in Nat
    <3>1. N \div P \in Int
      BY DivMod
    <3>2. (N \div P) % Q \in 0 .. Q - 1
      BY <3>1, DivMod
    <3> QED
      BY <3>2
  <2> QED
    BY <2>2, <2>3
<1>8. packed \in Seq(Nat) /\ Len(packed) = L
  <2>1. ASSUME NEW k \in 1 .. L PROVE packed[k] \in Nat
    <3>1. k - 1 \in Nat
      OBVIOUS
    <3> QED
      BY <1>7, <3>1
  <2>2. packed = [k \in 1 .. L |-> packed[k]]
    OBVIOUS
  <2> HIDE DEF packed
  <2> QED
    BY <2>1, <2>2, ListOf
<1>9. ASSUME NEW k \in Nat, k < L
      PROVE  Long(packed, k) = (N \div Pow2[LongBits * k]) % Pow2[LongBits]
  <2>1. Long(packed, k) = packed[k + 1]
    <3> HIDE DEF packed
    <3> QED
      BY <1>8, <1>9 DEF Long
  <2>2. k + 1 \in 1 .. L /\ (k + 1) - 1 = k
    BY <1>9
  <2> QED
    BY <2>1, <2>2
<1> HIDE DEF packed
<1>10. Streams(packed, N, L)
  BY <1>8, <1>9 DEF Streams
<1> QED
  BY <1>2, <1>5, <1>6, <1>10, Zenon

(* Every long an entry lies in is there.                                   *)
LEMMA LongsThere ==
  ASSUME NEW bits \in 1 .. LongBits, NEW n \in Nat, NEW i \in 0 .. n - 1, NEW k \in Nat,
         k * LongBits <= i * bits + bits - 1
  PROVE  k < CeilDiv(n * bits, LongBits)
<1>1. LongBits \in Nat \ {0} /\ bits \in Nat /\ n * bits \in Nat
  BY DecodeAssumption
<1>2. i * bits + bits <= n * bits
  <2>1. (i + 1) * bits = i * bits + bits /\ i + 1 <= n /\ i + 1 \in Nat
    BY <1>1
  <2>2. (i + 1) * bits <= n * bits
    BY <1>1, <2>1
  <2> QED
    BY <2>1, <2>2
<1>3. k * LongBits \in Nat /\ i * bits \in Nat
  BY <1>1
<1>4. k * LongBits < n * bits
  BY <1>1, <1>2, <1>3
<1> QED
  BY <1>1, <1>4, CeilDivIs

(* The code's place of an entry is its place in the stream.                *)
LEMMA SpanningReads ==
  ASSUME NEW bits \in 1 .. LongBits, NEW n \in Nat, NEW index, NEW packed, NEW N \in Nat,
         Streams(packed, N, CeilDiv(n * bits, LongBits)), StreamHolds(N, bits, index, n)
  PROVE  Same(Spanning(bits, packed, n), index, n)
<1>0. N \in Int
  OBVIOUS
<1>1. PICK LB \in Nat \ {0} : LB = LongBits /\ bits \in Nat \ {0} /\ bits <= LB
  BY DecodeAssumption
<1>2. ASSUME NEW i \in 0 .. n - 1 PROVE SpanningEntry(bits, packed, i * bits) = index[i]
  <2>1. PICK bit \in Nat : bit = i * bits /\ bit = bits * i
    <3>1. i * bits = bits * i /\ i * bits \in Nat
      BY <1>1
    <3> QED
      BY <3>1
  <2>2. PICK start \in Int, offset \in 0 .. LB - 1 :
          start = bit \div LB /\ offset = bit % LB /\ bit = LB * start + offset
    BY Divided
  <2>3. start \in Nat
    BY <1>1, <2>2, DivBounds
  <2>4. PICK A \in Nat : A = LB * start /\ A = start * LB
    BY <1>1, <2>3
  <2>5. bit = A + offset
    BY <2>2, <2>4
  <2>6. start < CeilDiv(n * bits, LongBits)
    <3>1. start * LongBits <= i * bits + bits - 1
      BY <1>1, <2>1, <2>4, <2>5
    <3> QED
      BY <2>3, <3>1, LongsThere
  <2>7. PICK P \in Nat \ {0}, O \in Nat \ {0}, B \in Nat \ {0}, Q \in Nat \ {0} :
          P = Pow2[A] /\ O = Pow2[offset] /\ B = Pow2[bits] /\ Q = Pow2[LB]
    <3>1. offset \in Nat
      OBVIOUS
    <3> QED
      BY <1>1, <3>1, Powers
  <2>8. Pow2[bit] = P * O
    <3>1. offset \in Nat
      OBVIOUS
    <3> QED
      BY <2>5, <2>7, <3>1, PowSum
  <2>9. (N \div (P * O)) % B = index[i]
    BY <2>1, <2>7, <2>8 DEF StreamHolds
  <2>10. Long(packed, start) = (N \div P) % Q
    BY <1>1, <2>3, <2>4, <2>6, <2>7 DEF Streams
  <2>11. CASE offset + bits <= LB
    <3>1. (bit + bits - 1) \div LB = start
      <4>1. bit + bits - 1 = LB * start + (offset + bits - 1) /\ offset + bits - 1 \in 0 .. LB - 1
        BY <1>1, <2>4, <2>5, <2>11
      <4> QED
        BY <2>3, <4>1, DivUnique
    <3>2. HasDigit(Q, O, B)
      <4>1. LB - (offset + bits) \in Nat /\ offset \in Nat /\ offset + bits \in Nat /\ LB = (offset + bits) + (LB - (offset + bits))
        BY <1>1, <2>11
      <4>2. Pow2[offset + bits] = O * B
        BY <1>1, <2>7, <4>1, PowSum
      <4>3. Pow2[(offset + bits) + (LB - (offset + bits))] = Pow2[offset + bits] * Pow2[LB - (offset + bits)]
        BY <4>1, PowSum
      <4>4. Pow2[LB - (offset + bits)] \in Nat \ {0}
        BY <4>1, Powers
      <4> QED
        BY <2>7, <4>1, <4>2, <4>3, <4>4, Zenon DEF HasDigit
    <3>3. (((N \div P) % Q) \div O) % B = (N \div (P * O)) % B
      BY <1>0, <3>2, DigitInLong
    <3>4. SpanningEntry(bits, packed, bit) = (Long(packed, start) \div O) % B
      BY <1>1, <2>2, <2>7, <3>1 DEF SpanningEntry
    <3> QED
      BY <2>1, <2>9, <2>10, <3>3, <3>4, Zenon
  <2>12. CASE offset + bits > LB
    <3>1. (bit + bits - 1) \div LB = start + 1
      <4>1. LB * (start + 1) = LB * start + LB
        BY <1>1, <2>3
      <4>2. bit + bits - 1 = LB * (start + 1) + (offset + bits - 1 - LB) /\ offset + bits - 1 - LB \in 0 .. LB - 1
        BY <1>1, <2>4, <2>5, <2>12, <4>1
      <4>3. start + 1 \in Int
        BY <2>3
      <4> QED
        BY <4>2, <4>3, DivUnique
    <3>2. PICK R \in Nat \ {0} : R = Pow2[LB - offset] /\ Q = O * R
      <4>1. LB - offset \in Nat /\ offset \in Nat /\ LB = offset + (LB - offset)
        BY <1>1
      <4>2. Pow2[offset + (LB - offset)] = Pow2[offset] * Pow2[LB - offset]
        BY <4>1, PowSum
      <4>3. Pow2[LB - offset] \in Nat \ {0}
        BY <4>1, Powers
      <4> QED
        BY <2>7, <4>1, <4>2, <4>3, Zenon
    <3>3. Cut(Q, O, R, B)
      <4>1. LB - bits \in Nat /\ bits \in Nat /\ LB = bits + (LB - bits)
        BY <1>1
      <4>2. Pow2[bits + (LB - bits)] = Pow2[bits] * Pow2[LB - bits]
        BY <4>1, PowSum
      <4>3. Pow2[LB - bits] \in Nat \ {0}
        BY <4>1, Powers
      <4> QED
        BY <2>7, <3>2, <4>1, <4>2, <4>3, Zenon DEF Cut
    <3>4. Long(packed, start + 1) = (N \div (P * Q)) % Q
      <4>1. start + 1 \in Nat /\ (start + 1) * LongBits = A + LB /\ LongBits * (start + 1) = A + LB
        BY <1>1, <2>3, <2>4
      <4>2. A + LB <= bit + bits - 1
        BY <1>1, <2>5, <2>12
      <4>3. (start + 1) * LongBits <= i * bits + bits - 1
        BY <2>1, <4>1, <4>2
      <4>4. start + 1 < CeilDiv(n * bits, LongBits)
        BY <4>1, <4>3, LongsThere
      <4>5. Pow2[A + LB] = P * Q
        BY <1>1, <2>7, PowSum
      <4>6. Long(packed, start + 1) = (N \div Pow2[LongBits * (start + 1)]) % Pow2[LongBits]
        BY <4>1, <4>4 DEF Streams
      <4> QED
        BY <1>1, <2>7, <4>1, <4>5, <4>6, Zenon
    <3>5. ((((N \div P) % Q) \div O) + ((N \div (P * Q)) % Q) * R) % B = (N \div (P * O)) % B
      <4>1. JoinsTwo(N, P, Q, O, R, B)
        BY <1>0, <3>3, DigitInTwo
      <4> QED
        BY <4>1, Zenon DEF JoinsTwo
    <3>6. start # start + 1
      BY <2>3
    <3>7. SpanningEntry(bits, packed, bit) = ((Long(packed, start) \div O) + Long(packed, start + 1) * R) % B
      BY <1>1, <2>2, <2>7, <3>1, <3>2, <3>6 DEF SpanningEntry
    <3> QED
      BY <2>1, <2>9, <2>10, <3>4, <3>5, <3>7, Zenon
  <2> QED
    BY <1>1, <2>11, <2>12
<1> QED
  BY <1>2 DEF Spanning, Same

(* Where the width divides a long, a stream is aligned too.                *)
LEMMA AlignedReads ==
  ASSUME NEW bits \in 1 .. LongBits, NEW n \in Nat, NEW index, NEW packed, NEW N \in Nat,
         Streams(packed, N, CeilDiv(n * bits, LongBits)), StreamHolds(N, bits, index, n),
         LongBits % bits = 0
  PROVE  Same(Aligned(bits, packed, n), index, n)
<1>0. N \in Int
  OBVIOUS
<1>1. PICK LB \in Nat \ {0} : LB = LongBits /\ bits \in Nat \ {0} /\ bits <= LB
  BY DecodeAssumption
<1>2. PICK per \in Nat \ {0} : per = LongBits \div bits /\ LB = bits * per
  <2>1. LB = bits * (LB \div bits) + (LB % bits) /\ LB \div bits \in Int
    BY <1>1, DivMod
  <2>2. LB \div bits \in Nat \ {0}
    BY <1>1, PerLong
  <2>3. PICK x \in Nat \ {0} : x = LB \div bits
    BY <2>2
  <2>4. bits * x \in Int /\ LB = bits * x + 0
    BY <1>1, <2>1, <2>3
  <2> QED
    BY <1>1, <2>3, <2>4
<1>3. ASSUME NEW i \in 0 .. n - 1
      PROVE  (Long(packed, i \div per) \div Pow2[bits * (i % per)]) % Pow2[bits] = index[i]
  <2>1. PICK k \in Int, j \in 0 .. per - 1 : k = i \div per /\ j = i % per /\ i = per * k + j
    <3>1. i \in Int
      OBVIOUS
    <3> QED
      BY <3>1, Divided
  <2>2. k \in Nat /\ j \in Nat
    BY <2>1, DivBounds
  <2>3. PICK A \in Nat, D \in Nat : A = LB * k /\ A = k * LB /\ D = bits * j
    <3>1. LB * k = k * LB /\ LB * k \in Nat /\ bits * j \in Nat
      BY <1>1, <2>2
    <3> QED
      BY <3>1
  <2>4. bits * i = A + D /\ i * bits = A + D
    <3>1. bits * (per * k + j) = (bits * per) * k + bits * j
      BY <1>1, <2>2
    <3>2. bits * i = i * bits
      BY <1>1
    <3> QED
      BY <1>2, <2>1, <2>3, <3>1, <3>2, Zenon
  <2>5. k < CeilDiv(n * bits, LongBits)
    <3>1. A <= (A + D) + bits - 1
      BY <1>1
    <3>2. k * LongBits <= i * bits + bits - 1
      BY <1>1, <2>3, <2>4, <3>1
    <3> QED
      BY <2>2, <3>2, LongsThere
  <2>6. PICK P \in Nat \ {0}, O \in Nat \ {0}, B \in Nat \ {0}, Q \in Nat \ {0} :
          P = Pow2[A] /\ O = Pow2[D] /\ B = Pow2[bits] /\ Q = Pow2[LB]
    BY <1>1, Powers
  <2>7. (N \div (P * O)) % B = index[i]
    <3>1. Pow2[A + D] = P * O
      BY <2>6, PowSum
    <3>2. (N \div Pow2[bits * i]) % Pow2[bits] = index[i]
      BY DEF StreamHolds
    <3> QED
      BY <2>4, <2>6, <3>1, <3>2, Zenon
  <2>8. Long(packed, k) = (N \div P) % Q
    BY <1>1, <2>2, <2>3, <2>5, <2>6 DEF Streams
  <2>9. HasDigit(Q, O, B)
    <3>1. PICK F \in Nat : F = bits * (per - 1 - j)
      <4>1. per - 1 - j \in Nat
        BY <2>2
      <4> QED
        BY <1>1, <4>1
    <3>2. LB = (D + bits) + F
      <4>1. PICK e \in Nat : e = per - 1 - j
        BY <2>2
      <4>2. per = (j + 1) + e
        BY <4>1
      <4>3. bits * ((j + 1) + e) = (bits * j + bits) + bits * e
        BY <1>1, <2>2
      <4> QED
        BY <1>2, <2>3, <3>1, <4>1, <4>2, <4>3, Zenon
    <3>3. D + bits \in Nat /\ bits \in Nat
      BY <1>1
    <3>4. Pow2[D + bits] = O * B /\ Pow2[(D + bits) + F] = Pow2[D + bits] * Pow2[F]
      BY <2>6, <3>3, PowSum
    <3>5. Pow2[F] \in Nat \ {0}
      BY Powers
    <3> QED
      BY <2>6, <3>2, <3>4, <3>5, Zenon DEF HasDigit
  <2>10. (((N \div P) % Q) \div O) % B = (N \div (P * O)) % B
    BY <1>0, <2>9, DigitInLong
  <2> QED
    BY <2>1, <2>3, <2>6, <2>7, <2>8, <2>10, Zenon
<1> QED
  BY <1>2, <1>3 DEF Aligned, Same

LEMMA WidthIs ==
  ASSUME NEW names, IsPalette(names), Len(names) > 1, NEW least \in 1 .. LongBits
  PROVE  BitsFor(Len(names), least) \in least .. LongBits /\ Len(names) <= Pow2[BitsFor(Len(names), least)]
<1> DEFINE S == {b \in least .. LongBits : Len(names) <= Pow2[b]}
<1>1. Len(names) \in Nat /\ Len(names) <= Pow2[LongBits] /\ LongBits \in Nat /\ least \in Nat /\ least <= LongBits
  <2>1. LongBits \in Nat
    BY DecodeAssumption
  <2>2. Pow2[LongBits] \in Nat
    BY <2>1, Powers
  <2> QED
    BY <2>1, <2>2 DEF IsPalette
<1>2. BitsFor(Len(names), least) = Min(S)
  BY <1>1 DEF BitsFor
<1>3. S \in SUBSET Int /\ S # {} /\ \A x \in S : least <= x
  <2>1. LongBits \in S
    BY <1>1
  <2> QED
    BY <1>1, <2>1
<1>4. Min(S) \in S
  <2> HIDE DEF S
  <2> QED
    BY <1>1, <1>3, LeastOf
<1> QED
  BY <1>2, <1>4

(* The parser computes the width the game packed with.                     *)
LEMMA SameWidth ==
  ASSUME NEW names, Len(names) \in Nat, Len(names) > 1, NEW least
  PROVE  SavedBits(names, least) = BitsFor(Len(names), least)
BY DEF SavedBits, BitsFor

(* The length alone tells how the blocks of a section were packed.         *)
LEMMA UnpackedBlocks ==
  ASSUME NEW bits \in MinBits .. LongBits, NEW index \in [BlockIdx -> Nat], Fill(bits, index, Blocks),
         NEW packed \in {PackAligned(bits, index, Blocks), PackSpanning(bits, index, Blocks)}
  PROVE  Unpack4096(bits, packed) = index
<1>1. bits \in 1 .. LongBits /\ Blocks \in Nat /\ bits # 0 /\ MinBits >= 1 /\ Blocks > 0 /\ Blocks * bits > 0 /\ Blocks * bits \in Nat
  BY DecodeAssumption
<1>2. PICK per \in Nat \ {0} : per = LongBits \div bits
  BY <1>1, PerLong
<1>3. index = [i \in 0 .. Blocks - 1 |-> index[i]]
  BY DEF BlockIdx
<1>4. 0 < CeilDiv(Blocks, per) /\ 0 < CeilDiv(Blocks * bits, LongBits)
  <2>1. 0 * per < Blocks /\ 0 * LongBits < Blocks * bits /\ LongBits \in Nat \ {0}
    BY <1>1, DecodeAssumption
  <2> QED
    BY <1>1, <1>2, <2>1, CeilDivIs
<1>5. CASE packed = PackAligned(bits, index, Blocks)
  <2>1. /\ packed \in Seq(Nat) /\ Len(packed) = CeilDiv(Blocks, LongBits \div bits)
        /\ Same(Aligned(bits, packed, Blocks), index, Blocks)
    BY <1>1, <1>5, AlignedArray
  <2>2. packed # <<>>
    BY <1>2, <1>4, <2>1
  <2>3. IsAligned(bits, packed)
    <3>1. CeilDiv(Blocks, LongBits \div bits) \in Nat
      BY <1>1, <1>2, CeilDivIs
    <3> QED
      BY <2>1, <3>1 DEF IsAligned
  <2> QED
    BY <1>1, <1>3, <2>1, <2>2, <2>3, Zenon DEF Unpack4096, Same
<1>6. CASE packed = PackSpanning(bits, index, Blocks)
  <2>1. PICK N \in Nat : Streams(packed, N, CeilDiv(Blocks * bits, LongBits)) /\ StreamHolds(N, bits, index, Blocks)
    BY <1>1, <1>6, SpanningArray
  <2>2. packed \in Seq(Nat) /\ Len(packed) = CeilDiv(Blocks * bits, LongBits)
    BY <2>1 DEF Streams
  <2>3. packed # <<>>
    BY <1>4, <2>2
  <2>4. CASE IsAligned(bits, packed)
    <3>1. LongBits % bits = 0
      <4>1. CeilDiv(Blocks, LongBits \div bits) \in Nat /\ CeilDiv(Blocks * bits, LongBits) \in Nat
        <5>1. LongBits \in Nat \ {0}
          BY DecodeAssumption
        <5> QED
          BY <1>1, <1>2, <5>1, CeilDivIs
      <4>2. ~(CeilDiv(Blocks * bits, LongBits) < CeilDiv(Blocks, LongBits \div bits))
        BY <2>2, <2>4, <4>1 DEF IsAligned
      <4> QED
        BY <4>2, DecodeAssumption
    <3>2. Same(Aligned(bits, packed, Blocks), index, Blocks)
      BY <1>1, <2>1, <3>1, AlignedReads
    <3> QED
      BY <1>1, <1>3, <2>3, <2>4, <3>2, Zenon DEF Unpack4096, Same
  <2>5. CASE ~IsAligned(bits, packed)
    <3>1. Same(Spanning(bits, packed, Blocks), index, Blocks)
      BY <1>1, <2>1, SpanningReads
    <3> QED
      BY <1>1, <1>3, <2>3, <2>5, <3>1, Zenon DEF Unpack4096, Same
  <2> QED
    BY <2>4, <2>5
<1> QED
  BY <1>5, <1>6

LEMMA UnpackedCells ==
  ASSUME NEW bits \in 1 .. LongBits, NEW cells \in [Cells -> Nat], Fill(bits, cells, BiomeCells)
  PROVE  Unpack64(bits, PackAligned(bits, cells, BiomeCells)) = cells
<1> DEFINE packed == PackAligned(bits, cells, BiomeCells)
<1>1. BiomeCells \in Nat /\ BiomeCells > 0 /\ bits # 0
  BY DecodeAssumption
<1>2. PICK per \in Nat \ {0} : per = LongBits \div bits
  BY PerLong
<1>3. cells = [i \in 0 .. BiomeCells - 1 |-> cells[i]]
  BY DEF Cells
<1>4. /\ packed \in Seq(Nat) /\ Len(packed) = CeilDiv(BiomeCells, LongBits \div bits)
      /\ Same(Aligned(bits, packed, BiomeCells), cells, BiomeCells)
  BY <1>1, AlignedArray
<1>5. packed # <<>>
  <2>1. 0 * per < BiomeCells
    BY <1>1
  <2>2. 0 < CeilDiv(BiomeCells, per)
    BY <1>1, <2>1, CeilDivIs
  <2> HIDE DEF packed
  <2> QED
    BY <1>2, <1>4, <2>2
<1> HIDE DEF packed
<1>6. Unpack64(bits, packed) = cells
  BY <1>1, <1>3, <1>4, <1>5, Zenon DEF Unpack64, Same
<1> QED
  BY <1>6 DEF packed

-----------------------------------------------------------------------------
(***************************************************************************)
(* SectionDecode: sections.                                                *)
(***************************************************************************)
SectionOf(s, names, indices, section) ==
  /\ section.is_empty_air = FALSE
  /\ section.palette = names
  /\ section.block_indices = indices
  /\ s.biomes # Absent /\ s.biomes.palette # <<>> =>
       /\ section.biomes = s.biomes.palette
       /\ section.biome_indices = IF s.biomes.data = Absent THEN Zeros(BiomeCells)
                                  ELSE Unpack64(BiomeBits(s.biomes.palette), s.biomes.data)

LEMMA SectionIs ==
  ASSUME NEW s, NEW names, NEW indices, NEW section, section = Section(s, names, indices)
  PROVE  SectionOf(s, names, indices, section)
<1> DEFINE base == [EmptyAir(s) EXCEPT !.is_empty_air = FALSE, !.palette = names, !.block_indices = indices]
<1>1. base = [y |-> s.y, is_empty_air |-> FALSE, palette |-> names, block_indices |-> indices,
              biomes |-> <<>>, biome_indices |-> Zeros(BiomeCells)]
  <2>1. PICK start : start = EmptyAir(s)
    OBVIOUS
  <2>2. start = [y |-> s.y, is_empty_air |-> TRUE, palette |-> <<>>, block_indices |-> Zeros(Blocks),
                 biomes |-> <<>>, biome_indices |-> Zeros(BiomeCells)]
    BY <2>1 DEF EmptyAir
  <2>3. base = [start EXCEPT !.is_empty_air = FALSE, !.palette = names, !.block_indices = indices]
    BY <2>1
  <2> HIDE DEF base
  <2> QED
    BY <2>2, <2>3
<1>2. section = WithBiomes(s, base)
  BY DEF Section
<1> HIDE DEF base
<1>3. CASE s.biomes = Absent
  BY <1>1, <1>2, <1>3 DEF WithBiomes, SectionOf
<1>4. CASE s.biomes # Absent
  <2> DEFINE listed == IF s.biomes.palette = <<>> THEN <<"plains">> ELSE s.biomes.palette
             chosen == IF s.biomes.data = Absent THEN Zeros(BiomeCells)
                       ELSE Unpack64(BiomeBits(listed), s.biomes.data)
  <2>1. section = [y |-> s.y, is_empty_air |-> FALSE, palette |-> names, block_indices |-> indices,
                   biomes |-> listed, biome_indices |-> chosen]
    <3>1. section = [base EXCEPT !.biomes = listed,
                       !.biome_indices = IF s.biomes.data = Absent THEN @
                                         ELSE Unpack64(BiomeBits(listed), s.biomes.data)]
      BY <1>2, <1>4 DEF WithBiomes
    <3> HIDE DEF listed
    <3> QED
      BY <1>1, <3>1
  <2> HIDE DEF listed, chosen
  <2>2. /\ section.is_empty_air = FALSE /\ section.palette = names /\ section.block_indices = indices
        /\ section.biomes = listed /\ section.biome_indices = chosen
    BY <2>1
  <2>3. s.biomes.palette # <<>> => listed = s.biomes.palette
    BY DEF listed
  <2> QED
    BY <2>2, <2>3 DEF chosen, SectionOf
<1> QED
  BY <1>3, <1>4

LEMMA PaletteSize ==
  ASSUME NEW names, IsPalette(names)
  PROVE  Len(names) \in Nat /\ Len(names) >= 1 /\ Len(names) <= Pow2[LongBits] /\ names # <<>>
<1>1. LongBits \in Nat
  BY DecodeAssumption
<1>2. Pow2[LongBits] \in Nat
  BY <1>1, Powers
<1>3. Len(names) \in Nat /\ Len(names) >= 1 /\ Len(names) <= Pow2[LongBits]
  BY <1>2 DEF IsPalette
<1> QED
  BY <1>3

(* One name: no bits, and 0 at every place.                                *)
LEMMA OneName ==
  ASSUME NEW names, IsPalette(names), Len(names) <= 1, NEW n, NEW index \in [0 .. n - 1 -> 0 .. Len(names) - 1], NEW least
  PROVE  BitsFor(Len(names), least) = 0 /\ Len(names) = 1 /\ Zeros(n) = index
<1>1. Len(names) = 1
  <2>1. Len(names) \in Nat /\ Len(names) >= 1
    BY PaletteSize, Zenon
  <2>2. \A k \in Nat : k >= 1 /\ k <= 1 => k = 1
    OBVIOUS
  <2> QED
    BY <2>1, <2>2, Zenon
<1>2. index = [i \in 0 .. n - 1 |-> 0]
  BY <1>1
<1> QED
  BY <1>1, <1>2 DEF BitsFor, Zeros

LEMMA IndexFits ==
  ASSUME NEW names, IsPalette(names), Len(names) > 1, NEW n, NEW index \in [0 .. n - 1 -> 0 .. Len(names) - 1],
         NEW least \in 1 .. LongBits
  PROVE  /\ BitsFor(Len(names), least) \in least .. LongBits
         /\ index \in [0 .. n - 1 -> Nat]
         /\ Fill(BitsFor(Len(names), least), index, n)
<1>1. PICK bits \in least .. LongBits : bits = BitsFor(Len(names), least) /\ Len(names) <= Pow2[bits]
  BY WidthIs
<1>2. bits \in Nat
  BY DecodeAssumption
<1>3. Pow2[bits] \in Nat /\ Len(names) \in Nat
  BY <1>2, PaletteSize, Powers
<1>4. ASSUME NEW i \in 0 .. n - 1 PROVE index[i] \in Nat /\ index[i] \in 0 .. Pow2[bits] - 1
  <2>1. index[i] \in 0 .. Len(names) - 1
    OBVIOUS
  <2> QED
    BY <1>1, <1>3, <2>1
<1> QED
  BY <1>1, <1>4 DEF Fill

(* The biomes of a section, and the blocks of one with a palette.          *)
BiomesAsSaved(s, section) ==
  ~section.is_empty_air /\ s.biomes # Absent =>
    \A i \in Cells : PointsTo(section.biomes, section.biome_indices[i], s.saved_biomes[i])
BlocksAsSaved(s, section) == \A i \in BlockIdx : BlockIs(section, i, s.saved[i])

(* The name at an index of a palette.                                      *)
LEMMA InPalette ==
  ASSUME NEW names, IsPalette(names), NEW k \in 0 .. Len(names) - 1
  PROVE  PointsTo(names, k, names[k + 1])
<1>1. DOMAIN names = 1 .. Len(names) /\ Len(names) \in Nat
  BY DEF IsPalette
<1>2. k + 1 \in 1 .. Len(names)
  BY <1>1
<1> QED
  BY <1>1, <1>2 DEF PointsTo

LEMMA BiomesRead ==
  ASSUME NEW s, WrittenBiomes(s), NEW names, NEW indices, NEW section, section = Section(s, names, indices)
  PROVE  BiomesAsSaved(s, section)
<1> SUFFICES ASSUME s.biomes # Absent
             PROVE  \A i \in Cells : PointsTo(section.biomes, section.biome_indices[i], s.saved_biomes[i])
  BY DEF BiomesAsSaved
<1> DEFINE listed == s.biomes.palette
           data == s.biomes.data
           cells == s.cells
<1>1. /\ IsPalette(listed) /\ cells \in [Cells -> 0 .. Len(listed) - 1]
      /\ s.saved_biomes = [i \in Cells |-> listed[cells[i] + 1]]
      /\ Len(listed) > 1 => data # Absent /\ data = PackAligned(SavedBits(listed, 1), cells, BiomeCells)
  BY DEF WrittenBiomes, IsArray
<1>2. Len(listed) \in Nat /\ listed # <<>>
  BY <1>1, PaletteSize, Zenon
<1>3. /\ section.biomes = listed
      /\ section.biome_indices = IF data = Absent THEN Zeros(BiomeCells) ELSE Unpack64(BiomeBits(listed), data)
  <2>1. SectionOf(s, names, indices, section)
    BY SectionIs, Zenon
  <2> QED
    BY <1>2, <2>1 DEF SectionOf
<1> HIDE DEF listed, data, cells
<1>4. cells \in [0 .. BiomeCells - 1 -> 0 .. Len(listed) - 1] /\ 1 \in 1 .. LongBits
  <2>1. 1 \in 1 .. LongBits
    BY DecodeAssumption
  <2> QED
    BY <1>1, <2>1 DEF Cells
<1>5. section.biome_indices = cells
  <2>1. CASE Len(listed) > 1
    <3>1. /\ BiomeBits(listed) \in 1 .. LongBits
          /\ cells \in [0 .. BiomeCells - 1 -> Nat] /\ Fill(BiomeBits(listed), cells, BiomeCells)
      BY <1>1, <1>4, <2>1, IndexFits DEF BiomeBits
    <3>2. Unpack64(BiomeBits(listed), PackAligned(BiomeBits(listed), cells, BiomeCells)) = cells
      BY <3>1, UnpackedCells DEF Cells
    <3>3. SavedBits(listed, 1) = BiomeBits(listed)
      BY <1>2, <2>1, SameWidth DEF BiomeBits
    <3> QED
      BY <1>1, <1>3, <2>1, <3>2, <3>3
  <2>2. CASE Len(listed) <= 1
    <3>1. BiomeBits(listed) = 0 /\ Zeros(BiomeCells) = cells
      BY <1>1, <1>4, <2>2, OneName DEF BiomeBits
    <3> QED
      BY <1>3, <3>1 DEF Unpack64
  <2> QED
    BY <1>2, <2>1, <2>2
<1>6. ASSUME NEW i \in Cells PROVE PointsTo(listed, cells[i], s.saved_biomes[i])
  <2>1. cells[i] \in 0 .. Len(listed) - 1 /\ s.saved_biomes[i] = listed[cells[i] + 1]
    BY <1>1
  <2> QED
    BY <1>1, <2>1, InPalette
<1> QED
  BY <1>3, <1>5, <1>6

(* The decoded indices are those saved, in either packing.                 *)
LEMMA PaletteRead ==
  ASSUME NEW s, NEW names, NEW data, Named(s, names), WrittenBiomes(s),
         IsArray(names, data, {PackAligned(SavedBits(names, MinBits), s.index, Blocks),
                               PackSpanning(SavedBits(names, MinBits), s.index, Blocks)}),
         NEW section, section = FromPalette(s, names, data)
  PROVE  BlocksAsSaved(s, section) /\ BiomesAsSaved(s, section) /\ section.block_indices = s.index
<1>1. /\ IsPalette(names)
      /\ s.index \in [0 .. Blocks - 1 -> 0 .. Len(names) - 1]
      /\ s.saved = [i \in BlockIdx |-> IF OnlyAir(names) THEN "air" ELSE names[s.index[i] + 1]]
  BY DEF Named, BlockIdx
<1>2. Len(names) \in Nat /\ Len(names) >= 1 /\ names # <<>> /\ MinBits \in 1 .. LongBits
  <2>1. MinBits \in 1 .. LongBits
    BY DecodeAssumption
  <2> QED
    BY <1>1, <2>1, PaletteSize, Zenon
<1>3. CASE OnlyAir(names)
  <2>1. Len(names) <= 1
    BY <1>2, <1>3 DEF OnlyAir
  <2>2. Zeros(Blocks) = s.index
    BY <1>1, <2>1, OneName
  <2>3. section.is_empty_air = TRUE /\ section.block_indices = Zeros(Blocks)
    BY <1>3 DEF FromPalette, EmptyAir
  <2> QED
    BY <1>1, <1>3, <2>2, <2>3 DEF BlocksAsSaved, BiomesAsSaved, BlockIs
<1>4. CASE ~OnlyAir(names)
  <2> DEFINE indices == IF data = Absent THEN Zeros(Blocks) ELSE Unpack4096(BlockBits(names), data)
  <2>1. section = Section(s, names, indices)
    BY <1>4 DEF FromPalette
  <2>2. indices = s.index
    <3>1. CASE Len(names) > 1
      <4>1. PICK index : index = s.index
        OBVIOUS
      <4>2. PICK bits : bits = BlockBits(names) /\ bits = SavedBits(names, MinBits)
        BY <1>2, <3>1, SameWidth DEF BlockBits
      <4>3. bits \in MinBits .. LongBits /\ index \in [BlockIdx -> Nat] /\ Fill(bits, index, Blocks)
        <5>1. index \in [0 .. Blocks - 1 -> 0 .. Len(names) - 1]
          BY <1>1, <4>1
        <5>2. bits = BitsFor(Len(names), MinBits)
          BY <4>2 DEF BlockBits
        <5> QED
          BY <1>1, <1>2, <3>1, <5>1, <5>2, IndexFits DEF BlockIdx
      <4>4. data # Absent /\ data \in {PackAligned(bits, index, Blocks), PackSpanning(bits, index, Blocks)}
        BY <3>1, <4>1, <4>2 DEF IsArray
      <4>5. Unpack4096(bits, data) = index
        BY <4>3, <4>4, UnpackedBlocks
      <4> QED
        BY <4>1, <4>2, <4>4, <4>5
    <3>2. CASE Len(names) <= 1
      <4>1. BlockBits(names) = 0 /\ Zeros(Blocks) = s.index
        BY <1>1, <3>2, OneName DEF BlockBits
      <4> QED
        BY <4>1 DEF Unpack4096
    <3> QED
      BY <1>2, <3>1, <3>2
  <2> HIDE DEF indices
  <2>3. section.is_empty_air = FALSE /\ section.palette = names /\ section.block_indices = s.index
    <3>1. SectionOf(s, names, indices, section)
      BY <2>1, SectionIs, Zenon
    <3> QED
      BY <2>2, <3>1 DEF SectionOf
  <2>4. BiomesAsSaved(s, section)
    BY <2>1, BiomesRead
  <2>5. ASSUME NEW i \in BlockIdx PROVE PointsTo(names, s.index[i], s.saved[i])
    <3>1. s.index[i] \in 0 .. Len(names) - 1
      BY <1>1 DEF BlockIdx
    <3>2. s.saved[i] = names[s.index[i] + 1]
      BY <1>1, <1>4
    <3> QED
      BY <1>1, <3>1, <3>2, InPalette
  <2> QED
    BY <1>1, <1>4, <2>3, <2>4, <2>5 DEF BlocksAsSaved, BlockIs
<1> QED
  BY <1>3, <1>4

(* Half-bytes.                                                             *)
LEMMA HalfOf ==
  ASSUME NEW f \in [BlockIdx -> HalfBytes], NEW i \in BlockIdx
  PROVE  Nibble(Halves(f), i) = f[i]
<1>1. PICK H \in Int, z \in 0 .. 1 : H = Blocks \div 2 /\ z = Blocks % 2 /\ Blocks = 2 * H + z
  <2>1. Blocks \in Int
    BY DecodeAssumption
  <2>2. PICK H \in Int, z \in 0 .. 2 - 1 : H = Blocks \div 2 /\ z = Blocks % 2 /\ Blocks = 2 * H + z
    BY <2>1, Divided
  <2> QED
    BY <2>2
<1>2. Blocks = 2 * H /\ H \in Nat
  <2>1. z = 0
    BY <1>1, DecodeAssumption
  <2>2. Blocks \in Nat
    BY DecodeAssumption
  <2> QED
    BY <1>1, <2>1, <2>2
<1>3. i \in Int /\ i >= 0 /\ i < 2 * H
  BY <1>2 DEF BlockIdx
<1>4. PICK q \in Int, r \in 0 .. 1 : q = i \div 2 /\ r = i % 2 /\ i = 2 * q + r
  <2>1. PICK q \in Int, r \in 0 .. 2 - 1 : q = i \div 2 /\ r = i % 2 /\ i = 2 * q + r
    BY <1>3, Divided
  <2> QED
    BY <2>1
<1>5. q \in Nat /\ q < H /\ q + 1 \in 1 .. H
  BY <1>2, <1>3, <1>4
<1> DEFINE bytes == [n \in 1 .. H |-> f[2 * n - 2] + 16 * f[2 * n - 1]]
<1>6. Halves(f) = bytes
  BY <1>1 DEF Halves
<1>7. PICK a \in 0 .. 15, b \in 0 .. 15 : a = f[2 * q] /\ b = f[2 * q + 1]
  <2>1. 2 * q \in BlockIdx /\ 2 * q + 1 \in BlockIdx
    BY <1>2, <1>5 DEF BlockIdx
  <2> QED
    BY <2>1 DEF HalfBytes
<1>8. Len(bytes) = H /\ bytes[q + 1] = a + 16 * b
  <2>1. 2 * (q + 1) - 2 = 2 * q /\ 2 * (q + 1) - 1 = 2 * q + 1
    BY <1>5
  <2>2. bytes[q + 1] = f[2 * (q + 1) - 2] + 16 * f[2 * (q + 1) - 1]
    BY <1>5
  <2>3. Len(bytes) = H
    BY <1>2
  <2> QED
    BY <1>7, <2>1, <2>2, <2>3
<1>9. (a + 16 * b) % 16 = a /\ (a + 16 * b) \div 16 = b
  OBVIOUS
<1> HIDE DEF bytes
<1>10. ~(i \div 2 >= Len(bytes))
  BY <1>2, <1>4, <1>5, <1>8
<1>11. Nibble(bytes, i) = IF r = 0 THEN a ELSE b
  BY <1>4, <1>8, <1>9, <1>10 DEF Nibble
<1>12. f[i] = IF r = 0 THEN a ELSE b
  <2>1. r = 0 \/ r = 1
    OBVIOUS
  <2>2. r = 0 => i = 2 * q
    BY <1>4
  <2>3. r = 1 => i = 2 * q + 1
    BY <1>4
  <2> QED
    BY <1>7, <2>1, <2>2, <2>3
<1> QED
  BY <1>6, <1>11, <1>12

LEMMA NoHalves ==
  ASSUME NEW i \in BlockIdx
  PROVE  Nibble(<<>>, i) = 0
<1>1. i \in Int /\ i >= 0
  BY DecodeAssumption DEF BlockIdx
<1>2. i \div 2 >= 0 /\ Len(<<>>) = 0
  BY <1>1
<1> QED
  BY <1>2 DEF Nibble

(* The name of a numeric block, also where the sign of its low byte spoils *)
(* the id: no id with such a byte has an entry.                            *)
IdIs(id, high, low) == id = high * 256 + low
LEMMA IdParts ==
  ASSUME NEW id \in NumericIds
  PROVE  /\ id \div 256 \in HalfBytes /\ id % 256 \in 0 .. 255 /\ id \in Int
         /\ IdIs(id, id \div 256, id % 256)
         /\ id < 256 => id \div 256 = 0
BY DEF NumericIds, HalfBytes, IdIs

SignedId(high, low) == IF low >= 128 THEN low + 65280 ELSE high * 256 + low
LEMMA SignedIdNamed ==
  ASSUME NEW id \in NumericIds, NEW high \in HalfBytes, NEW low \in 0 .. 255, IdIs(id, high, low), NEW meta
  PROVE  legacy_id_to_name(SignedId(high, low), meta) = legacy_id_to_name(id, meta)
<1>1. id \in Int /\ high \in Int /\ high >= 0 /\ low \in Int
  BY DEF NumericIds, HalfBytes
<1>2. CASE low >= 128
  <2>1. PICK read \in Int : read = SignedId(high, low) /\ read > 17
    BY <1>1, <1>2 DEF SignedId
  <2>2. id > 17
    BY <1>1, <1>2 DEF IdIs
  <2>3. \A n \in Int : n > 17 => legacy_id_to_name(n, meta) = "stone"
    BY DEF legacy_id_to_name
  <2>4. legacy_id_to_name(id, meta) = "stone" /\ legacy_id_to_name(read, meta) = "stone"
    BY <1>1, <2>1, <2>2, <2>3
  <2> QED
    BY <2>1, <2>4
<1>3. CASE ~(low >= 128)
  <2>1. SignedId(high, low) = id
    BY <1>3 DEF SignedId, IdIs
  <2> QED
    BY <2>1
<1> QED
  BY <1>2, <1>3

LEMMA IdNamed ==
  ASSUME NEW s, WrittenAnvil(s), NEW at \in BlockIdx
  PROVE  legacy_id_to_name(FullBlockId(s, at), Nibble(s.data, at)) = s.saved[at]
<1>1. PICK ids \in [BlockIdx -> NumericIds], metas \in [BlockIdx -> HalfBytes] : ids = s.ids /\ metas = s.metas
  BY Zenon DEF WrittenAnvil
<1>2. /\ s.blocks = LowBytes(ids) /\ s.data = Halves(metas)
      /\ s.add = HighHalves(ids) \/ (s.add = <<>> /\ NoHighHalves(ids))
      /\ s.saved = [i \in BlockIdx |-> legacy_id_to_name(ids[i], metas[i])]
  BY <1>1, Zenon DEF WrittenAnvil
<1>3. PICK id \in NumericIds, meta \in HalfBytes : id = ids[at] /\ meta = metas[at]
  BY Zenon
<1>4. Nibble(s.data, at) = meta
  BY <1>2, <1>3, HalfOf, Zenon
<1>5. PICK high \in HalfBytes, low \in 0 .. 255 : high = id \div 256 /\ low = id % 256 /\ IdIs(id, high, low)
  BY IdParts, Zenon
<1>6. Nibble(s.add, at) = high
  <2>1. CASE s.add = HighHalves(ids)
    <3> DEFINE f == [i \in BlockIdx |-> ids[i] \div 256]
    <3>1. ASSUME NEW i \in BlockIdx PROVE ids[i] \div 256 \in HalfBytes
      <4>1. ids[i] \in NumericIds
        BY Zenon
      <4> QED
        BY <4>1, IdParts, Zenon
    <3>2. f \in [BlockIdx -> HalfBytes]
      BY <3>1, Zenon
    <3>3. f[at] = high
      BY <1>3, <1>5, Zenon
    <3>4. HighHalves(ids) = Halves(f)
      BY DEF HighHalves
    <3> HIDE DEF f
    <3>5. Nibble(Halves(f), at) = f[at]
      BY <3>2, HalfOf, Zenon
    <3> QED
      BY <2>1, <3>3, <3>4, <3>5, Zenon
  <2>2. CASE s.add = <<>> /\ NoHighHalves(ids)
    <3>1. id < 256
      BY <1>3, <2>2 DEF NoHighHalves
    <3>2. high = 0
      BY <1>5, <3>1, IdParts
    <3>3. Nibble(<<>>, at) = 0
      BY NoHalves
    <3> QED
      BY <2>2, <3>2, <3>3, Zenon
  <2> QED
    BY <1>2, <2>1, <2>2
<1>7. at \in 0 .. Blocks - 1 /\ Blocks \in Nat
  BY DecodeAssumption DEF BlockIdx
<1>8. at < Len(s.blocks) /\ s.blocks[at + 1] = low
  <2>1. at + 1 \in 1 .. Blocks /\ (at + 1) - 1 = at
    BY <1>7
  <2>2. PICK blocks : blocks = s.blocks /\ blocks = [n \in 1 .. Blocks |-> ids[n - 1] % 256]
    BY <1>2, Zenon DEF LowBytes
  <2>3. Len(blocks) = Blocks
    BY <1>7, <2>2
  <2>4. blocks[at + 1] = ids[(at + 1) - 1] % 256
    BY <2>1, <2>2
  <2>5. at < Len(blocks)
    BY <1>7, <2>3
  <2>6. blocks[at + 1] = low
    BY <1>3, <1>5, <2>1, <2>4, Zenon
  <2> QED
    BY <2>2, <2>5, <2>6, Zenon
<1>9. FullBlockId(s, at) = SignedId(high, low)
  BY <1>6, <1>8 DEF FullBlockId, SignedId
<1>10. legacy_id_to_name(SignedId(high, low), meta) = legacy_id_to_name(id, meta)
  BY <1>5, SignedIdNamed
<1>11. s.saved[at] = legacy_id_to_name(id, meta)
  BY <1>2, <1>3, Zenon
<1> QED
  BY <1>4, <1>9, <1>10, <1>11, Zenon

LEMMA LegacyAir ==
  ASSUME NEW id \in Int, NEW meta
  PROVE  is_air_name(legacy_id_to_name(id, meta)) => legacy_id_to_name(id, meta) = "air"
BY DEF is_air_name, legacy_id_to_name

(* The palette of the names: each once.                                    *)
EachOnce(name, list, n) ==
  /\ list \in Seq(Range(name))
  /\ \A k, m \in DOMAIN list : list[k] = list[m] => k = m
  /\ \A i \in 0 .. n - 1 : \E k \in DOMAIN list : list[k] = name[i]
  /\ \A k \in DOMAIN list : \E i \in 0 .. n - 1 : list[k] = name[i]

Added(list, one) == IF Contains(list, one) THEN list ELSE Append(list, one)

LEMMA AddedLists ==
  ASSUME NEW name, DOMAIN name = BlockIdx, NEW list, NEW n \in 0 .. Blocks - 1, EachOnce(name, list, n)
  PROVE  EachOnce(name, Added(list, name[n]), n + 1)
<1>1. n \in Nat /\ n \in BlockIdx /\ name[n] \in Range(name)
  BY DecodeAssumption DEF BlockIdx, Range
<1>2. PICK L \in Nat : L = Len(list) /\ DOMAIN list = 1 .. L /\ list \in Seq(Range(name))
  BY DEF EachOnce
<1>3. \A i \in 0 .. (n + 1) - 1 : i \in 0 .. n - 1 \/ i = n
  BY <1>1
<1>4. \A i \in 0 .. n - 1 : i \in 0 .. (n + 1) - 1
  BY <1>1
<1>5. n \in 0 .. (n + 1) - 1
  BY <1>1
<1>6. CASE Contains(list, name[n])
  <2>1. \E k \in DOMAIN list : list[k] = name[n]
    BY <1>2, <1>6 DEF Contains
  <2> QED
    BY <1>3, <1>4, <1>6, <2>1 DEF EachOnce, Added
<1>7. CASE ~Contains(list, name[n])
  <2> DEFINE longer == Append(list, name[n])
  <2>1. \A k \in 1 .. L : list[k] # name[n]
    BY <1>2, <1>7 DEF Contains
  <2>2. /\ longer \in Seq(Range(name)) /\ DOMAIN longer = 1 .. L + 1 /\ longer[L + 1] = name[n]
        /\ \A k \in 1 .. L : longer[k] = list[k]
    <3>1. /\ longer \in Seq(Range(name)) /\ Len(longer) = L + 1 /\ longer[L + 1] = name[n]
          /\ \A k \in 1 .. L : longer[k] = list[k]
      BY <1>1, <1>2, AppendProperties
    <3> HIDE DEF longer
    <3> QED
      BY <3>1
  <2>3. \A k \in 1 .. L + 1 : k \in 1 .. L \/ k = L + 1
    OBVIOUS
  <2>4. \A k \in 1 .. L : k \in 1 .. L + 1
    OBVIOUS
  <2>5. L + 1 \in 1 .. L + 1
    OBVIOUS
  <2> HIDE DEF longer
  <2>6. \A k, m \in DOMAIN longer : longer[k] = longer[m] => k = m
    <3>1. \A k, m \in 1 .. L : list[k] = list[m] => k = m
      BY <1>2 DEF EachOnce
    <3>2. ASSUME NEW k \in 1 .. L + 1, NEW m \in 1 .. L + 1, longer[k] = longer[m] PROVE k = m
      <4>1. k \in 1 .. L \/ k = L + 1
        BY <2>3
      <4>2. m \in 1 .. L \/ m = L + 1
        BY <2>3
      <4> QED
        BY <2>1, <2>2, <3>1, <3>2, <4>1, <4>2, Zenon
    <3> QED
      BY <2>2, <3>2
  <2>7. \A i \in 0 .. (n + 1) - 1 : \E k \in DOMAIN longer : longer[k] = name[i]
    <3>1. ASSUME NEW i \in 0 .. n - 1 PROVE \E k \in DOMAIN longer : longer[k] = name[i]
      <4>1. PICK k \in 1 .. L : list[k] = name[i]
        BY <1>2 DEF EachOnce
      <4> QED
        BY <2>2, <2>4, <4>1, Zenon
    <3>2. \E k \in DOMAIN longer : longer[k] = name[n]
      BY <2>2, <2>5, Zenon
    <3> QED
      BY <1>3, <3>1, <3>2, Zenon
  <2>8. \A k \in DOMAIN longer : \E i \in 0 .. (n + 1) - 1 : longer[k] = name[i]
    <3>1. ASSUME NEW k \in 1 .. L PROVE \E i \in 0 .. (n + 1) - 1 : longer[k] = name[i]
      <4>1. PICK i \in 0 .. n - 1 : list[k] = name[i]
        BY <1>2 DEF EachOnce
      <4> QED
        BY <1>4, <2>2, <4>1, Zenon
    <3>2. \E i \in 0 .. (n + 1) - 1 : longer[L + 1] = name[i]
      BY <1>5, <2>2, Zenon
    <3> QED
      BY <2>2, <2>3, <3>1, <3>2, Zenon
  <2>9. Added(list, name[n]) = longer
    BY <1>7 DEF Added, longer
  <2> QED
    BY <2>2, <2>6, <2>7, <2>8, <2>9, Zenon DEF EachOnce
<1> QED
  BY <1>6, <1>7

LEMMA NamesListed ==
  ASSUME NEW name, DOMAIN name = BlockIdx
  PROVE  EachOnce(name, UniqueNames(name), Blocks)
<1>0. Blocks \in Nat
  BY DecodeAssumption
<1> DEFINE V == Seq(Range(name))
           F == [p \in V \X Nat |-> IF p[2] \in 1 .. Blocks THEN Added(p[1], name[p[2] - 1]) ELSE p[1]]
           Is(h) == h = [n \in 0 .. Blocks |-> IF n = 0 THEN <<>> ELSE Added(h[n - 1], name[n - 1])]
           c == CHOOSE h : Is(h)
<1>1. F \in [V \X Nat -> V]
  <2>1. ASSUME NEW p \in V \X Nat
        PROVE  (IF p[2] \in 1 .. Blocks THEN Added(p[1], name[p[2] - 1]) ELSE p[1]) \in V
    <3>1. PICK list \in V, n \in Nat : list = p[1] /\ n = p[2]
      OBVIOUS
    <3>2. n \in 1 .. Blocks => name[n - 1] \in Range(name)
      BY <1>0 DEF BlockIdx, Range
    <3>3. n \in 1 .. Blocks => Added(list, name[n - 1]) \in V
      BY <3>2 DEF Added
    <3> QED
      BY <3>1, <3>3
  <2> QED
    BY <2>1
<1>2. <<>> \in V
  OBVIOUS
<1> HIDE DEF F, V
<1>3. PICK t : Recursive(V, <<>>, F, t, Blocks)
  BY <1>0, <1>1, <1>2, RecursionExists
<1>4. t \in [0 .. Blocks -> V] /\ t[0] = <<>>
  BY <1>3 DEF Recursive
<1>5. ASSUME NEW n \in 1 .. Blocks PROVE t[n] = Added(t[n - 1], name[n - 1])
  <2>1. n \in Nat /\ n - 1 \in 0 .. Blocks
    BY <1>0
  <2>2. <<t[n - 1], n>> \in V \X Nat
    BY <1>4, <2>1
  <2>3. t[n] = F[<<t[n - 1], n>>]
    BY <1>3 DEF Recursive
  <2> QED
    BY <2>2, <2>3 DEF F
<1>6. Is(t)
  <2>1. ASSUME NEW n \in 0 .. Blocks
        PROVE  t[n] = IF n = 0 THEN <<>> ELSE Added(t[n - 1], name[n - 1])
    <3>1. n # 0 => n \in 1 .. Blocks
      BY <1>0
    <3> QED
      BY <1>4, <1>5, <3>1
  <2>2. t = [n \in 0 .. Blocks |-> t[n]]
    BY <1>4
  <2> QED
    BY <2>1, <2>2
<1>7. Is(c)
  BY <1>6
<1>8. UniqueNames(name) = c[Blocks]
  BY DEF UniqueNames, Added
<1> HIDE DEF c
<1>9. \A n \in 0 .. Blocks : c[n] = IF n = 0 THEN <<>> ELSE Added(c[n - 1], name[n - 1])
  BY <1>7
<1> HIDE DEF Is
<1> DEFINE S == {n \in Nat : n <= Blocks => EachOnce(name, c[n], n)}
<1>10. 0 \in S
  <2>1. c[0] = <<>>
    BY <1>0, <1>9
  <2>2. DOMAIN <<>> = {} /\ <<>> \in Seq(Range(name)) /\ 0 .. 0 - 1 = {}
    OBVIOUS
  <2>3. EachOnce(name, <<>>, 0)
    BY <2>2, Zenon DEF EachOnce
  <2> QED
    BY <2>1, <2>3
<1>11. ASSUME NEW n \in Nat, n \in S PROVE n + 1 \in S
  <2>1. ASSUME n + 1 <= Blocks PROVE EachOnce(name, c[n + 1], n + 1)
    <3>1. n \in 0 .. Blocks - 1 /\ n + 1 \in 0 .. Blocks /\ n + 1 # 0 /\ (n + 1) - 1 = n /\ n <= Blocks
      BY <1>0, <2>1
    <3>2. c[n + 1] = Added(c[n], name[n])
      BY <1>9, <3>1
    <3>3. EachOnce(name, c[n], n)
      BY <1>11, <3>1
    <3>4. EachOnce(name, Added(c[n], name[n]), n + 1)
      BY <3>1, <3>3, AddedLists
    <3> QED
      BY <3>2, <3>4
  <2> QED
    BY <2>1
<1> HIDE DEF S
<1>12. Nat \subseteq S
  BY <1>10, <1>11, SetInduction
<1> QED
  BY <1>0, <1>8, <1>12 DEF S

(* The indices of a section without a palette follow from its names.       *)
IndicesOf(name) ==
  LET names == UniqueNames(name)
  IN  IF OnlyAir(names) THEN Zeros(Blocks)
      ELSE IndicesIn(names, name)

LEMMA BlocksRead ==
  ASSUME NEW s, WrittenAnvil(s), WrittenBiomes(s), NEW section, section = FromBlocks(s)
  PROVE  BlocksAsSaved(s, section) /\ BiomesAsSaved(s, section) /\ section.block_indices = IndicesOf(s.saved)
<1>1. PICK saved : saved = s.saved /\ DOMAIN saved = BlockIdx /\ saved = [i \in BlockIdx |-> saved[i]]
  BY Zenon DEF WrittenAnvil
<1>2. BlockNames(s) = saved
  <2>1. \A i \in BlockIdx : legacy_id_to_name(FullBlockId(s, i), Nibble(s.data, i)) = saved[i]
    BY <1>1, IdNamed, Zenon
  <2> QED
    BY <1>1, <2>1, Zenon DEF BlockNames
<1>3. PICK names : names = UniqueNames(saved)
  OBVIOUS
<1> DEFINE index == IndicesIn(names, saved)
<1>4. section = IF OnlyAir(names) THEN [EmptyAir(s) EXCEPT !.palette = names] ELSE Section(s, names, index)
  BY <1>2, <1>3, Zenon DEF FromBlocks
<1>5. IndicesOf(saved) = IF OnlyAir(names) THEN Zeros(Blocks) ELSE index
  BY <1>3, Zenon DEF IndicesOf
<1>6. EachOnce(saved, names, Blocks)
  BY <1>1, <1>3, NamesListed, Zenon
<1>7. \A i \in BlockIdx : \E k \in DOMAIN names : names[k] = saved[i]
  BY <1>6 DEF EachOnce, BlockIdx
<1>8. CASE OnlyAir(names)
  <2>1. PICK start : start = EmptyAir(s)
    OBVIOUS
  <2>2. section.is_empty_air = TRUE /\ section.block_indices = Zeros(Blocks)
    <3>1. start = [y |-> s.y, is_empty_air |-> TRUE, palette |-> <<>>, block_indices |-> Zeros(Blocks),
                   biomes |-> <<>>, biome_indices |-> Zeros(BiomeCells)]
      BY <2>1 DEF EmptyAir
    <3>2. section = [start EXCEPT !.palette = names]
      BY <1>4, <1>8, <2>1
    <3> QED
      BY <3>1, <3>2
  <2>3. ASSUME NEW i \in BlockIdx PROVE saved[i] = "air"
    <3>1. PICK k \in DOMAIN names : names[k] = saved[i]
      BY <1>7
    <3>2. names # <<>>
      BY <3>1
    <3>3. Len(names) = 1 /\ is_air_name(names[1])
      BY <1>8, <3>2 DEF OnlyAir
    <3>4. names \in Seq(Range(saved))
      BY <1>6 DEF EachOnce
    <3>5. k = 1
      BY <3>1, <3>3, <3>4
    <3>6. is_air_name(saved[i])
      BY <3>1, <3>3, <3>5
    <3>7. PICK id, meta : id \in Int /\ saved[i] = legacy_id_to_name(id, meta)
      <4>1. s.ids[i] \in NumericIds
        BY Zenon DEF WrittenAnvil
      <4>2. s.ids[i] \in Int
        BY <4>1, IdParts
      <4>3. saved[i] = legacy_id_to_name(s.ids[i], s.metas[i])
        BY <1>1, Zenon DEF WrittenAnvil
      <4> QED
        BY <4>2, <4>3
    <3> QED
      BY <3>6, <3>7, LegacyAir
  <2>4. BlocksAsSaved(s, section)
    BY <1>1, <2>2, <2>3 DEF BlocksAsSaved, BlockIs
  <2>5. BiomesAsSaved(s, section)
    BY <2>2 DEF BiomesAsSaved
  <2> QED
    BY <1>1, <1>5, <1>8, <2>2, <2>4, <2>5
<1>9. CASE ~OnlyAir(names)
  <2> HIDE DEF index
  <2>1. section = Section(s, names, index)
    BY <1>4, <1>9
  <2>2. section.is_empty_air = FALSE /\ section.palette = names /\ section.block_indices = index
    <3>1. SectionOf(s, names, index, section)
      BY <2>1, SectionIs, Zenon
    <3> QED
      BY <3>1 DEF SectionOf
  <2>3. BiomesAsSaved(s, section)
    BY <2>1, BiomesRead, Zenon
  <2>4. ASSUME NEW i \in BlockIdx PROVE PointsTo(names, index[i], saved[i])
    <3>1. PICK k : k = CHOOSE m \in DOMAIN names : names[m] = saved[i]
      OBVIOUS
    <3>2. k \in DOMAIN names /\ names[k] = saved[i]
      BY <1>7, <3>1, Zenon
    <3>3. k \in Int
      <4>1. names \in Seq(Range(saved))
        BY <1>6 DEF EachOnce
      <4> QED
        BY <3>2, <4>1
    <3>4. index[i] = k - 1
      BY <3>1, Zenon DEF index, IndicesIn
    <3>5. (k - 1) + 1 = k
      BY <3>3
    <3> QED
      BY <3>2, <3>4, <3>5, Zenon DEF PointsTo
  <2>5. BlocksAsSaved(s, section)
    BY <1>1, <2>2, <2>4 DEF BlocksAsSaved, BlockIs
  <2> QED
    BY <1>1, <1>5, <1>9, <2>2, <2>3, <2>5
<1> QED
  BY <1>8, <1>9

LEMMA NothingRead ==
  ASSUME NEW s, WrittenNoBlocks(s), NEW section, section = EmptyAir(s)
  PROVE  BlocksAsSaved(s, section) /\ BiomesAsSaved(s, section) /\ section.block_indices = IndicesOf(s.saved)
<1>1. section.is_empty_air = TRUE /\ section.block_indices = Zeros(Blocks)
  BY DEF EmptyAir
<1>2. PICK saved : saved = s.saved /\ DOMAIN saved = BlockIdx /\ \A i \in BlockIdx : saved[i] = "air"
  BY DEF WrittenNoBlocks
<1>3. PICK names : names = UniqueNames(saved) /\ EachOnce(saved, names, Blocks)
  BY <1>2, NamesListed
<1>4. names \in Seq(Range(saved)) /\ \A k \in DOMAIN names : names[k] = "air"
  BY <1>2, <1>3 DEF EachOnce, BlockIdx
<1>5. OnlyAir(names)
  <2>1. CASE names # <<>>
    <3>1. PICK L \in Nat : L = Len(names) /\ DOMAIN names = 1 .. L /\ L # 0
      BY <1>4, <2>1
    <3>2. 1 \in DOMAIN names /\ L \in DOMAIN names
      BY <3>1
    <3>3. L = 1
      BY <1>3, <1>4, <3>2 DEF EachOnce
    <3> QED
      BY <1>4, <3>1, <3>2, <3>3 DEF OnlyAir, is_air_name
  <2>2. CASE names = <<>>
    BY <2>2 DEF OnlyAir
  <2> QED
    BY <2>1, <2>2
<1> QED
  BY <1>1, <1>2, <1>3, <1>5 DEF BlocksAsSaved, BiomesAsSaved, BlockIs, IndicesOf

(* What a section is parsed to, and what that is.                          *)
Parsed(s) ==
  IF s.states # Absent THEN FromPalette(s, s.states.palette, s.states.data)
  ELSE IF s.palette # Absent THEN FromPalette(s, s.palette, s.longs)
  ELSE IF s.blocks # Absent THEN FromBlocks(s)
  ELSE EmptyAir(s)
IndexOf(s) == IF s.index # Absent THEN s.index ELSE IndicesOf(s.saved)

LEMMA ParsedIs ==
  ASSUME NEW s, Written(s), NEW section, section = Parsed(s)
  PROVE  BlocksAsSaved(s, section) /\ BiomesAsSaved(s, section) /\ section.block_indices = IndexOf(s)
<1>1. WrittenBiomes(s)
  BY DEF Written
<1>2. CASE WrittenModern(s)
  <2>1. PICK names, data : names = s.states.palette /\ data = s.states.data
    OBVIOUS
  <2>2. s.states # Absent /\ Named(s, names) /\ IsArray(names, data, {PackAligned(SavedBits(names, MinBits), s.index, Blocks)})
    BY <1>2, <2>1 DEF WrittenModern
  <2>3. IsArray(names, data, {PackAligned(SavedBits(names, MinBits), s.index, Blocks),
                              PackSpanning(SavedBits(names, MinBits), s.index, Blocks)})
    BY <2>2 DEF IsArray
  <2>4. section = FromPalette(s, names, data)
    BY <2>1, <2>2 DEF Parsed
  <2>5. s.index # Absent
    BY <2>2 DEF Named
  <2> QED
    BY <1>1, <2>2, <2>3, <2>4, <2>5, PaletteRead DEF IndexOf
<1>3. CASE WrittenFlattened(s)
  <2>1. /\ s.states = Absent /\ s.palette # Absent /\ Named(s, s.palette)
        /\ IsArray(s.palette, s.longs, {PackAligned(SavedBits(s.palette, MinBits), s.index, Blocks),
                                        PackSpanning(SavedBits(s.palette, MinBits), s.index, Blocks)})
    BY <1>3 DEF WrittenFlattened
  <2>2. section = FromPalette(s, s.palette, s.longs)
    BY <2>1 DEF Parsed
  <2>3. s.index # Absent
    BY <2>1 DEF Named
  <2> QED
    BY <1>1, <2>1, <2>2, <2>3, PaletteRead DEF IndexOf
<1>4. CASE WrittenAnvil(s)
  <2>1. s.states = Absent /\ s.palette = Absent /\ s.blocks # Absent /\ s.index = Absent
    BY <1>4, Zenon DEF WrittenAnvil
  <2>2. section = FromBlocks(s)
    BY <2>1 DEF Parsed
  <2> QED
    BY <1>1, <1>4, <2>1, <2>2, BlocksRead DEF IndexOf
<1>5. CASE WrittenNoBlocks(s)
  <2>1. s.states = Absent /\ s.palette = Absent /\ s.blocks = Absent /\ s.index = Absent
    BY <1>5 DEF WrittenNoBlocks
  <2>2. section = EmptyAir(s)
    BY <2>1 DEF Parsed
  <2> QED
    BY <1>5, <2>1, <2>2, NothingRead DEF IndexOf
<1> QED
  BY <1>2, <1>3, <1>4, <1>5 DEF Written

-----------------------------------------------------------------------------
(* What has been parsed is what each section is parsed to, in order.       *)
RawSections == UNION {Range(chunk) : chunk \in Range(raw)}
ParsedSections == {Parsed(s) : s \in RawSections}
Hashes == {HashOf(chunk) : chunk \in Seq(ParsedSections)}
DecodeTypes ==
  /\ raw \in Worlds
  /\ sections \in Seq(ParsedSections)
  /\ parsed \in Seq(Seq(ParsedSections)) /\ Len(parsed) <= Len(raw)
  /\ hashes \in Seq(Hashes) /\ Len(hashes) = Len(parsed)
ParsedSoFar(list, chunk) == \A n \in 1 .. Len(list) : list[n] = Parsed(chunk[n])
InWork ==
  IF Parsing THEN Len(sections) <= Len(Chunk) /\ ParsedSoFar(sections, Chunk) ELSE sections = <<>>
Done ==
  \A k \in 1 .. Len(parsed) :
    Len(parsed[k]) = Len(raw[k]) /\ ParsedSoFar(parsed[k], raw[k]) /\ hashes[k] = HashOf(parsed[k])
DecodeIInv == DecodeTypes /\ InWork /\ Done

(* A sequence of its own elements. *)
LEMMA ListElements ==
  ASSUME NEW list, list \in Seq(Range(list))
  PROVE  Len(list) \in Nat /\ DOMAIN list = 1 .. Len(list) /\ \A n \in 1 .. Len(list) : list[n] \in Range(list)
OBVIOUS

Longer(S, list, one, longer) ==
  /\ longer \in Seq(S) /\ Len(longer) = Len(list) + 1 /\ longer[Len(list) + 1] = one
  /\ \A k \in 1 .. Len(list) : longer[k] = list[k]
LEMMA AppendedTo ==
  ASSUME NEW S, NEW list \in Seq(S), NEW one \in S, NEW longer, longer = Append(list, one)
  PROVE  Longer(S, list, one, longer)
BY AppendProperties DEF Longer

LEMMA RawFacts ==
  ASSUME raw \in Worlds
  PROVE  /\ Len(raw) \in Nat /\ DOMAIN raw = 1 .. Len(raw)
         /\ \A k \in 1 .. Len(raw) :
              /\ Len(raw[k]) \in Nat /\ DOMAIN raw[k] = 1 .. Len(raw[k])
              /\ \A n \in 1 .. Len(raw[k]) : Written(raw[k][n]) /\ raw[k][n] \in RawSections
<1>1. /\ raw \in Seq(Range(raw))
      /\ \A chunk \in Range(raw) : chunk \in Seq(Range(chunk)) /\ \A s \in Range(chunk) : Written(s)
  BY WorldsAssumption, Zenon
<1>2. Len(raw) \in Nat /\ DOMAIN raw = 1 .. Len(raw) /\ \A k \in 1 .. Len(raw) : raw[k] \in Range(raw)
  BY <1>1, ListElements, Zenon
<1>3. ASSUME NEW k \in 1 .. Len(raw)
      PROVE  /\ Len(raw[k]) \in Nat /\ DOMAIN raw[k] = 1 .. Len(raw[k])
             /\ \A n \in 1 .. Len(raw[k]) : Written(raw[k][n]) /\ raw[k][n] \in RawSections
  <2>1. PICK chunk \in Range(raw) : chunk = raw[k]
    BY <1>2, Zenon
  <2>2. chunk \in Seq(Range(chunk)) /\ \A s \in Range(chunk) : Written(s)
    BY <1>1, Zenon
  <2>3. Len(chunk) \in Nat /\ DOMAIN chunk = 1 .. Len(chunk) /\ \A n \in 1 .. Len(chunk) : chunk[n] \in Range(chunk)
    BY <2>2, ListElements, Zenon
  <2>4. \A s \in Range(chunk) : s \in RawSections
    BY DEF RawSections
  <2> QED
    BY <2>1, <2>2, <2>3, <2>4, Zenon
<1> QED
  BY <1>2, <1>3, Zenon

LEMMA DecodeStart == DecodeInit => DecodeIInv
<1> SUFFICES ASSUME DecodeInit PROVE DecodeIInv
  OBVIOUS
<1>1. Len(raw) \in Nat
  BY RawFacts DEF DecodeInit
<1>2. DecodeTypes
  BY <1>1 DEF DecodeInit, DecodeTypes
<1>3. InWork
  <2>1. ASSUME Parsing PROVE Len(Chunk) \in Nat
    <3>1. 1 \in 1 .. Len(raw) /\ Len(parsed) + 1 = 1
      BY <1>1, <2>1 DEF Parsing, DecodeInit
    <3>2. Len(raw[1]) \in Nat
      BY <3>1, RawFacts DEF DecodeInit
    <3> QED
      BY <3>1, <3>2 DEF Chunk
  <2> QED
    BY <2>1 DEF DecodeInit, InWork, ParsedSoFar
<1>4. Done
  BY DEF DecodeInit, Done
<1> QED
  BY <1>2, <1>3, <1>4 DEF DecodeIInv

(* Where the work is. *)
LEMMA WorkFacts ==
  ASSUME DecodeIInv, Parsing
  PROVE  /\ Len(parsed) \in Nat /\ Len(parsed) + 1 \in 1 .. Len(raw) /\ Len(raw) \in Nat
         /\ Len(Chunk) \in Nat /\ Len(sections) \in Nat /\ Len(sections) <= Len(Chunk)
         /\ ParsedSoFar(sections, Chunk)
         /\ \A n \in 1 .. Len(Chunk) : Written(Chunk[n]) /\ Chunk[n] \in RawSections
<1>1. Len(raw) \in Nat /\ Len(parsed) \in Nat /\ Len(sections) \in Nat
  <2>1. raw \in Worlds /\ sections \in Seq(ParsedSections) /\ parsed \in Seq(Seq(ParsedSections))
    BY DEF DecodeIInv, DecodeTypes
  <2> QED
    BY <2>1, RawFacts
<1>2. Len(parsed) + 1 \in 1 .. Len(raw)
  BY <1>1 DEF Parsing
<1>3. PICK k \in 1 .. Len(raw) : k = Len(parsed) + 1 /\ Chunk = raw[k]
  BY <1>2 DEF Chunk
<1>4. Len(raw[k]) \in Nat /\ \A n \in 1 .. Len(raw[k]) : Written(raw[k][n]) /\ raw[k][n] \in RawSections
  BY RawFacts DEF DecodeIInv, DecodeTypes
<1>5. Len(sections) <= Len(Chunk) /\ ParsedSoFar(sections, Chunk)
  BY DEF DecodeIInv, InWork
<1> QED
  BY <1>1, <1>2, <1>3, <1>4, <1>5

LEMMA SectionPushed ==
  ASSUME DecodeIInv, Reading, Push(Parsed(RawSection))
  PROVE  DecodeIInv'
<1>1. Parsing
  BY DEF Reading
<1>2. PICK L \in Nat : L = Len(sections) /\ L + 1 \in 1 .. Len(Chunk)
  <2>1. Len(sections) \in Nat /\ Len(Chunk) \in Nat
    BY <1>1, WorkFacts
  <2> QED
    BY <2>1 DEF Reading
<1>3. PICK section \in ParsedSections : section = Parsed(Chunk[L + 1])
  <2>1. Chunk[L + 1] \in RawSections
    BY <1>1, <1>2, WorkFacts
  <2> QED
    BY <2>1 DEF ParsedSections
<1>4. sections \in Seq(ParsedSections)
  BY DEF DecodeIInv, DecodeTypes
<1>5. raw' = raw /\ parsed' = parsed /\ hashes' = hashes /\ sections' = Append(sections, section)
  BY <1>2, <1>3 DEF Push, RawSection
<1>6. /\ sections' \in Seq(ParsedSections) /\ Len(sections') = L + 1 /\ sections'[L + 1] = section
      /\ \A n \in 1 .. L : sections'[n] = sections[n]
  BY <1>2, <1>4, <1>5, AppendProperties
<1>7. RawSections' = RawSections
  BY <1>5 DEF RawSections
<1>8. ParsedSections' = ParsedSections
  BY <1>7 DEF ParsedSections
<1>9. Hashes' = Hashes
  BY <1>8 DEF Hashes
<1>10. DecodeTypes'
  BY <1>5, <1>6, <1>8, <1>9 DEF DecodeIInv, DecodeTypes
<1>11. Parsing' /\ Chunk' = Chunk
  BY <1>1, <1>5 DEF Parsing, Chunk
<1>12. ParsedSoFar(sections', Chunk)
  <2>1. ASSUME NEW n \in 1 .. L + 1 PROVE sections'[n] = Parsed(Chunk[n])
    <3>1. CASE n = L + 1
      BY <1>3, <1>6, <3>1
    <3>2. CASE n # L + 1
      <4>1. n \in 1 .. L
        BY <1>2, <3>2
      <4>2. ParsedSoFar(sections, Chunk)
        BY <1>1, WorkFacts
      <4> QED
        BY <1>2, <1>6, <4>1, <4>2 DEF ParsedSoFar
    <3> QED
      BY <3>1, <3>2
  <2> QED
    BY <1>6, <2>1 DEF ParsedSoFar
<1>13. Len(sections') <= Len(Chunk)
  BY <1>1, <1>2, <1>6, WorkFacts
<1>14. InWork'
  BY <1>11, <1>12, <1>13 DEF InWork
<1>15. Done'
  BY <1>5 DEF DecodeIInv, Done, ParsedSoFar
<1> QED
  BY <1>10, <1>14, <1>15 DEF DecodeIInv

LEMMA ChunkDone ==
  ASSUME DecodeIInv, ChunkParsed
  PROVE  DecodeIInv'
<1>1. /\ Parsing /\ Len(sections) = Len(Chunk) /\ parsed' = Append(parsed, sections)
      /\ hashes' = Append(hashes, HashOf(sections)) /\ sections' = <<>> /\ raw' = raw
  BY DEF ChunkParsed
<1>2. PICK P \in Nat : P = Len(parsed) /\ P = Len(hashes) /\ P + 1 \in 1 .. Len(raw) /\ Len(raw) \in Nat /\ Chunk = raw[P + 1]
  BY <1>1, WorkFacts DEF DecodeIInv, DecodeTypes, Chunk
<1>3. sections \in Seq(ParsedSections) /\ parsed \in Seq(Seq(ParsedSections)) /\ hashes \in Seq(Hashes)
  BY DEF DecodeIInv, DecodeTypes
<1>4. HashOf(sections) \in Hashes
  BY <1>3 DEF Hashes
<1>5. /\ parsed' \in Seq(Seq(ParsedSections)) /\ Len(parsed') = P + 1 /\ parsed'[P + 1] = sections
      /\ \A k \in 1 .. P : parsed'[k] = parsed[k]
  <2>1. PICK S : S = Seq(ParsedSections)
    OBVIOUS
  <2>2. sections \in S /\ parsed \in Seq(S)
    BY <1>3, <2>1
  <2>3. /\ parsed' \in Seq(S) /\ Len(parsed') = P + 1 /\ parsed'[P + 1] = sections
        /\ \A k \in 1 .. P : parsed'[k] = parsed[k]
    <3>1. PICK longer : longer = Append(parsed, sections) /\ longer = parsed'
      BY <1>1
    <3>2. Longer(S, parsed, sections, longer)
      BY <2>2, <3>1, AppendedTo, Zenon
    <3> QED
      BY <1>2, <3>1, <3>2, Zenon DEF Longer
  <2> QED
    BY <2>1, <2>3
<1>6. /\ hashes' \in Seq(Hashes) /\ Len(hashes') = P + 1 /\ hashes'[P + 1] = HashOf(sections)
      /\ \A k \in 1 .. P : hashes'[k] = hashes[k]
  BY <1>1, <1>2, <1>3, <1>4, AppendProperties
<1>7. RawSections' = RawSections
  BY <1>1 DEF RawSections
<1>8. ParsedSections' = ParsedSections
  BY <1>7 DEF ParsedSections
<1>9. Hashes' = Hashes
  BY <1>8 DEF Hashes
<1>10. DecodeTypes'
  <2>1. P + 1 <= Len(raw) /\ raw \in Worlds /\ <<>> \in Seq(ParsedSections)
    BY <1>2 DEF DecodeIInv, DecodeTypes
  <2> QED
    BY <1>1, <1>5, <1>6, <1>8, <1>9, <2>1 DEF DecodeTypes
<1>11. InWork'
  <2>1. ASSUME Parsing' PROVE Len(Chunk)' \in Nat
    <3>1. P + 2 \in 1 .. Len(raw) /\ Chunk' = raw[P + 2]
      <4>1. P + 1 < Len(raw) /\ (P + 1) + 1 = P + 2
        BY <1>1, <1>2, <1>5, <2>1 DEF Parsing
      <4>2. Chunk' = raw[(P + 1) + 1]
        BY <1>1, <1>5 DEF Chunk
      <4> QED
        BY <1>2, <4>1, <4>2
    <3>2. Len(raw[P + 2]) \in Nat
      BY <3>1, RawFacts DEF DecodeIInv, DecodeTypes
    <3> QED
      BY <3>1, <3>2
  <2>2. Len(sections') = 0
    BY <1>1
  <2>3. Parsing' => Len(sections') <= Len(Chunk)' /\ ParsedSoFar(sections', Chunk')
    BY <2>1, <2>2 DEF ParsedSoFar
  <2> QED
    BY <1>1, <2>3 DEF InWork
<1>12. Done'
  <2>1. ASSUME NEW k \in 1 .. P + 1
        PROVE  Len(parsed'[k]) = Len(raw[k]) /\ ParsedSoFar(parsed'[k], raw[k]) /\ hashes'[k] = HashOf(parsed'[k])
    <3>1. CASE k = P + 1
      <4>1. ParsedSoFar(sections, Chunk)
        BY <1>1, WorkFacts
      <4> QED
        BY <1>1, <1>2, <1>5, <1>6, <3>1, <4>1, Zenon
    <3>2. CASE k # P + 1
      <4>1. k \in 1 .. P
        BY <1>2, <3>2
      <4> QED
        BY <1>2, <1>5, <1>6, <4>1, Zenon DEF DecodeIInv, Done
    <3> QED
      BY <3>1, <3>2
  <2> QED
    BY <1>1, <1>5, <2>1 DEF Done, ParsedSoFar
<1> QED
  BY <1>10, <1>11, <1>12 DEF DecodeIInv

LEMMA DecodeStep == DecodeIInv /\ [DecodeNext]_decoding => DecodeIInv'
<1> SUFFICES ASSUME DecodeIInv, [DecodeNext]_decoding PROVE DecodeIInv'
  OBVIOUS
<1>1. CASE ParseModern
  <2>1. Reading /\ Push(Parsed(RawSection))
    BY <1>1 DEF ParseModern, Parsed
  <2> QED
    BY <2>1, SectionPushed
<1>2. CASE ParseFlattened
  <2>1. Reading /\ Push(Parsed(RawSection))
    BY <1>2 DEF ParseFlattened, Parsed
  <2> QED
    BY <2>1, SectionPushed
<1>3. CASE ParseAnvil
  <2>1. Reading /\ Push(Parsed(RawSection))
    BY <1>3 DEF ParseAnvil, Parsed
  <2> QED
    BY <2>1, SectionPushed
<1>4. CASE ParseNoBlocks
  <2>1. Reading /\ Push(Parsed(RawSection))
    BY <1>4 DEF ParseNoBlocks, Parsed
  <2> QED
    BY <2>1, SectionPushed
<1>5. CASE ChunkParsed
  BY <1>5, ChunkDone
<1>6. CASE AllParsed \/ UNCHANGED decoding
  <2>1. raw' = raw /\ sections' = sections /\ parsed' = parsed /\ hashes' = hashes
    BY <1>6 DEF AllParsed, decoding
  <2> QED
    BY <2>1 DEF DecodeIInv, DecodeTypes, InWork, Done, ParsedSoFar, RawSections, ParsedSections, Hashes, Parsing, Chunk
<1> QED
  BY <1>1, <1>2, <1>3, <1>4, <1>5, <1>6 DEF DecodeNext

LEMMA SpecDecodeIInv == DecodeSpec => []DecodeIInv
BY DecodeStart, DecodeStep, PTL DEF DecodeSpec

LEMMA InWorkRead ==
  ASSUME DecodeIInv, NEW n \in DOMAIN sections
  PROVE  BlocksAsSaved(Chunk[n], sections[n]) /\ BiomesAsSaved(Chunk[n], sections[n])
<1>1. Len(sections) \in Nat /\ n \in 1 .. Len(sections)
  BY DEF DecodeIInv, DecodeTypes
<1>2. Parsing
  BY <1>1 DEF DecodeIInv, InWork
<1>3. n \in 1 .. Len(Chunk) /\ sections[n] = Parsed(Chunk[n])
  <2>1. Len(Chunk) \in Nat /\ Len(sections) <= Len(Chunk) /\ ParsedSoFar(sections, Chunk)
    BY <1>2, WorkFacts
  <2> QED
    BY <1>1, <2>1 DEF ParsedSoFar
<1>4. Written(Chunk[n])
  BY <1>2, <1>3, WorkFacts
<1> QED
  BY <1>3, <1>4, ParsedIs

(* BlocksFaithful: whatever the format, the packing and the width, a       *)
(* section decodes to the blocks the game saved.                           *)
THEOREM SpecBlocksFaithful == DecodeSpec => []BlocksFaithful
<1>1. DecodeIInv => BlocksFaithful
  BY InWorkRead DEF BlocksFaithful, BlocksAsSaved
<1> QED
  BY <1>1, SpecDecodeIInv, PTL

(* BiomesFaithful: ... and to the biomes.                                  *)
THEOREM SpecBiomesFaithful == DecodeSpec => []BiomesFaithful
<1>1. DecodeIInv => BiomesFaithful
  BY InWorkRead DEF BiomesFaithful, BiomesAsSaved
<1> QED
  BY <1>1, SpecDecodeIInv, PTL

HashedList(lists) == FoldLeft(HashIndices, 1, lists)
LEMMA SameHash ==
  ASSUME DecodeIInv, NEW a \in DOMAIN parsed, NEW b \in DOMAIN parsed, SameSaved(a, b)
  PROVE  hashes[a] = hashes[b]
<1>1. a \in 1 .. Len(parsed) /\ b \in 1 .. Len(parsed) /\ Len(parsed) \in Nat /\ Len(parsed) <= Len(raw)
  BY DEF DecodeIInv, DecodeTypes
<1>2. ASSUME NEW k \in 1 .. Len(parsed)
      PROVE  /\ hashes[k] = HashedList([n \in DOMAIN raw[k] |-> IndexOf(raw[k][n])])
             /\ Len(raw[k]) \in Nat /\ DOMAIN raw[k] = 1 .. Len(raw[k])
  <2>1. k \in 1 .. Len(raw)
    BY <1>1, RawFacts DEF DecodeIInv, DecodeTypes
  <2>2. /\ Len(raw[k]) \in Nat /\ DOMAIN raw[k] = 1 .. Len(raw[k])
        /\ \A n \in 1 .. Len(raw[k]) : Written(raw[k][n])
    BY <2>1, RawFacts DEF DecodeIInv, DecodeTypes
  <2>3. Len(parsed[k]) = Len(raw[k]) /\ ParsedSoFar(parsed[k], raw[k]) /\ hashes[k] = HashOf(parsed[k])
    BY DEF DecodeIInv, Done
  <2>4. DOMAIN parsed[k] = DOMAIN raw[k]
    <3>1. parsed[k] \in Seq(ParsedSections)
      BY DEF DecodeIInv, DecodeTypes
    <3> QED
      BY <2>2, <2>3, <3>1
  <2>5. ASSUME NEW n \in DOMAIN raw[k] PROVE parsed[k][n].block_indices = IndexOf(raw[k][n])
    <3>1. parsed[k][n] = Parsed(raw[k][n]) /\ Written(raw[k][n])
      BY <2>2, <2>3 DEF ParsedSoFar
    <3> QED
      BY <3>1, ParsedIs
  <2>6. [n \in DOMAIN parsed[k] |-> parsed[k][n].block_indices] = [n \in DOMAIN raw[k] |-> IndexOf(raw[k][n])]
    BY <2>4, <2>5, Zenon
  <2>7. HashOf(parsed[k]) = HashedList([n \in DOMAIN parsed[k] |-> parsed[k][n].block_indices])
    BY DEF HashOf, HashedList
  <2> QED
    BY <2>2, <2>3, <2>6, <2>7, Zenon
<1>3. DOMAIN raw[a] = DOMAIN raw[b]
  BY <1>1, <1>2, Zenon DEF SameSaved
<1>4. ASSUME NEW n \in DOMAIN raw[a] PROVE IndexOf(raw[a][n]) = IndexOf(raw[b][n])
  <2>1. raw[a][n].saved = raw[b][n].saved /\ raw[a][n].index = raw[b][n].index
    BY DEF SameSaved
  <2> QED
    BY <2>1 DEF IndexOf
<1>5. [n \in DOMAIN raw[a] |-> IndexOf(raw[a][n])] = [n \in DOMAIN raw[b] |-> IndexOf(raw[b][n])]
  BY <1>3, <1>4, Zenon
<1> QED
  BY <1>1, <1>2, <1>5, Zenon

(* HashIgnoresPacking: the hash of a chunk depends on its blocks and the   *)
(* order of its palettes, never on how the indices lie in the file.        *)
THEOREM SpecHashIgnoresPacking == DecodeSpec => []HashIgnoresPacking
<1>1. DecodeIInv => HashIgnoresPacking
  BY SameHash DEF HashIgnoresPacking
<1> QED
  BY <1>1, SpecDecodeIInv, PTL
==============================================================================
