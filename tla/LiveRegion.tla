------------------------------ MODULE LiveRegion ------------------------------
(***************************************************************************)
(* McaRegion reading a region file through a memory map while the server   *)
(* that owns the world saves chunks into it, as in the README's example of *)
(* a background task on a running server.                                  *)
(*                                                                         *)
(* The file is counted in sectors of 4096 bytes, numbered as the header    *)
(* numbers them: 0 holds the entries, 1 the timestamps, chunks begin at 2. *)
(* A sector is known by who wrote it: part `part` of the `size` sectors of *)
(* save `save` of a chunk; part 0 starts with the length word.  What the   *)
(* server does is external: it writes a save into sectors that nothing     *)
(* uses, at the end of the file if need be, then updates the header entry, *)
(* and only then the old sectors are free.                                 *)
(***************************************************************************)
EXTENDS Integers, Sequences

CONSTANTS
  Slots,       \* 32 x 32 header slots, 1 .. Slots here
  MaxSectors,  \* bound on the length of the file, sector 0 not counted
  MaxSize,     \* bound on the sectors of a chunk
  MaxSaves     \* bound on the saves of the server

ASSUME LiveRegionAssumption == {Slots, MaxSectors, MaxSize, MaxSaves} \subseteq Nat \ {0}

VARIABLES
  created,  \* the file is as long as a header
  sectors,  \* contents of the file from sector 1 on
  header,   \* slot -> [start, size]; a start of 0 is no chunk
  saving,   \* the save in progress
  saves,    \* saves begun
  phase,    \* of the reader: "start", "header", "chunks", "body", "end", "failed"
  mapped,   \* the last sector of the mapping
  slot,     \* header slot the reader looks at next
  present,  \* present_chunks: slots and starts
  seen,     \* contents of the sectors of the payload in work, read so far
  size,     \* sectors that payload takes
  results,  \* slot -> what the caller gets
  moved     \* slots whose entry was rewritten after the reader saw it, a history

file == <<created, sectors, header, saving, saves>>
reader == <<phase, mapped, slot, present, seen, size, results>>
vars == <<file, reader, moved>>

Chunks == 1 .. Slots
Idle == [chunk |-> 0, start |-> 0, size |-> 0, written |-> 0]
Stamps == [chunk |-> 0, save |-> 0, part |-> 1, size |-> 0]  \* bytes of no chunk, any length word
Mixed == [chunk |-> 0, save |-> 0, part |-> 0, size |-> 0]  \* read while it was written
None == [kind |-> "none", chunk |-> 0, save |-> 0]
Lost == [kind |-> "lost", chunk |-> 0, save |-> 0]
Torn == [kind |-> "torn", chunk |-> 0, save |-> 0]
Read(content) == [kind |-> "read", chunk |-> content.chunk, save |-> content.save]

Init ==
  /\ created \in BOOLEAN
  /\ sectors = <<Stamps>>
  /\ header = [c \in Chunks |-> [start |-> 0, size |-> 0]]
  /\ saving = Idle
  /\ saves = 0
  /\ phase = "start" /\ mapped = 0 /\ slot = 1 /\ present = <<>> /\ seen = <<>> /\ size = 0
  /\ results = [c \in Chunks |-> None]
  /\ moved = {}
-----------------------------------------------------------------------------
(* The server. *)
SpanOf(entry) == entry.start .. entry.start + entry.size - 1
Used == SpanOf(saving) \cup UNION {SpanOf(header[c]) : c \in Chunks}

Create ==
  /\ ~created
  /\ created' = TRUE
  /\ UNCHANGED <<sectors, header, saving, saves, reader, moved>>

BeginSave(c, start, count) ==
  /\ created
  /\ saving = Idle
  /\ saves < MaxSaves
  /\ 1 < start /\ start <= Len(sectors) + 1 /\ start + count - 1 <= MaxSectors
  /\ (start .. start + count - 1) \cap Used = {}
  /\ saving' = [chunk |-> c, start |-> start, size |-> count, written |-> 0]
  /\ saves' = saves + 1
  /\ UNCHANGED <<created, sectors, header, reader, moved>>

WriteSector ==
  /\ saving.written < saving.size
  /\ LET n == saving.start + saving.written
         content == [chunk |-> saving.chunk, save |-> saves, part |-> saving.written, size |-> saving.size]
     IN  sectors' = IF n > Len(sectors) THEN Append(sectors, content) ELSE [sectors EXCEPT ![n] = content]
  /\ saving' = [saving EXCEPT !.written = @ + 1]
  /\ UNCHANGED <<created, header, saves, reader, moved>>

WriteHeader ==
  /\ saving # Idle
  /\ saving.written = saving.size
  /\ header' = [header EXCEPT ![saving.chunk] = [start |-> saving.start, size |-> saving.size]]
  /\ saving' = Idle
  /\ UNCHANGED <<created, sectors, saves>>

SaveListed ==
  /\ WriteHeader
  /\ moved' = IF saving.chunk < slot THEN moved \cup {saving.chunk} ELSE moved
  /\ UNCHANGED reader

Server ==
  \/ Create
  \/ \E c \in Chunks, start \in 1 .. MaxSectors, count \in 1 .. MaxSize : BeginSave(c, start, count)
  \/ WriteSector \/ SaveListed
-----------------------------------------------------------------------------
(* The mapping is as long as the file is now; it does not grow with it. *)
Open ==
  /\ phase = "start"
  /\ created
  /\ mapped' = Len(sectors)
  /\ phase' = "header"
  /\ UNCHANGED <<file, slot, present, seen, size, results, moved>>

OpenFails ==
  /\ phase = "start"
  /\ ~created
  /\ phase' = "failed"
  /\ UNCHANGED <<file, mapped, slot, present, seen, size, results, moved>>

(* iter_present_chunks: all slots before any chunk is read. *)
Listed(entry) ==
  /\ phase = "header"
  /\ slot <= Slots
  /\ present' = IF entry.start = 0 \/ entry.size = 0 THEN present
                ELSE Append(present, [chunk |-> slot, start |-> entry.start])
  /\ slot' = slot + 1
  /\ UNCHANGED <<phase, mapped, seen, size, results>>

get_chunk_location == Listed(header[slot]) /\ UNCHANGED <<file, moved>>

(* The four bytes of an entry are read one by one: if the server rewrites  *)
(* it meanwhile, they may be of both entries and point anywhere: into the  *)
(* header, at any chunk, behind the file.                                  *)
LocationRewritten ==
  /\ WriteHeader
  /\ saving.chunk = slot
  /\ \E start \in 0 .. MaxSectors + 1 : Listed([start |-> start, size |-> 1])
  /\ moved' = moved \cup {slot}

HeaderRead ==
  /\ phase = "header"
  /\ slot > Slots
  /\ phase' = "chunks"
  /\ UNCHANGED <<file, mapped, slot, present, seen, size, results, moved>>

(* The bounds checks of get_raw_chunk_payload. *)
StartsInsideStrictly(start) == start < mapped
StartsInside(start) == start <= mapped
EndsInsideFile(start, count) == start + count - 1 <= Len(sectors)
EndsInside(start, count) == start + count - 1 <= mapped

(* The sector that the server may be in the middle of writing. *)
BeingWritten(n) == saving.written < saving.size /\ n = saving.start + saving.written

(* The length word; in the middle of a payload any bytes are taken for it, *)
(* and while it is written it may be of both saves.                        *)
Lengths(n) ==
  IF sectors[n].part = 0 /\ ~BeingWritten(n) THEN {sectors[n].size} ELSE 0 .. MaxSectors + 1

Current == Head(present)
ResultAgain(r) == UNCHANGED <<present, results, seen>>
Result(r) ==
  /\ results' = [results EXCEPT ![Current.chunk] = r]
  /\ present' = Tail(present)
  /\ seen' = <<>>

Payload ==
  /\ phase = "chunks"
  /\ present # <<>>
  /\ StartsInside(Current.start)
  /\ \E count \in Lengths(Current.start) :
       /\ count # 0 /\ EndsInside(Current.start, count)
       /\ size' = count
  /\ phase' = "body"
  /\ UNCHANGED <<file, mapped, slot, present, seen, results, moved>>

PayloadRefused ==
  /\ phase = "chunks"
  /\ present # <<>>
  /\ StartsInside(Current.start) =>
       \E count \in Lengths(Current.start) : count = 0 \/ ~EndsInside(Current.start, count)
  /\ Result(Lost)
  /\ UNCHANGED <<file, phase, mapped, slot, size, moved>>

(* The payload is borrowed from the mapping: its bytes are read when they  *)
(* are decompressed, whatever the file holds by then.                      *)
ReadSector ==
  /\ phase = "body"
  /\ Len(seen) < size
  /\ LET n == Current.start + Len(seen)
     IN  \E content \in {sectors[n]} \cup (IF BeingWritten(n) THEN {Mixed} ELSE {}) :
           seen' = Append(seen, content)
  /\ UNCHANGED <<file, phase, mapped, slot, present, size, results, moved>>

Whole(contents) ==
  \A n \in DOMAIN contents : contents[n] = [contents[1] EXCEPT !.part = n - 1, !.size = Len(contents)]

(* Bytes of several saves are refused by the decompressor or the parser,   *)
(* or not: not every compression has a checksum.                           *)
Decompress ==
  /\ phase = "body"
  /\ Len(seen) = size
  /\ IF Whole(seen) THEN Result(Read(seen[1])) ELSE Result(Lost) \/ Result(Torn)
  /\ phase' = "chunks"
  /\ UNCHANGED <<file, mapped, slot, size, moved>>

AllRead ==
  /\ phase = "chunks"
  /\ present = <<>>
  /\ phase' = "end"
  /\ UNCHANGED <<file, mapped, slot, present, seen, size, results, moved>>

Reader ==
  \/ Open \/ OpenFails \/ get_chunk_location \/ HeaderRead
  \/ Payload \/ PayloadRefused \/ ReadSector \/ Decompress \/ AllRead

Over == phase \in {"end", "failed"}
Finished == Over /\ UNCHANGED vars

Next == Server \/ Reader \/ LocationRewritten \/ Finished
Spec == Init /\ [][Next]_vars
(* The reader's thread is scheduled; the server may do as it likes.        *)
FairSpec == Spec /\ WF_vars(Reader)
-----------------------------------------------------------------------------
(* No byte outside the mapping is read, although the length word may be    *)
(* any number by the time it is read and the file may have grown: the      *)
(* sectors of a payload lie in the mapping from its check to its last byte.*)
ReadsInside == phase = "body" => Current.start >= 1 /\ Current.start + size - 1 <= mapped

(* However busy the server is, a chunk it has not saved since the reader   *)
(* saw its header entry is read, and exactly as last saved: it is not torn *)
(* and not taken for another chunk.  The one exception is a save behind    *)
(* the end of the mapping, in a file that has grown; that chunk is lost.   *)
UntouchedExact ==
  \A c \in Chunks \ moved : results[c] # None =>
    results[c] = IF header[c].start + header[c].size - 1 <= mapped
                 THEN [kind |-> "read", chunk |-> c, save |-> sectors[header[c].start].save]
                 ELSE Lost

(* The walk over the chunks ends, whatever is saved meanwhile. *)
WalkEnds == <>Over
==============================================================================
