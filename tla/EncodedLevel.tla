----------------------------- MODULE EncodedLevel -----------------------------
(***************************************************************************)
(* The columns of every level Downsample computes, as stage 4 encodes them *)
(* for the database.                                                       *)
(***************************************************************************)
EXTENDS Downsample, BlobCodec

CONSTANTS
  Streams,   \* sequences of bytes to take a checksum of
  BlobBound  \* bytes of the longest blob of a level that one is taken of

ASSUME StreamsAssumption == Streams \subseteq Seq(0 .. ByteRange - 1) /\ BlobBound \in Nat

(* The fields of ColumnVoxelPoint: two i16, the channels of a u32, a u16.  *)
WordRange == ByteRange * ByteRange
Heights == - (WordRange \div 2) .. WordRange \div 2 - 1
Storable(point) ==
  /\ point.lo \in Heights /\ point.hi \in Heights
  /\ point.color.a < ByteRange /\ point.color.c < ByteRange
  /\ point.flags < WordRange

ASSUME StorableAssumption ==
  \A grid \in Grids : \A p \in Square(Side) : \A n \in DOMAIN grid[p] : Storable(grid[p][n])

(* section.columns: a flat array, x outermost. *)
ColumnList == [i \in 1 .. side * side |-> cols[<<(i - 1) \div side, (i - 1) % side>>]]
Blob == RawBytes(ColumnList)

(* What is stored is what was baked: from the bytes a reader gets every    *)
(* column back with its runs, below height 0 and with more runs than one   *)
(* byte of the size table can count.                                       *)
BlobRoundTrip == \A blob \in {Blob} : Decoded(blob, side * side) = ColumnList

(* DataChecksum tells a stream of bytes, however long, from any other that *)
(* differs in one byte, be it the first or the last, and in any change of  *)
(* that byte; the blob of a level in particular.                           *)
ChangeSeen(bytes) ==
  \A i \in DOMAIN bytes : \A b \in 0 .. ByteRange - 1 :
    b # bytes[i] => Checksum([bytes EXCEPT ![i] = b]) # Checksum(bytes)
StreamChangesSeen == \A bytes \in Streams : ChangeSeen(bytes)
ChecksumSeesChange == StreamChangesSeen /\ (Len(Blob) <= BlobBound => ChangeSeen(Blob))
==============================================================================
