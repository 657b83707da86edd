------------------------------ MODULE BlobCodec ------------------------------
(***************************************************************************)
(* The serialization of a section for the Data column of FullData: a table *)
(* of column sizes as varints, then the runs of all columns, fixed-width   *)
(* and big-endian, and the rolling checksum of these bytes.  Zstandard,    *)
(* which compresses the bytes without loss, is left out.                   *)
(*                                                                         *)
(* A colour is its alpha and one channel (see Downsample), so it takes two *)
(* bytes here and four in the code.                                        *)
(***************************************************************************)
EXTENDS Integers, Sequences, SequencesExt

CONSTANTS
  ByteRange,   \* 256, the values of a byte
  CheckRange   \* 2^32, the values of the checksum

VarBase == ByteRange \div 2

(* 31 is odd and 2^32 a power of two: what is multiplied by 31 can be      *)
(* divided by it again.                                                    *)
ASSUME CodecAssumption ==
  /\ VarBase \in Nat /\ VarBase >= 8 /\ ByteRange = 2 * VarBase
  /\ CheckRange \in Nat /\ CheckRange >= ByteRange
  /\ \E inverse \in 0 .. CheckRange - 1 : (31 * inverse) % CheckRange = 1

(* The low digits first; the upper half of a byte's range marks a byte     *)
(* that another one follows.                                               *)
write_varint[value \in Nat] ==
  IF value >= VarBase THEN <<(value % VarBase) + VarBase>> \o write_varint[value \div VarBase] ELSE <<value>>
VarintOneByte(value) == <<value % VarBase>>
Varint(value) == write_varint[value]

(* Two bytes, a negative number as its two's complement. *)
Word(n) == <<(n \div ByteRange) % ByteRange, n % ByteRange>>

PointBytes(pt) ==
  Word(pt.lo) \o Word(pt.hi) \o Word(pt.color.a * ByteRange + pt.color.c) \o Word(pt.flags)

RawBytes(columns) ==
  FlattenSeq([c \in DOMAIN columns |-> Varint(Len(columns[c]))])
    \o FlattenSeq([c \in DOMAIN columns |-> FlattenSeq([n \in DOMAIN columns[c] |-> PointBytes(columns[c][n])])])

(* checksum.wrapping_mul(31).wrapping_add(b as i8 as i32) *)
Signed(b, range) == IF b >= range \div 2 THEN b - range ELSE b
RolledByShift(checksum, b) == (checksum * 32 + Signed(b, ByteRange)) % CheckRange
Rolled(checksum, b) == (checksum * 31 + Signed(b, ByteRange)) % CheckRange
Checksum(bytes) == FoldLeft(Rolled, 1, bytes)
-----------------------------------------------------------------------------
(* The reference: what a reader of the format makes of the bytes.  A size  *)
(* takes VarintMax bytes at most.                                          *)
VarintMax == 3
NextByte(table, b, count) ==
  LET value == table.value + (b % VarBase) * table.unit
      used == table.used + 1
  IN  IF Len(table.sizes) = count THEN table
      ELSE IF b >= VarBase THEN [sizes |-> table.sizes, value |-> value, unit |-> table.unit * VarBase, used |-> used]
      ELSE [sizes |-> Append(table.sizes, value), value |-> 0, unit |-> 1, used |-> used]
SizeTable(bytes, count) ==
  FoldLeft(LAMBDA table, b : NextByte(table, b, count), [sizes |-> <<>>, value |-> 0, unit |-> 1, used |-> 0],
           SubSeq(bytes, 1, Min({Len(bytes), VarintMax * count})))

PointAt(bytes, start) ==
  LET word(k) == bytes[start + 2 * k + 1] * ByteRange + bytes[start + 2 * k + 2]
      range == ByteRange * ByteRange
  IN  [lo |-> Signed(word(0), range), hi |-> Signed(word(1), range),
       color |-> [a |-> word(2) \div ByteRange, c |-> word(2) % ByteRange], flags |-> word(3)]

PointSize == 8
Decoded(bytes, count) ==
  LET table == SizeTable(bytes, count)
      starts[c \in 1 .. count] ==
        IF c = 1 THEN table.used ELSE starts[c - 1] + PointSize * table.sizes[c - 1]
  IN  [c \in 1 .. count |-> [n \in 1 .. table.sizes[c] |-> PointAt(bytes, starts[c] + PointSize * (n - 1))]]
==============================================================================
