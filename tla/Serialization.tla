------------------------------ MODULE Serialization ------------------------------
(***************************************************************************)
(* A partition written into a memory stream and read back from it, in the  *)
(* new format (src/src/ALSerialization.c) and in the legacy one, which     *)
(* holds only metadata (src/src/ALSerializationLegacy.c).                  *)
(*                                                                         *)
(* Memory and streams are sequences of bytes.  A byte says what it is a    *)
(* part of: <<"number", v, k>> is byte k of number v, <<"data", i, 0>> and *)
(* <<"index", i, 0>> are byte i of the partition's buffers.                *)
(***************************************************************************)
EXTENDS Integers, Sequences

CONSTANTS
  Shorts,  \* 2^16
  Words,   \* 2^32
  Parts    \* the partitions that are serialized

\* ALIndexForm; ExpansionII is the last.
ALCompressionIndex == 0
ALInvertedIndex == 1
IndexForms == 0 .. 6
PForDeltaForms == 2 .. 6

\* The only endianness and datatype of the legacy format.
ENDIAN_LITTLE == 0
DATATYPE_FLOAT64 == 1

Bits(b) == (b + 7) \div 8       \* bytes that hold b bits
SigBytes(p) == Bits(p.significantBits)
InsigBytes(p) == Bits(8 * p.elementSize - p.significantBits)

\* The fields before the bin layout.
HeadFields ==
  {"globalOffset", "partitionLength", "significantBits", "elementSize", "endianness", "datatype"}

IsPart(p) ==
  LET n == Len(p.binValues) IN
    /\ \A f \in HeadFields : p[f] \in Nat
    /\ p.binValues \in Seq(Nat) /\ n \in 1 .. Shorts
    /\ p.partitionLength \in 1 .. Words - 1 /\ p.significantBits <= 8 * p.elementSize
    /\ p.indexForm \in IndexForms
    /\ p.binStartOffsets \in Seq(Nat)
    /\ Len(p.binStartOffsets) = n + 1 /\ p.binStartOffsets[n + 1] = p.partitionLength
    /\ p.indexForm \in PForDeltaForms =>
         p.indexBinStartOffsets \in Seq(Nat) /\ Len(p.indexBinStartOffsets) = n + 1

ASSUME SerializationAssumption ==
  Shorts \in Nat \ {0} /\ Words \in Nat /\ Words > Shorts /\ \A p \in Parts : IsPart(p)

VARIABLES
  part, format,  \* what is serialized, and how
  pc,            \* the function that runs next
  buf, ptr,      \* the memory stream,
  announced,     \* the size it was allocated with,
  err,           \* and what the serializer returned
  back           \* what was read back, field by field

vars == <<part, format, pc, buf, ptr, announced, err, back>>
-------------------------------------------------------------------------------
(* Numbers and arrays in memory.                                           *)

Unset == <<"unset", 0, 0>>
Undef == -1

Word(v, w) == [k \in 1 .. w |-> <<"number", v, k>>]
Array(f, w) ==
  [k \in 1 .. w * Len(f) |-> <<"number", f[(k - 1) \div w + 1], ((k - 1) % w) + 1>>]
Buffer(kind, size) == [i \in 1 .. size |-> <<kind, i, 0>>]

\* Bytes from .. from + n - 1 of memory, whatever lies there.
Bytes(memory, from, n) ==
  [k \in 1 .. n |-> IF from + k \in DOMAIN memory THEN memory[from + k] ELSE Unset]

\* The number that bytes are, if they are one.
Number(bytes) ==
  IF bytes[1][1] = "number" /\ bytes = Word(bytes[1][2], Len(bytes)) THEN bytes[1][2]
  ELSE Undef

\* a[i] of an array of numbers of w bytes, from 0 on.
Element(memory, w, i) == Number(Bytes(memory, w * i, w))

\* memstreamAppend and its kin.  The stream checks no bound: what is written past
\* the buffer is written all the same.
Put(bytes) ==
  /\ buf' = [i \in 1 .. (IF ptr + Len(bytes) > Len(buf) THEN ptr + Len(bytes) ELSE Len(buf)) |->
               IF ptr < i /\ i <= ptr + Len(bytes) THEN bytes[i - ptr] ELSE buf[i]]
  /\ ptr' = ptr + Len(bytes)

Ahead(skip, n) == Bytes(buf, ptr + skip, n)
-------------------------------------------------------------------------------
(* Sizes.                                                                  *)

NumBins(p) == Len(p.binValues)

\* LayoutSizeWithoutEnd and others below, each before the definition it resembles,
\* are that definition with a fault.
LayoutSizeWithoutEnd(n) == 4 + 4 * n + 4 * n
ALGetBinLayoutSize(n) == 4 + 4 * n + 4 * (n + 1)

ALGetIndexMetadataSize(form, n) ==
  4 + (IF form \in PForDeltaForms THEN 8 * (n + 1) ELSE 0)

ALGetMetadataSize(p) ==
  8 + 4 + ALGetBinLayoutSize(NumBins(p)) + ALGetIndexMetadataSize(p.indexForm, NumBins(p))
    + 1 + 1 + 4 + 1

\* Products of 32 bits, but for that with sizeof(rid_t).
ALGetDataSize(p) == (p.partitionLength * InsigBytes(p)) % Words

IndexSize(p, end) ==
  CASE p.indexForm = ALInvertedIndex -> 4 * p.partitionLength
    [] p.indexForm = ALCompressionIndex -> (SigBytes(p) * p.partitionLength) % Words
    [] OTHER -> end
ALGetIndexSize(p) ==
  IndexSize(p, IF p.indexForm \in PForDeltaForms
                 THEN p.indexBinStartOffsets[NumBins(p) + 1] ELSE 0)

ALGetPartitionDataSize(p) == ALGetMetadataSize(p) + ALGetIndexSize(p) + ALGetDataSize(p)

ALGetMetadataSizeLegacy(p) == 8 + 2 + NumBins(p) * (2 + 8 + 8 + 1)
-------------------------------------------------------------------------------
NotRead ==
  [f \in HeadFields \cup
         {"numBins", "binValues", "binStartOffsets", "indexForm", "indexBinStartOffsets",
          "data", "index"} |-> Undef]

\* A store writes only the inverted index in the legacy format.
Init ==
  /\ part \in Parts /\ format \in {"new", "legacy"}
  /\ format = "legacy" => part.indexForm = ALInvertedIndex
  /\ pc = "allocate"
  /\ buf = <<>> /\ ptr = 0 /\ announced = 0 /\ err = "None"
  /\ back = NotRead

Goes(from, to) == pc = from /\ pc' = to

\* The caller asks for the size and allocates a buffer of it.
Allocate ==
  /\ announced' = IF format = "new" THEN ALGetPartitionDataSize(part)
                  ELSE ALGetMetadataSizeLegacy(part)
  /\ buf' = [i \in 1 .. announced' |-> Unset]
  /\ Goes("allocate", IF format = "new" THEN "head" ELSE "legacyHead")
  /\ UNCHANGED <<part, format, ptr, err, back>>

EndiannessFirst(p) ==
  Word(p.globalOffset, 8) \o Word(p.partitionLength, 4) \o Word(p.endianness, 1)
    \o Word(p.significantBits, 1) \o Word(p.elementSize, 1) \o Word(p.datatype, 4)
HeadBytes(p) ==
  Word(p.globalOffset, 8) \o Word(p.partitionLength, 4) \o Word(p.significantBits, 1)
    \o Word(p.elementSize, 1) \o Word(p.endianness, 1) \o Word(p.datatype, 4)

\* The functions of ALSerializePartitionData, in its order.
ALSerializeMetadata ==
  /\ Goes("head", "layout")
  /\ Put(HeadBytes(part))
  /\ UNCHANGED <<part, format, announced, err, back>>

ALSerializeBinLayout ==
  /\ Goes("layout", "indexMeta")
  /\ Put(Word(NumBins(part), 4) \o Array(part.binValues, 4)
               \o Array(part.binStartOffsets, 4))
  /\ UNCHANGED <<part, format, announced, err, back>>

ALSerializeIndexMetadata ==
  /\ Goes("indexMeta", "data")
  /\ Put(Word(part.indexForm, 4)
               \o (IF part.indexForm \in PForDeltaForms
                     THEN Array(part.indexBinStartOffsets, 8) ELSE <<>>))
  /\ UNCHANGED <<part, format, announced, err, back>>

\* The product is one of 64 bits here.
ALSerializeData ==
  /\ Goes("data", "index")
  /\ Put(Buffer("data", InsigBytes(part) * part.partitionLength))
  /\ UNCHANGED <<part, format, announced, err, back>>

ALSerializeIndex ==
  /\ Goes("index", "written")
  /\ Put(Buffer("index", ALGetIndexSize(part)))
  /\ UNCHANGED <<part, format, announced, err, back>>
-------------------------------------------------------------------------------
(* ALSerializeMetadataLegacy.                                              *)

LegacyFits(p) == p.elementSize = 8 /\ p.significantBits = 16

LegacyRefuse ==
  /\ ~ LegacyFits(part)
  /\ Goes("legacyHead", "done")
  /\ err' = "Something"
  /\ UNCHANGED <<part, format, buf, ptr, announced, back>>

LegacyHead ==
  /\ LegacyFits(part)
  /\ Goes("legacyHead", "legacyBins")
  /\ Put(Word(part.partitionLength, 8) \o Word(NumBins(part) % Shorts, 2))
  /\ UNCHANGED <<part, format, announced, err, back>>

\* Offsets in bytes, in the 32-bit arithmetic of bin_offset_t.
ByteOffset(p, b) == (6 * p.binStartOffsets[b]) % Words
ByteOffsets(p) == [b \in 1 .. NumBins(p) |-> ByteOffset(p, b)]

\* Not scaled back to elements.
OffsetsOfBytes(p) == [b \in 1 .. NumBins(p) |-> ByteOffset(p, b)]
ElementOffsets(p) == [b \in 1 .. NumBins(p) |-> ByteOffset(p, b) \div 6]

\* The first bytes of the bin values' array, two for each bin.
LegacyBins ==
  /\ Goes("legacyBins", "written")
  /\ Put(Bytes(Array(part.binValues, 4), 0, 2 * NumBins(part))
               \o Array(ByteOffsets(part), 8) \o Array(ElementOffsets(part), 8)
               \o Word(0, NumBins(part)))
  /\ UNCHANGED <<part, format, announced, err, back>>
-------------------------------------------------------------------------------
(* Reading back.                                                           *)

Reset ==
  /\ Goes("written", IF format = "new" THEN "readHead" ELSE "readLegacyHead")
  /\ ptr' = 0
  /\ UNCHANGED <<part, format, buf, announced, err, back>>

ALDeserializeMetadata ==
  /\ Goes("readHead", "readLayout")
  /\ back' = [back EXCEPT !.globalOffset = Number(Ahead(0, 8)),
                          !.partitionLength = Number(Ahead(8, 4)),
                          !.significantBits = Number(Ahead(12, 1)),
                          !.elementSize = Number(Ahead(13, 1)),
                          !.endianness = Number(Ahead(14, 1)),
                          !.datatype = Number(Ahead(15, 4))]
  /\ ptr' = ptr + 19
  /\ UNCHANGED <<part, format, buf, announced, err>>

ALDeserializeBinLayout ==
  LET n == Number(Ahead(0, 4)) IN
    /\ Goes("readLayout", "readIndexMeta")
    /\ back' = [back EXCEPT !.numBins = n,
                            !.binValues = Ahead(4, 4 * n),
                            !.binStartOffsets = Ahead(4 + 4 * n, 4 * (n + 1))]
    /\ ptr' = ptr + 4 + 4 * n + 4 * (n + 1)
    /\ UNCHANGED <<part, format, buf, announced, err>>

ALDeserializeIndexMetadata ==
  LET form == Number(Ahead(0, 4))
      size == IF form \in PForDeltaForms THEN 8 * (back.numBins + 1) ELSE 0
  IN /\ Goes("readIndexMeta", "readData")
     /\ back' = [back EXCEPT !.indexForm = form, !.indexBinStartOffsets = Ahead(4, size)]
     /\ ptr' = ptr + 4 + size
     /\ UNCHANGED <<part, format, buf, announced, err>>

ALDeserializeData ==
  LET size == ALGetDataSize(back) IN
    /\ Goes("readData", "readIndex")
    /\ back' = [back EXCEPT !.data = Ahead(0, size)]
    /\ ptr' = ptr + size
    /\ UNCHANGED <<part, format, buf, announced, err>>

ALDeserializeIndex ==
  LET size == IndexSize(back, IF back.indexForm \in PForDeltaForms
                                THEN Element(back.indexBinStartOffsets, 8, back.numBins)
                                ELSE 0)
  IN /\ Goes("readIndex", "done")
     /\ back' = [back EXCEPT !.index = Ahead(0, size)]
     /\ ptr' = ptr + size
     /\ UNCHANGED <<part, format, buf, announced, err>>

\* ALDeserializeMetadataLegacy; globalOffset is left as it was.
LegacyReadHead ==
  /\ Goes("readLegacyHead", "readLegacyBins")
  /\ back' = [back EXCEPT !.elementSize = 8, !.significantBits = 16,
                          !.endianness = ENDIAN_LITTLE, !.datatype = DATATYPE_FLOAT64,
                          !.indexForm = ALInvertedIndex,
                          !.partitionLength = Number(Ahead(0, 8)),
                          !.numBins = Number(Ahead(8, 2))]
  /\ ptr' = ptr + 10
  /\ UNCHANGED <<part, format, buf, announced, err>>

LegacyReadBins ==
  LET n == back.numBins IN
    /\ Goes("readLegacyBins", "done")
    /\ back' = [back EXCEPT
                  !.binValues = Ahead(0, 2 * n),
                  !.binStartOffsets =
                     Array([b \in 1 .. n + 1 |->
                              IF b = n + 1 THEN back.partitionLength
                              ELSE Element(Ahead(10 * n, 8 * n), 8, b - 1)], 4)]
    /\ ptr' = ptr + 19 * n
    /\ UNCHANGED <<part, format, buf, announced, err>>
-------------------------------------------------------------------------------
Next ==
  \/ Allocate
  \/ ALSerializeMetadata \/ ALSerializeBinLayout \/ ALSerializeIndexMetadata
  \/ ALSerializeData \/ ALSerializeIndex
  \/ LegacyRefuse \/ LegacyHead \/ LegacyBins
  \/ Reset
  \/ ALDeserializeMetadata \/ ALDeserializeBinLayout \/ ALDeserializeIndexMetadata
  \/ ALDeserializeData \/ ALDeserializeIndex
  \/ LegacyReadHead \/ LegacyReadBins

Spec == Init /\ [][Next]_vars
===============================================================================
