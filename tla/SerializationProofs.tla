--------------------------- MODULE SerializationProofs --------------------------
(***************************************************************************)
(* Sizes, writers and readers of both formats agree to the byte, and what  *)
(* a format keeps is read back, for every partition.                       *)
(***************************************************************************)
EXTENDS SerializationProps, SequenceTheorems, TLAPS

-------------------------------------------------------------------------------
(* Bytes and where they lie.                                               *)

Byte == {"number", "data", "index"} \X Int \X Int

\* Memory holds these bytes from position at on.
Holds(m, at, bytes) == \A k \in 1 .. Len(bytes) : m[at + k] = bytes[k]

\* Memory after bytes were put at position at.
Written(m, at, bytes) ==
  [i \in 1 .. (IF at + Len(bytes) > Len(m) THEN at + Len(bytes) ELSE Len(m)) |->
     IF at < i /\ i <= at + Len(bytes) THEN bytes[i - at] ELSE m[i]]

\* Put writes at the position and moves it.
LEMMA PutWrites ==
  ASSUME NEW bytes, Put(bytes)
  PROVE  buf' = Written(buf, ptr, bytes) /\ ptr' = ptr + Len(bytes)
  BY DEF Put, Written

\* Bytes that fit go to their place, and what lies before them stays.
LEMMA Writing ==
  ASSUME NEW m \in Seq(Byte \cup {Unset}), NEW at \in Nat, NEW bytes \in Seq(Byte),
         at + Len(bytes) <= Len(m), \A i \in 1 .. at : m[i] \in Byte,
         NEW mm, mm = Written(m, at, bytes)
  PROVE  /\ mm \in Seq(Byte \cup {Unset}) /\ Len(mm) = Len(m)
         /\ \A i \in 1 .. at + Len(bytes) : mm[i] \in Byte
         /\ Holds(mm, at, bytes)
         /\ \A i \in 1 .. at : mm[i] = m[i]
<1>1. Len(bytes) \in Nat /\ Len(m) \in Nat
  OBVIOUS
<1>2. mm = [i \in 1 .. Len(m) |-> IF at < i /\ i <= at + Len(bytes) THEN bytes[i - at] ELSE m[i]]
  BY <1>1 DEF Written
<1>3. \A k \in 1 .. Len(bytes) : bytes[k] \in Byte
  OBVIOUS
<1>4. ASSUME NEW i \in 1 .. Len(m), at < i, i <= at + Len(bytes)
      PROVE  mm[i] = bytes[i - at] /\ mm[i] \in Byte
  <2>1. mm[i] = bytes[i - at]
    BY <1>2, <1>4
  <2>2. i - at \in 1 .. Len(bytes)
    BY <1>1, <1>4
  <2> QED BY <1>3, <2>1, <2>2
<1>5. ASSUME NEW i \in 1 .. Len(m), ~ (at < i /\ i <= at + Len(bytes))
      PROVE  mm[i] = m[i]
  BY <1>2, <1>5
<1>6. \A i \in 1 .. Len(m) : mm[i] \in Byte \cup {Unset}
  <2>1. \A i \in 1 .. Len(m) : m[i] \in Byte \cup {Unset}
    OBVIOUS
  <2> QED BY <1>4, <1>5, <2>1
<1>7. mm \in Seq(Byte \cup {Unset}) /\ Len(mm) = Len(m)
  <2>1. mm \in [1 .. Len(m) -> Byte \cup {Unset}]
    BY <1>2, <1>6
  <2> QED BY <1>1, <2>1
<1>8. \A i \in 1 .. at + Len(bytes) : mm[i] \in Byte
  <2> SUFFICES ASSUME NEW i \in 1 .. at + Len(bytes) PROVE mm[i] \in Byte
    OBVIOUS
  <2>1. i \in 1 .. Len(m)
    BY <1>1
  <2>2. CASE at < i
    BY <1>1, <1>4, <2>1, <2>2
  <2>3. CASE ~ (at < i)
    <3>1. i \in 1 .. at
      BY <2>1, <2>3
    <3> QED BY <1>5, <2>1, <2>3, <3>1
  <2> QED BY <2>2, <2>3
<1>9. Holds(mm, at, bytes)
  <2> SUFFICES ASSUME NEW k \in 1 .. Len(bytes) PROVE mm[at + k] = bytes[k]
    BY DEF Holds
  <2>1. at + k \in 1 .. Len(m) /\ at < at + k /\ at + k <= at + Len(bytes) /\ (at + k) - at = k
    BY <1>1
  <2> QED BY <1>4, <2>1
<1>10. \A i \in 1 .. at : mm[i] = m[i]
  <2> SUFFICES ASSUME NEW i \in 1 .. at PROVE mm[i] = m[i]
    OBVIOUS
  <2>1. i \in 1 .. Len(m) /\ ~ (at < i)
    BY <1>1
  <2> QED BY <1>5, <2>1
<1> QED BY <1>7, <1>8, <1>9, <1>10

\* Bytes stay where nothing is written.
LEMMA StillHolds ==
  ASSUME NEW m, NEW mm, NEW at \in Nat, NEW from \in Nat, NEW bytes \in Seq(Byte),
         Holds(m, from, bytes), from + Len(bytes) <= at, \A i \in 1 .. at : mm[i] = m[i]
  PROVE  Holds(mm, from, bytes)
<1> SUFFICES ASSUME NEW k \in 1 .. Len(bytes) PROVE mm[from + k] = bytes[k]
  BY DEF Holds
<1>1. from + k \in 1 .. at
  OBVIOUS
<1> QED BY <1>1 DEF Holds

\* Where two pieces lie, each lies at its place.
LEMMA HoldsJoined ==
  ASSUME NEW m, NEW at \in Nat, NEW a \in Seq(Byte), NEW b \in Seq(Byte),
         Holds(m, at, a \o b)
  PROVE  Holds(m, at, a) /\ Holds(m, at + Len(a), b)
<1>1. Len(a) \in Nat /\ Len(b) \in Nat /\ Len(a \o b) = Len(a) + Len(b)
  BY ConcatProperties
<1>2. \A i \in 1 .. Len(a) + Len(b) : (a \o b)[i] = IF i <= Len(a) THEN a[i] ELSE b[i - Len(a)]
  BY ConcatProperties
<1>3. \A k \in 1 .. Len(a) + Len(b) : m[at + k] = (a \o b)[k]
  BY <1>1 DEF Holds
<1>4. ASSUME NEW k \in 1 .. Len(a) PROVE m[at + k] = a[k]
  <2>1. k \in 1 .. Len(a) + Len(b) /\ k <= Len(a)
    BY <1>1
  <2> QED BY <1>2, <1>3, <2>1
<1>5. ASSUME NEW k \in 1 .. Len(b) PROVE m[at + Len(a) + k] = b[k]
  <2> DEFINE i == Len(a) + k
  <2>1. /\ i \in 1 .. Len(a) + Len(b) /\ ~ (i <= Len(a)) /\ i - Len(a) = k
        /\ at + i = at + Len(a) + k
    BY <1>1
  <2>2. m[at + i] = (a \o b)[i] /\ (a \o b)[i] = b[k]
    BY <1>2, <1>3, <2>1
  <2> HIDE DEF i
  <2> QED BY <2>1, <2>2
<1> QED BY <1>4, <1>5 DEF Holds

\* A number of w bytes.
LEMMA WordIs ==
  ASSUME NEW v \in Int, NEW w \in Nat
  PROVE  Word(v, w) \in Seq(Byte) /\ Len(Word(v, w)) = w
<1>1. Word(v, w) \in [1 .. w -> Byte]
  BY DEF Word, Byte
<1> QED BY <1>1

\* A buffer of n bytes.
LEMMA BufferIs ==
  ASSUME NEW kind \in {"data", "index"}, NEW n \in Nat
  PROVE  Buffer(kind, n) \in Seq(Byte) /\ Len(Buffer(kind, n)) = n
<1>1. Buffer(kind, n) \in [1 .. n -> Byte]
  BY DEF Buffer, Byte
<1> QED BY <1>1

\* Byte k of element i of an array.
LEMMA ArrayIs ==
  ASSUME NEW f \in Seq(Int), NEW w \in {4, 8}
  PROVE  /\ Array(f, w) \in Seq(Byte) /\ Len(Array(f, w)) = w * Len(f)
         /\ \A i \in 1 .. Len(f), k \in 1 .. w :
              Array(f, w)[w * (i - 1) + k] = <<"number", f[i], k>>
<1>1. Len(f) \in Nat /\ w * Len(f) \in Nat /\ \A i \in 1 .. Len(f) : f[i] \in Int
  OBVIOUS
<1>2. ASSUME NEW j \in 1 .. w * Len(f)
      PROVE  (j - 1) \div w + 1 \in 1 .. Len(f) /\ ((j - 1) % w) + 1 \in Int
  <2>1. CASE w = 4
    BY <1>1, <2>1
  <2>2. CASE w = 8
    BY <1>1, <2>2
  <2> QED BY <2>1, <2>2
<1>3. Array(f, w) \in [1 .. w * Len(f) -> Byte]
  BY <1>1, <1>2 DEF Array, Byte
<1>4. ASSUME NEW i \in 1 .. Len(f), NEW k \in 1 .. w
      PROVE  Array(f, w)[w * (i - 1) + k] = <<"number", f[i], k>>
  <2> DEFINE j == w * (i - 1) + k
  <2>1. j \in 1 .. w * Len(f) /\ (j - 1) \div w + 1 = i /\ ((j - 1) % w) + 1 = k
    <3>1. CASE w = 4
      BY <1>1, <3>1
    <3>2. CASE w = 8
      BY <1>1, <3>2
    <3> QED BY <3>1, <3>2
  <2> HIDE DEF j
  <2>2. Array(f, w)[j] = <<"number", f[(j - 1) \div w + 1], ((j - 1) % w) + 1>>
    BY <2>1 DEF Array
  <2> QED BY <2>1, <2>2 DEF j
<1>5. Array(f, w) \in Seq(Byte) /\ Len(Array(f, w)) = w * Len(f)
  <2> DEFINE a == Array(f, w)
             n == w * Len(f)
  <2>1. a \in [1 .. n -> Byte] /\ n \in Nat
    BY <1>1, <1>3
  <2> HIDE DEF a, n
  <2>2. a \in Seq(Byte) /\ Len(a) = n
    BY <2>1
  <2> QED BY <2>2 DEF a, n
<1> QED BY <1>4, <1>5

\* A number of w bytes is read as the number that was written.
LEMMA NumberRead ==
  ASSUME NEW v \in Int, NEW w \in Nat \ {0}, NEW bytes, bytes = Word(v, w)
  PROVE  Number(bytes) = v
<1>1. bytes[1] = <<"number", v, 1>> /\ Len(bytes) = w
  BY WordIs DEF Word
<1>2. bytes[1][1] = "number" /\ bytes[1][2] = v
  BY <1>1
<1> QED BY <1>1, <1>2 DEF Number

\* A number is read as it was written.
LEMMA WordRead ==
  ASSUME NEW S, NEW m \in Seq(S), NEW at \in Nat, NEW v \in Int, NEW w \in Nat \ {0},
         Holds(m, at, Word(v, w)), at + w <= Len(m)
  PROVE  Number(Bytes(m, at, w)) = v
<1>1. \A k \in 1 .. w : m[at + k] = <<"number", v, k>>
  BY WordIs DEF Holds, Word
<1>2. \A k \in 1 .. w : at + k \in DOMAIN m
  OBVIOUS
<1>3. Bytes(m, at, w) = Word(v, w)
  BY <1>1, <1>2 DEF Bytes, Word
<1> QED BY <1>3, NumberRead

\* Elements of an array in memory.
LEMMA ElementRead ==
  ASSUME NEW f \in Seq(Int), NEW w \in {4, 8}, NEW i \in 1 .. Len(f),
         NEW m, \A k \in 1 .. w : /\ w * (i - 1) + k \in DOMAIN m
                                  /\ m[w * (i - 1) + k] = <<"number", f[i], k>>
  PROVE  Element(m, w, i - 1) = f[i]
<1>1. Bytes(m, w * (i - 1), w) = Word(f[i], w)
  BY DEF Bytes, Word
<1>2. f[i] \in Int /\ w \in Nat \ {0}
  OBVIOUS
<1> QED BY <1>1, <1>2, NumberRead DEF Element

\* An array holds its numbers.
LEMMA ArrayHoldsNumbers ==
  ASSUME NEW f \in Seq(Int), NEW w \in {4, 8}
  PROVE  HoldsNumbers(Array(f, w), w, f)
<1> SUFFICES ASSUME NEW i \in 1 .. Len(f) PROVE Element(Array(f, w), w, i - 1) = f[i]
  BY DEF HoldsNumbers
<1>1. ASSUME NEW k \in 1 .. w
      PROVE  /\ w * (i - 1) + k \in DOMAIN Array(f, w)
             /\ Array(f, w)[w * (i - 1) + k] = <<"number", f[i], k>>
  <2>1. w * (i - 1) + k \in 1 .. w * Len(f)
    <3>1. CASE w = 4
      BY <3>1
    <3>2. CASE w = 8
      BY <3>2
    <3> QED BY <3>1, <3>2
  <2>2. w * (i - 1) + k \in DOMAIN Array(f, w)
    <3>1. DOMAIN Array(f, w) = 1 .. w * Len(f)
      BY DEF Array
    <3> QED BY <2>1, <3>1
  <2>3. Array(f, w)[w * (i - 1) + k] = <<"number", f[i], k>>
    BY ArrayIs
  <2> QED BY <2>2, <2>3
<1> QED BY <1>1, ElementRead

\* What memory holds is read from it.
LEMMA BytesRead ==
  ASSUME NEW S, NEW m \in Seq(S), NEW at \in Nat, NEW bytes \in Seq(Byte),
         Holds(m, at, bytes), at + Len(bytes) <= Len(m)
  PROVE  Bytes(m, at, Len(bytes)) = bytes
<1> DEFINE n == Len(bytes)
<1>1. n \in Nat /\ Len(m) \in Nat /\ DOMAIN m = 1 .. Len(m)
  OBVIOUS
<1>2. ASSUME NEW k \in 1 .. n PROVE at + k \in DOMAIN m /\ m[at + k] = bytes[k]
  BY <1>1 DEF Holds
<1>3. Bytes(m, at, n) = [k \in 1 .. n |-> bytes[k]]
  <2> HIDE DEF n
  <2> QED BY <1>2 DEF Bytes
<1>4. bytes = [k \in 1 .. n |-> bytes[k]]
  OBVIOUS
<1> QED BY <1>3, <1>4

\* An array is read as it was written.
LEMMA ArrayRead ==
  ASSUME NEW S, NEW m \in Seq(S), NEW at \in Nat, NEW f \in Seq(Int), NEW w \in {4, 8},
         NEW n, n = w * Len(f), Holds(m, at, Array(f, w)), at + n <= Len(m)
  PROVE  HoldsNumbers(Bytes(m, at, n), w, f)
<1>1. Array(f, w) \in Seq(Byte) /\ Len(Array(f, w)) = n
  BY ArrayIs
<1>2. Bytes(m, at, n) = Array(f, w)
  BY <1>1, BytesRead
<1> QED BY <1>2, ArrayHoldsNumbers

\* A buffer is read as it was written.
LEMMA BufferRead ==
  ASSUME NEW S, NEW m \in Seq(S), NEW at \in Nat, NEW kind \in {"data", "index"}, NEW n \in Nat,
         Holds(m, at, Buffer(kind, n)), at + n <= Len(m)
  PROVE  Bytes(m, at, n) = Buffer(kind, n)
<1>1. Buffer(kind, n) \in Seq(Byte) /\ Len(Buffer(kind, n)) = n
  BY BufferIs
<1> QED BY <1>1, BytesRead

-------------------------------------------------------------------------------
(* The pieces of the new format, where they begin, and what the serializer *)
(* and the deserializer have done of them.                                 *)

LayoutBytes(p) == Word(NumBins(p), 4) \o Array(p.binValues, 4) \o Array(p.binStartOffsets, 4)
OffsetBytes(p) ==
  IF p.indexForm \in PForDeltaForms THEN Array(p.indexBinStartOffsets, 8) ELSE <<>>
IndexMetaBytes(p) == Word(p.indexForm, 4) \o OffsetBytes(p)
DataBytes(p) == Buffer("data", InsigBytes(p) * p.partitionLength)
IndexBytes(p) == Buffer("index", ALGetIndexSize(p))

LayoutAt == 19
IndexMetaAt(p) == LayoutAt + ALGetBinLayoutSize(NumBins(p))
DataAt(p) == ALGetMetadataSize(p)
IndexAt(p) == DataAt(p) + ALGetDataSize(p)
StreamEnd(p) == ALGetPartitionDataSize(p)

Fields == HeadFields \cup
  {"numBins", "binValues", "binStartOffsets", "indexForm", "indexBinStartOffsets",
   "data", "index"}

Common ==
  /\ part \in Parts /\ format \in {"new", "legacy"}
  /\ format = "legacy" => part.indexForm = ALInvertedIndex
  /\ DOMAIN back = Fields
  /\ format = "new" =>
       /\ err = "None"
       /\ pc \in {"allocate", "head", "layout", "indexMeta", "data", "index", "written",
                  "readHead", "readLayout", "readIndexMeta", "readData", "readIndex", "done"}
  /\ format = "legacy" =>
       pc \in {"allocate", "legacyHead", "legacyBins", "written", "readLegacyHead",
               "readLegacyBins", "done"}
  /\ pc = "allocate" => ptr = 0 /\ announced = 0
  /\ err # "None" => pc = "done" /\ ptr = 0 /\ announced \in Nat

WritingPcs == {"head", "layout", "indexMeta", "data", "index"}

NewPlaces ==
  /\ pc \in {"head", "readHead"} => ptr = 0
  /\ pc \in {"layout", "readLayout"} => ptr = LayoutAt
  /\ pc \in {"indexMeta", "readIndexMeta"} => ptr = IndexMetaAt(part)
  /\ pc \in {"data", "readData"} => ptr = DataAt(part)
  /\ pc \in {"index", "readIndex"} => ptr = IndexAt(part)
  /\ pc \in {"written", "done"} => ptr = StreamEnd(part)

\* What has been written, and that it is all there is before the end of the stream.
NewBytes ==
  /\ announced = StreamEnd(part)
  /\ buf \in Seq(Byte \cup {Unset}) /\ Len(buf) = announced
  /\ pc # "head" => Holds(buf, 0, HeadBytes(part))
  /\ pc \notin {"head", "layout"} => Holds(buf, LayoutAt, LayoutBytes(part))
  /\ pc \notin {"head", "layout", "indexMeta"} =>
       Holds(buf, IndexMetaAt(part), IndexMetaBytes(part))
  /\ pc \notin {"head", "layout", "indexMeta", "data"} =>
       Holds(buf, DataAt(part), DataBytes(part))
  /\ pc \notin WritingPcs => Holds(buf, IndexAt(part), IndexBytes(part))
  /\ \A i \in 1 .. (IF pc \in WritingPcs THEN ptr ELSE announced) : buf[i] \in Byte

HeadRead == \A f \in HeadFields : back[f] = part[f]
LayoutRead ==
  /\ back.numBins = NumBins(part)
  /\ HoldsNumbers(back.binValues, 4, part.binValues)
  /\ HoldsNumbers(back.binStartOffsets, 4, part.binStartOffsets)
IndexMetaRead ==
  /\ back.indexForm = part.indexForm
  /\ part.indexForm \in PForDeltaForms =>
       HoldsNumbers(back.indexBinStartOffsets, 8, part.indexBinStartOffsets)

NewFields ==
  /\ pc \in {"readLayout", "readIndexMeta", "readData", "readIndex", "done"} => HeadRead
  /\ pc \in {"readIndexMeta", "readData", "readIndex", "done"} => LayoutRead
  /\ pc \in {"readData", "readIndex", "done"} => IndexMetaRead
  /\ pc \in {"readIndex", "done"} => back.data = Buffer("data", ALGetDataSize(part))
  /\ pc = "done" => back.index = Buffer("index", ALGetIndexSize(part))

NewInv == format = "new" /\ pc # "allocate" /\ SizesFit => NewPlaces /\ NewBytes /\ NewFields

-------------------------------------------------------------------------------
(* The same of the legacy format.                                          *)

LegacyHeadBytes(p) == Word(p.partitionLength, 8) \o Word(NumBins(p) % Shorts, 2)
LegacyBinBytes(p) ==
  Bytes(Array(p.binValues, 4), 0, 2 * NumBins(p)) \o Array(ByteOffsets(p), 8)
    \o Array(ElementOffsets(p), 8) \o Word(0, NumBins(p))

LegacyEnd(p) == ALGetMetadataSizeLegacy(p)
LegacyBinsAt == 10

LegacyPlaces ==
  /\ pc \in {"legacyHead", "readLegacyHead"} => ptr = 0
  /\ pc \in {"legacyBins", "readLegacyBins"} => ptr = LegacyBinsAt
  /\ pc = "written" => ptr = LegacyEnd(part)
  /\ pc = "done" => ptr = LegacyBinsAt + 19 * (NumBins(part) % Shorts)

LegacyBytes ==
  /\ announced = LegacyEnd(part)
  /\ buf \in Seq(Byte \cup {Unset}) /\ Len(buf) = announced
  /\ pc # "legacyHead" => Holds(buf, 0, LegacyHeadBytes(part))
  /\ pc \notin {"legacyHead", "legacyBins"} => Holds(buf, LegacyBinsAt, LegacyBinBytes(part))
  /\ \A i \in 1 .. (IF pc \in {"legacyHead", "legacyBins"} THEN ptr ELSE announced) :
       buf[i] \in Byte

LegacyFields ==
  /\ pc \in {"readLegacyBins", "done"} =>
       back.partitionLength = part.partitionLength /\ back.numBins = NumBins(part) % Shorts
  /\ pc = "done" => LegacyPlacesBins

LegacyInv ==
  format = "legacy" /\ pc # "allocate" /\ err = "None" =>
    LegacyPlaces /\ LegacyBytes /\ LegacyFields

SerializationInv == Common /\ NewInv /\ LegacyInv

-------------------------------------------------------------------------------
(* Sizes.                                                                  *)

LEMMA PartHas ==
  ASSUME NEW p \in Parts
  PROVE  /\ \A f \in HeadFields : p[f] \in Nat
         /\ NumBins(p) \in 1 .. Shorts /\ NumBins(p) \in Nat
         /\ p.binValues \in Seq(Int) /\ Len(p.binValues) = NumBins(p)
         /\ p.binStartOffsets \in Seq(Int) /\ Len(p.binStartOffsets) = NumBins(p) + 1
         /\ \A b \in 1 .. NumBins(p) : p.binStartOffsets[b] \in Nat
         /\ p.indexForm \in 0 .. 6
         /\ p.indexForm \in PForDeltaForms =>
              /\ p.indexBinStartOffsets \in Seq(Int)
              /\ Len(p.indexBinStartOffsets) = NumBins(p) + 1
              /\ p.indexBinStartOffsets[NumBins(p) + 1] \in Nat
         /\ InsigBytes(p) \in Nat /\ SigBytes(p) \in Nat
<1>1. IsPart(p) /\ Shorts \in Nat
  BY SerializationAssumption
<1>2. NumBins(p) \in 1 .. Shorts /\ NumBins(p) = Len(p.binValues)
  BY <1>1 DEF IsPart, NumBins
<1>3. p.elementSize \in Nat /\ p.significantBits \in Nat /\ p.significantBits <= 8 * p.elementSize
  BY <1>1 DEF IsPart, HeadFields
<1>4. InsigBytes(p) \in Nat /\ SigBytes(p) \in Nat
  BY <1>3 DEF InsigBytes, SigBytes, Bits
<1>5. p.indexForm \in PForDeltaForms =>
        /\ p.indexBinStartOffsets \in Seq(Int)
        /\ Len(p.indexBinStartOffsets) = NumBins(p) + 1
        /\ p.indexBinStartOffsets[NumBins(p) + 1] \in Nat
  <2> SUFFICES ASSUME p.indexForm \in PForDeltaForms
               PROVE  /\ p.indexBinStartOffsets \in Seq(Int)
                      /\ Len(p.indexBinStartOffsets) = NumBins(p) + 1
                      /\ p.indexBinStartOffsets[NumBins(p) + 1] \in Nat
    OBVIOUS
  <2> DEFINE o == p.indexBinStartOffsets
             n == NumBins(p)
  <2>1. o \in Seq(Nat) /\ Len(o) = n + 1 /\ n \in Nat
    BY <1>1, <1>2 DEF IsPart
  <2> HIDE DEF o, n
  <2>2. o \in Seq(Int) /\ o[n + 1] \in Nat
    BY <2>1
  <2> QED BY <2>1, <2>2 DEF o, n
<1>6. /\ p.binStartOffsets \in Seq(Int) /\ Len(p.binStartOffsets) = NumBins(p) + 1
      /\ \A b \in 1 .. NumBins(p) : p.binStartOffsets[b] \in Nat
  <2> DEFINE o == p.binStartOffsets
             n == NumBins(p)
  <2>1. o \in Seq(Nat) /\ Len(o) = n + 1 /\ n \in Nat
    BY <1>1, <1>2 DEF IsPart
  <2> HIDE DEF o, n
  <2>2. o \in Seq(Int)
    BY ONLY <2>1
  <2>3. \A b \in 1 .. n : o[b] \in Nat
    BY ONLY <2>1
  <2> QED BY <2>1, <2>2, <2>3 DEF o, n
<1> QED BY <1>1, <1>2, <1>4, <1>5, <1>6 DEF IsPart, IndexForms

\* Shorter than 2^32 bytes, the sizes of data and index are the products meant.
LEMMA SizesAre ==
  ASSUME NEW p \in Parts, p.partitionLength * InsigBytes(p) < Words,
         p.partitionLength * SigBytes(p) < Words
  PROVE  /\ ALGetDataSize(p) \in Nat /\ ALGetIndexSize(p) \in Nat
         /\ ALGetDataSize(p) = InsigBytes(p) * p.partitionLength
<1> DEFINE n == p.partitionLength * InsigBytes(p)
           s == SigBytes(p) * p.partitionLength
<1>1. p.partitionLength \in Nat /\ InsigBytes(p) \in Nat /\ SigBytes(p) \in Nat
  BY PartHas DEF HeadFields
<1>2. n \in Nat /\ n = InsigBytes(p) * p.partitionLength /\ n < Words /\ s \in Nat
  BY <1>1
<1>3. n % Words = n /\ s % Words \in Nat
  <2> HIDE DEF n, s
  <2> QED BY <1>2, SerializationAssumption
<1>4. ALGetIndexSize(p) \in Nat
  <2>1. p.indexForm \in 0 .. 6 /\ (p.indexForm \in PForDeltaForms =>
          p.indexBinStartOffsets[NumBins(p) + 1] \in Nat)
    BY PartHas
  <2>2. CASE p.indexForm = ALInvertedIndex
    <3>1. ALGetIndexSize(p) = 4 * p.partitionLength
      BY <2>2 DEF ALGetIndexSize, IndexSize, ALInvertedIndex, ALCompressionIndex
    <3> QED BY <1>1, <3>1
  <2>3. CASE p.indexForm = ALCompressionIndex
    <3>1. ALGetIndexSize(p) = s % Words
      BY <2>3 DEF ALGetIndexSize, IndexSize, ALInvertedIndex, ALCompressionIndex
    <3> QED BY <1>3, <3>1
  <2>4. CASE p.indexForm \in PForDeltaForms
    BY <2>1, <2>4
       DEF ALGetIndexSize, IndexSize, ALInvertedIndex, ALCompressionIndex, PForDeltaForms
  <2> QED BY <2>1, <2>2, <2>3, <2>4 DEF ALInvertedIndex, ALCompressionIndex, PForDeltaForms
<1> QED BY <1>2, <1>3, <1>4 DEF ALGetDataSize

\* Joined pieces are bytes.
LEMMA Joined ==
  ASSUME NEW a \in Seq(Byte), NEW b \in Seq(Byte)
  PROVE  a \o b \in Seq(Byte) /\ Len(a \o b) = Len(a) + Len(b)
  BY ConcatProperties

\* The head of the metadata and where its fields lie.
LEMMA HeadIs ==
  ASSUME NEW p \in Parts
  PROVE  /\ HeadBytes(p) \in Seq(Byte) /\ Len(HeadBytes(p)) = LayoutAt
         /\ \A m : Holds(m, 0, HeadBytes(p)) =>
              /\ Holds(m, 0, Word(p.globalOffset, 8))
              /\ Holds(m, 8, Word(p.partitionLength, 4))
              /\ Holds(m, 12, Word(p.significantBits, 1))
              /\ Holds(m, 13, Word(p.elementSize, 1))
              /\ Holds(m, 14, Word(p.endianness, 1))
              /\ Holds(m, 15, Word(p.datatype, 4))
<1> DEFINE W1 == Word(p.globalOffset, 8)
           W2 == Word(p.partitionLength, 4)
           W3 == Word(p.significantBits, 1)
           W4 == Word(p.elementSize, 1)
           W5 == Word(p.endianness, 1)
           W6 == Word(p.datatype, 4)
<1>0. \A f \in HeadFields : p[f] \in Int
  BY PartHas
<1>1. W1 \in Seq(Byte) /\ Len(W1) = 8
  BY <1>0, WordIs DEF HeadFields
<1>2. W2 \in Seq(Byte) /\ Len(W2) = 4
  BY <1>0, WordIs DEF HeadFields
<1>3. W3 \in Seq(Byte) /\ Len(W3) = 1
  BY <1>0, WordIs DEF HeadFields
<1>4. W4 \in Seq(Byte) /\ Len(W4) = 1
  BY <1>0, WordIs DEF HeadFields
<1>5. W5 \in Seq(Byte) /\ Len(W5) = 1
  BY <1>0, WordIs DEF HeadFields
<1>6. W6 \in Seq(Byte) /\ Len(W6) = 4
  BY <1>0, WordIs DEF HeadFields
<1>7. HeadBytes(p) = ((((W1 \o W2) \o W3) \o W4) \o W5) \o W6
  BY DEF HeadBytes
<1> HIDE DEF W1, W2, W3, W4, W5, W6
<1> DEFINE A2 == W1 \o W2
           A3 == A2 \o W3
           A4 == A3 \o W4
           A5 == A4 \o W5
           A6 == A5 \o W6
<1>8. HeadBytes(p) = A6
  BY <1>7
<1>9. A2 \in Seq(Byte) /\ Len(A2) = 8 + 4
  BY <1>1, <1>2, Joined
<1> HIDE DEF A2
<1>10. A3 \in Seq(Byte) /\ Len(A3) = 8 + 4 + 1
  BY <1>9, <1>3, Joined
<1> HIDE DEF A3
<1>11. A4 \in Seq(Byte) /\ Len(A4) = 8 + 4 + 1 + 1
  BY <1>10, <1>4, Joined
<1> HIDE DEF A4
<1>12. A5 \in Seq(Byte) /\ Len(A5) = 8 + 4 + 1 + 1 + 1
  BY <1>11, <1>5, Joined
<1> HIDE DEF A5
<1>13. A6 \in Seq(Byte) /\ Len(A6) = 8 + 4 + 1 + 1 + 1 + 4
  BY <1>12, <1>6, Joined
<1>14. ASSUME NEW m, Holds(m, 0, A6)
       PROVE  /\ Holds(m, 0, W1) /\ Holds(m, 8, W2) /\ Holds(m, 12, W3)
              /\ Holds(m, 13, W4) /\ Holds(m, 14, W5) /\ Holds(m, 15, W6)
  <2>1. Holds(m, 0, A5) /\ Holds(m, 0 + Len(A5), W6)
    BY <1>12, <1>6, <1>14, HoldsJoined DEF A6
  <2>2. Holds(m, 0, A4) /\ Holds(m, 0 + Len(A4), W5)
    BY <1>11, <1>5, <2>1, HoldsJoined DEF A5
  <2>3. Holds(m, 0, A3) /\ Holds(m, 0 + Len(A3), W4)
    BY <1>10, <1>4, <2>2, HoldsJoined DEF A4
  <2>4. Holds(m, 0, A2) /\ Holds(m, 0 + Len(A2), W3)
    BY <1>9, <1>3, <2>3, HoldsJoined DEF A3
  <2>5. Holds(m, 0, W1) /\ Holds(m, 0 + Len(W1), W2)
    BY <1>1, <1>2, <2>4, HoldsJoined DEF A2
  <2>6. /\ 0 + Len(W1) = 8 /\ 0 + Len(A2) = 12 /\ 0 + Len(A3) = 13
        /\ 0 + Len(A4) = 14 /\ 0 + Len(A5) = 15
    BY <1>1, <1>9, <1>10, <1>11, <1>12
  <2> QED BY <2>1, <2>2, <2>3, <2>4, <2>5, <2>6
<1>15. HeadBytes(p) \in Seq(Byte) /\ Len(HeadBytes(p)) = LayoutAt
  BY <1>8, <1>13 DEF LayoutAt
<1> QED BY <1>8, <1>14, <1>15 DEF W1, W2, W3, W4, W5, W6

\* The bin layout and where its fields lie.
LEMMA LayoutIs ==
  ASSUME NEW p \in Parts
  PROVE  /\ LayoutBytes(p) \in Seq(Byte)
         /\ LayoutAt + Len(LayoutBytes(p)) = IndexMetaAt(p) /\ IndexMetaAt(p) \in Nat
         /\ IndexMetaAt(p) = LayoutAt + 4 + 4 * NumBins(p) + 4 * (NumBins(p) + 1)
         /\ \A m : Holds(m, LayoutAt, LayoutBytes(p)) =>
              /\ Holds(m, LayoutAt, Word(NumBins(p), 4))
              /\ Holds(m, LayoutAt + 4, Array(p.binValues, 4))
              /\ Holds(m, LayoutAt + (4 + 4 * NumBins(p)), Array(p.binStartOffsets, 4))
<1> DEFINE n == NumBins(p)
           a == Word(n, 4)
           b == Array(p.binValues, 4)
           c == Array(p.binStartOffsets, 4)
<1>1. n \in Nat /\ n \in Int
  BY PartHas
<1>2. a \in Seq(Byte) /\ Len(a) = 4
  <2> HIDE DEF n
  <2> QED BY <1>1, WordIs
<1>3. b \in Seq(Byte) /\ Len(b) = 4 * n /\ c \in Seq(Byte) /\ Len(c) = 4 * (n + 1)
  BY PartHas, ArrayIs
<1>4. LayoutBytes(p) = (a \o b) \o c
  BY DEF LayoutBytes
<1>5. IndexMetaAt(p) = 19 + 4 + 4 * n + 4 * (n + 1)
  BY <1>1 DEF IndexMetaAt, LayoutAt, ALGetBinLayoutSize
<1> HIDE DEF n, a, b, c
<1>6. a \o b \in Seq(Byte) /\ Len(a \o b) = 4 + 4 * n
  BY <1>2, <1>3, Joined
<1>7. LayoutBytes(p) \in Seq(Byte) /\ Len(LayoutBytes(p)) = 4 + 4 * n + 4 * (n + 1)
  BY <1>3, <1>4, <1>6, Joined
<1>8. ASSUME NEW m, Holds(m, LayoutAt, (a \o b) \o c)
      PROVE  /\ Holds(m, LayoutAt, a) /\ Holds(m, LayoutAt + 4, b)
             /\ Holds(m, LayoutAt + (4 + 4 * n), c)
  <2>1. LayoutAt \in Nat
    BY DEF LayoutAt
  <2>2. Holds(m, LayoutAt, a \o b) /\ Holds(m, LayoutAt + Len(a \o b), c)
    BY <1>3, <1>6, <1>8, <2>1, HoldsJoined
  <2>3. Holds(m, LayoutAt, a) /\ Holds(m, LayoutAt + Len(a), b)
    BY <1>2, <1>3, <2>1, <2>2, HoldsJoined
  <2> QED BY <1>2, <1>6, <2>2, <2>3
<1>9. /\ LayoutAt + Len(LayoutBytes(p)) = IndexMetaAt(p) /\ IndexMetaAt(p) \in Nat
      /\ IndexMetaAt(p) = LayoutAt + 4 + 4 * n + 4 * (n + 1)
  BY <1>1, <1>5, <1>7 DEF LayoutAt
<1> QED BY <1>4, <1>7, <1>8, <1>9 DEF n, a, b, c

\* The offsets of the bins, which only some forms have.
LEMMA OffsetsAre ==
  ASSUME NEW p \in Parts
  PROVE  /\ OffsetBytes(p) \in Seq(Byte)
         /\ Len(OffsetBytes(p))
              = IF p.indexForm \in PForDeltaForms THEN 8 * (NumBins(p) + 1) ELSE 0
<1>1. CASE p.indexForm \in PForDeltaForms
  BY <1>1, PartHas, ArrayIs DEF OffsetBytes
<1>2. CASE p.indexForm \notin PForDeltaForms
  BY <1>2 DEF OffsetBytes
<1> QED BY <1>1, <1>2

\* The metadata of the index and where its fields lie.
LEMMA IndexMetaIs ==
  ASSUME NEW p \in Parts
  PROVE  /\ IndexMetaBytes(p) \in Seq(Byte)
         /\ IndexMetaAt(p) + Len(IndexMetaBytes(p)) = DataAt(p) /\ DataAt(p) \in Nat
         /\ Len(IndexMetaBytes(p)) = 4 + Len(OffsetBytes(p))
         /\ \A m : Holds(m, IndexMetaAt(p), IndexMetaBytes(p)) =>
              /\ Holds(m, IndexMetaAt(p), Word(p.indexForm, 4))
              /\ Holds(m, IndexMetaAt(p) + 4, OffsetBytes(p))
<1> DEFINE n == NumBins(p)
           a == Word(p.indexForm, 4)
           b == OffsetBytes(p)
           size == IF p.indexForm \in PForDeltaForms THEN 8 * (n + 1) ELSE 0
<1>1. n \in Nat /\ p.indexForm \in Int
  BY PartHas
<1>2. a \in Seq(Byte) /\ Len(a) = 4 /\ b \in Seq(Byte) /\ Len(b) = size
  BY <1>1, WordIs, OffsetsAre
<1>3. IndexMetaBytes(p) = a \o b
  BY DEF IndexMetaBytes
<1>4. /\ DataAt(p) = 8 + 4 + ALGetBinLayoutSize(n) + (4 + size) + 1 + 1 + 4 + 1
      /\ IndexMetaAt(p) = 19 + ALGetBinLayoutSize(n)
  BY DEF DataAt, ALGetMetadataSize, ALGetIndexMetadataSize, IndexMetaAt, LayoutAt
<1>5. ALGetBinLayoutSize(n) \in Nat /\ size \in Nat
  BY <1>1 DEF ALGetBinLayoutSize
<1>a. IndexMetaAt(p) \in Nat
  BY LayoutIs
<1> HIDE DEF n, a, b, size
<1>6. IndexMetaBytes(p) \in Seq(Byte) /\ Len(IndexMetaBytes(p)) = 4 + size
  BY <1>2, <1>3, Joined
<1>7. ASSUME NEW m, Holds(m, IndexMetaAt(p), a \o b)
      PROVE  Holds(m, IndexMetaAt(p), a) /\ Holds(m, IndexMetaAt(p) + 4, b)
  <2>1. Holds(m, IndexMetaAt(p), a) /\ Holds(m, IndexMetaAt(p) + Len(a), b)
    BY <1>2, <1>a, <1>7, HoldsJoined
  <2> QED BY <1>2, <2>1
<1>8. IndexMetaAt(p) + Len(IndexMetaBytes(p)) = DataAt(p) /\ DataAt(p) \in Nat
  BY <1>4, <1>5, <1>6
<1> QED BY <1>2, <1>3, <1>6, <1>7, <1>8 DEF a, b

\* The data and the index, where their sizes do not wrap.
LEMMA BuffersAre ==
  ASSUME NEW p \in Parts, p.partitionLength * InsigBytes(p) < Words,
         p.partitionLength * SigBytes(p) < Words
  PROVE  /\ DataBytes(p) \in Seq(Byte) /\ Len(DataBytes(p)) = ALGetDataSize(p)
         /\ DataBytes(p) = Buffer("data", ALGetDataSize(p))
         /\ DataAt(p) + ALGetDataSize(p) = IndexAt(p) /\ IndexAt(p) \in Nat
         /\ IndexBytes(p) \in Seq(Byte) /\ Len(IndexBytes(p)) = ALGetIndexSize(p)
         /\ IndexAt(p) + ALGetIndexSize(p) = StreamEnd(p) /\ StreamEnd(p) \in Nat
<1>1. /\ ALGetDataSize(p) \in Nat /\ ALGetIndexSize(p) \in Nat
      /\ ALGetDataSize(p) = InsigBytes(p) * p.partitionLength
  BY SizesAre
<1>2. DataAt(p) \in Nat
  BY IndexMetaIs
<1>3. /\ DataBytes(p) = Buffer("data", ALGetDataSize(p))
      /\ DataBytes(p) \in Seq(Byte) /\ Len(DataBytes(p)) = ALGetDataSize(p)
      /\ IndexBytes(p) \in Seq(Byte) /\ Len(IndexBytes(p)) = ALGetIndexSize(p)
  BY <1>1, BufferIs DEF DataBytes, IndexBytes
<1> QED BY <1>1, <1>2, <1>3 DEF IndexAt, StreamEnd, DataAt, ALGetPartitionDataSize

\* The pieces follow one another.
LEMMA PiecesInOrder ==
  ASSUME NEW p \in Parts, p.partitionLength * InsigBytes(p) < Words,
         p.partitionLength * SigBytes(p) < Words
  PROVE  /\ LayoutAt \in Nat /\ IndexMetaAt(p) \in Nat /\ DataAt(p) \in Nat
         /\ IndexAt(p) \in Nat /\ StreamEnd(p) \in Nat
         /\ LayoutAt <= IndexMetaAt(p) /\ IndexMetaAt(p) <= DataAt(p)
         /\ DataAt(p) <= IndexAt(p) /\ IndexAt(p) <= StreamEnd(p)
<1>1. /\ LayoutAt + Len(LayoutBytes(p)) = IndexMetaAt(p) /\ IndexMetaAt(p) \in Nat
      /\ LayoutBytes(p) \in Seq(Byte) /\ LayoutAt \in Nat
  BY LayoutIs DEF LayoutAt
<1>2. /\ IndexMetaAt(p) + Len(IndexMetaBytes(p)) = DataAt(p) /\ DataAt(p) \in Nat
      /\ IndexMetaBytes(p) \in Seq(Byte)
  BY IndexMetaIs
<1>3. /\ DataAt(p) + ALGetDataSize(p) = IndexAt(p) /\ IndexAt(p) \in Nat
      /\ IndexAt(p) + ALGetIndexSize(p) = StreamEnd(p) /\ StreamEnd(p) \in Nat
      /\ ALGetDataSize(p) \in Nat /\ ALGetIndexSize(p) \in Nat
  BY BuffersAre, SizesAre
<1>4. Len(LayoutBytes(p)) \in Nat /\ Len(IndexMetaBytes(p)) \in Nat
  BY <1>1, <1>2
<1>5. \A a, b, n : a \in Nat /\ n \in Nat /\ a + n = b => a <= b
  OBVIOUS
<1> QED BY <1>1, <1>2, <1>3, <1>4, <1>5

\* The fields of the head, the layout and the index's metadata, where they are read.
LEMMA HeadReads ==
  ASSUME NEW p \in Parts, NEW S, NEW m \in Seq(S), LayoutAt <= Len(m),
         Holds(m, 0, HeadBytes(p))
  PROVE  /\ Number(Bytes(m, 0, 8)) = p.globalOffset
         /\ Number(Bytes(m, 8, 4)) = p.partitionLength
         /\ Number(Bytes(m, 12, 1)) = p.significantBits
         /\ Number(Bytes(m, 13, 1)) = p.elementSize
         /\ Number(Bytes(m, 14, 1)) = p.endianness
         /\ Number(Bytes(m, 15, 4)) = p.datatype
<1>1. /\ Holds(m, 0, Word(p.globalOffset, 8)) /\ Holds(m, 8, Word(p.partitionLength, 4))
      /\ Holds(m, 12, Word(p.significantBits, 1)) /\ Holds(m, 13, Word(p.elementSize, 1))
      /\ Holds(m, 14, Word(p.endianness, 1)) /\ Holds(m, 15, Word(p.datatype, 4))
  BY HeadIs
<1>2. /\ p.globalOffset \in Int /\ p.partitionLength \in Int /\ p.significantBits \in Int
      /\ p.elementSize \in Int /\ p.endianness \in Int /\ p.datatype \in Int
  <2>1. \A f \in HeadFields : p[f] \in Int
    BY PartHas
  <2> QED BY <2>1 DEF HeadFields
<1>3. Len(m) \in Nat /\ 19 <= Len(m)
  BY DEF LayoutAt
<1>4. Number(Bytes(m, 0, 8)) = p.globalOffset
  BY <1>1, <1>2, <1>3, WordRead
<1>5. Number(Bytes(m, 8, 4)) = p.partitionLength
  BY <1>1, <1>2, <1>3, WordRead
<1>6. Number(Bytes(m, 12, 1)) = p.significantBits
  BY <1>1, <1>2, <1>3, WordRead
<1>7. Number(Bytes(m, 13, 1)) = p.elementSize
  BY <1>1, <1>2, <1>3, WordRead
<1>8. Number(Bytes(m, 14, 1)) = p.endianness
  BY <1>1, <1>2, <1>3, WordRead
<1>9. Number(Bytes(m, 15, 4)) = p.datatype
  BY <1>1, <1>2, <1>3, WordRead
<1> QED BY <1>4, <1>5, <1>6, <1>7, <1>8, <1>9

\* The bin layout is read as it was written.
LEMMA LayoutReads ==
  ASSUME NEW p \in Parts, NEW S, NEW m \in Seq(S), IndexMetaAt(p) <= Len(m),
         Holds(m, LayoutAt, LayoutBytes(p))
  PROVE  /\ Number(Bytes(m, LayoutAt, 4)) = NumBins(p)
         /\ HoldsNumbers(Bytes(m, LayoutAt + 4, 4 * NumBins(p)), 4, p.binValues)
         /\ HoldsNumbers(Bytes(m, LayoutAt + (4 + 4 * NumBins(p)), 4 * (NumBins(p) + 1)),
                         4, p.binStartOffsets)
<1> DEFINE n == NumBins(p)
<1>1. /\ Holds(m, LayoutAt, Word(n, 4))
      /\ Holds(m, LayoutAt + 4, Array(p.binValues, 4))
      /\ Holds(m, LayoutAt + (4 + 4 * n), Array(p.binStartOffsets, 4))
      /\ IndexMetaAt(p) = LayoutAt + 4 + 4 * n + 4 * (n + 1)
  BY LayoutIs
<1>2. /\ n \in Nat /\ Len(p.binValues) = n /\ p.binValues \in Seq(Int)
      /\ p.binStartOffsets \in Seq(Int) /\ Len(p.binStartOffsets) = n + 1
  BY PartHas
<1> HIDE DEF n
<1>3. Len(m) \in Nat /\ LayoutAt \in Nat /\ LayoutAt + 4 \in Nat /\ LayoutAt + (4 + 4 * n) \in Nat
      /\ LayoutAt + 4 + 4 * n + 4 * (n + 1) <= Len(m) /\ n \in Int
  BY <1>1, <1>2 DEF LayoutAt
<1>4. /\ LayoutAt + 4 <= Len(m) /\ (LayoutAt + 4) + 4 * n <= Len(m)
      /\ (LayoutAt + (4 + 4 * n)) + 4 * (n + 1) <= Len(m)
  BY <1>2, <1>3
<1>5. Number(Bytes(m, LayoutAt, 4)) = n
  BY <1>1, <1>3, <1>4, WordRead
<1>6. HoldsNumbers(Bytes(m, LayoutAt + 4, 4 * n), 4, p.binValues)
  BY <1>1, <1>2, <1>3, <1>4, ArrayRead
<1>7. HoldsNumbers(Bytes(m, LayoutAt + (4 + 4 * n), 4 * (n + 1)), 4, p.binStartOffsets)
  BY <1>1, <1>2, <1>3, <1>4, ArrayRead
<1> QED BY <1>5, <1>6, <1>7 DEF n

\* The metadata of the index is read as it was written.
LEMMA IndexMetaReads ==
  ASSUME NEW p \in Parts, NEW S, NEW m \in Seq(S), DataAt(p) <= Len(m),
         Holds(m, IndexMetaAt(p), IndexMetaBytes(p))
  PROVE  /\ Number(Bytes(m, IndexMetaAt(p), 4)) = p.indexForm
         /\ p.indexForm \in PForDeltaForms =>
              HoldsNumbers(Bytes(m, IndexMetaAt(p) + 4, 8 * (NumBins(p) + 1)), 8,
                           p.indexBinStartOffsets)
<1> DEFINE at == IndexMetaAt(p)
           n == NumBins(p)
<1>1. /\ Holds(m, at, Word(p.indexForm, 4)) /\ Holds(m, at + 4, OffsetBytes(p))
      /\ at + (4 + Len(OffsetBytes(p))) = DataAt(p) /\ at \in Nat
  BY IndexMetaIs, LayoutIs
<1>2. p.indexForm \in Int /\ n \in Nat
  <2>1. p.indexForm \in 0 .. 6 /\ NumBins(p) \in Nat
    BY PartHas
  <2> QED BY <2>1
<1>3. Len(OffsetBytes(p)) \in Nat /\ Len(m) \in Nat
  BY OffsetsAre
<1> HIDE DEF at
<1>4. at + 4 <= Len(m) /\ (at + 4) + Len(OffsetBytes(p)) <= Len(m) /\ at + 4 \in Nat
  BY <1>1, <1>3
<1>5. Number(Bytes(m, at, 4)) = p.indexForm
  BY <1>1, <1>2, <1>3, <1>4, WordRead
<1>6. ASSUME p.indexForm \in PForDeltaForms
      PROVE  HoldsNumbers(Bytes(m, at + 4, 8 * (n + 1)), 8, p.indexBinStartOffsets)
  <2>1. /\ p.indexBinStartOffsets \in Seq(Int) /\ Len(p.indexBinStartOffsets) = n + 1
        /\ OffsetBytes(p) = Array(p.indexBinStartOffsets, 8)
        /\ Len(OffsetBytes(p)) = 8 * (n + 1)
    BY <1>6, PartHas, OffsetsAre DEF OffsetBytes
  <2> HIDE DEF n
  <2> QED BY <1>1, <1>4, <2>1, ArrayRead
<1> QED BY <1>5, <1>6 DEF at

-------------------------------------------------------------------------------
(* Writing in the new format.                                              *)

LEMMA SerializationInit == Init => SerializationInv
<1> SUFFICES ASSUME Init PROVE SerializationInv
  OBVIOUS
<1>1. Common
  BY DEF Init, Common, NotRead, Fields
<1> QED BY <1>1 DEF Init, SerializationInv, NewInv, LegacyInv

\* The buffer that was allocated has the size announced.
LEMMA Unwritten ==
  ASSUME NEW n \in Nat, NEW m, m = [i \in 1 .. n |-> Unset]
  PROVE  m \in Seq(Byte \cup {Unset}) /\ Len(m) = n
<1>1. m \in [1 .. n -> Byte \cup {Unset}]
  OBVIOUS
<1> QED BY <1>1

\* Every action keeps the invariant.
LEMMA AllocateStep == SerializationInv /\ Allocate => SerializationInv'
<1> SUFFICES ASSUME SerializationInv, Allocate PROVE SerializationInv'
  OBVIOUS
<1>1. /\ part' = part /\ format' = format /\ ptr' = ptr /\ err' = err /\ back' = back
      /\ pc = "allocate" /\ pc' = IF format = "new" THEN "head" ELSE "legacyHead"
      /\ announced' = IF format = "new" THEN ALGetPartitionDataSize(part)
                      ELSE ALGetMetadataSizeLegacy(part)
      /\ buf' = [i \in 1 .. announced' |-> Unset]
  BY DEF Allocate, Goes
<1>2. ptr = 0 /\ Common /\ err = "None"
  BY <1>1 DEF SerializationInv, Common
<1>3. Common'
  BY <1>1, <1>2 DEF Common, Fields
<1>4. NewInv'
  <2> SUFFICES ASSUME format = "new", SizesFit PROVE (NewPlaces /\ NewBytes /\ NewFields)'
    BY <1>1 DEF NewInv, SizesFit
  <2>1. announced' = StreamEnd(part) /\ StreamEnd(part) \in Nat /\ part \in Parts
    <3>1. part \in Parts
      BY <1>2 DEF Common
    <3>2. StreamEnd(part) \in Nat
      BY <3>1, BuffersAre DEF SizesFit
    <3> QED BY <1>1, <3>1, <3>2 DEF StreamEnd
  <2>2. buf' \in Seq(Byte \cup {Unset}) /\ Len(buf') = announced'
    BY <1>1, <2>1, Unwritten
  <2>3. pc' = "head"
    BY <1>1
  <2>4. NewPlaces'
    BY <1>1, <1>2, <2>3 DEF NewPlaces
  <2>5. NewBytes'
    BY <1>1, <1>2, <2>1, <2>2, <2>3 DEF NewBytes, WritingPcs
  <2> QED BY <2>3, <2>4, <2>5 DEF NewFields
<1>5. LegacyInv'
  <2> SUFFICES ASSUME format = "legacy" PROVE (LegacyPlaces /\ LegacyBytes /\ LegacyFields)'
    BY <1>1 DEF LegacyInv
  <2>1. announced' = LegacyEnd(part) /\ LegacyEnd(part) \in Nat
    <3>1. NumBins(part) \in Nat
      BY <1>2, PartHas DEF Common
    <3> QED BY <1>1, <3>1 DEF LegacyEnd, ALGetMetadataSizeLegacy
  <2>2. buf' \in Seq(Byte \cup {Unset}) /\ Len(buf') = announced'
    BY <1>1, <2>1, Unwritten
  <2>3. pc' = "legacyHead"
    BY <1>1
  <2>4. LegacyPlaces'
    BY <1>1, <1>2, <2>3 DEF LegacyPlaces
  <2>5. LegacyBytes'
    BY <1>1, <1>2, <2>1, <2>2, <2>3 DEF LegacyBytes
  <2> QED BY <2>3, <2>4, <2>5 DEF LegacyFields
<1> QED BY <1>3, <1>4, <1>5 DEF SerializationInv

\* What a step that writes a piece of the new format starts from.
LEMMA WhileWriting ==
  ASSUME SerializationInv, pc \in WritingPcs, SizesFit, format = "new"
  PROVE  /\ part \in Parts /\ NewPlaces /\ NewBytes
         /\ \A i \in 1 .. ptr : buf[i] \in Byte
         /\ HeadBytes(part) \in Seq(Byte) /\ 0 + Len(HeadBytes(part)) = LayoutAt
         /\ LayoutBytes(part) \in Seq(Byte)
         /\ LayoutAt + Len(LayoutBytes(part)) = IndexMetaAt(part)
         /\ IndexMetaBytes(part) \in Seq(Byte)
         /\ IndexMetaAt(part) + Len(IndexMetaBytes(part)) = DataAt(part)
         /\ DataBytes(part) \in Seq(Byte) /\ DataAt(part) + Len(DataBytes(part)) = IndexAt(part)
         /\ IndexBytes(part) \in Seq(Byte)
         /\ IndexAt(part) + Len(IndexBytes(part)) = StreamEnd(part)
         /\ LayoutAt \in Nat /\ IndexMetaAt(part) \in Nat /\ DataAt(part) \in Nat
         /\ IndexAt(part) \in Nat /\ StreamEnd(part) \in Nat
         /\ LayoutAt <= IndexMetaAt(part) /\ IndexMetaAt(part) <= DataAt(part)
         /\ DataAt(part) <= IndexAt(part) /\ IndexAt(part) <= StreamEnd(part)
<1>1. part \in Parts /\ NewPlaces /\ NewBytes /\ pc # "allocate"
  BY DEF SerializationInv, Common, NewInv, WritingPcs
<1>2. \A i \in 1 .. ptr : buf[i] \in Byte
  BY <1>1 DEF NewBytes
<1>3. HeadBytes(part) \in Seq(Byte) /\ Len(HeadBytes(part)) = LayoutAt /\ LayoutAt \in Nat
  BY <1>1, HeadIs DEF LayoutAt
<1>4. /\ LayoutBytes(part) \in Seq(Byte)
      /\ LayoutAt + Len(LayoutBytes(part)) = IndexMetaAt(part) /\ IndexMetaAt(part) \in Nat
  BY <1>1, LayoutIs
<1>5. /\ IndexMetaBytes(part) \in Seq(Byte)
      /\ IndexMetaAt(part) + Len(IndexMetaBytes(part)) = DataAt(part) /\ DataAt(part) \in Nat
  BY <1>1, IndexMetaIs
<1>6. /\ DataBytes(part) \in Seq(Byte) /\ DataAt(part) + Len(DataBytes(part)) = IndexAt(part)
      /\ IndexBytes(part) \in Seq(Byte)
      /\ IndexAt(part) + Len(IndexBytes(part)) = StreamEnd(part)
      /\ IndexAt(part) \in Nat /\ StreamEnd(part) \in Nat
  BY <1>1, BuffersAre DEF SizesFit
<1>8. /\ LayoutAt <= IndexMetaAt(part) /\ IndexMetaAt(part) <= DataAt(part)
      /\ DataAt(part) <= IndexAt(part) /\ IndexAt(part) <= StreamEnd(part)
  BY <1>1, PiecesInOrder DEF SizesFit
<1>9. 0 + Len(HeadBytes(part)) = LayoutAt
  BY <1>3
<1> QED BY <1>1, <1>2, <1>3, <1>4, <1>5, <1>6, <1>8, <1>9

\* A piece is put where the last one ended.
LEMMA PiecePut ==
  ASSUME SerializationInv, pc \in WritingPcs, SizesFit, format = "new",
         NEW bytes \in Seq(Byte), Put(bytes), ptr \in Nat,
         ptr + Len(bytes) <= StreamEnd(part)
  PROVE  /\ buf' \in Seq(Byte \cup {Unset}) /\ Len(buf') = announced
         /\ \A i \in 1 .. ptr' : buf'[i] \in Byte
         /\ Holds(buf', ptr, bytes) /\ ptr' = ptr + Len(bytes)
         /\ \A from \in Nat : \A old \in Seq(Byte) :
              Holds(buf, from, old) /\ from + Len(old) <= ptr => Holds(buf', from, old)
<1>1. /\ buf \in Seq(Byte \cup {Unset}) /\ Len(buf) = announced /\ announced = StreamEnd(part)
      /\ \A i \in 1 .. ptr : buf[i] \in Byte
  BY WhileWriting DEF NewBytes
<1>2. buf' = Written(buf, ptr, bytes) /\ ptr' = ptr + Len(bytes)
  BY PutWrites
<1>3. /\ buf' \in Seq(Byte \cup {Unset}) /\ Len(buf') = Len(buf)
      /\ \A i \in 1 .. ptr + Len(bytes) : buf'[i] \in Byte
      /\ Holds(buf', ptr, bytes)
      /\ \A i \in 1 .. ptr : buf'[i] = buf[i]
  <2>1. ptr + Len(bytes) <= Len(buf)
    BY <1>1
  <2>2. ASSUME NEW mm, mm = Written(buf, ptr, bytes)
        PROVE  /\ mm \in Seq(Byte \cup {Unset}) /\ Len(mm) = Len(buf)
               /\ \A i \in 1 .. ptr + Len(bytes) : mm[i] \in Byte
               /\ Holds(mm, ptr, bytes)
               /\ \A i \in 1 .. ptr : mm[i] = buf[i]
    BY <1>1, <2>1, <2>2, Writing
  <2> QED BY <1>2, <2>2, Zenon
<1>4. \A from \in Nat : \A old \in Seq(Byte) :
        Holds(buf, from, old) /\ from + Len(old) <= ptr => Holds(buf', from, old)
  <2> SUFFICES ASSUME NEW from \in Nat, NEW old \in Seq(Byte),
                      Holds(buf, from, old), from + Len(old) <= ptr
               PROVE  Holds(buf', from, old)
    OBVIOUS
  <2> QED BY <1>3, StillHolds
<1> QED BY <1>1, <1>2, <1>3, <1>4

LEMMA ALSerializeMetadataStep == SerializationInv /\ ALSerializeMetadata => SerializationInv'
<1> SUFFICES ASSUME SerializationInv, ALSerializeMetadata PROVE SerializationInv'
  OBVIOUS
<1>1. /\ part' = part /\ format' = format /\ announced' = announced /\ err' = err
      /\ back' = back /\ pc = "head" /\ pc' = "layout" /\ Put(HeadBytes(part))
  BY DEF ALSerializeMetadata, Goes
<1>2. Common' /\ format = "new" /\ err = "None"
  BY <1>1 DEF SerializationInv, Common
<1>3. NewInv'
  <2> SUFFICES ASSUME SizesFit PROVE (NewPlaces /\ NewBytes /\ NewFields)'
    BY <1>1 DEF NewInv, SizesFit
  <2>1. pc \in WritingPcs
    BY <1>1 DEF WritingPcs
  <2>2. /\ part \in Parts /\ NewPlaces /\ NewBytes
        /\ HeadBytes(part) \in Seq(Byte) /\ 0 + Len(HeadBytes(part)) = LayoutAt
        /\ 0 \in Nat /\ LayoutAt <= StreamEnd(part)
    BY <1>2, <2>1, WhileWriting
  <2>3. ptr = 0 /\ ptr + Len(HeadBytes(part)) <= StreamEnd(part)
    BY <1>1, <2>2 DEF NewPlaces
  <2>4. /\ buf' \in Seq(Byte \cup {Unset}) /\ Len(buf') = announced
        /\ \A i \in 1 .. ptr' : buf'[i] \in Byte
        /\ Holds(buf', ptr, HeadBytes(part)) /\ ptr' = ptr + Len(HeadBytes(part))
        /\ \A from \in Nat : \A old \in Seq(Byte) :
             Holds(buf, from, old) /\ from + Len(old) <= ptr => Holds(buf', from, old)
    BY <1>1, <1>2, <2>1, <2>2, <2>3, PiecePut
  <2>5. ptr' = LayoutAt /\ Holds(buf', 0, HeadBytes(part))
    BY <2>2, <2>3, <2>4
  <2>6. NewPlaces'
    BY <1>1, <2>5 DEF NewPlaces
  <2>7. NewBytes'
    BY <1>1, <2>2, <2>4, <2>5 DEF NewBytes, WritingPcs
  <2> QED BY <1>1, <2>6, <2>7 DEF NewFields
<1> QED BY <1>1, <1>2, <1>3 DEF SerializationInv, LegacyInv

LEMMA ALSerializeBinLayoutStep == SerializationInv /\ ALSerializeBinLayout => SerializationInv'
<1> SUFFICES ASSUME SerializationInv, ALSerializeBinLayout PROVE SerializationInv'
  OBVIOUS
<1>1. /\ part' = part /\ format' = format /\ announced' = announced /\ err' = err
      /\ back' = back /\ pc = "layout" /\ pc' = "indexMeta" /\ Put(LayoutBytes(part))
  BY DEF ALSerializeBinLayout, Goes, LayoutBytes
<1>2. Common' /\ format = "new" /\ err = "None"
  BY <1>1 DEF SerializationInv, Common
<1>3. NewInv'
  <2> SUFFICES ASSUME SizesFit PROVE (NewPlaces /\ NewBytes /\ NewFields)'
    BY <1>1 DEF NewInv, SizesFit
  <2>1. pc \in WritingPcs
    BY <1>1 DEF WritingPcs
  <2>2. /\ part \in Parts /\ NewPlaces /\ NewBytes
        /\ LayoutBytes(part) \in Seq(Byte) /\ LayoutAt + Len(LayoutBytes(part)) = IndexMetaAt(part)
        /\ LayoutAt \in Nat /\ IndexMetaAt(part) <= StreamEnd(part)
    BY <1>2, <2>1, WhileWriting
  <2>3. ptr = LayoutAt /\ ptr + Len(LayoutBytes(part)) <= StreamEnd(part)
    BY <1>1, <2>2 DEF NewPlaces
  <2>4. /\ buf' \in Seq(Byte \cup {Unset}) /\ Len(buf') = announced
        /\ \A i \in 1 .. ptr' : buf'[i] \in Byte
        /\ Holds(buf', ptr, LayoutBytes(part)) /\ ptr' = ptr + Len(LayoutBytes(part))
        /\ \A from \in Nat : \A old \in Seq(Byte) :
             Holds(buf, from, old) /\ from + Len(old) <= ptr => Holds(buf', from, old)
    BY <1>1, <1>2, <2>1, <2>2, <2>3, PiecePut
  <2>5. ptr' = IndexMetaAt(part) /\ Holds(buf', LayoutAt, LayoutBytes(part))
    BY <2>2, <2>3, <2>4
  <2>6. Holds(buf', 0, HeadBytes(part))
    <3>1. Holds(buf, 0, HeadBytes(part))
      BY <1>1, <2>2 DEF NewBytes
    <3>2. /\ HeadBytes(part) \in Seq(Byte) /\ 0 \in Nat
          /\ 0 + Len(HeadBytes(part)) <= LayoutAt
      BY <1>2, <2>1, WhileWriting
    <3> QED BY <2>3, <2>4, <3>1, <3>2
  <2>7. NewPlaces'
    BY <1>1, <2>5 DEF NewPlaces
  <2>8. NewBytes'
    BY <1>1, <2>2, <2>4, <2>5, <2>6 DEF NewBytes, WritingPcs
  <2> QED BY <1>1, <2>7, <2>8 DEF NewFields
<1> QED BY <1>1, <1>2, <1>3 DEF SerializationInv, LegacyInv

LEMMA ALSerializeIndexMetadataStep == SerializationInv /\ ALSerializeIndexMetadata => SerializationInv'
<1> SUFFICES ASSUME SerializationInv, ALSerializeIndexMetadata PROVE SerializationInv'
  OBVIOUS
<1>1. /\ part' = part /\ format' = format /\ announced' = announced /\ err' = err
      /\ back' = back /\ pc = "indexMeta" /\ pc' = "data" /\ Put(IndexMetaBytes(part))
  BY DEF ALSerializeIndexMetadata, Goes, IndexMetaBytes, OffsetBytes
<1>2. Common' /\ format = "new" /\ err = "None"
  BY <1>1 DEF SerializationInv, Common
<1>3. NewInv'
  <2> SUFFICES ASSUME SizesFit PROVE (NewPlaces /\ NewBytes /\ NewFields)'
    BY <1>1 DEF NewInv, SizesFit
  <2>1. pc \in WritingPcs
    BY <1>1 DEF WritingPcs
  <2>2. /\ part \in Parts /\ NewPlaces /\ NewBytes
        /\ IndexMetaBytes(part) \in Seq(Byte) /\ IndexMetaAt(part) + Len(IndexMetaBytes(part)) = DataAt(part)
        /\ IndexMetaAt(part) \in Nat /\ DataAt(part) <= StreamEnd(part)
    BY <1>2, <2>1, WhileWriting
  <2>3. ptr = IndexMetaAt(part) /\ ptr + Len(IndexMetaBytes(part)) <= StreamEnd(part)
    BY <1>1, <2>2 DEF NewPlaces
  <2>4. /\ buf' \in Seq(Byte \cup {Unset}) /\ Len(buf') = announced
        /\ \A i \in 1 .. ptr' : buf'[i] \in Byte
        /\ Holds(buf', ptr, IndexMetaBytes(part)) /\ ptr' = ptr + Len(IndexMetaBytes(part))
        /\ \A from \in Nat : \A old \in Seq(Byte) :
             Holds(buf, from, old) /\ from + Len(old) <= ptr => Holds(buf', from, old)
    BY <1>1, <1>2, <2>1, <2>2, <2>3, PiecePut
  <2>5. ptr' = DataAt(part) /\ Holds(buf', IndexMetaAt(part), IndexMetaBytes(part))
    BY <2>2, <2>3, <2>4
  <2>6. Holds(buf', 0, HeadBytes(part))
    <3>1. Holds(buf, 0, HeadBytes(part))
      BY <1>1, <2>2 DEF NewBytes
    <3>2. /\ HeadBytes(part) \in Seq(Byte) /\ 0 \in Nat
          /\ 0 + Len(HeadBytes(part)) <= IndexMetaAt(part)
      BY <1>2, <2>1, WhileWriting
    <3> QED BY <2>3, <2>4, <3>1, <3>2
  <2>7. Holds(buf', LayoutAt, LayoutBytes(part))
    <3>1. Holds(buf, LayoutAt, LayoutBytes(part))
      BY <1>1, <2>2 DEF NewBytes
    <3>2. /\ LayoutBytes(part) \in Seq(Byte) /\ LayoutAt \in Nat
          /\ LayoutAt + Len(LayoutBytes(part)) <= IndexMetaAt(part)
      BY <1>2, <2>1, WhileWriting
    <3> QED BY <2>3, <2>4, <3>1, <3>2
  <2>8. NewPlaces'
    BY <1>1, <2>5 DEF NewPlaces
  <2>9. NewBytes'
    BY <1>1, <2>2, <2>4, <2>5, <2>6, <2>7 DEF NewBytes, WritingPcs
  <2> QED BY <1>1, <2>8, <2>9 DEF NewFields
<1> QED BY <1>1, <1>2, <1>3 DEF SerializationInv, LegacyInv

LEMMA ALSerializeDataStep == SerializationInv /\ ALSerializeData => SerializationInv'
<1> SUFFICES ASSUME SerializationInv, ALSerializeData PROVE SerializationInv'
  OBVIOUS
<1>1. /\ part' = part /\ format' = format /\ announced' = announced /\ err' = err
      /\ back' = back /\ pc = "data" /\ pc' = "index" /\ Put(DataBytes(part))
  BY DEF ALSerializeData, Goes, DataBytes
<1>2. Common' /\ format = "new" /\ err = "None"
  BY <1>1 DEF SerializationInv, Common
<1>3. NewInv'
  <2> SUFFICES ASSUME SizesFit PROVE (NewPlaces /\ NewBytes /\ NewFields)'
    BY <1>1 DEF NewInv, SizesFit
  <2>1. pc \in WritingPcs
    BY <1>1 DEF WritingPcs
  <2>2. /\ part \in Parts /\ NewPlaces /\ NewBytes
        /\ DataBytes(part) \in Seq(Byte) /\ DataAt(part) + Len(DataBytes(part)) = IndexAt(part)
        /\ DataAt(part) \in Nat /\ IndexAt(part) <= StreamEnd(part)
    BY <1>2, <2>1, WhileWriting
  <2>3. ptr = DataAt(part) /\ ptr + Len(DataBytes(part)) <= StreamEnd(part)
    BY <1>1, <2>2 DEF NewPlaces
  <2>4. /\ buf' \in Seq(Byte \cup {Unset}) /\ Len(buf') = announced
        /\ \A i \in 1 .. ptr' : buf'[i] \in Byte
        /\ Holds(buf', ptr, DataBytes(part)) /\ ptr' = ptr + Len(DataBytes(part))
        /\ \A from \in Nat : \A old \in Seq(Byte) :
             Holds(buf, from, old) /\ from + Len(old) <= ptr => Holds(buf', from, old)
    BY <1>1, <1>2, <2>1, <2>2, <2>3, PiecePut
  <2>5. ptr' = IndexAt(part) /\ Holds(buf', DataAt(part), DataBytes(part))
    BY <2>2, <2>3, <2>4
  <2>6. Holds(buf', 0, HeadBytes(part))
    <3>1. Holds(buf, 0, HeadBytes(part))
      BY <1>1, <2>2 DEF NewBytes
    <3>2. /\ HeadBytes(part) \in Seq(Byte) /\ 0 \in Nat
          /\ 0 + Len(HeadBytes(part)) <= DataAt(part)
      BY <1>2, <2>1, WhileWriting
    <3> QED BY <2>3, <2>4, <3>1, <3>2
  <2>7. Holds(buf', LayoutAt, LayoutBytes(part))
    <3>1. Holds(buf, LayoutAt, LayoutBytes(part))
      BY <1>1, <2>2 DEF NewBytes
    <3>2. /\ LayoutBytes(part) \in Seq(Byte) /\ LayoutAt \in Nat
          /\ LayoutAt + Len(LayoutBytes(part)) <= DataAt(part)
      BY <1>2, <2>1, WhileWriting
    <3> QED BY <2>3, <2>4, <3>1, <3>2
  <2>8. Holds(buf', IndexMetaAt(part), IndexMetaBytes(part))
    <3>1. Holds(buf, IndexMetaAt(part), IndexMetaBytes(part))
      BY <1>1, <2>2 DEF NewBytes
    <3>2. /\ IndexMetaBytes(part) \in Seq(Byte) /\ IndexMetaAt(part) \in Nat
          /\ IndexMetaAt(part) + Len(IndexMetaBytes(part)) <= DataAt(part)
      BY <1>2, <2>1, WhileWriting
    <3> QED BY <2>3, <2>4, <3>1, <3>2
  <2>9. NewPlaces'
    BY <1>1, <2>5 DEF NewPlaces
  <2>10. NewBytes'
    BY <1>1, <2>2, <2>4, <2>5, <2>6, <2>7, <2>8 DEF NewBytes, WritingPcs
  <2> QED BY <1>1, <2>9, <2>10 DEF NewFields
<1> QED BY <1>1, <1>2, <1>3 DEF SerializationInv, LegacyInv

LEMMA ALSerializeIndexStep == SerializationInv /\ ALSerializeIndex => SerializationInv'
<1> SUFFICES ASSUME SerializationInv, ALSerializeIndex PROVE SerializationInv'
  OBVIOUS
<1>1. /\ part' = part /\ format' = format /\ announced' = announced /\ err' = err
      /\ back' = back /\ pc = "index" /\ pc' = "written" /\ Put(IndexBytes(part))
  BY DEF ALSerializeIndex, Goes, IndexBytes
<1>2. Common' /\ format = "new" /\ err = "None"
  BY <1>1 DEF SerializationInv, Common
<1>3. NewInv'
  <2> SUFFICES ASSUME SizesFit PROVE (NewPlaces /\ NewBytes /\ NewFields)'
    BY <1>1 DEF NewInv, SizesFit
  <2>1. pc \in WritingPcs
    BY <1>1 DEF WritingPcs
  <2>2. /\ part \in Parts /\ NewPlaces /\ NewBytes
        /\ IndexBytes(part) \in Seq(Byte) /\ IndexAt(part) + Len(IndexBytes(part)) = StreamEnd(part)
        /\ IndexAt(part) \in Nat /\ StreamEnd(part) <= StreamEnd(part)
    BY <1>2, <2>1, WhileWriting
  <2>3. ptr = IndexAt(part) /\ ptr + Len(IndexBytes(part)) <= StreamEnd(part)
    BY <1>1, <2>2 DEF NewPlaces
  <2>4. /\ buf' \in Seq(Byte \cup {Unset}) /\ Len(buf') = announced
        /\ \A i \in 1 .. ptr' : buf'[i] \in Byte
        /\ Holds(buf', ptr, IndexBytes(part)) /\ ptr' = ptr + Len(IndexBytes(part))
        /\ \A from \in Nat : \A old \in Seq(Byte) :
             Holds(buf, from, old) /\ from + Len(old) <= ptr => Holds(buf', from, old)
    BY <1>1, <1>2, <2>1, <2>2, <2>3, PiecePut
  <2>5. ptr' = StreamEnd(part) /\ Holds(buf', IndexAt(part), IndexBytes(part))
    BY <2>2, <2>3, <2>4
  <2>6. Holds(buf', 0, HeadBytes(part))
    <3>1. Holds(buf, 0, HeadBytes(part))
      BY <1>1, <2>2 DEF NewBytes
    <3>2. /\ HeadBytes(part) \in Seq(Byte) /\ 0 \in Nat
          /\ 0 + Len(HeadBytes(part)) <= IndexAt(part)
      BY <1>2, <2>1, WhileWriting
    <3> QED BY <2>3, <2>4, <3>1, <3>2
  <2>7. Holds(buf', LayoutAt, LayoutBytes(part))
    <3>1. Holds(buf, LayoutAt, LayoutBytes(part))
      BY <1>1, <2>2 DEF NewBytes
    <3>2. /\ LayoutBytes(part) \in Seq(Byte) /\ LayoutAt \in Nat
          /\ LayoutAt + Len(LayoutBytes(part)) <= IndexAt(part)
      BY <1>2, <2>1, WhileWriting
    <3> QED BY <2>3, <2>4, <3>1, <3>2
  <2>8. Holds(buf', IndexMetaAt(part), IndexMetaBytes(part))
    <3>1. Holds(buf, IndexMetaAt(part), IndexMetaBytes(part))
      BY <1>1, <2>2 DEF NewBytes
    <3>2. /\ IndexMetaBytes(part) \in Seq(Byte) /\ IndexMetaAt(part) \in Nat
          /\ IndexMetaAt(part) + Len(IndexMetaBytes(part)) <= IndexAt(part)
      BY <1>2, <2>1, WhileWriting
    <3> QED BY <2>3, <2>4, <3>1, <3>2
  <2>9. Holds(buf', DataAt(part), DataBytes(part))
    <3>1. Holds(buf, DataAt(part), DataBytes(part))
      BY <1>1, <2>2 DEF NewBytes
    <3>2. /\ DataBytes(part) \in Seq(Byte) /\ DataAt(part) \in Nat
          /\ DataAt(part) + Len(DataBytes(part)) <= IndexAt(part)
      BY <1>2, <2>1, WhileWriting
    <3> QED BY <2>3, <2>4, <3>1, <3>2
  <2>10. NewPlaces'
    BY <1>1, <2>5 DEF NewPlaces
  <2>11. NewBytes'
    BY <1>1, <2>2, <2>4, <2>5, <2>6, <2>7, <2>8, <2>9 DEF NewBytes, WritingPcs
  <2> QED BY <1>1, <2>10, <2>11 DEF NewFields
<1> QED BY <1>1, <1>2, <1>3 DEF SerializationInv, LegacyInv

-------------------------------------------------------------------------------
(* Reading in the new format.                                              *)

LEMMA ResetStep == SerializationInv /\ Reset => SerializationInv'
<1> SUFFICES ASSUME SerializationInv, Reset PROVE SerializationInv'
  OBVIOUS
<1>1. /\ part' = part /\ format' = format /\ announced' = announced /\ err' = err
      /\ back' = back /\ buf' = buf /\ ptr' = 0
      /\ pc = "written" /\ pc' = IF format = "new" THEN "readHead" ELSE "readLegacyHead"
  BY DEF Reset, Goes
<1>2. Common' /\ err = "None"
  BY <1>1 DEF SerializationInv, Common, Fields
<1>3. NewInv'
  <2> SUFFICES ASSUME format = "new", SizesFit PROVE (NewPlaces /\ NewBytes /\ NewFields)'
    BY <1>1 DEF NewInv, SizesFit
  <2>1. NewPlaces /\ NewBytes
    BY <1>1 DEF SerializationInv, NewInv
  <2>2. NewPlaces'
    BY <1>1 DEF NewPlaces
  <2>3. NewBytes'
    BY <1>1, <2>1 DEF NewBytes, WritingPcs
  <2> QED BY <1>1, <2>2, <2>3 DEF NewFields
<1>4. LegacyInv'
  <2> SUFFICES ASSUME format = "legacy" PROVE (LegacyPlaces /\ LegacyBytes /\ LegacyFields)'
    BY <1>1 DEF LegacyInv
  <2>1. LegacyPlaces /\ LegacyBytes
    BY <1>1, <1>2 DEF SerializationInv, LegacyInv
  <2>2. LegacyPlaces'
    BY <1>1 DEF LegacyPlaces
  <2>3. LegacyBytes'
    BY <1>1, <2>1 DEF LegacyBytes
  <2> QED BY <1>1, <2>2, <2>3 DEF LegacyFields
<1> QED BY <1>2, <1>3, <1>4 DEF SerializationInv

ReadingPcs == {"readHead", "readLayout", "readIndexMeta", "readData", "readIndex"}

\* What a step that reads a piece of the new format starts from.
LEMMA WhileReading ==
  ASSUME SerializationInv, pc \in ReadingPcs, SizesFit, format = "new"
  PROVE  /\ part \in Parts /\ NewPlaces /\ NewBytes /\ NewFields
         /\ buf \in Seq(Byte \cup {Unset})
         /\ Holds(buf, 0, HeadBytes(part)) /\ Holds(buf, LayoutAt, LayoutBytes(part))
         /\ Holds(buf, IndexMetaAt(part), IndexMetaBytes(part))
         /\ Holds(buf, DataAt(part), Buffer("data", ALGetDataSize(part)))
         /\ Holds(buf, IndexAt(part), Buffer("index", ALGetIndexSize(part)))
         /\ IndexMetaAt(part) \in Nat /\ DataAt(part) \in Nat /\ IndexAt(part) \in Nat
         /\ ALGetDataSize(part) \in Nat /\ ALGetIndexSize(part) \in Nat
         /\ DataAt(part) + ALGetDataSize(part) = IndexAt(part)
         /\ IndexAt(part) + ALGetIndexSize(part) = StreamEnd(part)
         /\ LayoutAt <= Len(buf) /\ IndexMetaAt(part) <= Len(buf)
         /\ DataAt(part) <= Len(buf) /\ IndexAt(part) <= Len(buf)
         /\ StreamEnd(part) = Len(buf)
<1>1. part \in Parts /\ NewPlaces /\ NewBytes /\ NewFields
  BY DEF SerializationInv, Common, NewInv, ReadingPcs
<1>2. /\ Holds(buf, 0, HeadBytes(part)) /\ Holds(buf, LayoutAt, LayoutBytes(part))
      /\ Holds(buf, IndexMetaAt(part), IndexMetaBytes(part))
      /\ Holds(buf, DataAt(part), DataBytes(part))
      /\ Holds(buf, IndexAt(part), IndexBytes(part))
      /\ buf \in Seq(Byte \cup {Unset}) /\ Len(buf) = StreamEnd(part)
  BY <1>1 DEF NewBytes, ReadingPcs, WritingPcs
<1>3. /\ LayoutAt + Len(LayoutBytes(part)) = IndexMetaAt(part) /\ IndexMetaAt(part) \in Nat
      /\ LayoutBytes(part) \in Seq(Byte) /\ LayoutAt \in Nat
  BY <1>1, LayoutIs DEF LayoutAt
<1>4. /\ IndexMetaAt(part) + Len(IndexMetaBytes(part)) = DataAt(part) /\ DataAt(part) \in Nat
      /\ IndexMetaBytes(part) \in Seq(Byte)
  BY <1>1, IndexMetaIs
<1>5. /\ DataBytes(part) = Buffer("data", ALGetDataSize(part))
      /\ DataAt(part) + ALGetDataSize(part) = IndexAt(part) /\ IndexAt(part) \in Nat
      /\ IndexAt(part) + ALGetIndexSize(part) = StreamEnd(part) /\ StreamEnd(part) \in Nat
  BY <1>1, BuffersAre DEF SizesFit
<1>6. ALGetDataSize(part) \in Nat /\ ALGetIndexSize(part) \in Nat
  BY <1>1, SizesAre DEF SizesFit
<1>8. /\ LayoutAt <= IndexMetaAt(part) /\ IndexMetaAt(part) <= DataAt(part)
      /\ DataAt(part) <= IndexAt(part) /\ IndexAt(part) <= StreamEnd(part)
  BY <1>1, PiecesInOrder DEF SizesFit
<1>9. /\ LayoutAt <= StreamEnd(part) /\ IndexMetaAt(part) <= StreamEnd(part)
      /\ DataAt(part) <= StreamEnd(part)
  <2> DEFINE a == LayoutAt
             b == IndexMetaAt(part)
             c == DataAt(part)
             d == IndexAt(part)
             e == StreamEnd(part)
  <2>1. a \in Nat /\ b \in Nat /\ c \in Nat /\ d \in Nat /\ e \in Nat
    BY <1>3, <1>4, <1>5
  <2>2. a <= b /\ b <= c /\ c <= d /\ d <= e
    BY <1>8
  <2> HIDE DEF a, b, c, d, e
  <2>3. a <= e /\ b <= e /\ c <= e
    BY <2>1, <2>2
  <2> QED BY <2>3 DEF a, b, c, e
<1> QED BY <1>1, <1>2, <1>3, <1>4, <1>5, <1>6, <1>8, <1>9 DEF IndexBytes

LEMMA ALDeserializeMetadataStep == SerializationInv /\ ALDeserializeMetadata => SerializationInv'
<1> SUFFICES ASSUME SerializationInv, ALDeserializeMetadata PROVE SerializationInv'
  OBVIOUS
<1>1. /\ part' = part /\ format' = format /\ announced' = announced /\ err' = err
      /\ buf' = buf /\ ptr' = ptr + 19 /\ pc = "readHead" /\ pc' = "readLayout"
      /\ back' = [back EXCEPT !.globalOffset = Number(Ahead(0, 8)),
                              !.partitionLength = Number(Ahead(8, 4)),
                              !.significantBits = Number(Ahead(12, 1)),
                              !.elementSize = Number(Ahead(13, 1)),
                              !.endianness = Number(Ahead(14, 1)),
                              !.datatype = Number(Ahead(15, 4))]
  BY DEF ALDeserializeMetadata, Goes
<1>2. Common' /\ format = "new" /\ err = "None" /\ DOMAIN back = Fields
  BY <1>1 DEF SerializationInv, Common
<1>3. NewInv'
  <2> SUFFICES ASSUME SizesFit PROVE (NewPlaces /\ NewBytes /\ NewFields)'
    BY <1>1 DEF NewInv, SizesFit
  <2>1. /\ part \in Parts /\ NewPlaces /\ NewBytes
        /\ buf \in Seq(Byte \cup {Unset}) /\ Holds(buf, 0, HeadBytes(part))
        /\ LayoutAt <= Len(buf)
    BY <1>1, <1>2, WhileReading DEF ReadingPcs
  <2>2. ptr = 0
    BY <1>1, <2>1 DEF NewPlaces
  <2>3. /\ Number(Ahead(0, 8)) = part.globalOffset
        /\ Number(Ahead(8, 4)) = part.partitionLength
        /\ Number(Ahead(12, 1)) = part.significantBits
        /\ Number(Ahead(13, 1)) = part.elementSize
        /\ Number(Ahead(14, 1)) = part.endianness
        /\ Number(Ahead(15, 4)) = part.datatype
    BY <2>1, <2>2, HeadReads DEF Ahead
  <2>4. HeadRead'
    BY <1>1, <1>2, <2>3 DEF HeadRead, HeadFields, Fields
  <2>5. NewPlaces'
    BY <1>1, <2>2 DEF NewPlaces, LayoutAt
  <2>6. NewBytes'
    BY <1>1, <2>1 DEF NewBytes, WritingPcs
  <2>7. NewFields'
    BY <1>1, <2>4 DEF NewFields
  <2> QED BY <2>5, <2>6, <2>7
<1> QED BY <1>1, <1>2, <1>3 DEF SerializationInv, LegacyInv

LEMMA ALDeserializeBinLayoutStep ==
  SerializationInv /\ ALDeserializeBinLayout => SerializationInv'
<1> SUFFICES ASSUME SerializationInv, ALDeserializeBinLayout PROVE SerializationInv'
  OBVIOUS
<1> DEFINE n == Number(Ahead(0, 4))
<1>1. /\ part' = part /\ format' = format /\ announced' = announced /\ err' = err
      /\ buf' = buf /\ pc = "readLayout" /\ pc' = "readIndexMeta"
      /\ ptr' = ptr + 4 + 4 * n + 4 * (n + 1)
      /\ back' = [back EXCEPT !.numBins = n,
                              !.binValues = Ahead(4, 4 * n),
                              !.binStartOffsets = Ahead(4 + 4 * n, 4 * (n + 1))]
  BY DEF ALDeserializeBinLayout, Goes
<1>2. Common' /\ format = "new" /\ err = "None" /\ DOMAIN back = Fields
  BY <1>1 DEF SerializationInv, Common
<1>3. NewInv'
  <2> SUFFICES ASSUME SizesFit PROVE (NewPlaces /\ NewBytes /\ NewFields)'
    BY <1>1 DEF NewInv, SizesFit
  <2>1. /\ part \in Parts /\ NewPlaces /\ NewBytes /\ NewFields
        /\ buf \in Seq(Byte \cup {Unset}) /\ Holds(buf, LayoutAt, LayoutBytes(part))
        /\ IndexMetaAt(part) <= Len(buf)
    BY <1>1, <1>2, WhileReading DEF ReadingPcs
  <2>2. ptr = LayoutAt /\ HeadRead
    BY <1>1, <2>1 DEF NewPlaces, NewFields
  <2>3. /\ Number(Bytes(buf, LayoutAt, 4)) = NumBins(part)
        /\ HoldsNumbers(Bytes(buf, LayoutAt + 4, 4 * NumBins(part)), 4, part.binValues)
        /\ HoldsNumbers(Bytes(buf, LayoutAt + (4 + 4 * NumBins(part)), 4 * (NumBins(part) + 1)),
                        4, part.binStartOffsets)
    BY <2>1, LayoutReads
  <2>4. n = NumBins(part)
    BY <2>2, <2>3 DEF Ahead, LayoutAt
  <2> HIDE DEF n
  <2>5. /\ HoldsNumbers(Ahead(4, 4 * n), 4, part.binValues)
        /\ HoldsNumbers(Ahead(4 + 4 * n, 4 * (n + 1)), 4, part.binStartOffsets)
    BY <2>2, <2>3, <2>4 DEF Ahead
  <2>6. LayoutRead'
    BY <1>1, <1>2, <2>4, <2>5 DEF LayoutRead, Fields
  <2>7. HeadRead'
    BY <1>1, <1>2, <2>2 DEF HeadRead, HeadFields, Fields
  <2>8. ptr' = IndexMetaAt(part)
    BY <1>1, <2>1, <2>2, <2>4, LayoutIs
  <2>9. NewPlaces'
    BY <1>1, <2>8 DEF NewPlaces
  <2>10. NewBytes'
    BY <1>1, <2>1 DEF NewBytes, WritingPcs
  <2>11. NewFields'
    BY <1>1, <2>6, <2>7 DEF NewFields
  <2> QED BY <2>9, <2>10, <2>11
<1> QED BY <1>1, <1>2, <1>3 DEF SerializationInv, LegacyInv

LEMMA ALDeserializeIndexMetadataStep ==
  SerializationInv /\ ALDeserializeIndexMetadata => SerializationInv'
<1> SUFFICES ASSUME SerializationInv, ALDeserializeIndexMetadata PROVE SerializationInv'
  OBVIOUS
<1> DEFINE form == Number(Ahead(0, 4))
           size == IF form \in PForDeltaForms THEN 8 * (back.numBins + 1) ELSE 0
<1>1. /\ part' = part /\ format' = format /\ announced' = announced /\ err' = err
      /\ buf' = buf /\ pc = "readIndexMeta" /\ pc' = "readData"
      /\ ptr' = ptr + 4 + size
      /\ back' = [back EXCEPT !.indexForm = form, !.indexBinStartOffsets = Ahead(4, size)]
  BY DEF ALDeserializeIndexMetadata, Goes
<1>2. Common' /\ format = "new" /\ err = "None" /\ DOMAIN back = Fields
  BY <1>1 DEF SerializationInv, Common
<1>3. NewInv'
  <2> SUFFICES ASSUME SizesFit PROVE (NewPlaces /\ NewBytes /\ NewFields)'
    BY <1>1 DEF NewInv, SizesFit
  <2>1. /\ part \in Parts /\ NewPlaces /\ NewBytes /\ NewFields
        /\ buf \in Seq(Byte \cup {Unset}) /\ Holds(buf, IndexMetaAt(part), IndexMetaBytes(part))
        /\ DataAt(part) <= Len(buf) /\ IndexMetaAt(part) \in Nat
    BY <1>1, <1>2, WhileReading DEF ReadingPcs
  <2>2. ptr = IndexMetaAt(part) /\ HeadRead /\ LayoutRead
    BY <1>1, <2>1 DEF NewPlaces, NewFields
  <2>3. /\ Number(Bytes(buf, IndexMetaAt(part), 4)) = part.indexForm
        /\ part.indexForm \in PForDeltaForms =>
             HoldsNumbers(Bytes(buf, IndexMetaAt(part) + 4, 8 * (NumBins(part) + 1)), 8,
                          part.indexBinStartOffsets)
    BY <2>1, IndexMetaReads
  <2>4. form = part.indexForm
    <3>1. Ahead(0, 4) = Bytes(buf, IndexMetaAt(part), 4)
      BY <2>1, <2>2 DEF Ahead
    <3> QED BY <2>3, <3>1
  <2> HIDE DEF form
  <2>5. size = IF part.indexForm \in PForDeltaForms THEN 8 * (NumBins(part) + 1) ELSE 0
    BY <2>2, <2>4 DEF LayoutRead
  <2> HIDE DEF size
  <2>6. part.indexForm \in PForDeltaForms =>
          HoldsNumbers(Ahead(4, size), 8, part.indexBinStartOffsets)
    BY <2>2, <2>3, <2>5 DEF Ahead
  <2>7. IndexMetaRead'
    BY <1>1, <1>2, <2>4, <2>6 DEF IndexMetaRead, Fields
  <2>8. HeadRead' /\ LayoutRead'
    BY <1>1, <1>2, <2>2 DEF HeadRead, LayoutRead, HeadFields, Fields
  <2>9. ptr' = DataAt(part)
    <3>1. /\ Len(OffsetBytes(part)) = size /\ size \in Nat
          /\ IndexMetaAt(part) + Len(IndexMetaBytes(part)) = DataAt(part)
          /\ Len(IndexMetaBytes(part)) = 4 + Len(OffsetBytes(part))
      <4>1. NumBins(part) \in Nat
        BY <2>1, PartHas
      <4>2. size \in Nat
        BY <2>5, <4>1
      <4> QED BY <2>1, <2>5, <4>2, OffsetsAre, IndexMetaIs
    <3> QED BY <1>1, <2>1, <2>2, <3>1
  <2>10. NewPlaces'
    BY <1>1, <2>9 DEF NewPlaces
  <2>11. NewBytes'
    BY <1>1, <2>1 DEF NewBytes, WritingPcs
  <2>12. NewFields'
    BY <1>1, <2>7, <2>8 DEF NewFields
  <2> QED BY <2>10, <2>11, <2>12
<1> QED BY <1>1, <1>2, <1>3 DEF SerializationInv, LegacyInv

LEMMA ALDeserializeDataStep == SerializationInv /\ ALDeserializeData => SerializationInv'
<1> SUFFICES ASSUME SerializationInv, ALDeserializeData PROVE SerializationInv'
  OBVIOUS
<1> DEFINE size == ALGetDataSize(back)
<1>1. /\ part' = part /\ format' = format /\ announced' = announced /\ err' = err
      /\ buf' = buf /\ pc = "readData" /\ pc' = "readIndex" /\ ptr' = ptr + size
      /\ back' = [back EXCEPT !.data = Ahead(0, size)]
  BY DEF ALDeserializeData, Goes
<1>2. Common' /\ format = "new" /\ err = "None" /\ DOMAIN back = Fields
  BY <1>1 DEF SerializationInv, Common
<1>3. NewInv'
  <2> SUFFICES ASSUME SizesFit PROVE (NewPlaces /\ NewBytes /\ NewFields)'
    BY <1>1 DEF NewInv, SizesFit
  <2>1. /\ part \in Parts /\ NewPlaces /\ NewBytes /\ NewFields
        /\ buf \in Seq(Byte \cup {Unset})
        /\ Holds(buf, DataAt(part), Buffer("data", ALGetDataSize(part)))
        /\ DataAt(part) + ALGetDataSize(part) = IndexAt(part) /\ IndexAt(part) <= Len(buf)
        /\ DataAt(part) \in Nat /\ ALGetDataSize(part) \in Nat
    BY <1>1, <1>2, WhileReading DEF ReadingPcs
  <2>2. ptr = DataAt(part) /\ HeadRead /\ LayoutRead /\ IndexMetaRead
    BY <1>1, <2>1 DEF NewPlaces, NewFields
  <2>3. size = ALGetDataSize(part)
    BY <2>2 DEF HeadRead, HeadFields, ALGetDataSize, InsigBytes, Bits
  <2> HIDE DEF size
  <2>4. Ahead(0, size) = Buffer("data", ALGetDataSize(part))
    <3>1. Ahead(0, size) = Bytes(buf, DataAt(part), ALGetDataSize(part))
      BY <2>1, <2>2, <2>3 DEF Ahead
    <3>2. DataAt(part) + ALGetDataSize(part) <= Len(buf)
      BY <2>1
    <3> QED BY <2>1, <3>1, <3>2, BufferRead
  <2>5. back'.data = Buffer("data", ALGetDataSize(part))
    BY <1>1, <1>2, <2>4 DEF Fields
  <2>6. HeadRead' /\ LayoutRead' /\ IndexMetaRead'
    BY <1>1, <1>2, <2>2 DEF HeadRead, LayoutRead, IndexMetaRead, HeadFields, Fields
  <2>7. NewPlaces'
    BY <1>1, <2>1, <2>2, <2>3 DEF NewPlaces
  <2>8. NewBytes'
    BY <1>1, <2>1 DEF NewBytes, WritingPcs
  <2>9. NewFields'
    BY <1>1, <2>5, <2>6 DEF NewFields
  <2> QED BY <2>7, <2>8, <2>9
<1> QED BY <1>1, <1>2, <1>3 DEF SerializationInv, LegacyInv

LEMMA ALDeserializeIndexStep == SerializationInv /\ ALDeserializeIndex => SerializationInv'
<1> SUFFICES ASSUME SerializationInv, ALDeserializeIndex PROVE SerializationInv'
  OBVIOUS
<1> DEFINE end == IF back.indexForm \in PForDeltaForms
                    THEN Element(back.indexBinStartOffsets, 8, back.numBins) ELSE 0
           size == IndexSize(back, end)
<1>1. /\ part' = part /\ format' = format /\ announced' = announced /\ err' = err
      /\ buf' = buf /\ pc = "readIndex" /\ pc' = "done" /\ ptr' = ptr + size
      /\ back' = [back EXCEPT !.index = Ahead(0, size)]
  BY DEF ALDeserializeIndex, Goes
<1>2. Common' /\ format = "new" /\ err = "None" /\ DOMAIN back = Fields
  BY <1>1 DEF SerializationInv, Common
<1>3. NewInv'
  <2> SUFFICES ASSUME SizesFit PROVE (NewPlaces /\ NewBytes /\ NewFields)'
    BY <1>1 DEF NewInv, SizesFit
  <2>1. /\ part \in Parts /\ NewPlaces /\ NewBytes /\ NewFields
        /\ buf \in Seq(Byte \cup {Unset})
        /\ Holds(buf, IndexAt(part), Buffer("index", ALGetIndexSize(part)))
        /\ IndexAt(part) + ALGetIndexSize(part) = StreamEnd(part) /\ StreamEnd(part) = Len(buf)
        /\ IndexAt(part) \in Nat /\ ALGetIndexSize(part) \in Nat
    BY <1>1, <1>2, WhileReading DEF ReadingPcs
  <2>2. /\ ptr = IndexAt(part) /\ HeadRead /\ LayoutRead /\ IndexMetaRead
        /\ back.data = Buffer("data", ALGetDataSize(part))
    BY <1>1, <2>1 DEF NewPlaces, NewFields
  <2>3. end = IF part.indexForm \in PForDeltaForms
                THEN part.indexBinStartOffsets[NumBins(part) + 1] ELSE 0
    <3>1. back.indexForm = part.indexForm /\ back.numBins = NumBins(part)
      BY <2>2 DEF IndexMetaRead, LayoutRead
    <3>2. ASSUME part.indexForm \in PForDeltaForms
          PROVE  Element(back.indexBinStartOffsets, 8, back.numBins)
                   = part.indexBinStartOffsets[NumBins(part) + 1]
      <4>1. /\ HoldsNumbers(back.indexBinStartOffsets, 8, part.indexBinStartOffsets)
            /\ Len(part.indexBinStartOffsets) = NumBins(part) + 1 /\ NumBins(part) \in Nat
        BY <2>1, <2>2, <3>2, PartHas DEF IndexMetaRead
      <4>2. NumBins(part) + 1 \in 1 .. NumBins(part) + 1 /\ (NumBins(part) + 1) - 1 = NumBins(part)
        BY <4>1
      <4> QED BY <3>1, <4>1, <4>2 DEF HoldsNumbers
    <3> QED BY <3>1, <3>2
  <2> HIDE DEF end
  <2>4. size = ALGetIndexSize(part)
    <3>1. /\ back.indexForm = part.indexForm /\ back.partitionLength = part.partitionLength
          /\ back.significantBits = part.significantBits
      BY <2>2 DEF IndexMetaRead, HeadRead, HeadFields
    <3>2. SigBytes(back) = SigBytes(part)
      BY <3>1 DEF SigBytes
    <3>3. size = IndexSize(part, end)
      BY <3>1, <3>2 DEF IndexSize, ALInvertedIndex, ALCompressionIndex
    <3> QED BY <2>3, <3>3 DEF ALGetIndexSize
  <2> HIDE DEF size
  <2>5. Ahead(0, size) = Buffer("index", ALGetIndexSize(part))
    <3>1. Ahead(0, size) = Bytes(buf, IndexAt(part), ALGetIndexSize(part))
      BY <2>1, <2>2, <2>4 DEF Ahead
    <3>2. IndexAt(part) + ALGetIndexSize(part) <= Len(buf)
      BY <2>1
    <3> QED BY <2>1, <3>1, <3>2, BufferRead
  <2>6. /\ back'.index = Buffer("index", ALGetIndexSize(part))
        /\ back'.data = Buffer("data", ALGetDataSize(part))
    BY <1>1, <1>2, <2>2, <2>5 DEF Fields
  <2>7. HeadRead' /\ LayoutRead' /\ IndexMetaRead'
    BY <1>1, <1>2, <2>2 DEF HeadRead, LayoutRead, IndexMetaRead, HeadFields, Fields
  <2>8. NewPlaces'
    BY <1>1, <2>1, <2>2, <2>4 DEF NewPlaces
  <2>9. NewBytes'
    BY <1>1, <2>1 DEF NewBytes, WritingPcs
  <2>10. NewFields'
    BY <1>1, <2>6, <2>7 DEF NewFields
  <2> QED BY <2>8, <2>9, <2>10
<1> QED BY <1>1, <1>2, <1>3 DEF SerializationInv, LegacyInv

-------------------------------------------------------------------------------
(* The legacy format.                                                      *)

LEMMA LegacyHeadIs ==
  ASSUME NEW p \in Parts
  PROVE  /\ LegacyHeadBytes(p) \in Seq(Byte) /\ 0 + Len(LegacyHeadBytes(p)) = LegacyBinsAt
         /\ \A m : Holds(m, 0, LegacyHeadBytes(p)) =>
              Holds(m, 0, Word(p.partitionLength, 8)) /\ Holds(m, 8, Word(NumBins(p) % Shorts, 2))
<1> DEFINE a == Word(p.partitionLength, 8)
           b == Word(NumBins(p) % Shorts, 2)
<1>1. p.partitionLength \in Int /\ NumBins(p) % Shorts \in Int
  BY PartHas, SerializationAssumption DEF HeadFields
<1>2. a \in Seq(Byte) /\ Len(a) = 8
  BY <1>1, WordIs
<1>3. b \in Seq(Byte) /\ Len(b) = 2
  BY <1>1, WordIs
<1>4. LegacyHeadBytes(p) = a \o b
  BY DEF LegacyHeadBytes
<1> HIDE DEF a, b
<1>5. a \o b \in Seq(Byte) /\ Len(a \o b) = 8 + 2
  BY <1>2, <1>3, Joined
<1>6. ASSUME NEW m, Holds(m, 0, a \o b)
      PROVE  Holds(m, 0, a) /\ Holds(m, 8, b)
  <2>1. Holds(m, 0, a) /\ Holds(m, 0 + Len(a), b)
    BY <1>2, <1>3, <1>6, HoldsJoined
  <2>2. 0 + Len(a) = 8
    BY <1>2
  <2> QED BY <2>1, <2>2
<1>7. 0 + Len(LegacyHeadBytes(p)) = LegacyBinsAt
  BY <1>4, <1>5 DEF LegacyBinsAt
<1> QED BY <1>4, <1>5, <1>6, <1>7 DEF a, b

\* An offset that does not overflow in bytes is scaled back to itself.
LEMMA OffsetsOfElements ==
  ASSUME NEW p \in Parts
  PROVE  /\ ByteOffsets(p) \in Seq(Int) /\ Len(ByteOffsets(p)) = NumBins(p)
         /\ ElementOffsets(p) \in Seq(Int) /\ Len(ElementOffsets(p)) = NumBins(p)
         /\ \A b \in 1 .. NumBins(p) :
              6 * p.binStartOffsets[b] < Words => ElementOffsets(p)[b] = p.binStartOffsets[b]
<1> DEFINE n == NumBins(p)
<1>1. n \in Nat /\ \A b \in 1 .. n : p.binStartOffsets[b] \in Nat
  BY PartHas
<1>2. Words \in Nat \ {0}
  BY SerializationAssumption
<1>3. ASSUME NEW b \in 1 .. n
      PROVE  /\ ByteOffset(p, b) \in Nat /\ ByteOffset(p, b) \div 6 \in Int
             /\ 6 * p.binStartOffsets[b] < Words => ByteOffset(p, b) \div 6 = p.binStartOffsets[b]
  <2> DEFINE s == p.binStartOffsets[b]
  <2>1. s \in Nat /\ ByteOffset(p, b) = (6 * s) % Words
    BY <1>1 DEF ByteOffset
  <2> HIDE DEF s
  <2>2. (6 * s) % Words \in Nat /\ (6 * s < Words => (6 * s) % Words = 6 * s)
    BY <1>2, <2>1
  <2>3. (6 * s) \div 6 = s
    BY <2>1
  <2>4. ByteOffset(p, b) \in Nat /\ ByteOffset(p, b) \div 6 \in Int
    BY <2>1, <2>2
  <2> QED BY <2>1, <2>2, <2>3, <2>4 DEF s
<1>4. ByteOffsets(p) = [b \in 1 .. n |-> ByteOffset(p, b)]
  BY DEF ByteOffsets
<1>5. ElementOffsets(p) = [b \in 1 .. n |-> ByteOffset(p, b) \div 6]
  BY DEF ElementOffsets
<1> HIDE DEF n
<1>6. ByteOffsets(p) \in [1 .. n -> Int] /\ ElementOffsets(p) \in [1 .. n -> Int]
  BY <1>3, <1>4, <1>5
<1>7. /\ ByteOffsets(p) \in Seq(Int) /\ Len(ByteOffsets(p)) = n
      /\ ElementOffsets(p) \in Seq(Int) /\ Len(ElementOffsets(p)) = n
  BY <1>1, <1>6
<1> QED BY <1>3, <1>5, <1>7 DEF n

\* The bins of the legacy format and where their offsets lie.
LEMMA LegacyBinsAre ==
  ASSUME NEW p \in Parts
  PROVE  /\ LegacyBinBytes(p) \in Seq(Byte)
         /\ LegacyBinsAt + Len(LegacyBinBytes(p)) = LegacyEnd(p) /\ LegacyEnd(p) \in Nat
         /\ LegacyEnd(p) = LegacyBinsAt + 19 * NumBins(p)
         /\ \A m : Holds(m, LegacyBinsAt, LegacyBinBytes(p)) =>
              Holds(m, LegacyBinsAt + (2 * NumBins(p) + 8 * NumBins(p)),
                    Array(ElementOffsets(p), 8))
<1> DEFINE n == NumBins(p)
           values == Array(p.binValues, 4)
           a == Bytes(values, 0, 2 * n)
           b == Array(ByteOffsets(p), 8)
           c == Array(ElementOffsets(p), 8)
           d == Word(0, n)
<1>1. n \in Nat /\ p.binValues \in Seq(Int) /\ Len(p.binValues) = n
  BY PartHas
<1>2. a \in Seq(Byte) /\ Len(a) = 2 * n
  <2>1. values \in Seq(Byte) /\ Len(values) = 4 * n
    BY <1>1, ArrayIs
  <2> HIDE DEF values, n
  <2>2. \A k \in 1 .. 2 * n : 0 + k \in DOMAIN values /\ values[0 + k] \in Byte
    <3>1. \A k \in 1 .. 2 * n : 0 + k \in 1 .. 4 * n
      BY <1>1
    <3> QED BY <2>1, <3>1
  <2>3. a \in [1 .. 2 * n -> Byte]
    BY <2>2 DEF Bytes
  <2> HIDE DEF a
  <2> QED BY <1>1, <2>3
<1>3. b \in Seq(Byte) /\ Len(b) = 8 * n
  BY OffsetsOfElements, ArrayIs
<1>4. c \in Seq(Byte) /\ Len(c) = 8 * n
  BY OffsetsOfElements, ArrayIs
<1>5. d \in Seq(Byte) /\ Len(d) = n
  BY <1>1, WordIs
<1>6. LegacyBinBytes(p) = ((a \o b) \o c) \o d
  BY DEF LegacyBinBytes
<1>7. LegacyEnd(p) = 10 + n * 19
  BY <1>1 DEF LegacyEnd, ALGetMetadataSizeLegacy
<1> HIDE DEF n, a, b, c, d
<1> DEFINE ab == a \o b
           abc == ab \o c
           abcd == abc \o d
<1>8. ab \in Seq(Byte) /\ Len(ab) = 2 * n + 8 * n
  BY <1>2, <1>3, Joined
<1>9. LegacyBinBytes(p) = abcd
  BY <1>6
<1> HIDE DEF ab
<1>10. abc \in Seq(Byte) /\ Len(abc) = 2 * n + 8 * n + 8 * n
  BY <1>8, <1>4, Joined
<1> HIDE DEF abc
<1>11. abcd \in Seq(Byte) /\ Len(abcd) = 2 * n + 8 * n + 8 * n + n
  BY <1>10, <1>5, Joined
<1>12. ASSUME NEW m, Holds(m, LegacyBinsAt, abcd)
       PROVE  Holds(m, LegacyBinsAt + (2 * n + 8 * n), c)
  <2>1. LegacyBinsAt \in Nat
    BY DEF LegacyBinsAt
  <2>2. Holds(m, LegacyBinsAt, abc)
    BY <1>5, <1>10, <1>12, <2>1, HoldsJoined
  <2>3. Holds(m, LegacyBinsAt + Len(ab), c)
    BY <1>4, <1>8, <2>1, <2>2, HoldsJoined DEF abc
  <2> QED BY <1>8, <2>3
<1> HIDE DEF abcd
<1>13. /\ LegacyBinsAt + Len(LegacyBinBytes(p)) = LegacyEnd(p) /\ LegacyEnd(p) \in Nat
       /\ LegacyEnd(p) = LegacyBinsAt + 19 * n
  BY <1>1, <1>7, <1>9, <1>11 DEF LegacyBinsAt
<1> QED BY <1>9, <1>11, <1>12, <1>13 DEF n, c

LEMMA LegacyRefuseStep == SerializationInv /\ LegacyRefuse => SerializationInv'
<1> SUFFICES ASSUME SerializationInv, LegacyRefuse PROVE SerializationInv'
  OBVIOUS
<1>1. /\ part' = part /\ format' = format /\ announced' = announced /\ err' = "Something"
      /\ back' = back /\ buf' = buf /\ ptr' = ptr /\ pc = "legacyHead" /\ pc' = "done"
  BY DEF LegacyRefuse, Goes
<1>2. format = "legacy" /\ err = "None" /\ part \in Parts
  BY <1>1 DEF SerializationInv, Common
<1>3. ptr = 0 /\ announced \in Nat
  BY <1>1, <1>2, LegacyBinsAre DEF SerializationInv, LegacyInv, LegacyPlaces, LegacyBytes
<1>4. Common'
  BY <1>1, <1>2, <1>3 DEF SerializationInv, Common, Fields
<1> QED BY <1>1, <1>2, <1>4 DEF SerializationInv, NewInv, LegacyInv

LEMMA LegacyHeadStep == SerializationInv /\ LegacyHead => SerializationInv'
<1> SUFFICES ASSUME SerializationInv, LegacyHead PROVE SerializationInv'
  OBVIOUS
<1>1. /\ part' = part /\ format' = format /\ announced' = announced /\ err' = err
      /\ back' = back /\ pc = "legacyHead" /\ pc' = "legacyBins" /\ Put(LegacyHeadBytes(part))
  BY DEF LegacyHead, Goes, LegacyHeadBytes
<1>2. Common' /\ format = "legacy" /\ err = "None" /\ part \in Parts
  BY <1>1 DEF SerializationInv, Common
<1>3. LegacyPlaces /\ LegacyBytes
  BY <1>1, <1>2 DEF SerializationInv, LegacyInv
<1>4. /\ LegacyHeadBytes(part) \in Seq(Byte) /\ 0 + Len(LegacyHeadBytes(part)) = LegacyBinsAt
      /\ LegacyBinsAt <= LegacyEnd(part)
  <2>1. NumBins(part) \in Nat
    BY <1>2, PartHas
  <2> QED BY <1>2, <2>1, LegacyHeadIs, LegacyBinsAre DEF LegacyBinsAt
<1>5. /\ ptr = 0 /\ buf' = Written(buf, 0, LegacyHeadBytes(part))
      /\ ptr' = 0 + Len(LegacyHeadBytes(part))
  BY <1>1, <1>3, PutWrites DEF LegacyPlaces
<1>6. /\ buf' \in Seq(Byte \cup {Unset}) /\ Len(buf') = announced
      /\ \A i \in 1 .. ptr' : buf'[i] \in Byte
      /\ Holds(buf', 0, LegacyHeadBytes(part))
  <2>1. /\ buf \in Seq(Byte \cup {Unset}) /\ Len(buf) = announced
        /\ 0 + Len(LegacyHeadBytes(part)) <= Len(buf) /\ \A i \in 1 .. 0 : buf[i] \in Byte
    BY <1>3, <1>4 DEF LegacyBytes
  <2> QED BY <1>4, <1>5, <2>1, Writing
<1>7. LegacyPlaces'
  BY <1>1, <1>4, <1>5 DEF LegacyPlaces
<1>8. LegacyBytes'
  BY <1>1, <1>3, <1>6 DEF LegacyBytes
<1> QED BY <1>1, <1>2, <1>7, <1>8 DEF SerializationInv, NewInv, LegacyInv, LegacyFields

LEMMA LegacyBinsStep == SerializationInv /\ LegacyBins => SerializationInv'
<1> SUFFICES ASSUME SerializationInv, LegacyBins PROVE SerializationInv'
  OBVIOUS
<1>1. /\ part' = part /\ format' = format /\ announced' = announced /\ err' = err
      /\ back' = back /\ pc = "legacyBins" /\ pc' = "written" /\ Put(LegacyBinBytes(part))
  BY DEF LegacyBins, Goes, LegacyBinBytes
<1>2. Common' /\ format = "legacy" /\ err = "None" /\ part \in Parts
  BY <1>1 DEF SerializationInv, Common
<1>3. LegacyPlaces /\ LegacyBytes
  BY <1>1, <1>2 DEF SerializationInv, LegacyInv
<1>4. /\ LegacyBinBytes(part) \in Seq(Byte)
      /\ LegacyBinsAt + Len(LegacyBinBytes(part)) = LegacyEnd(part)
      /\ LegacyEnd(part) \in Nat /\ LegacyBinsAt \in Nat
      /\ LegacyHeadBytes(part) \in Seq(Byte)
      /\ 0 + Len(LegacyHeadBytes(part)) <= LegacyBinsAt
  <2>1. /\ LegacyBinBytes(part) \in Seq(Byte)
        /\ LegacyBinsAt + Len(LegacyBinBytes(part)) = LegacyEnd(part)
        /\ LegacyEnd(part) \in Nat
    BY <1>2, LegacyBinsAre
  <2>2. LegacyHeadBytes(part) \in Seq(Byte) /\ 0 + Len(LegacyHeadBytes(part)) = LegacyBinsAt
    BY <1>2, LegacyHeadIs
  <2>3. LegacyBinsAt \in Nat /\ LegacyBinsAt <= LegacyBinsAt
    BY DEF LegacyBinsAt
  <2> QED BY <2>1, <2>2, <2>3
<1>5. /\ ptr = LegacyBinsAt /\ buf' = Written(buf, LegacyBinsAt, LegacyBinBytes(part))
      /\ ptr' = LegacyEnd(part)
  BY <1>1, <1>3, <1>4, PutWrites DEF LegacyPlaces
<1>6. /\ buf' \in Seq(Byte \cup {Unset}) /\ Len(buf') = announced
      /\ \A i \in 1 .. announced : buf'[i] \in Byte
      /\ Holds(buf', LegacyBinsAt, LegacyBinBytes(part))
      /\ \A i \in 1 .. LegacyBinsAt : buf'[i] = buf[i]
  <2>1. /\ buf \in Seq(Byte \cup {Unset}) /\ Len(buf) = announced /\ announced = LegacyEnd(part)
        /\ LegacyBinsAt + Len(LegacyBinBytes(part)) <= Len(buf)
        /\ \A i \in 1 .. LegacyBinsAt : buf[i] \in Byte
    BY <1>1, <1>3, <1>4, <1>5 DEF LegacyBytes
  <2>2. /\ buf' \in Seq(Byte \cup {Unset}) /\ Len(buf') = Len(buf)
        /\ \A i \in 1 .. LegacyBinsAt + Len(LegacyBinBytes(part)) : buf'[i] \in Byte
        /\ Holds(buf', LegacyBinsAt, LegacyBinBytes(part))
        /\ \A i \in 1 .. LegacyBinsAt : buf'[i] = buf[i]
    <3> DEFINE at == LegacyBinsAt
               bytes == LegacyBinBytes(part)
    <3>1. /\ at \in Nat /\ bytes \in Seq(Byte) /\ buf' = Written(buf, at, bytes)
          /\ buf \in Seq(Byte \cup {Unset}) /\ at + Len(bytes) <= Len(buf)
          /\ \A i \in 1 .. at : buf[i] \in Byte
      BY <1>4, <1>5, <2>1
    <3> HIDE DEF at, bytes
    <3>2. /\ buf' \in Seq(Byte \cup {Unset}) /\ Len(buf') = Len(buf)
          /\ \A i \in 1 .. at + Len(bytes) : buf'[i] \in Byte
          /\ Holds(buf', at, bytes)
          /\ \A i \in 1 .. at : buf'[i] = buf[i]
      BY <3>1, Writing
    <3> QED BY <3>2 DEF at, bytes
  <2> QED BY <1>4, <2>1, <2>2
<1>7. Holds(buf', 0, LegacyHeadBytes(part))
  <2>1. Holds(buf, 0, LegacyHeadBytes(part))
    BY <1>1, <1>3 DEF LegacyBytes
  <2> QED BY <1>4, <1>6, <2>1, StillHolds
<1>8. LegacyPlaces'
  BY <1>1, <1>5 DEF LegacyPlaces
<1>9. LegacyBytes'
  BY <1>1, <1>3, <1>6, <1>7 DEF LegacyBytes
<1> QED BY <1>1, <1>2, <1>8, <1>9 DEF SerializationInv, NewInv, LegacyInv, LegacyFields

LEMMA LegacyReadHeadStep == SerializationInv /\ LegacyReadHead => SerializationInv'
<1> SUFFICES ASSUME SerializationInv, LegacyReadHead PROVE SerializationInv'
  OBVIOUS
<1>1. /\ part' = part /\ format' = format /\ announced' = announced /\ err' = err
      /\ buf' = buf /\ pc = "readLegacyHead" /\ pc' = "readLegacyBins" /\ ptr' = ptr + 10
      /\ back' = [back EXCEPT !.elementSize = 8, !.significantBits = 16,
                              !.endianness = ENDIAN_LITTLE, !.datatype = DATATYPE_FLOAT64,
                              !.indexForm = ALInvertedIndex,
                              !.partitionLength = Number(Ahead(0, 8)),
                              !.numBins = Number(Ahead(8, 2))]
  BY DEF LegacyReadHead, Goes
<1>2. Common' /\ format = "legacy" /\ err = "None" /\ part \in Parts /\ DOMAIN back = Fields
  BY <1>1 DEF SerializationInv, Common
<1>3. LegacyPlaces /\ LegacyBytes
  BY <1>1, <1>2 DEF SerializationInv, LegacyInv
<1>4. ptr = 0 /\ buf \in Seq(Byte \cup {Unset}) /\ Len(buf) = LegacyEnd(part)
  BY <1>1, <1>3 DEF LegacyPlaces, LegacyBytes
<1>5. Holds(buf, 0, Word(part.partitionLength, 8)) /\ Holds(buf, 8, Word(NumBins(part) % Shorts, 2))
  <2>1. Holds(buf, 0, LegacyHeadBytes(part))
    BY <1>1, <1>3 DEF LegacyBytes
  <2> QED BY <1>2, <2>1, LegacyHeadIs
<1>6. part.partitionLength \in Int /\ NumBins(part) % Shorts \in Int /\ 10 <= Len(buf)
  <2>1. NumBins(part) \in Nat /\ part.partitionLength \in Nat
    BY <1>2, PartHas DEF HeadFields
  <2>2. LegacyEnd(part) = LegacyBinsAt + 19 * NumBins(part)
    BY <1>2, LegacyBinsAre
  <2> QED BY <1>4, <2>1, <2>2, SerializationAssumption DEF LegacyBinsAt
<1>7. Number(Ahead(0, 8)) = part.partitionLength
  <2>1. Number(Bytes(buf, 0, 8)) = part.partitionLength
    BY <1>4, <1>5, <1>6, WordRead
  <2> QED BY <1>4, <2>1 DEF Ahead
<1>8. Number(Ahead(8, 2)) = NumBins(part) % Shorts
  <2>1. Number(Bytes(buf, 8, 2)) = NumBins(part) % Shorts
    BY <1>4, <1>5, <1>6, WordRead
  <2> QED BY <1>4, <2>1 DEF Ahead
<1>9. LegacyPlaces'
  BY <1>1, <1>4 DEF LegacyPlaces, LegacyBinsAt
<1>10. LegacyBytes'
  BY <1>1, <1>3 DEF LegacyBytes
<1>11. LegacyFields'
  BY <1>1, <1>2, <1>7, <1>8 DEF LegacyFields, Fields, HeadFields
<1> QED BY <1>1, <1>2, <1>9, <1>10, <1>11 DEF SerializationInv, NewInv, LegacyInv

LEMMA LegacyReadBinsStep == SerializationInv /\ LegacyReadBins => SerializationInv'
<1> SUFFICES ASSUME SerializationInv, LegacyReadBins PROVE SerializationInv'
  OBVIOUS
<1> DEFINE n == back.numBins
           starts == [b \in 1 .. n + 1 |-> IF b = n + 1 THEN back.partitionLength
                                           ELSE Element(Ahead(10 * n, 8 * n), 8, b - 1)]
<1>1. /\ part' = part /\ format' = format /\ announced' = announced /\ err' = err
      /\ buf' = buf /\ pc = "readLegacyBins" /\ pc' = "done" /\ ptr' = ptr + 19 * n
      /\ back' = [back EXCEPT !.binValues = Ahead(0, 2 * n), !.binStartOffsets = Array(starts, 4)]
  BY DEF LegacyReadBins, Goes
<1>2. Common' /\ format = "legacy" /\ err = "None" /\ part \in Parts /\ DOMAIN back = Fields
  BY <1>1 DEF SerializationInv, Common
<1>3. LegacyPlaces /\ LegacyBytes /\ LegacyFields
  BY <1>1, <1>2 DEF SerializationInv, LegacyInv
<1>4. /\ ptr = LegacyBinsAt /\ buf \in Seq(Byte \cup {Unset}) /\ Len(buf) = LegacyEnd(part)
      /\ back.partitionLength = part.partitionLength /\ n = NumBins(part) % Shorts
      /\ Holds(buf, LegacyBinsAt, LegacyBinBytes(part))
  BY <1>1, <1>3 DEF LegacyPlaces, LegacyBytes, LegacyFields
<1>5. /\ NumBins(part) \in Nat /\ part.partitionLength \in Int
      /\ LegacyEnd(part) = LegacyBinsAt + 19 * NumBins(part)
      /\ Holds(buf, LegacyBinsAt + (2 * NumBins(part) + 8 * NumBins(part)),
               Array(ElementOffsets(part), 8))
  <2>1. NumBins(part) \in Nat /\ part.partitionLength \in Nat
    BY <1>2, PartHas DEF HeadFields
  <2> QED BY <1>2, <1>4, <2>1, LegacyBinsAre
<1>6. /\ back'.partitionLength = part.partitionLength /\ back'.numBins = n
      /\ back'.binStartOffsets = Array(starts, 4)
  BY <1>1, <1>2, <1>4 DEF Fields, HeadFields
<1>7. ASSUME NumBins(part) < Shorts
      PROVE  /\ n = NumBins(part)
             /\ \A b \in 1 .. NumBins(part) :
                  6 * part.binStartOffsets[b] < Words =>
                    Element(Array(starts, 4), 4, b - 1) = part.binStartOffsets[b]
  <2>1. n = NumBins(part) /\ n \in Nat
    <3>1. \A a \in Nat, b \in Nat \ {0} : a < b => a % b = a
      OBVIOUS
    <3> QED BY <1>4, <1>5, <1>7, <3>1, SerializationAssumption
  <2>2. /\ ElementOffsets(part) \in Seq(Int) /\ Len(ElementOffsets(part)) = n
        /\ \A b \in 1 .. n : 6 * part.binStartOffsets[b] < Words
                               => ElementOffsets(part)[b] = part.binStartOffsets[b]
    BY <1>2, <2>1, OffsetsOfElements
  <2> HIDE DEF n
  <2>3. HoldsNumbers(Ahead(10 * n, 8 * n), 8, ElementOffsets(part))
    <3> DEFINE at == LegacyBinsAt + (2 * n + 8 * n)
               size == 8 * n
    <3>1. /\ at \in Nat /\ at + size <= Len(buf) /\ size = 8 * Len(ElementOffsets(part))
          /\ ptr + 10 * n = at
      <4>1. ptr = 10 /\ Len(buf) = 10 + 19 * n /\ Len(ElementOffsets(part)) = n /\ n \in Nat
        BY <1>4, <1>5, <2>1, <2>2 DEF LegacyBinsAt
      <4> QED BY <4>1 DEF LegacyBinsAt
    <3>2. Holds(buf, at, Array(ElementOffsets(part), 8))
      BY <1>5, <2>1
    <3>3. Ahead(10 * n, 8 * n) = Bytes(buf, at, size)
      BY <3>1 DEF Ahead
    <3> HIDE DEF at, size
    <3>4. HoldsNumbers(Bytes(buf, at, size), 8, ElementOffsets(part))
      BY <1>4, <2>2, <3>1, <3>2, ArrayRead
    <3> QED BY <3>3, <3>4
  <2>4. \A b \in 1 .. n : Element(Ahead(10 * n, 8 * n), 8, b - 1) = ElementOffsets(part)[b]
    BY <2>2, <2>3 DEF HoldsNumbers
  <2>5. \A b \in 1 .. n : starts[b] = ElementOffsets(part)[b]
    BY <2>1, <2>4
  <2>6. starts \in Seq(Int) /\ Len(starts) = n + 1
    <3>1. \A b \in 1 .. n : ElementOffsets(part)[b] \in Int
      BY <2>2
    <3>2. starts \in [1 .. n + 1 -> Int]
      <4>1. \A b \in 1 .. n + 1 : b = n + 1 \/ b \in 1 .. n
        BY <2>1
      <4> QED BY <1>4, <1>5, <2>4, <3>1, <4>1
    <3> HIDE DEF starts
    <3> QED BY <2>1, <3>2
  <2> HIDE DEF starts
  <2>7. \A b \in 1 .. n : Element(Array(starts, 4), 4, b - 1) = starts[b]
    <3>1. HoldsNumbers(Array(starts, 4), 4, starts)
      BY <2>6, ArrayHoldsNumbers
    <3>2. \A b \in 1 .. n : b \in 1 .. Len(starts)
      BY <2>1, <2>6
    <3> QED BY <3>1, <3>2 DEF HoldsNumbers
  <2> QED BY <2>1, <2>2, <2>5, <2>7
<1>8. LegacyPlacesBins'
  BY <1>1, <1>6, <1>7 DEF LegacyPlacesBins, NumBins
<1>9. LegacyPlaces'
  BY <1>1, <1>4 DEF LegacyPlaces
<1>10. LegacyBytes'
  BY <1>1, <1>3 DEF LegacyBytes
<1>11. LegacyFields'
  BY <1>1, <1>4, <1>6, <1>8 DEF LegacyFields
<1> QED BY <1>1, <1>2, <1>9, <1>10, <1>11 DEF SerializationInv, NewInv, LegacyInv

-------------------------------------------------------------------------------
LEMMA StutterStep == SerializationInv /\ UNCHANGED vars => SerializationInv'
<1> SUFFICES ASSUME SerializationInv, UNCHANGED vars PROVE SerializationInv'
  OBVIOUS
<1>1. /\ part' = part /\ format' = format /\ pc' = pc /\ buf' = buf /\ ptr' = ptr
      /\ announced' = announced /\ err' = err /\ back' = back
  BY DEF vars
<1>2. Common'
  BY <1>1 DEF SerializationInv, Common
<1>3. NewInv'
  <2>1. (NewPlaces' <=> NewPlaces) /\ (NewBytes' <=> NewBytes)
    BY <1>1 DEF NewPlaces, NewBytes
  <2>2. NewFields' <=> NewFields
    BY <1>1 DEF NewFields, HeadRead, LayoutRead, IndexMetaRead
  <2>3. SizesFit' <=> SizesFit
    BY <1>1 DEF SizesFit
  <2> QED BY <1>1, <2>1, <2>2, <2>3 DEF SerializationInv, NewInv
<1>4. LegacyInv'
  <2>1. (LegacyPlaces' <=> LegacyPlaces) /\ (LegacyBytes' <=> LegacyBytes)
    BY <1>1 DEF LegacyPlaces, LegacyBytes
  <2>2. LegacyFields' <=> LegacyFields
    BY <1>1 DEF LegacyFields, LegacyPlacesBins
  <2> QED BY <1>1, <2>1, <2>2 DEF SerializationInv, LegacyInv
<1> QED BY <1>2, <1>3, <1>4 DEF SerializationInv

\* Every step keeps the invariant.
LEMMA SerializationNext == SerializationInv /\ [Next]_vars => SerializationInv'
  BY AllocateStep, ALSerializeMetadataStep, ALSerializeBinLayoutStep,
     ALSerializeIndexMetadataStep, ALSerializeDataStep, ALSerializeIndexStep,
     LegacyRefuseStep, LegacyHeadStep, LegacyBinsStep, ResetStep,
     ALDeserializeMetadataStep, ALDeserializeBinLayoutStep, ALDeserializeIndexMetadataStep,
     ALDeserializeDataStep, ALDeserializeIndexStep, LegacyReadHeadStep, LegacyReadBinsStep,
     StutterStep
  DEF Next

\* The invariant holds in every state.
LEMMA SerializationInvariant == Spec => []SerializationInv
<1> QED BY SerializationInit, SerializationNext, PTL DEF Spec

(* Nothing is written or read past the size announced for the buffer, a    *)
(* serializer fills it and a deserializer consumes it, in both formats and *)
(* every index form, for every partition whose data and index are shorter  *)
(* than 2^32 bytes.                                                        *)
THEOREM StreamsFit == Spec => []StreamFits
<1>1. SerializationInv => StreamFits
  <2> SUFFICES ASSUME SerializationInv, SizesFit
               PROVE  /\ ptr <= announced
                      /\ pc = "written" =>
                           ptr = announced /\ \A i \in 1 .. announced : buf[i] # Unset
                      /\ ReadBack /\ (format = "legacy" => NumBins(part) < Shorts)
                           => ptr = announced
    BY DEF StreamFits
  <2>1. part \in Parts /\ format \in {"new", "legacy"}
    BY DEF SerializationInv, Common
  <2>2. \A b \in Byte : b # Unset
    BY DEF Byte, Unset
  <2>3. CASE pc = "allocate"
    BY <2>3 DEF SerializationInv, Common, ReadBack
  <2>4. CASE format = "new" /\ pc # "allocate"
    <3>1. NewPlaces /\ NewBytes
      BY <2>4 DEF SerializationInv, NewInv
    <3>2. \A i \in 1 .. announced : pc = "written" => buf[i] # Unset
      BY <2>2, <3>1 DEF NewBytes, WritingPcs
    <3>3. /\ IndexMetaAt(part) \in Nat /\ DataAt(part) \in Nat /\ IndexAt(part) \in Nat
          /\ StreamEnd(part) \in Nat
          /\ LayoutAt <= IndexMetaAt(part) /\ IndexMetaAt(part) <= DataAt(part)
          /\ DataAt(part) <= IndexAt(part) /\ IndexAt(part) <= StreamEnd(part)
      BY <2>1, PiecesInOrder DEF SizesFit
    <3>4. 0 <= StreamEnd(part) /\ LayoutAt <= StreamEnd(part) /\ IndexMetaAt(part) <= StreamEnd(part)
          /\ DataAt(part) <= StreamEnd(part) /\ StreamEnd(part) <= StreamEnd(part)
      BY <3>3 DEF LayoutAt
    <3>5. pc \in {"head", "layout", "indexMeta", "data", "index", "written",
                  "readHead", "readLayout", "readIndexMeta", "readData", "readIndex", "done"}
      BY <2>4 DEF SerializationInv, Common
    <3>6. ptr <= announced
      BY <3>1, <3>3, <3>4, <3>5 DEF NewPlaces, NewBytes
    <3> QED BY <2>4, <3>1, <3>2, <3>6 DEF NewPlaces, NewBytes, ReadBack
  <2>5. CASE format = "legacy" /\ pc # "allocate" /\ err = "None"
    <3>1. LegacyPlaces /\ LegacyBytes
      BY <2>5 DEF SerializationInv, LegacyInv
    <3>2. \A i \in 1 .. announced : pc = "written" => buf[i] # Unset
      BY <2>2, <3>1 DEF LegacyBytes
    <3>3. /\ announced = 10 + 19 * NumBins(part) /\ NumBins(part) \in Nat
      BY <2>1, <3>1, LegacyBinsAre, PartHas DEF LegacyBytes, LegacyBinsAt
    <3>4. /\ NumBins(part) % Shorts \in Nat /\ NumBins(part) % Shorts <= NumBins(part)
          /\ NumBins(part) < Shorts => NumBins(part) % Shorts = NumBins(part)
      <4>1. \A a \in Nat, b \in Nat \ {0} : a % b \in Nat /\ a % b <= a /\ (a < b => a % b = a)
        OBVIOUS
      <4> QED BY <3>3, <4>1, SerializationAssumption
    <3>5. pc \in {"legacyHead", "legacyBins", "written", "readLegacyHead", "readLegacyBins", "done"}
      BY <2>5 DEF SerializationInv, Common
    <3>6. ptr <= announced
      BY <3>1, <3>3, <3>4, <3>5 DEF LegacyPlaces, LegacyBytes, LegacyBinsAt
    <3>7. pc = "done" /\ NumBins(part) < Shorts => ptr = announced
      BY <3>1, <3>3, <3>4 DEF LegacyPlaces, LegacyBinsAt
    <3>8. pc = "written" => ptr = announced
      BY <3>1 DEF LegacyPlaces, LegacyBytes
    <3> QED BY <2>5, <3>2, <3>6, <3>7, <3>8 DEF ReadBack
  <2>6. CASE err # "None"
    BY <2>6 DEF SerializationInv, Common, ReadBack
  <2> QED BY <2>1, <2>3, <2>4, <2>5, <2>6
<1> QED BY <1>1, SerializationInvariant, PTL

(* Every field, array and buffer of a partition is read back from the new  *)
(* format as it was written, under the same condition; the legacy format   *)
(* gives back the length, and the place of every bin whose offset does not *)
(* overflow, if there are fewer than 2^16.                                 *)
THEOREM WhatIsWrittenIsRead == Spec => []ReadsBack
<1>1. SerializationInv => ReadsBack
  <2> SUFFICES ASSUME SerializationInv, ReadBack
               PROVE  /\ format = "new" /\ SizesFit => NewReadsBack
                      /\ format = "legacy" => LegacyPlacesBins
    BY DEF ReadsBack
  <2>1. pc = "done" /\ err = "None"
    BY DEF ReadBack
  <2>2. ASSUME format = "new", SizesFit PROVE NewReadsBack
    BY <2>1, <2>2
       DEF SerializationInv, NewInv, NewFields, HeadRead, LayoutRead, IndexMetaRead, NewReadsBack
  <2>3. ASSUME format = "legacy" PROVE LegacyPlacesBins
    BY <2>1, <2>3 DEF SerializationInv, LegacyInv, LegacyFields
  <2> QED BY <2>2, <2>3
<1> QED BY <1>1, SerializationInvariant, PTL

===============================================================================
