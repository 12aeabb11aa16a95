---------------------------- MODULE SerializationProps ----------------------------
(***************************************************************************)
(* What the serializers owe to their callers, and what the legacy format   *)
(* keeps of a partition.                                                   *)
(***************************************************************************)
EXTENDS Serialization

ReadBack == pc = "done" /\ err = "None"

HoldsNumbers(memory, w, numbers) ==
  \A i \in 1 .. Len(numbers) : Element(memory, w, i - 1) = numbers[i]

\* The sizes of data and index are products of 32 bits.
SizesFit ==
  part.partitionLength * InsigBytes(part) < Words /\ part.partitionLength * SigBytes(part) < Words

(* No function writes or reads past the size that another one announced    *)
(* for the buffer; a serializer fills it, and a deserializer consumes it,  *)
(* to the last byte, in both formats and for every index form (the list of *)
(* forms with offsets stands in three functions): as long as data and      *)
(* index are shorter than 2^32 bytes, and a legacy partition has fewer     *)
(* than 2^16 bins.                                                         *)
StreamFits ==
  SizesFit =>
    /\ ptr <= announced
    /\ pc = "written" => (ptr = announced /\ \A i \in 1 .. announced : buf[i] # Unset)
    /\ ReadBack /\ (format = "legacy" => NumBins(part) < Shorts) => ptr = announced

(* A partition is read back from the new format as it was written          *)
(* (tests/test-serialize.c), under the same condition.                     *)
NewReadsBack ==
  /\ \A f \in HeadFields : back[f] = part[f]
  /\ back.numBins = NumBins(part) /\ back.indexForm = part.indexForm
  /\ HoldsNumbers(back.binValues, 4, part.binValues)
  /\ HoldsNumbers(back.binStartOffsets, 4, part.binStartOffsets)
  /\ part.indexForm \in PForDeltaForms =>
       HoldsNumbers(back.indexBinStartOffsets, 8, part.indexBinStartOffsets)
  /\ back.data = Buffer("data", ALGetDataSize(part))
  /\ back.index = Buffer("index", ALGetIndexSize(part))

(* The legacy format keeps the length, and the place of every bin, unless  *)
(* there are 2^16 bins or an offset in bytes overflows 32 bits.            *)
LegacyPlacesBins ==
  /\ back.partitionLength = part.partitionLength
  /\ NumBins(part) < Shorts =>
       /\ back.numBins = NumBins(part)
       /\ \A b \in 1 .. NumBins(part) :
            6 * part.binStartOffsets[b] < Words =>
              Element(back.binStartOffsets, 4, b - 1) = part.binStartOffsets[b]

ReadsBack ==
  ReadBack =>
    /\ format = "new" /\ SizesFit => NewReadsBack
    /\ format = "legacy" => LegacyPlacesBins

(* The value of every bin is read back from a legacy partition of fewer    *)
(* than 2^16 bins, as "the new encoder with the -l legacy format option"   *)
(* needs (tools/alacrity.c:112).                                           *)
LegacyKeepsBinValues ==
  ReadBack /\ format = "legacy" /\ NumBins(part) < Shorts =>
    HoldsNumbers(back.binValues, 4, part.binValues)
===============================================================================
