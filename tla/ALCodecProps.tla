------------------------------ MODULE ALCodecProps ------------------------------
(***************************************************************************)
(* What ALEncode and ALDecode must do, said without their loops: the bins  *)
(* by the values that occur, the buffers by what they tell of the input.   *)
(***************************************************************************)
EXTENDS ALCodec

\* The rows of a bin value, and those among the first n rows.
Occurs(v) == {r \in Elements : High(Datum(r)) = v}
OccursBefore(v, n) == {r \in Occurs(v) : r < n}
Present == {v \in BinValues : Occurs(v) # {}}

\* Bin values as the numbers they begin: sign and magnitude, -0 before +0.
Key(v) == IF v < Sign THEN v ELSE Sign - 1 - v

Bins == 0 .. numBins - 1
LaidOut ==
  \/ pc \in {"fill", "decode", "done"}
  \/ pc = "layout" /\ step = 2 * Sign
-------------------------------------------------------------------------------
(* Every variable has its type, and each array the extent its malloc gave  *)
(* it (ALEncode.c: determineBinLayout, initMetadataAndAllocateBuffers).    *)
TypeOK ==
  /\ raw \in Seq(Data)
  /\ form \in {"InvertedIndex", "CompressionIndex", "CompressedInvertedIndex"}
  /\ pc \in {"count", "layout", "fill", "refused", "decode", "done"}
  /\ pos \in 0 .. Count /\ step \in 0 .. 2 * Sign
  /\ table \in [BinValues -> 0 .. Count]
  /\ numBins \in 0 .. Count /\ curBin \in 0 .. numBins /\ curEnd \in 0 .. Count
  /\ pc # "count" => /\ binValues \in [Bins -> BinValues \cup {Undef}]
                     /\ binStart \in [0 .. numBins -> (0 .. Count) \cup {Undef}]
  /\ pc \in {"fill", "decode", "done"} =>
       /\ cursor \in [Bins -> 0 .. Count]
       /\ data \in [Elements -> {Low(d) : d \in Data} \cup {Undef}]
       /\ index \in [Elements -> Elements \cup {Undef}]
  /\ bin \in 0 .. numBins
  /\ pc \in {"decode", "done"} => out \in [Elements -> Data \cup {Undef}]
  /\ outCount \in {0, Count}

(* While the count table is turned into the lookup table in place, an      *)
(* entry the scan has passed is the id of the bin with that value and one  *)
(* it has not passed is still a count (ALEncode.c:154, "Overwrites         *)
(* countTable[possibleBinValue], but that's OK").                          *)
TableChangesInPlace ==
  pc = "layout" =>
    \A s \in 0 .. 2 * Sign - 1 :
      LET v == OrderedValue(s) IN
        IF s < step /\ v \in Present
          THEN table[v] < curBin /\ binValues[table[v]] = v
          ELSE table[v] = Cardinality(Occurs(v))

(* The finished layout has one bin for each value that occurs, in the      *)
(* order of the values as signed numbers, each as long as the value is     *)
(* frequent: binary searches by value and reads of bin ranges rely on it   *)
(* (determineBinLayout, FOR_BIN_VALUE_IN_1C_ORDER).                        *)
LayoutMatchesInput ==
  LaidOut =>
    /\ {binValues[b] : b \in Bins} = Present
    /\ \A b, c \in Bins : b < c => Key(binValues[b]) < Key(binValues[c])
    /\ binStart[0] = 0 /\ binStart[numBins] = Count
    /\ \A b \in Bins : binStart[b + 1] - binStart[b] = Cardinality(Occurs(binValues[b]))

(* An encoded partition with an inverted index lists in each bin exactly   *)
(* its rows, in ascending order (RID compression and set operations on     *)
(* results need it ascending), each with its own low-order bytes           *)
(* (encodeWithInvertedIndex).                                              *)
BinsListTheirRows ==
  Encoded /\ form = "InvertedIndex" =>
    \A b \in Bins :
      LET range == binStart[b] .. binStart[b + 1] - 1 IN
        /\ {index[p] : p \in range} = Occurs(binValues[b])
        /\ \A p, q \in range : p < q => index[p] < index[q]
        /\ \A p \in range : data[p] = Low(Datum(index[p]))

(* A compression index is enough to find every row: the i-th row of a bin  *)
(* is the bin's i-th element (encodeWithCompressionIndex).                 *)
RowFromCompressionIndex(r) ==
  LET b == index[r]
      earlier == {q \in 0 .. r - 1 : index[q] = b}
  IN Rejoin(binValues[b], data[binStart[b] + Cardinality(earlier)])

CompressionIndexSuffices ==
  Encoded /\ form = "CompressionIndex" =>
    \A r \in Elements : RowFromCompressionIndex(r) = Datum(r)

(* Decoding a partition with an inverted index gives back every element in *)
(* its place and says how many (ALDecodeWithInvertedIndex).                *)
RoundTrip ==
  pc = "done" /\ form = "InvertedIndex" =>
    outCount = Count /\ \A r \in Elements : out[r] = Datum(r)
-------------------------------------------------------------------------------
(* Encoding and decoding run to their ends whatever the input, in          *)
(* particular the two loops over bin values and the walk over the bins.    *)
FairSpec == Spec /\ WF_vars(Next)
Finishes == <>(pc \in {"done", "refused"})
===============================================================================
