-------------------------------- MODULE ALCodec --------------------------------
(***************************************************************************)
(* ALEncode and ALDecode (src/src/ALEncode.c, src/src/ALDecode.c): the     *)
(* elements of one partition are sorted into bins by their high-order      *)
(* bits, in two passes over the input, and put back in their places.       *)
(* One action is one pass of a loop.                                       *)
(*                                                                         *)
(* Arrays start at 0.  The high-order bits are a number below 2 * Sign;    *)
(* its top bit, Sign, is the sign of the floating-point value.             *)
(***************************************************************************)
EXTENDS Integers, Sequences, FiniteSets

CONSTANTS
  Data,             \* the elements of the application
  Sign,             \* 2^(significantBits - 1)
  High(_), Low(_),  \* SPLIT_DATUM_BITS and the store into the data buffer
  Rejoin(_, _),     \* the load from the data buffer and REJOIN_DATUM_BITS
  MaxLength         \* bounds the length of a partition

\* DatumBits models the three operators; its theorem RejoinSplit is the last part.
ASSUME CodecAssumption ==
  /\ Sign \in Nat \ {0}
  /\ MaxLength \in Nat
  /\ \A d \in Data : /\ High(d) \in 0 .. 2 * Sign - 1
                     /\ Rejoin(High(d), Low(d)) = d

VARIABLES
  raw,        \* the input
  form,       \* config->indexForm
  pc,         \* the loop that is running
  pos,        \* the element it has come to
  table,      \* countTable, which becomes the lookup table in place
  numBins, binValues, binStart,   \* ALBinLayout
  step,       \* determineBinLayout: how many bin values the scan has passed,
  curBin, curEnd,                 \* and curBinID, curEndOffset
  cursor,     \* binCurOffsets
  data, index,                    \* the buffers of the partition
  bin,        \* ALDecode: the bin it has come to
  out, outCount

layout == <<numBins, binValues, binStart>>
scan == <<step, curBin, curEnd>>
buffers == <<cursor, data, index>>
output == <<bin, out, outCount>>
vars == <<raw, form, pc, pos, table, layout, scan, buffers, output>>

Undef == -1    \* memory from malloc that was not written

Count == Len(raw)
Elements == 0 .. Count - 1
BinValues == 0 .. 2 * Sign - 1
Datum(r) == raw[r + 1]
Fresh(S) == [x \in S |-> Undef]

\* Here and below, a definition with nothing but a name for a fault is what
\* the definition after it would be with that fault.
TwosComplementOrder(s) == s

\* FOR_BIN_VALUE_IN_1C_ORDER: the negative values down from the largest
\* magnitude to -0, then +0 and the positive ones.
OrderedValue(s) == IF s < Sign THEN 2 * Sign - 1 - s ELSE s - Sign
-------------------------------------------------------------------------------
Init ==
  /\ raw \in UNION {[1 .. n -> Data] : n \in 0 .. MaxLength}
  /\ form \in {"InvertedIndex", "CompressionIndex", "CompressedInvertedIndex"}
  /\ pc = "count" /\ pos = 0
  /\ table = [v \in BinValues |-> 0]
  /\ numBins = 0 /\ binValues = <<>> /\ binStart = <<>>
  /\ step = 0 /\ curBin = 0 /\ curEnd = 0
  /\ cursor = <<>> /\ data = <<>> /\ index = <<>>
  /\ bin = 0 /\ out = <<>> /\ outCount = 0

CountElement ==
  /\ pc = "count" /\ pos < Count
  /\ LET hi == High(Datum(pos)) IN
       /\ table' = [table EXCEPT ![hi] = @ + 1]
       /\ numBins' = IF table'[hi] = 1 THEN numBins + 1 ELSE numBins
  /\ pos' = pos + 1
  /\ UNCHANGED <<raw, form, pc, binValues, binStart, scan, buffers, output>>

NoEndOffset == [Fresh(0 .. numBins - 1) EXCEPT ![0] = 0]
FirstOffset == [Fresh(0 .. numBins) EXCEPT ![0] = 0]

AllocateLayout ==
  /\ pc = "count" /\ pos = Count
  /\ pc' = "layout"
  /\ binValues' = Fresh(0 .. numBins - 1)
  /\ binStart' = FirstOffset
  /\ step' = 0 /\ curBin' = 0 /\ curEnd' = 0
  /\ UNCHANGED <<raw, form, pos, table, numBins, buffers, output>>

\* A value that does not occur keeps its 0 in the table.
SkipValue ==
  /\ pc = "layout" /\ step < 2 * Sign
  /\ table[OrderedValue(step)] = 0
  /\ step' = step + 1
  /\ UNCHANGED <<raw, form, pc, pos, table, layout, curBin, curEnd, buffers, output>>

TableStaysCounts(v) == table
TableWithBin(v) == [table EXCEPT ![v] = curBin]

LayoutValue ==
  /\ pc = "layout" /\ step < 2 * Sign
  /\ LET v == OrderedValue(step) IN
       /\ table[v] # 0
       /\ curEnd' = curEnd + table[v]
       /\ binValues' = [binValues EXCEPT ![curBin] = v]
       /\ binStart' = [binStart EXCEPT ![curBin + 1] = curEnd']
       /\ table' = TableWithBin(v)
  /\ curBin' = curBin + 1
  /\ step' = step + 1
  /\ UNCHANGED <<raw, form, pc, pos, numBins, buffers, output>>

OffsetsOfEnds == [b \in 0 .. numBins - 1 |-> binStart[b + 1]]
OffsetsOfStarts == [b \in 0 .. numBins - 1 |-> binStart[b]]

\* initMetadataAndAllocateBuffers, and the copy of the start offsets.
AllocateBuffers ==
  /\ pc = "layout" /\ step = 2 * Sign
  /\ data' = Fresh(Elements)
  /\ IF form = "CompressedInvertedIndex"
       THEN pc' = "refused" /\ UNCHANGED <<cursor, index>>
       ELSE /\ pc' = "fill"
            /\ index' = Fresh(Elements)
            /\ cursor' = OffsetsOfStarts
  /\ pos' = 0
  /\ UNCHANGED <<raw, form, table, layout, scan, output>>

CursorNotMoved(b) == cursor
CursorPast(b) == [cursor EXCEPT ![b] = @ + 1]

\* The inverted index says where an element of a bin came from, the
\* compression index in which bin an element is.
FillElement ==
  /\ pc = "fill" /\ pos < Count
  /\ LET b == table[High(Datum(pos))]
         off == cursor[b]
     IN /\ cursor' = CursorPast(b)
        /\ data' = [data EXCEPT ![off] = Low(Datum(pos))]
        /\ index' = IF form = "InvertedIndex"
                      THEN [index EXCEPT ![off] = pos]
                      ELSE [index EXCEPT ![pos] = b]
  /\ pos' = pos + 1
  /\ UNCHANGED <<raw, form, pc, table, layout, scan, output>>

Encoded == pc = "fill" /\ pos = Count

StartDecode ==
  /\ Encoded
  /\ out' = Fresh(Elements)
  /\ pos' = 0 /\ bin' = 0
  /\ pc' = IF form = "InvertedIndex" THEN "decode" ELSE "done"
  /\ UNCHANGED <<raw, form, table, layout, scan, buffers, outCount>>

PlaceInBinOrder == pos
Place == index[pos]

DecodeElement ==
  /\ pc = "decode" /\ bin < numBins /\ pos < binStart[bin + 1]
  /\ out' = [out EXCEPT ![Place] = Rejoin(binValues[bin], data[pos])]
  /\ pos' = pos + 1
  /\ UNCHANGED <<raw, form, pc, table, layout, scan, buffers, bin, outCount>>

BinEndsLate == pos > binStart[bin + 1]
BinEnds == pos >= binStart[bin + 1]

NextBin ==
  /\ pc = "decode" /\ bin < numBins /\ BinEnds
  /\ bin' = bin + 1
  /\ UNCHANGED <<raw, form, pc, pos, table, layout, scan, buffers, out, outCount>>

FinishDecode ==
  /\ pc = "decode" /\ bin = numBins
  /\ outCount' = Count
  /\ pc' = "done"
  /\ UNCHANGED <<raw, form, pos, table, layout, scan, buffers, bin, out>>

Next ==
  \/ CountElement
  \/ AllocateLayout
  \/ SkipValue
  \/ LayoutValue
  \/ AllocateBuffers
  \/ FillElement
  \/ StartDecode
  \/ DecodeElement
  \/ NextBin
  \/ FinishDecode

Spec == Init /\ [][Next]_vars
===============================================================================
