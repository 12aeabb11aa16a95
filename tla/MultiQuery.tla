------------------------------- MODULE MultiQuery ------------------------------
(***************************************************************************)
(* The multivariate query tool (tools/multiquery.c): counts the rows of a  *)
(* table in which every variable lies in its interval lb <= x < ub.  Every *)
(* variable has a store of its own; the stores are taken from partition to *)
(* partition together, and the bitmaps of the variables are intersected.   *)
(*                                                                         *)
(* A partition is one of BinRange whose bins have a compressed RID list    *)
(* each.  The stores of one table have partitions of the same lengths.     *)
(***************************************************************************)
EXTENDS BinRange, IndexForms

CONSTANTS
  Tables,     \* for every variable, the partitions of its store
  Intervals,  \* for every variable, its interval
  Garbage     \* bitmaps that stand for what memory that was never written gives

DataTypes == {"double", "float", "other"}

\* The rows of a bin, bins counting from 1, and the index made of them.
RowsOfBin(m, b) ==
  [k \in 1 .. m.binStart[b] - m.binStart[b - 1] |-> m.rids[m.binStart[b - 1] + k - 1]]
ListOf(form, rows) == IF form = InvertedIndex THEN rows ELSE Compress(form, rows)

\* The rows of a partition fit a RID, and every bin has its rows in their order.
IsIndexed(m) ==
  /\ m.length <= RidLimit
  /\ \A b \in 1 .. m.numBins : \A j \in m.binStart[b - 1] .. m.binStart[b] - 2 :
       m.rids[j] < m.rids[j + 1]
  /\ m.index = [b \in 1 .. m.numBins |-> ListOf(m.form, RowsOfBin(m, b))]

ASSUME TableAssumption ==
  \A t \in Tables :
    /\ Len(t) \in Nat \ {0} /\ DOMAIN t = 1 .. Len(t)
    /\ \A q \in Intervals :
         DOMAIN q = DOMAIN t /\ \A v \in DOMAIN q : q[v].lb \in Element /\ q[v].ub \in Element
    /\ \A v \in DOMAIN t :
         /\ Len(t[v]) \in Nat \ {0} /\ DOMAIN t[v] = 1 .. Len(t[v])
         /\ Len(t[v]) = Len(t[1])

ASSUME PartitionAssumption ==
  \A t \in Tables : \A v \in DOMAIN t : \A n \in DOMAIN t[v] :
    /\ IsPartition(t[v][n]) /\ IsIndexed(t[v][n])
    /\ t[v][n].length = t[1][n].length
    /\ n < Len(t[v]) => t[v][n].length = t[v][1].length
    /\ t[v][n].length <= t[v][1].length
    /\ t[v][n].datatype \in DataTypes /\ t[v][n].form \in Forms \ {Skip}

VARIABLES
  stores,     \* the table
  queries,    \* the interval of every variable
  cur,        \* cur_partition of every store
  metadatas,  \* metadata cache of every engine, by partition number
  part,       \* current_part_num
  i,          \* the variable in turn
  touched,    \* are_bins_touched
  bitmap,     \* p_bitmap, its bits that are 1
  total,      \* total_result_count
  pc          \* place in doMultiQueryValueConstraint

vars == <<stores, queries, cur, metadatas, part, i, touched, bitmap, total, pc>>

None == [none |-> TRUE]
Variables == DOMAIN stores

\* partition_size of the first store, and the words of a bitmap of its rows.
psize == stores[1][1].length
TooFewWords(bits) == bits \div WordBits
BITNSLOTS64(bits) == (bits + WordBits - 1) \div WordBits
AllOnes == 0 .. BITNSLOTS64(psize) * WordBits - 1

Init ==
  /\ stores \in Tables /\ queries \in Intervals
  /\ cur = [v \in Variables |-> 0]
  /\ metadatas = [v \in Variables |-> [n \in 0 .. Len(stores[v]) - 1 |-> None]]
  /\ part = 0 /\ i = 1 /\ total = 0
  /\ touched = FALSE /\ bitmap = {}
  /\ pc = "partitions"

-------------------------------------------------------------------------------
(* One variable in one partition.                                          *)

\* A bit in the word after the bitmap passes the assertion of setBitsinBitMap;
\* it is not the bitmap's.
setBitsinBitMap(rids) == rids \cap AllOnes

BinsOf(m, lo, hi) == [k \in 1 .. hi - lo |-> m.index[lo + k]]

\* The RIDs of the values found in the interval, for values of double only.
candidateCheck(m, lo, hi, q) ==
  LET decoded == adios_expand_runlength_decode_rid(BinsOf(m, lo, hi))
      first == m.binStart[lo]
      found == {k \in first .. m.binStart[hi] - 1 : InRange(m.elems[k], q)}
  IN IF m.datatype = "double"
     THEN setBitsinBitMap({decoded[k - first + 1] : k \in found}) ELSE {}

InnerBins(m, lo, hi) ==
  UNION {ListBits(m.form, list) : list \in Range(BinsOf(m, lo + 1, hi - 1))}

\* With more than two bins only the first and the last are checked.
VariableBits(m, q) ==
  LET lo == StartBin(m, q)
      hi == EndBin(m, q)
  IN IF hi - lo > 2
     THEN candidateCheck(m, lo, lo + 1, q) \cup InnerBins(m, lo, hi)
            \cup candidateCheck(m, hi - 1, hi, q)
     ELSE candidateCheck(m, lo, hi, q)

Meta == stores[i][cur[i] + 1]

\* Definitions such as TooFewWords and AdvancedWhenNeeded, each before the one
\* it resembles, are that definition with a fault.
AdvancedWhenNeeded == IF touched THEN [cur EXCEPT ![i] = @ + 1] ELSE cur
Advanced == [cur EXCEPT ![i] = @ + 1]

\* Opening the partition advances the store, and its metadata is cached.
OpenVariable ==
  /\ pc = "variables" /\ i \in Variables
  /\ cur' = Advanced
  /\ metadatas' = [metadatas EXCEPT ![i][cur[i]] = IF @ = None THEN Meta ELSE @]
  /\ UNCHANGED <<stores, queries, part, total>>

\* The type of the query is the type of the first partition.
FirstType == IF cur[i] = 0 THEN Meta.datatype ELSE metadatas[i][0].datatype
Works == touched /\ FirstType # "other"
TouchedNow == Touched(Meta, queries[i])

\* An earlier variable touched no bin: the partition is only passed.
SkipVariable ==
  /\ OpenVariable /\ ~ touched
  /\ i' = i + 1
  /\ UNCHANGED <<touched, bitmap, pc>>

UntouchedVariable ==
  /\ OpenVariable /\ Works /\ ~ TouchedNow
  /\ touched' = FALSE /\ i' = i + 1
  /\ UNCHANGED <<bitmap, pc>>

\* Only the lists of the mix form are decoded for candidates.
MixVariable ==
  /\ OpenVariable /\ Works /\ TouchedNow /\ Meta.form = Mix
  /\ bitmap' = bitmap \cap VariableBits(Meta, queries[i])
  /\ i' = i + 1
  /\ UNCHANGED <<touched, pc>>

\* With another compressed form the candidates' RIDs are never written, and the
\* bins between are decoded from the wrong place: any bits, or a failed
\* assertion.
OtherFormVariable ==
  /\ OpenVariable /\ Works /\ TouchedNow /\ Meta.form \in CompressedForms \ {Mix}
  /\ \/ /\ \E bits \in Garbage : bitmap' = bitmap \cap bits
        /\ i' = i + 1 /\ pc' = pc
     \/ pc' = "aborted" /\ UNCHANGED <<bitmap, i>>
  /\ UNCHANGED touched

\* "return false" in the middle: another type, or an index that is not
\* compressed.
Refuse ==
  /\ OpenVariable /\ touched
  /\ FirstType = "other" \/ (TouchedNow /\ Meta.form = InvertedIndex)
  /\ pc' = "refused"
  /\ UNCHANGED <<i, touched, bitmap>>

-------------------------------------------------------------------------------
(* The partitions.                                                         *)
AtEnd == cur[1] >= Len(stores[1])

LeftOver == IF part = 0 THEN AllOnes ELSE bitmap
ResetBitmap == AllOnes

NextPartition ==
  /\ pc = "partitions" /\ ~ AtEnd
  /\ bitmap' = ResetBitmap
  /\ touched' = TRUE /\ i' = 1
  /\ pc' = "variables"
  /\ UNCHANGED <<stores, queries, cur, metadatas, part, total>>

CountAlways == Cardinality(bitmap)
Count == IF touched THEN Cardinality(bitmap) ELSE 0

CountPartition ==
  /\ pc = "variables" /\ i \notin Variables
  /\ total' = total + Count
  /\ part' = part + 1
  /\ pc' = "partitions"
  /\ UNCHANGED <<stores, queries, cur, metadatas, i, touched, bitmap>>

Finish ==
  /\ pc = "partitions" /\ AtEnd
  /\ pc' = "done"
  /\ UNCHANGED <<stores, queries, cur, metadatas, part, i, touched, bitmap, total>>

Next ==
  \/ NextPartition \/ CountPartition \/ Finish
  \/ SkipVariable \/ UntouchedVariable \/ MixVariable \/ OtherFormVariable \/ Refuse

Spec == Init /\ [][Next]_vars
===============================================================================
