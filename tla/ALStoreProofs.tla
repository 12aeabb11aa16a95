----------------------------- MODULE ALStoreProofs -----------------------------
(***************************************************************************)
(* Proofs about ALStorePOSIX, for every set of partitions, every initial   *)
(* capacity and every bound on the partitions of a store: the types, the   *)
(* offset tables and the header, the end of the store, and that a reader   *)
(* gets the partitions that were written, whole and in order.              *)
(***************************************************************************)
EXTENDS ALStoreProps, SequenceTheorems, TLAPS

-------------------------------------------------------------------------------
(* Lemmas about the operators of the model.                                *)

\* Cells from .. to-1 of partition p are a sequence of that length.
LEMMA RegionType ==
  ASSUME NEW p \in Nat, NEW from \in Nat, NEW to \in Nat, from <= to
  PROVE  /\ Region(p, from, to) \in Seq(Cell)
         /\ Len(Region(p, from, to)) = to - from
         /\ \A k \in 1 .. (to - from) : Region(p, from, to)[k] = <<p, from + k - 1>>
<1> DEFINE e(k) == <<p, from + k - 1>>
<1>1. \A k \in 1 .. (to - from) : e(k) \in Cell
  BY DEF Cell
<1>2. to - from \in Nat
  OBVIOUS
<1>3. [k \in 1 .. (to - from) |-> e(k)] \in Seq(Cell)
  <2> HIDE DEF e
  <2> QED BY <1>1, <1>2, IsASeq
<1>4. Region(p, from, to) \in Seq(Cell)
  BY <1>3 DEF Region
<1>5. Len(Region(p, from, to)) = to - from
  BY <1>2 DEF Region
<1>6. \A k \in 1 .. (to - from) : Region(p, from, to)[k] = <<p, from + k - 1>>
  BY DEF Region
<1>7. QED
  BY <1>4, <1>5, <1>6

\* What fread returns: at most n cells of the file, in file order.
LEMMA FReadType ==
  ASSUME NEW S, NEW file \in Seq(S), NEW pos \in Int, NEW n \in Int
  PROVE  /\ FRead(file, pos, n) \in Seq(S)
         /\ Len(FRead(file, pos, n)) \in Nat
         /\ \A k \in 1 .. Len(FRead(file, pos, n)) :
               \E i \in 1 .. Len(file) : FRead(file, pos, n)[k] = file[i]
<1>1. CASE pos < 0
  BY <1>1 DEF FRead
<1>2. CASE pos >= 0
  <2> DEFINE last == IF pos + n <= Len(file) THEN pos + n ELSE Len(file)
  <2>1. last \in Int /\ last <= Len(file) /\ Len(file) \in Nat
    BY LenProperties
  <2>2. \A i \in pos + 1 .. last : i \in 1 .. Len(file) /\ file[i] \in S
    BY <1>2, <2>1, ElementOfSeq
  <2>3. FRead(file, pos, n) = SubSeq(file, pos + 1, last)
    BY <1>2 DEF FRead
  <2> HIDE DEF last
  <2>4. /\ SubSeq(file, pos + 1, last) \in Seq(S)
        /\ Len(SubSeq(file, pos + 1, last)) =
             IF pos + 1 <= last THEN last - (pos + 1) + 1 ELSE 0
        /\ \A i \in 1 .. last - (pos + 1) + 1 :
             SubSeq(file, pos + 1, last)[i] = file[pos + 1 + i - 1]
    BY <2>1, <2>2, SubSeqProperties
  <2>5. QED
    BY <1>2, <2>1, <2>2, <2>3, <2>4
<1>3. QED BY <1>1, <1>2

\* Reading inside the file returns exactly the cells that stand there.
LEMMA FReadInside ==
  ASSUME NEW S, NEW file \in Seq(S), NEW pos \in Nat, NEW n \in Nat,
         pos + n <= Len(file)
  PROVE  /\ Len(FRead(file, pos, n)) = n
         /\ \A k \in 1 .. n : FRead(file, pos, n)[k] = file[pos + k]
<1>1. FRead(file, pos, n) = SubSeq(file, pos + 1, pos + n)
  BY DEF FRead
<1>2. \A i \in pos + 1 .. pos + n : file[i] \in S
  BY ElementOfSeq, LenProperties
<1>3. /\ Len(SubSeq(file, pos + 1, pos + n)) =
           IF pos + 1 <= pos + n THEN pos + n - (pos + 1) + 1 ELSE 0
      /\ \A i \in 1 .. pos + n - (pos + 1) + 1 :
           SubSeq(file, pos + 1, pos + n)[i] = file[pos + 1 + i - 1]
  BY <1>2, SubSeqProperties
<1>4. Len(FRead(file, pos, n)) = n
  BY <1>1, <1>3
<1>5. ASSUME NEW k \in 1 .. n
      PROVE  FRead(file, pos, n)[k] = file[pos + k]
  <2>1. k \in 1 .. pos + n - (pos + 1) + 1 /\ pos + 1 + k - 1 = pos + k
    OBVIOUS
  <2> QED BY <2>1, <1>1, <1>3
<1>6. QED BY <1>4, <1>5

\* The sizes of a partition are numbers.
LEMMA PartitionSizes ==
  ASSUME NEW d \in Parts
  PROVE  /\ d.length \in Nat \ {0} /\ d.metaSize \in Nat \ {0}
         /\ d.numBins \in Nat \ {0}
         /\ DataSize(d) \in Nat /\ IndexSize(d) \in Nat
<1>1. IsPartition(d)
  BY StoreAssumption
<1>2. /\ d.numBins + 1 \in 1 .. Len(d.dataStart) /\ d.dataStart \in Seq(Nat)
      /\ d.numBins + 1 \in 1 .. Len(d.indexStart) /\ d.indexStart \in Seq(Nat)
      /\ d.length \in Nat \ {0} /\ d.metaSize \in Nat \ {0}
      /\ d.numBins \in Nat \ {0}
  BY <1>1 DEF IsPartition
<1>3. QED BY <1>2, ElementOfSeq DEF DataSize, IndexSize

\* What is located in a file stays located when the file is appended to.
LEMMA LocatedAppend ==
  ASSUME NEW f \in Seq(Cell), NEW g \in Seq(Cell),
         NEW off \in Int, NEW p \in Nat, NEW n \in Nat, Located(f, off, p, n)
  PROVE  Located(f \o g, off, p, n)
<1>1. Len(f) \in Nat /\ Len(g) \in Nat
  BY LenProperties
<1>2. Len(f \o g) = Len(f) + Len(g)
  BY ConcatProperties
<1>3. ASSUME NEW k \in 1 .. n PROVE (f \o g)[off + k] = <<p, k - 1>>
  <2>1. off + k \in 1 .. Len(f)
    BY <1>1 DEF Located
  <2>2. (f \o g)[off + k] = f[off + k]
    BY <2>1, <1>1, ConcatProperties
  <2> QED BY <2>2 DEF Located
<1>4. off >= 0 /\ off + n <= Len(f \o g)
  BY <1>1, <1>2 DEF Located
<1>5. QED
  <2> HIDE DEF Located
  <2> SUFFICES /\ off >= 0 /\ off + n <= Len(f \o g)
               /\ \A k \in 1 .. n : (f \o g)[off + k] = <<p, k - 1>>
    BY DEF Located
  <2> QED BY <1>3, <1>4

\* A partition's stream is located where the file ended before it.
LEMMA LocatedNew ==
  ASSUME NEW f \in Seq(Cell), NEW p \in Nat, NEW n \in Nat
  PROVE  /\ f \o Region(p, 0, n) \in Seq(Cell)
         /\ Len(f \o Region(p, 0, n)) = Len(f) + n
         /\ Located(f \o Region(p, 0, n), Len(f), p, n)
<1>1. /\ Region(p, 0, n) \in Seq(Cell) /\ Len(Region(p, 0, n)) = n
      /\ \A k \in 1 .. n : Region(p, 0, n)[k] = <<p, k - 1>>
  <2>1. 0 \in Nat /\ 0 <= n /\ n - 0 = n /\ \A k \in 1 .. n : 0 + k - 1 = k - 1
    OBVIOUS
  <2>2. /\ Region(p, 0, n) \in Seq(Cell) /\ Len(Region(p, 0, n)) = n - 0
        /\ \A k \in 1 .. (n - 0) : Region(p, 0, n)[k] = <<p, 0 + k - 1>>
    BY <2>1, RegionType
  <2> QED BY <2>1, <2>2
<1>2. Len(f) \in Nat
  BY LenProperties
<1>3. /\ f \o Region(p, 0, n) \in Seq(Cell)
      /\ Len(f \o Region(p, 0, n)) = Len(f) + n
      /\ \A i \in 1 .. Len(f) + n : (f \o Region(p, 0, n))[i] =
            IF i <= Len(f) THEN f[i] ELSE Region(p, 0, n)[i - Len(f)]
  BY <1>1, ConcatProperties
<1>4. ASSUME NEW k \in 1 .. n
      PROVE  (f \o Region(p, 0, n))[Len(f) + k] = <<p, k - 1>>
  <2>1. /\ Len(f) + k \in 1 .. Len(f) + n /\ ~(Len(f) + k <= Len(f))
        /\ Len(f) + k - Len(f) = k /\ 0 + k - 1 = k - 1 /\ n - 0 = n
    BY <1>2
  <2>2. Region(p, 0, n)[k] = <<p, k - 1>>
    BY <2>1, <1>1
  <2> QED BY <2>1, <2>2, <1>3
<1>5. QED BY <1>2, <1>3, <1>4 DEF Located
-------------------------------------------------------------------------------
(* The inductive invariant behind TypeOK.  Besides the types it says what  *)
(* the reader's arithmetic rests on: the header of a finished store holds  *)
(* numbers, every cell on disk belongs to a partition that was written,    *)
(* and a partition store is open exactly while its store is locked.        *)

KnownCell == (0 .. Len(written) - 1) \X Nat

CellsInv ==
  /\ metaFile \in Seq(KnownCell) /\ dataFile \in Seq(KnownCell)
  /\ indexFile \in Seq(KnownCell) /\ tmpFile \in Seq(KnownCell)

HeaderInv ==
  header # <<>> =>
    /\ Len(header) >= 2 /\ header[1] \in Nat /\ header[2] \in Nat
    /\ ~legacy => Len(header) >= 3 /\ header[3] \in Nat

LockInv ==
  /\ ps.open = excl
  /\ excl => mode = "r" /\ loaded
  /\ mode = "r" => header # <<>>
  /\ ps.meta # Garbage => ps.meta \in 0 .. Len(written) - 1

WriterInv == mode = "w" => np = cur /\ cur = Len(written) /\ np <= capacity

TypeInv == TypeOK /\ CellsInv /\ HeaderInv /\ LockInv /\ WriterInv

\* Sequences over a set are sequences over a larger one.
LEMMA SeqMonotone ==
  ASSUME NEW S, NEW T, S \subseteq T, NEW s \in Seq(S)
  PROVE  s \in Seq(T)
<1>1. Len(s) \in Nat /\ \A i \in 1 .. Len(s) : s[i] \in T
  BY ElementOfSeq, LenProperties
<1>2. s = [i \in 1 .. Len(s) |-> s[i]]
  BY SeqDef
<1> DEFINE e(i) == s[i]
<1>3. \A i \in 1 .. Len(s) : e(i) \in T
  BY <1>1
<1>4. [i \in 1 .. Len(s) |-> e(i)] \in Seq(T)
  <2> HIDE DEF e
  <2> QED BY <1>1, <1>3, IsASeq
<1>5. QED BY <1>2, <1>4

\* The numbers below n are the indices of a table of n entries.
LEMMA BelowIsIndex ==
  ASSUME NEW i \in Nat, NEW n \in Nat, i < n
  PROVE  i \in 0 .. n - 1
OBVIOUS

\* An unchecked table access is a number all the same.
LEMMA AtType ==
  ASSUME NEW n \in Int, NEW tbl \in [0 .. n - 1 -> Int], NEW i
  PROVE  At(tbl, i) \in Int
BY DEF At, Undef

\* Deserializing cells of this store yields one of its partitions, or fails.
LEMMA DeserializeType ==
  ASSUME NEW cells \in Seq(KnownCell)
  PROVE  Deserialize(cells) = Garbage \/ Deserialize(cells) \in 0 .. Len(written) - 1
<1>1. CASE cells = <<>>
  BY <1>1 DEF Deserialize
<1>2. CASE cells # <<>>
  <2>1. cells[1] \in KnownCell
    BY <1>2, ElementOfSeq, EmptySeq, LenProperties
  <2>2. cells[1][1] \in 0 .. Len(written) - 1
    BY <2>1 DEF KnownCell
  <2> QED BY <1>2, <2>2 DEF Deserialize
<1>3. QED BY <1>1, <1>2

\* A result without payload.
LEMMA ResultIsResult ==
  ASSUME NEW call \in CallNames, NEW err \in {"None", "Something", "SIGFPE"}
  PROVE  Result(call, err) \in Answers
<1>1. 0 \in BinIds /\ <<>> \in Seq(Cell)
  BY EmptySeq DEF BinIds
<1>2. QED BY <1>1 DEF Result, Nothing, Answers

\* A store that has just been opened, or closed, has the types.
LEMMA FreshIsTyped ==
  ASSUME FreshStore
  PROVE  /\ cur' = 0 /\ loaded' = FALSE /\ excl' = FALSE
         /\ np' = 0 /\ psize' \in Nat /\ total' \in Nat
         /\ wmeta' \in Nat /\ wdata' \in Nat /\ windex' \in Nat
         /\ lastWritten' \in BOOLEAN
         /\ TableType' /\ PositionType' /\ PartitionStoreType'
         /\ ps'.open = FALSE /\ ps'.meta = Garbage
<1>1. NoTable \in [0 .. InitialCapacity - 1 -> Int]
  BY DEF NoTable, Undef
<1>2. InitialCapacity \in Nat \ {0}
  BY StoreAssumption
<1>3. TableType'
  BY <1>1, <1>2 DEF FreshStore, TableType
<1>4. PartitionStoreType'
  BY DEF FreshStore, PartitionStoreType, NoPartitionStore, Garbage
<1>5. PositionType'
  BY DEF FreshStore, PositionType
<1>6. ps'.open = FALSE
  BY DEF FreshStore, NoPartitionStore
<1>7. ps'.meta = Garbage
  BY DEF FreshStore, NoPartitionStore
<1>8. cur' = 0 /\ loaded' = FALSE /\ excl' = FALSE /\ np' = 0
  BY DEF FreshStore
<1>9. /\ psize' \in Nat /\ total' \in Nat
      /\ wmeta' \in Nat /\ wdata' \in Nat /\ windex' \in Nat
      /\ lastWritten' \in BOOLEAN
  BY DEF FreshStore
<1>10. QED
  BY <1>3, <1>4, <1>5, <1>6, <1>7, <1>8, <1>9

\* Types at first, and below for every action.
LEMMA InitTyped == Init => TypeInv
<1> SUFFICES ASSUME Init PROVE TypeInv
  OBVIOUS
<1>1. /\ <<>> \in Seq(Int) /\ <<>> \in Seq(Cell) /\ <<>> \in Seq(Parts)
      /\ <<>> \in Seq(KnownCell) /\ Len(<<>>) = 0
  BY EmptySeq
<1>2. NoTable \in [0 .. InitialCapacity - 1 -> Int]
  BY DEF NoTable, Undef
<1>3. ResultType
  <2>1. 0 \in BinIds
    BY DEF BinIds
  <2>2. Nothing \in Answers
    BY <1>1, <2>1 DEF Nothing, Answers, CallNames
  <2> QED BY <2>2 DEF Init, ResultType
<1>4. DiskType
  BY <1>1, StoreAssumption DEF Init, DiskType
<1>5. HandleType
  BY DEF Init, HandleType
<1>6. TableType
  BY <1>2, StoreAssumption DEF Init, TableType
<1>7. PositionType
  BY DEF Init, PositionType
<1>8. PartitionStoreType
  BY DEF Init, PartitionStoreType, NoPartitionStore, Garbage
<1>9. CellsInv
  BY <1>1 DEF Init, CellsInv
<1>10. HeaderInv
  BY DEF Init, HeaderInv
<1>11. LockInv
  <2>1. ps.open = FALSE /\ excl = FALSE
    BY DEF Init, NoPartitionStore
  <2>2. ps.meta = Garbage
    BY DEF Init, NoPartitionStore
  <2> QED BY <2>1, <2>2 DEF Init, LockInv
<1>12. WriterInv
  BY DEF Init, WriterInv
<1>13. QED
  BY <1>3, <1>4, <1>5, <1>6, <1>7, <1>8, <1>9, <1>10, <1>11, <1>12
     DEF TypeInv, TypeOK

\* Loading the global metadata keeps the types, and gives a position.
LEMMA LoadedIsTyped ==
  ASSUME TypeInv, mode = "r", ~DividesByZero
  PROVE  /\ Count \in Nat /\ MetaPos \in Int
         /\ EnsureLoaded => /\ TableType'
                            /\ loaded' = TRUE
                            /\ np' \in Nat /\ psize' \in Nat /\ total' \in Nat
<1>1. /\ header \in Seq(Int) /\ header # <<>> /\ Len(header) >= 2
      /\ header[1] \in Nat /\ header[2] \in Nat /\ legacy \in BOOLEAN
      /\ ~legacy => Len(header) >= 3 /\ header[3] \in Nat
  BY DEF TypeInv, TypeOK, DiskType, LockInv, HeaderInv
<1>2. /\ loaded \in BOOLEAN /\ np \in Nat /\ psize \in Nat /\ total \in Nat
      /\ mpos \in Int /\ TableType
  BY DEF TypeInv, TypeOK, HandleType, PositionType
<1>3. CASE loaded
  BY <1>2, <1>3 DEF Count, MetaPos, EnsureLoaded, TableType, MetaTable,
     DataTable, IndexTable
<1>4. CASE ~loaded
  <2>1. HeaderCount \in Nat
    <3>1. CASE legacy
      <4>1. header[2] > 0
        BY <1>1, <1>4, <3>1 DEF DividesByZero
      <4>2. (header[1] - 1) \div header[2] \in Int
            /\ (header[1] - 1) \div header[2] >= -1
        BY <1>1, <4>1
      <4> QED BY <3>1, <4>2 DEF HeaderCount
    <3>2. QED BY <1>1, <3>1 DEF HeaderCount
  <2>2. Entries(HeaderCount) \in Nat
    BY <2>1 DEF Entries
  <2>3. HeaderSize(HeaderCount) \in Int
    BY <2>2 DEF HeaderSize, FirstTableWord
  <2>4. LoadCapacity \in Nat \ {0}
    BY <1>2, <2>2 DEF LoadCapacity, TableType
  <2>5. \A i : Word(i) \in Int
    BY <1>1, ElementOfSeq DEF Word, Undef
  <2>6. \A k : LoadTable(k) \in [0 .. LoadCapacity - 1 -> Int]
    BY <2>5 DEF LoadTable, Undef
  <2>7. EnsureLoaded => TableType'
    BY <1>4, <2>4, <2>6 DEF EnsureLoaded, TableType, MetaTable, DataTable,
       IndexTable
  <2> QED
    BY <1>1, <1>4, <2>1, <2>3, <2>7 DEF EnsureLoaded, Count, MetaPos
<1>5. QED BY <1>2, <1>3, <1>4
-------------------------------------------------------------------------------
(* TypeInv is preserved by every action of a writer.                       *)

LEMMA OpenWriteTyped == TypeInv /\ OpenWrite => TypeInv'
<1> SUFFICES ASSUME TypeInv, OpenWrite PROVE TypeInv'
  OBVIOUS
<1>1. FreshStore
  BY DEF OpenWrite
<1>2. /\ <<>> \in Seq(Int) /\ <<>> \in Seq(Cell) /\ <<>> \in Seq(Parts)
      /\ <<>> \in Seq(KnownCell') /\ Len(<<>>) = 0
  BY EmptySeq
<1>3. DiskType'
  BY <1>2, StoreAssumption DEF OpenWrite, DiskType
<1>4. HandleType'
  BY <1>1, FreshIsTyped DEF OpenWrite, HandleType
<1>5. TableType' /\ PositionType' /\ PartitionStoreType'
  BY <1>1, FreshIsTyped
<1>6. ResultType'
  BY ResultIsResult DEF OpenWrite, ResultType, CallNames
<1>7. CellsInv'
  BY <1>2 DEF OpenWrite, CellsInv
<1>8. HeaderInv'
  BY DEF OpenWrite, HeaderInv
<1>9. LockInv'
  BY <1>1, FreshIsTyped DEF OpenWrite, LockInv
<1>10. WriterInv'
  BY <1>1, <1>2, <1>5, FreshIsTyped DEF OpenWrite, WriterInv, TableType
<1>11. QED
  BY <1>3, <1>4, <1>5, <1>6, <1>7, <1>8, <1>9, <1>10 DEF TypeInv, TypeOK

\* Noting the offsets of a partition leaves room for it in the table.
LEMMA NoteOffsetsTyped ==
  ASSUME TypeInv, mode = "w", NoteOffsets
  PROVE  TableType' /\ cur \in 0 .. capacity' - 1 /\ capacity' >= capacity
<1>1. /\ capacity \in Nat \ {0} /\ np = cur /\ np <= capacity /\ cur \in Nat
      /\ wmeta \in Nat /\ wdata \in Nat /\ windex \in Nat
      /\ moff \in [0 .. capacity - 1 -> Int]
      /\ doff \in [0 .. capacity - 1 -> Int]
      /\ ioff \in [0 .. capacity - 1 -> Int]
  BY DEF TypeInv, TypeOK, TableType, HandleType, WriterInv
<1>2. capacity' \in Nat \ {0} /\ capacity' >= capacity /\ cur < capacity'
  BY <1>1 DEF NoteOffsets
<1>3. ASSUME NEW tbl \in [0 .. capacity - 1 -> Int], NEW w \in Nat
      PROVE  [Resize(tbl, capacity') EXCEPT ![cur] = w] \in [0 .. capacity' - 1 -> Int]
  <2>1. ASSUME NEW i PROVE At(tbl, i) \in Int
    BY DEF At, Undef
  <2> DEFINE t == Resize(tbl, capacity')
  <2>2. t = [i \in 0 .. capacity' - 1 |-> At(tbl, i)]
    BY DEF Resize
  <2>3. t \in [0 .. capacity' - 1 -> Int]
    BY <2>1, <2>2
  <2> HIDE DEF t
  <2>4. w \in Int
    OBVIOUS
  <2>5. [t EXCEPT ![cur] = w] \in [0 .. capacity' - 1 -> Int]
    BY <2>3, <2>4, Zenon
  <2> QED BY <2>5 DEF t
<1>4. /\ moff' \in [0 .. capacity' - 1 -> Int]
      /\ doff' \in [0 .. capacity' - 1 -> Int]
      /\ ioff' \in [0 .. capacity' - 1 -> Int]
  BY <1>1, <1>3 DEF NoteOffsets
<1>5. cur \in 0 .. capacity' - 1
  <2>1. cur \in Nat /\ capacity' \in Nat /\ cur < capacity'
    BY <1>1, <1>2
  <2> QED BY <2>1, BelowIsIndex, Zenon
<1>6. TableType'
  BY <1>2, <1>4 DEF TableType
<1>7. QED BY <1>2, <1>5, <1>6

LEMMA WritePartitionTyped ==
  ASSUME NEW d \in Parts, TypeInv, WritePartition(d)
  PROVE  TypeInv'
<1>1. mode = "w" /\ NoteOffsets
  BY DEF WritePartition, Writable
<1>2. TableType' /\ cur \in 0 .. capacity' - 1 /\ capacity' >= capacity
  BY <1>1, NoteOffsetsTyped
<1>3. /\ cur \in Nat /\ np = cur /\ cur = Len(written) /\ written \in Seq(Parts)
      /\ tmpFile \in Seq(KnownCell) /\ dataFile \in Seq(KnownCell)
      /\ indexFile \in Seq(KnownCell) /\ metaFile \in Seq(KnownCell)
  BY <1>1 DEF TypeInv, TypeOK, DiskType, HandleType, WriterInv, CellsInv
<1>4. /\ d.length \in Nat \ {0} /\ d.metaSize \in Nat
      /\ DataSize(d) \in Nat /\ IndexSize(d) \in Nat
  BY PartitionSizes
<1>5. written' \in Seq(Parts) /\ Len(written') = cur + 1
  <2>1. written' = Append(written, d)
    BY DEF WritePartition
  <2> QED BY <2>1, <1>3, AppendProperties
<1>6. KnownCell' = (0 .. cur) \X Nat /\ KnownCell' \subseteq Cell
  BY <1>3, <1>5 DEF KnownCell, Cell
<1>7. KnownCell \subseteq KnownCell'
  BY <1>3, <1>6 DEF KnownCell
<1>8. ASSUME NEW f \in Seq(KnownCell), NEW n \in Nat
      PROVE  f \o Region(cur, 0, n) \in Seq(KnownCell')
  <2>1. \A k \in 1 .. n : Region(cur, 0, n)[k] \in KnownCell'
    <3> SUFFICES ASSUME NEW k \in 1 .. n PROVE Region(cur, 0, n)[k] \in KnownCell'
      OBVIOUS
    <3>1. Region(cur, 0, n)[k] = <<cur, 0 + k - 1>>
      BY DEF Region
    <3>2. cur \in 0 .. cur /\ 0 + k - 1 \in Nat
      BY <1>3
    <3>3. <<cur, 0 + k - 1>> \in (0 .. cur) \X Nat
      BY <3>2
    <3> QED BY <3>1, <3>3, <1>6, Zenon
  <2>2. Region(cur, 0, n) \in Seq(KnownCell')
    <3> DEFINE e(k) == <<cur, 0 + k - 1>>
    <3>1. Region(cur, 0, n) = [k \in 1 .. n |-> e(k)]
      BY DEF Region
    <3>2. \A k \in 1 .. n : e(k) \in KnownCell'
      BY <3>1, <2>1
    <3> HIDE DEF e
    <3> QED BY <3>1, <3>2, IsASeq
  <2>3. f \in Seq(KnownCell')
    BY <1>7, SeqMonotone
  <2> QED BY <2>2, <2>3, ConcatProperties
<1>9. CellsInv'
  <2>1. metaFile \in Seq(KnownCell')
    BY <1>3, <1>7, SeqMonotone
  <2>2. /\ tmpFile' \in Seq(KnownCell') /\ dataFile' \in Seq(KnownCell')
        /\ indexFile' \in Seq(KnownCell') /\ metaFile' = metaFile
    BY <1>3, <1>4, <1>8 DEF WritePartition
  <2> QED BY <2>1, <2>2 DEF CellsInv
<1>10. DiskType'
  <2>1. /\ metaFile' \in Seq(Cell) /\ dataFile' \in Seq(Cell)
        /\ indexFile' \in Seq(Cell) /\ tmpFile' \in Seq(Cell)
    BY <1>6, <1>9, SeqMonotone DEF CellsInv
  <2>2. header' \in Seq(Int) /\ legacy' \in BOOLEAN
    BY DEF WritePartition, TypeInv, TypeOK, DiskType
  <2> QED BY <1>5, <2>1, <2>2 DEF DiskType
<1>11. HandleType'
  <2>1. lastWritten' \in BOOLEAN
    BY DEF WritePartition
  <2>2. /\ cur' \in Nat /\ np' \in Nat /\ psize' \in Nat /\ total' \in Nat
        /\ wmeta' \in Nat /\ wdata' \in Nat /\ windex' \in Nat
    <3>1. /\ cur' = cur + 1 /\ np' = np + 1 /\ total' = total + d.length
          /\ psize' = (IF psize = 0 THEN d.length ELSE psize)
          /\ wmeta' = wmeta + d.metaSize /\ wdata' = wdata + DataSize(d)
          /\ windex' = windex + IndexSize(d)
      BY DEF WritePartition
    <3>2. /\ cur \in Nat /\ np \in Nat /\ psize \in Nat /\ total \in Nat
          /\ wmeta \in Nat /\ wdata \in Nat /\ windex \in Nat
      BY DEF TypeInv, TypeOK, HandleType
    <3> QED BY <1>4, <3>1, <3>2
  <2>3. style' \subseteq Habits /\ mode' \in {"closed", "w", "r"}
    BY Zenon DEF WritePartition, TypeInv, TypeOK, HandleType
  <2>4. loaded' \in BOOLEAN /\ excl' \in BOOLEAN
    BY Zenon DEF WritePartition, TypeInv, TypeOK, HandleType
  <2> QED BY <2>1, <2>2, <2>3, <2>4 DEF HandleType
<1>12. PositionType' /\ PartitionStoreType'
  BY DEF WritePartition, TypeInv, TypeOK, PositionType, PartitionStoreType, positions
<1>13. ResultType'
  <2>1. got' = Result("WritePartition", "None")
    BY DEF WritePartition
  <2> QED BY <2>1, ResultIsResult DEF ResultType, CallNames, Calls
<1>14. HeaderInv'
  BY DEF WritePartition, TypeInv, HeaderInv
<1>15. LockInv'
  BY <1>1, <1>3, <1>5 DEF WritePartition, TypeInv, LockInv
<1>16. WriterInv'
  <2>1. np' = cur' /\ cur' = Len(written') /\ np' = cur + 1
    BY <1>3, <1>5 DEF WritePartition
  <2>2. cur + 1 <= capacity'
    BY <1>1, <1>3 DEF NoteOffsets, TypeInv, TypeOK, TableType, WriterInv
  <2> QED BY <2>1, <2>2 DEF WriterInv
<1>17. QED
  BY <1>2, <1>9, <1>10, <1>11, <1>12, <1>13, <1>14, <1>15, <1>16 DEF TypeInv, TypeOK

LEMMA RejectLengthTyped ==
  ASSUME NEW d \in Parts, TypeInv, RejectLength(d)
  PROVE  TypeInv'
<1>1. mode = "w" /\ NoteOffsets
  BY DEF RejectLength, Writable
<1>2. TableType' /\ cur \in 0 .. capacity' - 1 /\ capacity' >= capacity
  BY <1>1, NoteOffsetsTyped
<1>3. DiskType' /\ CellsInv' /\ HeaderInv'
  BY DEF RejectLength, TypeInv, TypeOK, DiskType, CellsInv, KnownCell, HeaderInv, disk
<1>4. HandleType'
  BY DEF RejectLength, TypeInv, TypeOK, HandleType, gmeta, writeState
<1>5. PositionType' /\ PartitionStoreType'
  BY DEF RejectLength, TypeInv, TypeOK, PositionType, PartitionStoreType, positions
<1>6. ResultType'
  <2>1. got' = Result("WritePartition", "Something")
    BY DEF RejectLength
  <2> QED BY <2>1, ResultIsResult DEF ResultType, CallNames, Calls
<1>7. LockInv'
  BY DEF RejectLength, TypeInv, LockInv, disk
<1>8. WriterInv'
  <2>1. np' = cur' /\ cur' = Len(written') /\ np' = np /\ np <= capacity /\ np \in Nat
    BY <1>1 DEF RejectLength, TypeInv, TypeOK, HandleType, WriterInv, gmeta
  <2>2. np <= capacity'
    BY <1>1, <2>1 DEF NoteOffsets, TypeInv, TypeOK, TableType
  <2> QED BY <2>1, <2>2 DEF WriterInv
<1>9. QED
  BY <1>2, <1>3, <1>4, <1>5, <1>6, <1>7, <1>8 DEF TypeInv, TypeOK

\* The words of a finished header are numbers, the first two of them counts.
LEMMA HeaderWordsType ==
  ASSUME TypeInv, mode = "w"
  PROVE  /\ HeaderWords \in Seq(Int) /\ Len(HeaderWords) = HeaderSize(np)
         /\ HeaderSize(np) \in Nat /\ HeaderSize(np) >= 2
         /\ HeaderWords[1] = total /\ HeaderWords[2] = psize
         /\ ~legacy => HeaderSize(np) >= 3 /\ HeaderWords[3] = np
<1>1. /\ np \in Nat /\ np <= capacity /\ capacity \in Nat /\ total \in Nat /\ psize \in Nat
      /\ wmeta \in Nat /\ wdata \in Nat /\ windex \in Nat /\ legacy \in BOOLEAN
      /\ moff \in [0 .. capacity - 1 -> Int] /\ doff \in [0 .. capacity - 1 -> Int]
      /\ ioff \in [0 .. capacity - 1 -> Int]
  BY DEF TypeInv, TypeOK, TableType, HandleType, DiskType, WriterInv
<1> DEFINE n == Entries(np)
           hs == HeaderSize(np)
           ft == FirstTableWord
<1>2. /\ n \in Nat /\ n >= np /\ ft \in {3, 4} /\ hs = ft - 1 + 3 * n
      /\ ~legacy => ft = 4
  BY <1>1 DEF Entries, HeaderSize, FirstTableWord
<1>3. hs \in Nat /\ hs >= 2 /\ (~legacy => hs >= 3)
  BY <1>2
<1>4. ASSUME NEW tbl \in [0 .. capacity - 1 -> Int], NEW shift \in Int, NEW end \in Nat
      PROVE  \A i \in 0 .. n - 1 : FinalTable(tbl, shift, end)[i] \in Int
  <2> SUFFICES ASSUME NEW i \in 0 .. n - 1 PROVE FinalTable(tbl, shift, end)[i] \in Int
    OBVIOUS
  <2>1. FinalTable(tbl, shift, end)[i] = IF i < np THEN tbl[i] + shift ELSE end + shift
    BY DEF FinalTable
  <2>2. CASE i < np
    <3>1. i \in 0 .. capacity - 1
      BY <1>1, <1>2, <2>2
    <3>2. tbl[i] \in Int
      BY <3>1
    <3> QED BY <2>1, <2>2, <3>2
  <2>3. CASE ~(i < np)
    BY <2>1, <2>3
  <2> QED BY <2>2, <2>3
<1> DEFINE m == FinalTable(moff, hs, wmeta)
           t == FinalTable(doff, 0, wdata)
           x == FinalTable(ioff, 0, windex)
           e(i) == IF i = 1 THEN total ELSE IF i = 2 THEN psize
                   ELSE IF i < ft THEN np
                   ELSE IF i < ft + n THEN m[i - ft]
                   ELSE IF i < ft + 2 * n THEN t[i - ft - n]
                   ELSE x[i - ft - 2 * n]
<1>5. \A i \in 0 .. n - 1 : m[i] \in Int /\ t[i] \in Int /\ x[i] \in Int
  <2>1. hs \in Int /\ 0 \in Int
    BY <1>3
  <2>2. \A i \in 0 .. n - 1 : m[i] \in Int
    BY <1>1, <2>1, <1>4, Zenon
  <2>3. \A i \in 0 .. n - 1 : t[i] \in Int
    BY <1>1, <2>1, <1>4, Zenon
  <2>4. \A i \in 0 .. n - 1 : x[i] \in Int
    BY <1>1, <2>1, <1>4, Zenon
  <2> QED BY <2>2, <2>3, <2>4
<1>6. HeaderWords = [i \in 1 .. hs |-> e(i)]
  BY DEF HeaderWords
<1> HIDE DEF m, t, x, n, hs, ft
<1>7. \A i \in 1 .. hs : e(i) \in Int
  <2> SUFFICES ASSUME NEW i \in 1 .. hs PROVE e(i) \in Int
    OBVIOUS
  <2>1. CASE i < ft
    BY <1>1, <1>2, <1>3, <2>1
  <2>2. CASE i >= ft /\ i < ft + n
    <3>1. i - ft \in 0 .. n - 1 /\ i # 1 /\ i # 2 /\ ~(i < ft)
      BY <1>2, <2>2
    <3> QED BY <1>5, <2>2, <3>1
  <2>3. CASE i >= ft + n /\ i < ft + 2 * n
    <3>1. i - ft - n \in 0 .. n - 1 /\ i # 1 /\ i # 2 /\ ~(i < ft) /\ ~(i < ft + n)
      BY <1>2, <2>3
    <3> QED BY <1>5, <2>3, <3>1
  <2>4. CASE i >= ft + 2 * n
    <3>1. /\ i - ft - 2 * n \in 0 .. n - 1 /\ i # 1 /\ i # 2 /\ ~(i < ft)
          /\ ~(i < ft + n) /\ ~(i < ft + 2 * n)
      BY <1>2, <1>3, <2>4
    <3> QED BY <1>5, <2>4, <3>1
  <2> QED BY <1>2, <1>3, <2>1, <2>2, <2>3, <2>4
<1>8. HeaderWords \in Seq(Int) /\ Len(HeaderWords) = hs
  <2> HIDE DEF e
  <2> QED BY <1>3, <1>6, <1>7, IsASeq
<1>9. HeaderWords[1] = total /\ HeaderWords[2] = psize
  BY <1>3, <1>6
<1>10. ASSUME ~legacy PROVE HeaderWords[3] = np
  BY <1>2, <1>3, <1>6, <1>10
<1>11. QED
  BY <1>3, <1>8, <1>9, <1>10 DEF hs

LEMMA CloseWriteTyped ==
  ASSUME TypeInv, CloseWrite
  PROVE  TypeInv'
<1>1. mode = "w" /\ mode' = "closed" /\ FreshStore
  BY DEF CloseWrite
<1>2. /\ header' \in Seq(Int) /\ Len(header') >= 2
      /\ header'[1] \in Nat /\ header'[2] \in Nat
      /\ ~legacy' => Len(header') >= 3 /\ header'[3] \in Nat
  <2>1. /\ HeaderWords \in Seq(Int) /\ Len(HeaderWords) = HeaderSize(np)
        /\ HeaderSize(np) \in Nat /\ HeaderSize(np) >= 2
        /\ HeaderWords[1] = total /\ HeaderWords[2] = psize
        /\ ~legacy => HeaderSize(np) >= 3 /\ HeaderWords[3] = np
    BY <1>1, HeaderWordsType
  <2>2. total \in Nat /\ psize \in Nat /\ np \in Nat
    BY DEF TypeInv, TypeOK, HandleType
  <2>3. header' = HeaderWords /\ legacy' = legacy
    BY DEF CloseWrite
  <2> QED BY <2>1, <2>2, <2>3, Zenon
<1>3. DiskType' /\ CellsInv'
  <2>1. <<>> \in Seq(Cell) /\ <<>> \in Seq(KnownCell)
    BY EmptySeq
  <2>2. DiskType'
    BY <1>2, <2>1 DEF CloseWrite, TypeInv, TypeOK, DiskType
  <2>3. CellsInv'
    BY <2>1 DEF CloseWrite, TypeInv, CellsInv, KnownCell
  <2> QED BY <2>2, <2>3
<1>4. HandleType'
  <2>1. style' \subseteq Habits
    BY DEF CloseWrite, TypeInv, TypeOK, HandleType
  <2> QED BY <1>1, <2>1, FreshIsTyped DEF HandleType
<1>5. TableType' /\ PositionType' /\ PartitionStoreType'
  BY <1>1, FreshIsTyped
<1>6. ResultType'
  <2>1. got' = Result("Close", "None")
    BY DEF CloseWrite
  <2> QED BY <2>1, ResultIsResult DEF ResultType, CallNames, Calls
<1>7. HeaderInv'
  BY <1>2 DEF HeaderInv
<1>8. LockInv' /\ WriterInv'
  BY <1>1, FreshIsTyped DEF LockInv, WriterInv
<1>9. QED
  BY <1>3, <1>4, <1>5, <1>6, <1>7, <1>8 DEF TypeInv, TypeOK
-------------------------------------------------------------------------------
(* TypeInv is preserved by every action of a reader.                       *)

\* An action that leaves the files alone keeps what is known of them.
LEMMA DiskStays ==
  ASSUME TypeInv, UNCHANGED <<disk, written, legacy>>
  PROVE  DiskType' /\ CellsInv' /\ HeaderInv'
BY DEF TypeInv, TypeOK, DiskType, CellsInv, KnownCell, HeaderInv, disk

\* A handle that is freed leaves nothing behind.
LEMMA FreedTyped ==
  ASSUME TypeInv, FreshStore, UNCHANGED <<disk, written, legacy>>, ResultType',
         mode' \in {"closed", "r"}, style' \subseteq Habits,
         mode' = "r" => header # <<>>
  PROVE  TypeInv'
<1>1. DiskType' /\ CellsInv' /\ HeaderInv'
  BY DiskStays
<1>2. HandleType' /\ TableType' /\ PositionType' /\ PartitionStoreType'
  BY FreshIsTyped DEF HandleType
<1>3. LockInv' /\ WriterInv'
  <2>1. header' = header
    BY DEF disk
  <2> QED BY <2>1, FreshIsTyped DEF LockInv, WriterInv
<1>4. QED BY <1>1, <1>2, <1>3 DEF TypeInv, TypeOK

LEMMA OpenReadTyped == TypeInv /\ OpenRead => TypeInv'
<1> SUFFICES ASSUME TypeInv, OpenRead PROVE TypeInv'
  OBVIOUS
<1>1. ResultType'
  <2>1. got' = Result("Open", "None")
    BY DEF OpenRead
  <2> QED BY <2>1, ResultIsResult DEF ResultType, CallNames
<1>2. style' \subseteq Habits
  BY StoreAssumption DEF OpenRead
<1>3. QED BY <1>1, <1>2, FreedTyped DEF OpenRead

LEMMA ProcessDiesTyped == TypeInv /\ ProcessDies => TypeInv'
<1> SUFFICES ASSUME TypeInv, ProcessDies PROVE TypeInv'
  OBVIOUS
<1>1. ResultType'
  <2>1. got' = Result("Load", "SIGFPE")
    BY DEF ProcessDies
  <2> QED BY <2>1, ResultIsResult DEF ResultType, CallNames
<1>2. QED BY <1>1, FreedTyped DEF ProcessDies

LEMMA CloseReadTyped == TypeInv /\ CloseRead => TypeInv'
<1> SUFFICES ASSUME TypeInv, CloseRead PROVE TypeInv'
  OBVIOUS
<1>1. ResultType'
  <2>1. got' = Result("Close", "None")
    BY DEF CloseRead
  <2> QED BY <2>1, ResultIsResult DEF ResultType, CallNames, Calls
<1>2. QED BY <1>1, FreedTyped DEF CloseRead

\* A call that only asks leaves the store as it was, but loaded.
LEMMA AskedTyped ==
  ASSUME TypeInv, CanLoad, EnsureLoaded, mpos' = MetaPos, ResultType',
         UNCHANGED <<disk, written, legacy, style, mode, cur, excl, writeState,
                     dpos, ipos, cpos, ps>>
  PROVE  TypeInv'
<1>1. /\ MetaPos \in Int /\ TableType' /\ loaded' = TRUE
      /\ np' \in Nat /\ psize' \in Nat /\ total' \in Nat
  BY LoadedIsTyped DEF CanLoad
<1>2. DiskType' /\ CellsInv' /\ HeaderInv'
  BY DiskStays
<1>3. HandleType'
  BY <1>1 DEF TypeInv, TypeOK, HandleType, writeState
<1>4. PositionType' /\ PartitionStoreType'
  BY <1>1 DEF TypeInv, TypeOK, PositionType, PartitionStoreType
<1>5. LockInv' /\ WriterInv'
  BY <1>1 DEF CanLoad, TypeInv, LockInv, WriterInv, disk
<1>6. QED BY <1>1, <1>2, <1>3, <1>4, <1>5 DEF TypeInv, TypeOK

\* Setting the payload of a result.
LEMMA AnswerFields ==
  ASSUME NEW r \in Answers, NEW n \in Nat,
         NEW m \in Seq(Cell), NEW d \in Seq(Cell), NEW x \in Seq(Cell)
  PROVE  /\ [r EXCEPT !.num = n] \in Answers
         /\ [r EXCEPT !.num = n, !.meta = m] \in Answers
         /\ [r EXCEPT !.num = n, !.meta = m, !.data = d, !.index = x] \in Answers
BY DEF Answers

LEMMA GetGlobalMetadataTyped == TypeInv /\ GetGlobalMetadata => TypeInv'
<1> SUFFICES ASSUME TypeInv, GetGlobalMetadata PROVE TypeInv'
  OBVIOUS
<1>1. ResultType'
  <2>1. Count \in Nat
    BY LoadedIsTyped DEF GetGlobalMetadata, CanLoad
  <2>2. Result("GetGlobalMetadata", "None") \in Answers
    BY ResultIsResult DEF CallNames, Calls
  <2>3. got' = [Result("GetGlobalMetadata", "None") EXCEPT !.num = Count]
    BY DEF GetGlobalMetadata
  <2>4. <<>> \in Seq(Cell)
    BY EmptySeq
  <2>5. got' \in Answers
    BY <2>1, <2>2, <2>3, <2>4, AnswerFields
  <2> QED BY <2>5 DEF ResultType
<1>2. QED BY <1>1, AskedTyped DEF GetGlobalMetadata

LEMMA StoreEOFTyped == TypeInv /\ StoreEOF => TypeInv'
<1> SUFFICES ASSUME TypeInv, StoreEOF PROVE TypeInv'
  OBVIOUS
<1>1. ResultType'
  <2>1. (IF AtEnd THEN 1 ELSE 0) \in Nat
    OBVIOUS
  <2>2. Result("EOF", "None") \in Answers
    BY ResultIsResult DEF CallNames
  <2>3. got' = [Result("EOF", "None") EXCEPT !.num = IF AtEnd THEN 1 ELSE 0]
    BY DEF StoreEOF
  <2>4. <<>> \in Seq(Cell)
    BY EmptySeq
  <2>5. got' \in Answers
    BY <2>1, <2>2, <2>3, <2>4, AnswerFields, Zenon
  <2> QED BY <2>5 DEF ResultType
<1>2. QED BY <1>1, AskedTyped DEF StoreEOF

\* What is read of the metadata file are cells of written partitions.
LEMMA MetaReadType ==
  ASSUME TypeInv, NEW from \in Int, NEW n \in Int
  PROVE  /\ FReadMeta(from, n) \in Seq(KnownCell)
         /\ FReadMeta(from, n) \in Seq(Cell)
         /\ Len(FReadMeta(from, n)) \in Nat
         /\ \/ Deserialize(FReadMeta(from, n)) = Garbage
            \/ Deserialize(FReadMeta(from, n)) \in 0 .. Len(written) - 1
<1>1. /\ metaFile \in Seq(KnownCell) /\ metaFile \in Seq(Cell)
      /\ header \in Seq(Int)
  BY DEF TypeInv, TypeOK, DiskType, CellsInv
<1>2. Len(header) \in Nat
  BY <1>1, LenProperties
<1>3. from - Len(header) \in Int
  BY <1>2
<1>4. /\ FReadMeta(from, n) \in Seq(KnownCell) /\ FReadMeta(from, n) \in Seq(Cell)
      /\ Len(FReadMeta(from, n)) \in Nat
  BY <1>1, <1>3, FReadType DEF FReadMeta
<1>5. QED BY <1>4, DeserializeType

\* The length of a partition's metadata is a number, however it is come by.
LEMMA MetaLengthType ==
  ASSUME TypeInv, NEW c \in Nat, NEW n \in Int, MetaTable \in [0 .. n - 1 -> Int]
  PROVE  MetaLength(c) \in Int
<1>1. Len(metaFile) \in Nat
  BY LenProperties DEF TypeInv, TypeOK, DiskType
<1>2. At(MetaTable, c + 1) \in Int /\ At(MetaTable, c) \in Int
  BY AtType
<1>3. QED BY <1>1, <1>2 DEF MetaLength

\* A partition known by its number is one of Parts.
LEMMA WrittenPart ==
  ASSUME TypeInv, NEW q \in 0 .. Len(written) - 1
  PROVE  written[q + 1] \in Parts
<1>1. written \in Seq(Parts) /\ Len(written) \in Nat
  BY LenProperties DEF TypeInv, TypeOK, DiskType
<1>2. q + 1 \in 1 .. Len(written)
  BY <1>1
<1>3. QED BY <1>1, <1>2, ElementOfSeq

LEMMA ReadPartitionTyped == TypeInv /\ ReadPartition => TypeInv'
<1> SUFFICES ASSUME TypeInv, ReadPartition PROVE TypeInv'
  OBVIOUS
<1> DEFINE meta == FReadMeta(MetaPos, MetaLength(cur))
           q == Deserialize(meta)
           data == FRead(dataFile, dpos, DataSize(written[q + 1]))
           index == FRead(indexFile, ipos, IndexSize(written[q + 1]))
<1>1. mode = "r" /\ ~excl /\ ~DividesByZero /\ EnsureLoaded
  BY DEF ReadPartition, CanAdvance
<1>2. /\ MetaPos \in Int /\ TableType' /\ loaded' = TRUE
      /\ np' \in Nat /\ psize' \in Nat /\ total' \in Nat
  BY <1>1, LoadedIsTyped
<1>3. cur \in Nat /\ dpos \in Int /\ ipos \in Int /\ cpos \in Int
  BY DEF TypeInv, TypeOK, HandleType, PositionType
<1>4. MetaLength(cur) \in Int
  <2>1. MetaTable = moff'
    BY <1>1 DEF EnsureLoaded
  <2>2. capacity' \in Int
    BY <1>2 DEF TableType
  <2>3. MetaTable \in [0 .. capacity' - 1 -> Int]
    BY <1>2, <2>1, Zenon DEF TableType
  <2> QED BY <1>3, <2>2, <2>3, MetaLengthType
<1>5. /\ meta \in Seq(Cell) /\ Len(meta) \in Nat
      /\ q = Garbage \/ q \in 0 .. Len(written) - 1
  BY <1>2, <1>4, MetaReadType
<1>6. Result("ReadPartition", "None") \in Answers
  BY ResultIsResult DEF CallNames, Calls
<1>7. /\ cur' = cur + 1 /\ cpos' = cpos /\ ps' = ps
      /\ UNCHANGED <<disk, written, legacy, style, mode, excl, writeState>>
  BY DEF ReadPartition
<1>8. ResultType' /\ mpos' \in Int /\ dpos' \in Int /\ ipos' \in Int
  <2>1. CASE q = Garbage
    <3>1. /\ got' = [Result("ReadPartition", "None") EXCEPT !.num = cur]
          /\ mpos' = Undef /\ dpos' = Undef /\ ipos' = Undef
      BY <2>1 DEF ReadPartition
    <3>2. got' \in Answers
      BY <1>3, <1>6, <3>1, EmptySeq, AnswerFields
    <3> QED BY <3>1, <3>2 DEF ResultType, Undef
  <2>2. CASE q # Garbage
    <3>1. written[q + 1] \in Parts
      BY <1>5, <2>2, WrittenPart
    <3>2. DataSize(written[q + 1]) \in Int /\ IndexSize(written[q + 1]) \in Int
      BY <3>1, PartitionSizes
    <3>3. dataFile \in Seq(Cell) /\ indexFile \in Seq(Cell)
      BY DEF TypeInv, TypeOK, DiskType
    <3>4. data \in Seq(Cell) /\ Len(data) \in Nat
      BY <1>3, <3>2, <3>3, FReadType
    <3>5. index \in Seq(Cell) /\ Len(index) \in Nat
      BY <1>3, <3>2, <3>3, FReadType
    <3>6. /\ got' = [Result("ReadPartition", "None") EXCEPT
                       !.num = cur, !.meta = meta, !.data = data, !.index = index]
          /\ mpos' = MetaPos + Len(meta) /\ dpos' = dpos + Len(data)
          /\ ipos' = ipos + Len(index)
      BY <2>2 DEF ReadPartition
    <3> HIDE DEF meta, q, data, index
    <3>7. got' \in Answers
      BY <1>3, <1>5, <1>6, <3>4, <3>5, <3>6, AnswerFields
    <3> QED BY <1>2, <1>3, <1>5, <3>4, <3>5, <3>6, <3>7 DEF ResultType
  <2> QED BY <2>1, <2>2
<1>9. DiskType' /\ CellsInv' /\ HeaderInv'
  BY <1>7, DiskStays
<1>10. HandleType'
  BY <1>2, <1>3, <1>7 DEF TypeInv, TypeOK, HandleType, writeState
<1>11. PositionType' /\ PartitionStoreType'
  BY <1>3, <1>7, <1>8 DEF TypeInv, TypeOK, PositionType, PartitionStoreType
<1>12. LockInv' /\ WriterInv'
  BY <1>1, <1>2, <1>7 DEF TypeInv, LockInv, WriterInv, disk
<1>13. QED BY <1>2, <1>8, <1>9, <1>10, <1>11, <1>12 DEF TypeInv, TypeOK

LEMMA OpenPartitionTyped == TypeInv /\ OpenPartition => TypeInv'
<1> SUFFICES ASSUME TypeInv, OpenPartition PROVE TypeInv'
  OBVIOUS
<1>1. mode = "r" /\ ~excl /\ ~DividesByZero /\ EnsureLoaded
  BY DEF OpenPartition, CanAdvance
<1>2. /\ MetaPos \in Int /\ TableType' /\ loaded' = TRUE
      /\ np' \in Nat /\ psize' \in Nat /\ total' \in Nat
  BY <1>1, LoadedIsTyped
<1>3. cur \in Nat
  BY DEF TypeInv, TypeOK, HandleType
<1>4. /\ At(MetaTable, cur) \in Int /\ At(DataTable, cur) \in Int
      /\ At(IndexTable, cur) \in Int
  <2>1. MetaTable = moff' /\ DataTable = doff' /\ IndexTable = ioff'
    BY <1>1 DEF EnsureLoaded
  <2>2. capacity' \in Int
    BY <1>2 DEF TableType
  <2>3. /\ moff' \in [0 .. capacity' - 1 -> Int]
        /\ doff' \in [0 .. capacity' - 1 -> Int] /\ ioff' \in [0 .. capacity' - 1 -> Int]
    BY <1>2, Zenon DEF TableType
  <2>4. At(moff', cur) \in Int
    BY <2>2, <2>3, AtType
  <2>5. At(doff', cur) \in Int
    BY <2>2, <2>3, AtType
  <2>6. At(ioff', cur) \in Int
    BY <2>2, <2>3, AtType
  <2> QED BY <2>1, <2>4, <2>5, <2>6
<1>5. /\ cur' = cur + 1 /\ excl' = TRUE /\ mpos' = MetaPos
      /\ ps' = [open |-> TRUE, num |-> cur, moff |-> At(MetaTable, cur),
                doff |-> At(DataTable, cur), ioff |-> At(IndexTable, cur),
                fresh |-> TRUE, iChanged |-> FALSE, cChanged |-> FALSE,
                meta |-> Garbage]
      /\ got' = [Result("OpenPartition", "None") EXCEPT !.num = cur]
      /\ UNCHANGED <<disk, written, legacy, style, mode, writeState, dpos, ipos, cpos>>
  BY DEF OpenPartition
<1>6. ResultType'
  <2>1. Result("OpenPartition", "None") \in Answers
    BY ResultIsResult DEF CallNames, Calls
  <2>2. got' \in Answers
    BY <1>3, <1>5, <2>1, EmptySeq, AnswerFields
  <2> QED BY <2>2 DEF ResultType
<1>7. DiskType' /\ CellsInv' /\ HeaderInv'
  BY <1>5, DiskStays
<1>8. HandleType'
  BY <1>2, <1>3, <1>5 DEF TypeInv, TypeOK, HandleType, writeState
<1>9. PositionType'
  BY <1>2, <1>5 DEF TypeInv, TypeOK, PositionType
<1>10. PartitionStoreType'
  BY <1>3, <1>4, <1>5 DEF PartitionStoreType, Garbage
<1>11. LockInv' /\ WriterInv'
  <2>1. ps'.open = TRUE /\ ps'.meta = Garbage
    BY <1>5
  <2> QED BY <1>1, <1>2, <1>5, <2>1 DEF TypeInv, LockInv, WriterInv, disk
<1>12. QED BY <1>2, <1>6, <1>7, <1>8, <1>9, <1>10, <1>11 DEF TypeInv, TypeOK

\* A call on the open partition store, or one that is refused, leaves the
\* files, the store and its table as they were.
LEMMA StoreStays ==
  ASSUME TypeInv, UNCHANGED <<disk, written, legacy, style, mode, cur, loaded, excl,
                              gmeta, table, writeState>>
  PROVE  /\ DiskType' /\ HandleType' /\ TableType'
         /\ CellsInv' /\ HeaderInv' /\ WriterInv'
<1>1. DiskType' /\ CellsInv' /\ HeaderInv'
  BY DiskStays
<1>2. HandleType'
  BY DEF TypeInv, TypeOK, HandleType, gmeta, writeState
<1>3. TableType'
  BY Zenon DEF TypeInv, TypeOK, TableType, table
<1>4. WriterInv'
  BY DEF TypeInv, WriterInv, gmeta, table
<1>5. QED BY <1>1, <1>2, <1>3, <1>4

\* The bins of an open partition and what is known of it.
LEMMA BinRangeTyped ==
  ASSUME TypeInv, NEW lo \in BinIds, NEW hi \in BinIds, BinRange(lo, hi)
  PROVE  LET d == written[ps.meta + 1]
         IN  /\ excl /\ ps.num \in Nat /\ ps.doff \in Int /\ ps.ioff \in Int
             /\ DataBinOffset(d, lo) \in Nat /\ DataBinOffset(d, hi) \in Nat
             /\ IndexBinOffset(d, lo) \in Nat /\ IndexBinOffset(d, hi) \in Nat
<1> DEFINE d == written[ps.meta + 1]
<1>1. ps.open /\ ps.meta # Garbage /\ lo <= hi /\ hi <= d.numBins
  BY DEF BinRange
<1>2. ps.num \in Nat /\ ps.doff \in Int /\ ps.ioff \in Int
  BY DEF TypeInv, TypeOK, PartitionStoreType
<1>3. excl /\ ps.meta \in 0 .. Len(written) - 1
  BY <1>1 DEF TypeInv, LockInv
<1>4. d \in Parts
  BY <1>3, WrittenPart
<1> HIDE DEF d
<1>5. lo \in Nat /\ hi \in Nat
  <2>1. \A e \in Parts : e.numBins \in Nat
    BY StoreAssumption DEF IsPartition
  <2>2. BinIds \subseteq Nat
    BY <2>1 DEF BinIds
  <2> QED BY <2>2
<1>6. IsPartition(d)
  BY <1>4, StoreAssumption
<1>7. /\ d.numBins \in Nat /\ d.dataStart \in Seq(Nat) /\ d.indexStart \in Seq(Nat)
      /\ Len(d.dataStart) = d.numBins + 1 /\ Len(d.indexStart) = d.numBins + 1
  BY <1>6 DEF IsPartition
<1>8. lo + 1 \in 1 .. d.numBins + 1 /\ hi + 1 \in 1 .. d.numBins + 1
  BY <1>1, <1>5, <1>7
<1>9. /\ d.dataStart[lo + 1] \in Nat /\ d.dataStart[hi + 1] \in Nat
      /\ d.indexStart[lo + 1] \in Nat /\ d.indexStart[hi + 1] \in Nat
  BY <1>7, <1>8, ElementOfSeq
<1>10. /\ DataBinOffset(d, lo) \in Nat /\ DataBinOffset(d, hi) \in Nat
       /\ IndexBinOffset(d, lo) \in Nat /\ IndexBinOffset(d, hi) \in Nat
  BY <1>9 DEF DataBinOffset, IndexBinOffset
<1>11. QED BY <1>2, <1>3, <1>10 DEF d

LEMMA ReadMetadataTyped == TypeInv /\ ReadMetadata => TypeInv'
<1> SUFFICES ASSUME TypeInv, ReadMetadata PROVE TypeInv'
  OBVIOUS
<1> DEFINE from == IF ps.fresh THEN mpos ELSE ps.moff
           meta == FReadMeta(from, MetaLength(ps.num))
<1>1. /\ ps.open
      /\ mpos' = from + Len(meta)
      /\ ps' = [ps EXCEPT !.fresh = FALSE, !.meta = Deserialize(meta)]
      /\ got' = [Result("ReadMetadata", "None") EXCEPT !.num = ps.num, !.meta = meta]
      /\ UNCHANGED <<disk, written, legacy, style, mode, cur, loaded, excl, gmeta, table,
                     writeState, dpos, ipos, cpos>>
  BY DEF ReadMetadata
<1>2. /\ ps.num \in Nat /\ ps.moff \in Int /\ mpos \in Int
      /\ dpos \in Int /\ ipos \in Int /\ cpos \in Int
  BY DEF TypeInv, TypeOK, PartitionStoreType, PositionType
<1>3. excl /\ loaded
  BY <1>1 DEF TypeInv, LockInv
<1>4. MetaLength(ps.num) \in Int
  <2>1. capacity \in Int /\ MetaTable \in [0 .. capacity - 1 -> Int]
    BY <1>3 DEF TypeInv, TypeOK, TableType, MetaTable
  <2> QED BY <1>2, <2>1, MetaLengthType
<1>5. /\ meta \in Seq(Cell) /\ Len(meta) \in Nat
      /\ Deserialize(meta) = Garbage \/ Deserialize(meta) \in 0 .. Len(written) - 1
  <2>1. from \in Int
    BY <1>2
  <2> QED BY <2>1, <1>4, MetaReadType
<1>6. ResultType'
  <2>1. Result("ReadMetadata", "None") \in Answers
    BY ResultIsResult DEF CallNames
  <2>2. got' \in Answers
    BY <1>1, <1>2, <1>5, <2>1, AnswerFields
  <2> QED BY <2>2 DEF ResultType
<1>7. PositionType'
  <2>1. from \in Int
    BY <1>2
  <2> HIDE DEF from, meta
  <2> QED BY <1>1, <1>2, <1>5, <2>1 DEF PositionType
<1>8. PartitionStoreType'
  <2>1. Deserialize(meta) \in Int
    BY <1>5 DEF Garbage
  <2> HIDE DEF meta
  <2> QED BY <1>1, <2>1 DEF TypeInv, TypeOK, PartitionStoreType
<1>9. LockInv'
  <2>1. ps'.open = ps.open /\ ps'.meta = Deserialize(meta)
    BY <1>1 DEF TypeInv, TypeOK, PartitionStoreType
  <2> HIDE DEF meta
  <2> QED BY <1>1, <1>5, <2>1 DEF TypeInv, LockInv, disk
<1>10. QED BY <1>1, <1>6, <1>7, <1>8, <1>9, StoreStays DEF TypeInv, TypeOK

LEMMA ReadDataBinsTyped ==
  ASSUME TypeInv, NEW lo \in BinIds, NEW hi \in BinIds, ReadDataBins(lo, hi)
  PROVE  TypeInv'
<1> DEFINE d == written[ps.meta + 1]
           from == ps.doff + DataBinOffset(d, lo)
           data == FRead(dataFile, from, DataBinOffset(d, hi) - DataBinOffset(d, lo))
<1>1. /\ BinRange(lo, hi) /\ dpos' = from + Len(data)
      /\ got' = [Result("ReadDataBins", "None") EXCEPT
                   !.num = ps.num, !.lo = lo, !.hi = hi, !.data = data]
      /\ UNCHANGED <<disk, written, legacy, style, mode, cur, loaded, excl, gmeta, table,
                     writeState, mpos, ipos, cpos, ps>>
  BY DEF ReadDataBins
<1>2. /\ ps.num \in Nat /\ ps.doff \in Int
      /\ DataBinOffset(d, lo) \in Nat /\ DataBinOffset(d, hi) \in Nat
  BY <1>1, BinRangeTyped
<1>3. from \in Int /\ data \in Seq(Cell) /\ Len(data) \in Nat
  <2>1. from \in Int /\ DataBinOffset(d, hi) - DataBinOffset(d, lo) \in Int
    BY <1>2
  <2>2. dataFile \in Seq(Cell)
    BY DEF TypeInv, TypeOK, DiskType
  <2> QED BY <2>1, <2>2, FReadType
<1> HIDE DEF from, data
<1>4. ResultType'
  <2>1. Result("ReadDataBins", "None") \in Answers
    BY ResultIsResult DEF CallNames
  <2>2. got' \in Answers
    BY <1>1, <1>2, <1>3, <2>1 DEF Answers
  <2> QED BY <2>2 DEF ResultType
<1>5. PositionType'
  BY <1>1, <1>3 DEF TypeInv, TypeOK, PositionType
<1>6. PartitionStoreType' /\ LockInv'
  BY <1>1 DEF TypeInv, TypeOK, PartitionStoreType, LockInv, disk
<1>7. QED BY <1>1, <1>4, <1>5, <1>6, StoreStays DEF TypeInv, TypeOK

LEMMA ReadIndexBinsTyped ==
  ASSUME TypeInv, NEW lo \in BinIds, NEW hi \in BinIds, ReadIndexBins(lo, hi)
  PROVE  TypeInv'
<1> DEFINE d == written[ps.meta + 1]
           from == ps.ioff + IndexBinOffset(d, lo)
           index == FRead(indexFile, from, IndexBinOffset(d, hi) - IndexBinOffset(d, lo))
<1>1. /\ BinRange(lo, hi) /\ ipos' = from + Len(index)
      /\ ps' = [ps EXCEPT !.iChanged = TRUE]
      /\ got' = [Result("ReadIndexBins", "None") EXCEPT
                   !.num = ps.num, !.lo = lo, !.hi = hi, !.index = index]
      /\ UNCHANGED <<disk, written, legacy, style, mode, cur, loaded, excl, gmeta, table,
                     writeState, mpos, dpos, cpos>>
  BY DEF ReadIndexBins
<1>2. /\ ps.num \in Nat /\ ps.ioff \in Int
      /\ IndexBinOffset(d, lo) \in Nat /\ IndexBinOffset(d, hi) \in Nat
  BY <1>1, BinRangeTyped
<1>3. from \in Int /\ index \in Seq(Cell) /\ Len(index) \in Nat
  <2>1. from \in Int /\ IndexBinOffset(d, hi) - IndexBinOffset(d, lo) \in Int
    BY <1>2
  <2>2. indexFile \in Seq(Cell)
    BY DEF TypeInv, TypeOK, DiskType
  <2> QED BY <2>1, <2>2, FReadType
<1> HIDE DEF from, index
<1>4. ResultType'
  <2>1. Result("ReadIndexBins", "None") \in Answers
    BY ResultIsResult DEF CallNames
  <2>2. got' \in Answers
    BY <1>1, <1>2, <1>3, <2>1 DEF Answers
  <2> QED BY <2>2 DEF ResultType
<1>5. PositionType'
  BY <1>1, <1>3 DEF TypeInv, TypeOK, PositionType
<1>6. PartitionStoreType'
  BY <1>1 DEF TypeInv, TypeOK, PartitionStoreType
<1>7. LockInv'
  <2>1. ps'.open = ps.open /\ ps'.meta = ps.meta
    BY <1>1 DEF TypeInv, TypeOK, PartitionStoreType
  <2> QED BY <1>1, <2>1 DEF TypeInv, LockInv, disk
<1>8. QED BY <1>1, <1>4, <1>5, <1>6, <1>7, StoreStays DEF TypeInv, TypeOK

LEMMA ClosePartitionTyped == TypeInv /\ ClosePartition => TypeInv'
<1> SUFFICES ASSUME TypeInv, ClosePartition PROVE TypeInv'
  OBVIOUS
<1>1. /\ ps.open /\ mpos' = At(moff, cur) /\ dpos' = At(doff, cur)
      /\ ipos' = (IF ps.cChanged THEN At(ioff, cur) ELSE ipos)
      /\ cpos' = (IF ps.iChanged THEN At(ioff, cur) ELSE cpos)
      /\ ps' = NoPartitionStore /\ excl' = FALSE /\ got' = Result("ClosePartition", "None")
      /\ UNCHANGED <<disk, written, legacy, style, mode, cur, loaded, gmeta, table,
                     writeState>>
  BY DEF ClosePartition
<1>2. DiskType' /\ CellsInv' /\ HeaderInv'
  BY <1>1, DiskStays
<1>3. HandleType'
  BY <1>1 DEF TypeInv, TypeOK, HandleType, gmeta, writeState
<1>4. TableType'
  BY <1>1, Zenon DEF TypeInv, TypeOK, TableType, table
<1>5. PositionType'
  <2>1. At(moff, cur) \in Int /\ At(doff, cur) \in Int /\ At(ioff, cur) \in Int
    BY AtType DEF TypeInv, TypeOK, TableType
  <2> QED BY <1>1, <2>1 DEF TypeInv, TypeOK, PositionType
<1>6. PartitionStoreType' /\ LockInv'
  <2>1. PartitionStoreType'
    BY <1>1 DEF PartitionStoreType, NoPartitionStore, Garbage
  <2>2. ps'.open = FALSE /\ ps'.meta = Garbage
    BY <1>1 DEF NoPartitionStore
  <2> QED BY <1>1, <2>1, <2>2 DEF TypeInv, LockInv, disk
<1>7. ResultType'
  BY <1>1, ResultIsResult DEF ResultType, CallNames
<1>8. WriterInv'
  BY <1>1 DEF TypeInv, WriterInv, gmeta, table
<1>9. QED BY <1>2, <1>3, <1>4, <1>5, <1>6, <1>7, <1>8 DEF TypeInv, TypeOK

\* A call that only answers keeps the types.
LEMMA AnsweredTyped ==
  ASSUME TypeInv,
         NEW call \in CallNames, NEW err \in {"None", "Something"},
         got' = Result(call, err),
         UNCHANGED <<disk, written, legacy, style, mode, cur, loaded, excl, gmeta, table,
                     writeState, positions, ps>>
  PROVE  TypeInv'
<1>1. /\ got' = Result(call, err)
      /\ UNCHANGED <<disk, written, legacy, style, mode, cur, loaded, excl, gmeta, table,
                     writeState, positions, ps>>
  OBVIOUS
<1>2. ResultType'
  BY <1>1, ResultIsResult DEF ResultType
<1>3. PositionType' /\ PartitionStoreType' /\ LockInv'
  BY <1>1 DEF TypeInv, TypeOK, PositionType, PartitionStoreType, LockInv, positions, disk
<1>4. QED BY <1>1, <1>2, <1>3, StoreStays DEF TypeInv, TypeOK

LEMMA RefuseTyped ==
  ASSUME TypeInv, NEW call \in Calls, Refuse(call)
  PROVE  TypeInv'
<1>1. call \in CallNames
  BY DEF CallNames
<1> QED BY <1>1, AnsweredTyped DEF Refuse

LEMMA WriterEOFTyped == ASSUME TypeInv, WriterEOF PROVE TypeInv'
<1>1. "EOF" \in CallNames
  BY DEF CallNames
<1> QED BY <1>1, AnsweredTyped DEF WriterEOF

LEMMA StutterTyped == TypeInv /\ UNCHANGED vars => TypeInv'
<1> SUFFICES ASSUME TypeInv, UNCHANGED vars PROVE TypeInv'
  OBVIOUS
<1>1. UNCHANGED <<disk, written, legacy, style, mode, cur, loaded, excl, gmeta, table,
                  writeState, positions, ps, got>>
  BY DEF vars
<1>2. ResultType'
  BY <1>1 DEF TypeInv, TypeOK, ResultType
<1>3. PositionType' /\ PartitionStoreType' /\ LockInv'
  BY <1>1 DEF TypeInv, TypeOK, PositionType, PartitionStoreType, LockInv, positions, disk
<1>4. QED BY <1>1, <1>2, <1>3, StoreStays DEF TypeInv, TypeOK

\* Every step keeps the types.
LEMMA TypeInvStep == TypeInv /\ [Next]_vars => TypeInv'
<1> SUFFICES ASSUME TypeInv, [Next]_vars PROVE TypeInv'
  OBVIOUS
<1>1. CASE OpenWrite
  BY <1>1, OpenWriteTyped
<1>2. CASE \E d \in Parts : WritePartition(d)
  BY <1>2, WritePartitionTyped
<1>3. CASE \E d \in Parts : RejectLength(d)
  BY <1>3, RejectLengthTyped
<1>4. CASE CloseWrite
  BY <1>4, CloseWriteTyped
<1>5. CASE OpenRead \/ CloseRead \/ ProcessDies
  BY <1>5, OpenReadTyped, CloseReadTyped, ProcessDiesTyped
<1>6. CASE GetGlobalMetadata \/ StoreEOF
  BY <1>6, GetGlobalMetadataTyped, StoreEOFTyped
<1>7. CASE ReadPartition
  BY <1>7, ReadPartitionTyped
<1>8. CASE OpenPartition
  BY <1>8, OpenPartitionTyped
<1>9. CASE ReadMetadata
  BY <1>9, ReadMetadataTyped
<1>10. CASE \E lo, hi \in BinIds : ReadDataBins(lo, hi)
  BY <1>10, ReadDataBinsTyped
<1>11. CASE \E lo, hi \in BinIds : ReadIndexBins(lo, hi)
  BY <1>11, ReadIndexBinsTyped
<1>12. CASE ClosePartition
  BY <1>12, ClosePartitionTyped
<1>13. CASE WriterEOF \/ \E call \in Calls : Refuse(call)
  BY <1>13, RefuseTyped, WriterEOFTyped
<1>14. CASE UNCHANGED vars
  BY <1>14, StutterTyped
<1>15. QED
  BY <1>1, <1>2, <1>3, <1>4, <1>5, <1>6, <1>7, <1>8, <1>9, <1>10, <1>11, <1>12,
     <1>13, <1>14 DEF Next

(* Whatever sequence of calls is made on a store, of whatever partitions,  *)
(* no variable leaves its type: offsets and file positions stay numbers,   *)
(* and no call works on metadata that no written partition has.            *)
THEOREM TypeCorrect == Spec => []TypeOK
<1>1. Init => TypeInv
  BY InitTyped
<1>2. TypeInv /\ [Next]_vars => TypeInv'
  BY TypeInvStep
<1>3. TypeInv => TypeOK
  BY DEF TypeInv
<1>4. QED BY <1>1, <1>2, <1>3, PTL DEF Spec

-------------------------------------------------------------------------------
(* The offset tables of an ALStore locate every partition, from the first  *)
(* write to the reader's copy of them: WriterLayout, SealedLayout and      *)
(* LoadedLayout for every set of partitions, every initial capacity of the *)
(* table and every number of partitions.                                   *)

LEMMA WholeRegion ==
  ASSUME NEW p \in Nat, NEW n \in Nat
  PROVE  Region(p, 0, n) \in Seq(Cell)
<1>1. 0 \in Nat /\ 0 <= n
  OBVIOUS
<1>2. QED BY <1>1, RegionType

\* A table grown to size entries, with one more offset noted.
Noted(tbl, size, c, w) == [Resize(tbl, size) EXCEPT ![c] = w]

\* A writer that notes an offset keeps those of the partitions before it.
LEMMA NotedOffsets ==
  ASSUME TypeInv, mode = "w", NoteOffsets
  PROVE  /\ moff'[cur] = wmeta /\ doff'[cur] = wdata /\ ioff'[cur] = windex
         /\ \A p \in 0 .. cur - 1 :
              moff'[p] = moff[p] /\ doff'[p] = doff[p] /\ ioff'[p] = ioff[p]
<1>1. /\ capacity \in Nat /\ np = cur /\ np <= capacity /\ cur \in Nat
      /\ capacity \in Nat \ {0}
      /\ wmeta \in Int /\ wdata \in Int /\ windex \in Int
      /\ moff \in [0 .. capacity - 1 -> Int]
      /\ doff \in [0 .. capacity - 1 -> Int]
      /\ ioff \in [0 .. capacity - 1 -> Int]
  BY DEF TypeInv, TypeOK, TableType, HandleType, WriterInv
<1>2. PICK size \in Nat : size = capacity' /\ capacity <= size /\ cur < size
  BY <1>1 DEF NoteOffsets
<1>3. /\ moff' = Noted(moff, size, cur, wmeta)
      /\ doff' = Noted(doff, size, cur, wdata)
      /\ ioff' = Noted(ioff, size, cur, windex)
  BY <1>2 DEF NoteOffsets, Noted
<1>4. /\ size \in Nat /\ capacity <= size /\ cur < size
      /\ capacity \in Nat /\ cur \in Nat /\ cur <= capacity
  BY <1>1, <1>2
<1>5. ASSUME NEW tbl \in [0 .. capacity - 1 -> Int], NEW w
      PROVE  /\ Noted(tbl, size, cur, w)[cur] = w
             /\ \A p \in 0 .. cur - 1 : Noted(tbl, size, cur, w)[p] = tbl[p]
  <2> DEFINE r == Resize(tbl, size)
  <2>1. r = [i \in 0 .. size - 1 |-> At(tbl, i)]
    BY DEF Resize
  <2>2. cur \in 0 .. size - 1
    BY <1>4
  <2>3. ASSUME NEW p \in 0 .. cur - 1
        PROVE  p \in 0 .. size - 1 /\ p # cur /\ At(tbl, p) = tbl[p]
    <3>1. p \in 0 .. size - 1 /\ p # cur /\ p \in 0 .. capacity - 1
      BY <1>4
    <3>2. DOMAIN tbl = 0 .. capacity - 1
      OBVIOUS
    <3> QED BY <3>1, <3>2 DEF At
  <2>4. Noted(tbl, size, cur, w) = [r EXCEPT ![cur] = w]
    BY DEF Noted
  <2> HIDE DEF r
  <2>5. QED BY <2>1, <2>2, <2>3, <2>4
<1>6. moff'[cur] = wmeta /\ \A p \in 0 .. cur - 1 : moff'[p] = moff[p]
  <2>1. moff \in [0 .. capacity - 1 -> Int]
    BY <1>1
  <2>2. /\ Noted(moff, size, cur, wmeta)[cur] = wmeta
        /\ \A p \in 0 .. cur - 1 : Noted(moff, size, cur, wmeta)[p] = moff[p]
    BY <2>1, <1>5
  <2>3. moff' = Noted(moff, size, cur, wmeta)
    BY <1>3
  <2> QED BY <2>2, <2>3, Zenon
<1>7. doff'[cur] = wdata /\ \A p \in 0 .. cur - 1 : doff'[p] = doff[p]
  <2>1. doff \in [0 .. capacity - 1 -> Int]
    BY <1>1
  <2>2. /\ Noted(doff, size, cur, wdata)[cur] = wdata
        /\ \A p \in 0 .. cur - 1 : Noted(doff, size, cur, wdata)[p] = doff[p]
    BY <2>1, <1>5
  <2>3. doff' = Noted(doff, size, cur, wdata)
    BY <1>3
  <2> QED BY <2>2, <2>3, Zenon
<1>8. ioff'[cur] = windex /\ \A p \in 0 .. cur - 1 : ioff'[p] = ioff[p]
  <2>1. ioff \in [0 .. capacity - 1 -> Int]
    BY <1>1
  <2>2. /\ Noted(ioff, size, cur, windex)[cur] = windex
        /\ \A p \in 0 .. cur - 1 : Noted(ioff, size, cur, windex)[p] = ioff[p]
    BY <2>1, <1>5
  <2>3. ioff' = Noted(ioff, size, cur, windex)
    BY <1>3
  <2> QED BY <2>2, <2>3, Zenon
<1>9. QED BY <1>6, <1>7, <1>8
-------------------------------------------------------------------------------
(* The writer's table.                                                     *)

LayoutInv == TypeInv /\ WriterLayout /\ SealedLayout

\* The table a writer keeps, as numbers.
LEMMA WriterFacts ==
  ASSUME TypeInv, mode = "w"
  PROVE  /\ cur \in Nat /\ np = cur /\ cur = Len(written) /\ cur <= capacity
         /\ written \in Seq(Parts)
         /\ tmpFile \in Seq(Cell) /\ dataFile \in Seq(Cell) /\ indexFile \in Seq(Cell)
         /\ \A p \in 0 .. cur - 1 :
              moff[p] \in Int /\ doff[p] \in Int /\ ioff[p] \in Int
BY DEF TypeInv, TypeOK, DiskType, HandleType, TableType, WriterInv

\* The sizes of a partition that was written.
LEMMA WrittenSizes ==
  ASSUME TypeInv, NEW p \in 0 .. Len(written) - 1
  PROVE  /\ written[p + 1].metaSize \in Nat /\ DataSize(written[p + 1]) \in Nat
         /\ IndexSize(written[p + 1]) \in Nat
BY WrittenPart, PartitionSizes

\* Writing a partition keeps the layout of the file.
LEMMA WritePartitionLayout ==
  ASSUME LayoutInv, NEW d \in Parts, WritePartition(d)
  PROVE  WriterLayout'
<1>1. /\ mode = "w" /\ NoteOffsets /\ cur' = cur + 1 /\ np' = np + 1
      /\ written' = Append(written, d)
      /\ tmpFile' = tmpFile \o Region(cur, 0, d.metaSize)
      /\ dataFile' = dataFile \o Region(cur, 0, DataSize(d))
      /\ indexFile' = indexFile \o Region(cur, 0, IndexSize(d))
      /\ wmeta' = wmeta + d.metaSize /\ wdata' = wdata + DataSize(d)
      /\ windex' = windex + IndexSize(d)
  BY DEF WritePartition, Writable
<1>2. TypeInv
  BY DEF LayoutInv
<1>3. TypeInv'
  BY <1>2, WritePartitionTyped
<1>4. /\ cur \in Nat /\ np = cur /\ cur = Len(written) /\ cur <= capacity
      /\ written \in Seq(Parts)
      /\ tmpFile \in Seq(Cell) /\ dataFile \in Seq(Cell) /\ indexFile \in Seq(Cell)
      /\ \A p \in 0 .. cur - 1 : moff[p] \in Int /\ doff[p] \in Int /\ ioff[p] \in Int
  BY <1>1, <1>2, WriterFacts
<1>5. /\ wmeta = Len(tmpFile) /\ wdata = Len(dataFile) /\ windex = Len(indexFile)
      /\ TablesLocate(tmpFile, 0, moff, doff, ioff)
  BY <1>1 DEF LayoutInv, WriterLayout
<1>6. d.metaSize \in Nat /\ DataSize(d) \in Nat /\ IndexSize(d) \in Nat
  BY PartitionSizes
<1>7. /\ Len(written') = cur + 1
      /\ written'[cur + 1] = d
      /\ \A p \in 0 .. cur - 1 : written'[p + 1] = written[p + 1]
  BY <1>1, <1>4, AppendProperties
<1>8. /\ Len(tmpFile') = wmeta + d.metaSize
      /\ Len(dataFile') = wdata + DataSize(d)
      /\ Len(indexFile') = windex + IndexSize(d)
  BY <1>1, <1>4, <1>5, <1>6, LocatedNew
<1>9. /\ moff'[cur] = wmeta /\ doff'[cur] = wdata /\ ioff'[cur] = windex
      /\ \A p \in 0 .. cur - 1 :
           moff'[p] = moff[p] /\ doff'[p] = doff[p] /\ ioff'[p] = ioff[p]
  BY <1>1, <1>2, NotedOffsets
<1>10. ASSUME NEW p \in 0 .. cur
       PROVE  /\ Located(tmpFile', moff'[p], p, written'[p + 1].metaSize)
              /\ Located(dataFile', doff'[p], p, DataSize(written'[p + 1]))
              /\ Located(indexFile', ioff'[p], p, IndexSize(written'[p + 1]))
  <2>1. CASE p = cur
    <3>1. Located(tmpFile \o Region(cur, 0, d.metaSize), Len(tmpFile), cur, d.metaSize)
      BY <1>4, <1>6, LocatedNew
    <3>2. Located(dataFile \o Region(cur, 0, DataSize(d)), Len(dataFile), cur, DataSize(d))
      BY <1>4, <1>6, LocatedNew
    <3>3. Located(indexFile \o Region(cur, 0, IndexSize(d)), Len(indexFile), cur,
                  IndexSize(d))
      BY <1>4, <1>6, LocatedNew
    <3> QED BY <1>1, <1>5, <1>7, <1>9, <2>1, <3>1, <3>2, <3>3
  <2>2. CASE p # cur
    <3>1. p \in 0 .. cur - 1 /\ p \in Nat /\ p < cur
      BY <1>4, <2>2
    <3>2. /\ written'[p + 1] = written[p + 1]
          /\ moff'[p] = moff[p] /\ doff'[p] = doff[p] /\ ioff'[p] = ioff[p]
          /\ moff[p] \in Int /\ doff[p] \in Int /\ ioff[p] \in Int
      BY <1>4, <1>7, <1>9, <3>1
    <3>3. /\ written[p + 1].metaSize \in Nat /\ DataSize(written[p + 1]) \in Nat
          /\ IndexSize(written[p + 1]) \in Nat
      BY <1>2, <1>4, <3>1, WrittenSizes
    <3>4. /\ Located(tmpFile, moff[p] - 0, p, written[p + 1].metaSize)
          /\ Located(dataFile, doff[p], p, DataSize(written[p + 1]))
          /\ Located(indexFile, ioff[p], p, IndexSize(written[p + 1]))
      BY <1>4, <1>5, <3>1 DEF TablesLocate
    <3>5. moff[p] - 0 = moff[p]
      BY <3>2
    <3>6. Located(tmpFile', moff[p], p, written[p + 1].metaSize)
      <4>1. Region(cur, 0, d.metaSize) \in Seq(Cell)
        BY <1>4, <1>6, WholeRegion
      <4> QED BY <1>1, <1>4, <3>1, <3>2, <3>3, <3>4, <3>5, <4>1, LocatedAppend
    <3>7. Located(dataFile', doff[p], p, DataSize(written[p + 1]))
      <4>1. Region(cur, 0, DataSize(d)) \in Seq(Cell)
        BY <1>4, <1>6, WholeRegion
      <4> QED BY <1>1, <1>4, <3>1, <3>2, <3>3, <3>4, <4>1, LocatedAppend
    <3>8. Located(indexFile', ioff[p], p, IndexSize(written[p + 1]))
      <4>1. Region(cur, 0, IndexSize(d)) \in Seq(Cell)
        BY <1>4, <1>6, WholeRegion
      <4> QED BY <1>1, <1>4, <3>1, <3>2, <3>3, <3>4, <4>1, LocatedAppend
    <3> QED BY <3>2, <3>6, <3>7, <3>8
  <2> QED BY <2>1, <2>2
<1>11. TablesLocate(tmpFile, 0, moff, doff, ioff)'
  <2>1. \A p \in 0 .. cur : moff'[p] - 0 = moff'[p]
    <3> SUFFICES ASSUME NEW p \in 0 .. cur PROVE moff'[p] - 0 = moff'[p]
      OBVIOUS
    <3>1. moff'[p] \in Int
      <4>1. CASE p = cur
        <5>1. wmeta \in Int
          BY <1>2 DEF TypeInv, TypeOK, HandleType
        <5> QED BY <1>9, <4>1, <5>1
      <4>2. CASE p # cur
        <5>1. p \in 0 .. cur - 1
          BY <1>4, <4>2
        <5> QED BY <1>4, <1>9, <5>1
      <4> QED BY <4>1, <4>2
    <3> QED BY <3>1
  <2>2. Len(written') - 1 = cur
    BY <1>4, <1>7
  <2> QED BY <1>10, <2>1, <2>2 DEF TablesLocate
<1>12. np' <= capacity' /\ np' = cur' /\ cur' = Len(written')
  BY <1>1, <1>3, <1>4, <1>7 DEF TypeInv, WriterInv, WritePartition
<1>13. QED
  BY <1>1, <1>5, <1>8, <1>11, <1>12 DEF WriterLayout

\* So does refusing one.
LEMMA RejectLengthLayout ==
  ASSUME LayoutInv, NEW d \in Parts, RejectLength(d)
  PROVE  WriterLayout'
<1>1. /\ mode = "w" /\ NoteOffsets
      /\ UNCHANGED <<disk, written, legacy, style, mode, cur, loaded, excl, gmeta, writeState,
                     positions, ps>>
  BY DEF RejectLength, Writable
<1>2. TypeInv
  BY DEF LayoutInv
<1>3. TypeInv'
  BY <1>2, RejectLengthTyped
<1>4. /\ cur \in Nat /\ np = cur /\ cur = Len(written) /\ cur <= capacity
      /\ \A p \in 0 .. cur - 1 :
           moff'[p] = moff[p] /\ doff'[p] = doff[p] /\ ioff'[p] = ioff[p]
  BY <1>1, <1>2, WriterFacts, NotedOffsets
<1>5. /\ wmeta = Len(tmpFile) /\ wdata = Len(dataFile) /\ windex = Len(indexFile)
      /\ TablesLocate(tmpFile, 0, moff, doff, ioff)
  BY <1>1 DEF LayoutInv, WriterLayout
<1>6. /\ written' = written /\ tmpFile' = tmpFile /\ dataFile' = dataFile
      /\ indexFile' = indexFile /\ np' = np /\ cur' = cur
      /\ wmeta' = wmeta /\ wdata' = wdata /\ windex' = windex
  BY <1>1 DEF disk, gmeta, writeState
<1>7. TablesLocate(tmpFile, 0, moff, doff, ioff)'
  BY <1>4, <1>5, <1>6 DEF TablesLocate
<1>8. np' <= capacity'
  BY <1>1, <1>3 DEF TypeInv, WriterInv
<1>9. QED
  BY <1>4, <1>5, <1>6, <1>7, <1>8 DEF WriterLayout

\* An empty file has its layout.
LEMMA OpenWriteLayout == LayoutInv /\ OpenWrite => WriterLayout'
<1> SUFFICES ASSUME LayoutInv, OpenWrite PROVE WriterLayout'
  OBVIOUS
<1>1. /\ cur' = 0 /\ np' = 0 /\ written' = <<>>
      /\ wmeta' = 0 /\ wdata' = 0 /\ windex' = 0
      /\ tmpFile' = <<>> /\ dataFile' = <<>> /\ indexFile' = <<>>
      /\ capacity' = InitialCapacity
  BY DEF OpenWrite, FreshStore
<1>2. Len(<<>>) = 0 /\ 0 <= InitialCapacity
  BY StoreAssumption
<1>3. TablesLocate(tmpFile, 0, moff, doff, ioff)'
  <2>1. 0 .. Len(written') - 1 = {}
    BY <1>1, <1>2
  <2> QED BY <2>1 DEF TablesLocate
<1>4. QED
  BY <1>1, <1>2, <1>3 DEF WriterLayout
-------------------------------------------------------------------------------
(* The header of a finished store.                                         *)

\* The header holds the writer's tables one after the other, the metadata
\* table moved past the header.
LEMMA HeaderHoldsTables ==
  ASSUME TypeInv, mode = "w", NEW p \in 0 .. np - 1
  PROVE  LET n == Entries(np)
         IN  /\ HeaderWords[FirstTableWord + 0 * n + p] = moff[p] + HeaderSize(np)
             /\ HeaderWords[FirstTableWord + 1 * n + p] = doff[p] + 0
             /\ HeaderWords[FirstTableWord + 2 * n + p] = ioff[p] + 0
<1> DEFINE n == Entries(np)
           hs == HeaderSize(np)
           ft == FirstTableWord
           m == FinalTable(moff, hs, wmeta)
           t == FinalTable(doff, 0, wdata)
           x == FinalTable(ioff, 0, windex)
           e(i) == IF i = 1 THEN total ELSE IF i = 2 THEN psize
                   ELSE IF i < ft THEN np
                   ELSE IF i < ft + n THEN m[i - ft]
                   ELSE IF i < ft + 2 * n THEN t[i - ft - n]
                   ELSE x[i - ft - 2 * n]
<1>1. np \in Nat /\ legacy \in BOOLEAN
  BY DEF TypeInv, TypeOK, HandleType, DiskType
<1>2. /\ n \in Nat /\ n >= np /\ ft \in {3, 4} /\ hs = ft - 1 + 3 * n
  BY <1>1 DEF Entries, HeaderSize, FirstTableWord
<1>3. p \in Nat /\ p < np /\ p \in 0 .. n - 1
  BY <1>1, <1>2
<1>4. m[p] = moff[p] + hs /\ t[p] = doff[p] + 0 /\ x[p] = ioff[p] + 0
  BY <1>3 DEF FinalTable
<1>5. HeaderWords = [i \in 1 .. hs |-> e(i)]
  BY DEF HeaderWords
<1> HIDE DEF m, t, x, n, hs, ft
<1>6. HeaderWords[ft + 0 * n + p] = m[p]
  <2>1. ASSUME NEW i \in 1 .. hs, i = ft + 0 * n + p
        PROVE  HeaderWords[i] = m[p]
    <3>1. /\ i - ft = p /\ i # 1 /\ i # 2 /\ ~(i < ft)
          /\ i < ft + n
      BY <1>2, <1>3, <2>1
    <3>2. HeaderWords[i] = e(i)
      BY <1>5
    <3> QED BY <3>1, <3>2
  <2>2. ft + 0 * n + p \in 1 .. hs
    BY <1>2, <1>3
  <2> QED BY <2>1, <2>2
<1>7. HeaderWords[ft + 1 * n + p] = t[p]
  <2>1. ASSUME NEW i \in 1 .. hs, i = ft + 1 * n + p
        PROVE  HeaderWords[i] = t[p]
    <3>1. /\ i - ft - n = p /\ i # 1 /\ i # 2 /\ ~(i < ft)
          /\ ~(i < ft + n) /\ i < ft + 2 * n
      BY <1>2, <1>3, <2>1
    <3>2. HeaderWords[i] = e(i)
      BY <1>5
    <3> QED BY <3>1, <3>2
  <2>2. ft + 1 * n + p \in 1 .. hs
    BY <1>2, <1>3
  <2> QED BY <2>1, <2>2
<1>8. HeaderWords[ft + 2 * n + p] = x[p]
  <2>1. ASSUME NEW i \in 1 .. hs, i = ft + 2 * n + p
        PROVE  HeaderWords[i] = x[p]
    <3>1. /\ i - ft - 2 * n = p /\ i # 1 /\ i # 2 /\ ~(i < ft)
          /\ ~(i < ft + n) /\ ~(i < ft + 2 * n)
      BY <1>2, <1>3, <2>1
    <3>2. HeaderWords[i] = e(i)
      BY <1>5
    <3> QED BY <3>1, <3>2
  <2>2. ft + 2 * n + p \in 1 .. hs
    BY <1>2, <1>3
  <2> QED BY <2>1, <2>2
<1>9. QED BY <1>4, <1>6, <1>7, <1>8 DEF n, hs, ft

\* The tables of the header a writer leaves are its own, as long as they are.
LEMMA SealedTables ==
  ASSUME TypeInv, CloseWrite, NEW p \in 0 .. np - 1
  PROVE  /\ HeaderTable(0)'[p] = moff[p] + HeaderSize(np)
         /\ HeaderTable(1)'[p] = doff[p]
         /\ HeaderTable(2)'[p] = ioff[p]
<1>1. mode = "w" /\ header' = HeaderWords /\ UNCHANGED <<written, legacy>>
  BY DEF CloseWrite
<1>2. /\ np \in Nat /\ np = Len(written) /\ doff[p] \in Int /\ ioff[p] \in Int
  BY <1>1, WriterFacts
<1>3. Entries(Len(written))' = Entries(np) /\ FirstTableWord' = FirstTableWord
  BY <1>1, <1>2 DEF Entries, FirstTableWord
<1>4. p \in 0 .. Len(written') - 1
  BY <1>1, <1>2
<1>5. \A k : HeaderTable(k)'[p] = HeaderWords[FirstTableWord + k * Entries(np) + p]
  BY <1>1, <1>3, <1>4 DEF HeaderTable
<1>6. doff[p] + 0 = doff[p] /\ ioff[p] + 0 = ioff[p]
  BY <1>2
<1>7. LET n == Entries(np)
      IN  /\ HeaderWords[FirstTableWord + 0 * n + p] = moff[p] + HeaderSize(np)
          /\ HeaderWords[FirstTableWord + 1 * n + p] = doff[p] + 0
          /\ HeaderWords[FirstTableWord + 2 * n + p] = ioff[p] + 0
  BY <1>1, HeaderHoldsTables
<1>8. HeaderTable(0)'[p] = moff[p] + HeaderSize(np)
  BY <1>5, <1>7, Zenon
<1>9. HeaderTable(1)'[p] = doff[p] + 0
  BY <1>5, <1>7, Zenon
<1>10. HeaderTable(2)'[p] = ioff[p] + 0
  BY <1>5, <1>7, Zenon
<1>11. QED BY <1>6, <1>8, <1>9, <1>10

\* A closed file has the layout of all partitions.
LEMMA CloseWriteLayout == LayoutInv /\ CloseWrite => SealedLayout'
<1> SUFFICES ASSUME LayoutInv, CloseWrite PROVE SealedLayout'
  OBVIOUS
<1>1. /\ mode = "w" /\ header' = HeaderWords /\ metaFile' = tmpFile
      /\ UNCHANGED <<dataFile, indexFile, written, legacy>>
  BY DEF CloseWrite
<1>2. TypeInv
  BY DEF LayoutInv
<1>3. /\ np \in Nat /\ np = Len(written)
      /\ \A p \in 0 .. np - 1 : moff[p] \in Int /\ doff[p] \in Int /\ ioff[p] \in Int
  BY <1>1, <1>2, WriterFacts
<1>4. /\ Len(HeaderWords) = HeaderSize(np) /\ HeaderSize(np) \in Nat
      /\ ~legacy => HeaderWords[3] = np
  BY <1>1, <1>2, HeaderWordsType
<1>5. TablesLocate(tmpFile, 0, moff, doff, ioff)
  BY <1>1 DEF LayoutInv, WriterLayout
<1>6. ASSUME NEW p \in 0 .. np - 1
      PROVE  /\ HeaderTable(0)'[p] = moff[p] + HeaderSize(np)
             /\ HeaderTable(1)'[p] = doff[p]
             /\ HeaderTable(2)'[p] = ioff[p]
  BY <1>2, SealedTables
<1>7. TablesLocate(metaFile, Len(header), HeaderTable(0), HeaderTable(1), HeaderTable(2))'
  <2> SUFFICES ASSUME NEW p \in 0 .. np - 1
               PROVE  /\ Located(tmpFile, HeaderTable(0)'[p] - HeaderSize(np), p,
                                 written[p + 1].metaSize)
                      /\ Located(dataFile, HeaderTable(1)'[p], p, DataSize(written[p + 1]))
                      /\ Located(indexFile, HeaderTable(2)'[p], p, IndexSize(written[p + 1]))
    BY <1>1, <1>3, <1>4 DEF TablesLocate
  <2>1. moff[p] + HeaderSize(np) - HeaderSize(np) = moff[p] - 0
    BY <1>3, <1>4
  <2>2. /\ Located(tmpFile, moff[p] - 0, p, written[p + 1].metaSize)
        /\ Located(dataFile, doff[p], p, DataSize(written[p + 1]))
        /\ Located(indexFile, ioff[p], p, IndexSize(written[p + 1]))
    BY <1>3, <1>5 DEF TablesLocate
  <2>3. /\ HeaderTable(0)'[p] = moff[p] + HeaderSize(np)
        /\ HeaderTable(1)'[p] = doff[p] /\ HeaderTable(2)'[p] = ioff[p]
    BY <1>6
  <2>4. HeaderTable(0)'[p] - HeaderSize(np) = moff[p] - 0
    <3>1. \A v \in Int : v = moff[p] + HeaderSize(np) => v - HeaderSize(np) = moff[p] - 0
      BY <1>3, <1>4
    <3>2. moff[p] + HeaderSize(np) \in Int
      BY <1>3, <1>4
    <3> QED BY <2>3, <3>1, <3>2, Zenon
  <2>5. Located(tmpFile, HeaderTable(0)'[p] - HeaderSize(np), p, written[p + 1].metaSize)
    BY <2>2, <2>4, Zenon
  <2>6. /\ Located(dataFile, HeaderTable(1)'[p], p, DataSize(written[p + 1]))
        /\ Located(indexFile, HeaderTable(2)'[p], p, IndexSize(written[p + 1]))
    BY <2>2, <2>3, Zenon
  <2> QED BY <2>5, <2>6
<1>8. Len(header') = HeaderSize(Len(written))' /\ (~legacy' => header'[3] = Len(written'))
  <2>1. HeaderSize(Len(written))' = HeaderSize(np)
    BY <1>1, <1>3 DEF HeaderSize, Entries, FirstTableWord
  <2> QED BY <1>1, <1>3, <1>4, <2>1
<1>9. QED BY <1>7, <1>8 DEF SealedLayout

\* An action of a reader, and opening or closing one, leaves the header and
\* the files as they were.
LEMMA ReaderLayout ==
  ASSUME LayoutInv, mode # "w", mode' # "w", UNCHANGED <<disk, written, legacy>>
  PROVE  WriterLayout' /\ SealedLayout'
<1>1. /\ header' = header /\ metaFile' = metaFile /\ dataFile' = dataFile
      /\ indexFile' = indexFile /\ written' = written /\ legacy' = legacy
  BY DEF disk
<1>2. WriterLayout'
  BY DEF WriterLayout
<1>3. CASE header = <<>>
  BY <1>1, <1>2, <1>3 DEF SealedLayout
<1>4. CASE header # <<>>
  <2>1. /\ Len(header) = HeaderSize(Len(written))
        /\ ~legacy => header[3] = Len(written)
        /\ TablesLocate(metaFile, Len(header), HeaderTable(0), HeaderTable(1),
                        HeaderTable(2))
    BY <1>4 DEF LayoutInv, SealedLayout
  <2>2. TablesLocate(metaFile, Len(header), HeaderTable(0), HeaderTable(1),
                     HeaderTable(2))'
    <3>1. FirstTableWord' = FirstTableWord /\ Entries(Len(written))' = Entries(Len(written))
      BY <1>1 DEF FirstTableWord, Entries
    <3>2. /\ HeaderTable(0)' = HeaderTable(0) /\ HeaderTable(1)' = HeaderTable(1)
          /\ HeaderTable(2)' = HeaderTable(2)
      BY <1>1, <3>1 DEF HeaderTable
    <3> QED BY <1>1, <2>1, <3>2, Zenon DEF TablesLocate
  <2>3. Len(header') = HeaderSize(Len(written))'
    BY <1>1, <2>1 DEF HeaderSize, FirstTableWord, Entries
  <2> QED BY <1>1, <1>2, <2>1, <2>2, <2>3 DEF SealedLayout
<1>5. QED BY <1>3, <1>4

\* The actions that only a reader, or nobody, takes.
ReaderStep ==
  \/ OpenRead \/ ProcessDies \/ GetGlobalMetadata \/ StoreEOF
  \/ ReadPartition \/ OpenPartition \/ ReadMetadata
  \/ \E lo, hi \in BinIds : ReadDataBins(lo, hi)
  \/ \E lo, hi \in BinIds : ReadIndexBins(lo, hi)
  \/ ClosePartition \/ CloseRead

\* A reader changes nothing on disk.
LEMMA ReaderStepFrame ==
  ASSUME TypeInv, ReaderStep
  PROVE  mode # "w" /\ mode' # "w" /\ UNCHANGED <<disk, written, legacy>>
<1>1. ps.open => mode = "r"
  BY DEF TypeInv, LockInv
<1>2. CASE OpenRead \/ CloseRead
  BY <1>2 DEF OpenRead, CloseRead
<1>3. CASE ProcessDies
  BY <1>3 DEF ProcessDies, DividesByZero
<1>4. CASE GetGlobalMetadata \/ StoreEOF
  BY <1>4 DEF GetGlobalMetadata, StoreEOF, CanLoad
<1>5. CASE ReadPartition
  BY <1>5 DEF ReadPartition, CanAdvance
<1>6. CASE OpenPartition
  BY <1>6 DEF OpenPartition, CanAdvance
<1>7. CASE ReadMetadata
  BY <1>1, <1>7 DEF ReadMetadata
<1>8. CASE \E lo, hi \in BinIds : ReadDataBins(lo, hi)
  BY <1>1, <1>8 DEF ReadDataBins, BinRange
<1>9. CASE \E lo, hi \in BinIds : ReadIndexBins(lo, hi)
  BY <1>1, <1>9 DEF ReadIndexBins, BinRange
<1>10. CASE ClosePartition
  BY <1>1, <1>10 DEF ClosePartition
<1>11. QED
  BY <1>2, <1>3, <1>4, <1>5, <1>6, <1>7, <1>8, <1>9, <1>10 DEF ReaderStep

\* The layout stays while the files and tables do.
LEMMA LayoutStays ==
  ASSUME LayoutInv, UNCHANGED <<disk, written, legacy, mode, cur, gmeta, table, writeState>>
  PROVE  WriterLayout' /\ SealedLayout'
<1>1. CASE mode = "w"
  <2>1. SealedLayout'
    BY <1>1 DEF SealedLayout
  <2>2. WriterLayout'
    BY <1>1 DEF LayoutInv, WriterLayout, TablesLocate, disk, gmeta, table, writeState
  <2> QED BY <2>1, <2>2
<1>2. CASE mode # "w"
  BY <1>2, ReaderLayout
<1>3. QED BY <1>1, <1>2

\* Every step keeps the layout.
LEMMA LayoutInvStep == LayoutInv /\ [Next]_vars => LayoutInv'
<1> SUFFICES ASSUME LayoutInv, [Next]_vars PROVE LayoutInv'
  OBVIOUS
<1>1. TypeInv /\ TypeInv'
  BY TypeInvStep DEF LayoutInv
<1>2. CASE OpenWrite
  <2>1. SealedLayout'
    BY <1>2 DEF OpenWrite, SealedLayout
  <2> QED BY <1>1, <1>2, <2>1, OpenWriteLayout DEF LayoutInv
<1>3. CASE \E d \in Parts : WritePartition(d)
  <2>1. SealedLayout'
    BY <1>3 DEF WritePartition, Writable, SealedLayout
  <2> QED BY <1>1, <1>3, <2>1, WritePartitionLayout DEF LayoutInv
<1>4. CASE \E d \in Parts : RejectLength(d)
  <2>1. SealedLayout'
    BY <1>4 DEF RejectLength, Writable, SealedLayout
  <2> QED BY <1>1, <1>4, <2>1, RejectLengthLayout DEF LayoutInv
<1>5. CASE CloseWrite
  <2>1. WriterLayout'
    BY <1>5 DEF CloseWrite, WriterLayout
  <2> QED BY <1>1, <1>5, <2>1, CloseWriteLayout DEF LayoutInv
<1>6. CASE ReaderStep
  BY <1>1, <1>6, ReaderStepFrame, ReaderLayout DEF LayoutInv
<1>7. CASE WriterEOF \/ \E call \in Calls : Refuse(call)
  <2>1. UNCHANGED <<disk, written, legacy, mode, cur, gmeta, table, writeState>>
    BY <1>7 DEF Refuse, WriterEOF
  <2> QED BY <1>1, <2>1, LayoutStays DEF LayoutInv
<1>8. CASE UNCHANGED vars
  <2>1. UNCHANGED <<disk, written, legacy, mode, cur, gmeta, table, writeState>>
    BY <1>8 DEF vars
  <2> QED BY <1>1, <2>1, LayoutStays DEF LayoutInv
<1>9. QED
  BY <1>2, <1>3, <1>4, <1>5, <1>6, <1>7, <1>8 DEF Next, ReaderStep

\* The layout holds at first.
LEMMA InitLayout == Init => LayoutInv
<1> SUFFICES ASSUME Init PROVE LayoutInv
  OBVIOUS
<1>1. mode = "closed" /\ header = <<>>
  BY DEF Init
<1>2. QED BY <1>1, InitTyped DEF LayoutInv, WriterLayout, SealedLayout

(* Whatever partitions are written, in whatever number, the table a writer *)
(* keeps locates each of them in the streams, across every doubling of the *)
(* table and every rejected partition.                                     *)
THEOREM WriterKeepsLayout == Spec => []WriterLayout
<1>1. LayoutInv => WriterLayout
  BY DEF LayoutInv
<1>2. QED BY InitLayout, LayoutInvStep, <1>1, PTL DEF Spec

(* The header of every store that was closed locates every partition that  *)
(* was written in the finished files, and stays so while it is read.       *)
THEOREM SealedKeepsLayout == Spec => []SealedLayout
<1>1. LayoutInv => SealedLayout
  BY DEF LayoutInv
<1>2. QED BY InitLayout, LayoutInvStep, <1>1, PTL DEF Spec

-------------------------------------------------------------------------------
(* The reader's copy of the table.  The legacy header stores no count: the *)
(* reader divides the number of elements by the partition length, so what  *)
(* has to be invariant is that n partitions are what rounding up gives.    *)

\* n partitions, all of size s but the last, which may be shorter, have t
\* elements.
LegacyCount(n, s, t) ==
  IF n = 0 THEN s = 0 ELSE s > 0 /\ (n - 1) * s < t /\ t <= n * s

WriterCount ==
  (mode = "w" /\ legacy) =>
    /\ LegacyCount(Len(written), psize, total)
    /\ psize = 0 => ~lastWritten
    /\ ~lastWritten => total = Len(written) * psize

SealedCount ==
  (mode # "w" /\ header # <<>> /\ legacy) =>
    LegacyCount(Len(written), header[2], header[1])

\* One more partition that is not too long, when all so far are full.
LEMMA LegacyCountGrows ==
  ASSUME NEW n \in Nat, NEW s \in Nat \ {0}, NEW l \in Nat \ {0}, l <= s
  PROVE  /\ LegacyCount(n + 1, s, n * s + l)
         /\ l = s => n * s + l = (n + 1) * s
<1>1. n * s \in Nat /\ (n + 1) * s = n * s + s /\ n + 1 # 0 /\ n + 1 - 1 = n
  OBVIOUS
<1> DEFINE m == n * s
           k == (n + 1) * s
<1>2. m \in Nat /\ k = m + s /\ m < m + l /\ m + l <= k
  BY <1>1
<1> HIDE DEF m, k
<1>3. LegacyCount(n + 1, s, m + l)
  <2>1. (n + 1 - 1) * s = m /\ (n + 1) * s = k
    BY <1>1 DEF m, k
  <2> QED BY <1>1, <1>2, <2>1 DEF LegacyCount
<1>4. l = s => m + l = k
  BY <1>2
<1>5. QED BY <1>3, <1>4 DEF m, k

\* Division by the partition length, rounded up, finds the count.
LEMMA LegacyCountFound ==
  ASSUME NEW n \in Nat, NEW s \in Nat, NEW t \in Nat, s # 0, LegacyCount(n, s, t)
  PROVE  (t - 1) \div s + 1 = n
<1>1. n # 0 /\ s > 0 /\ (n - 1) * s < t /\ t <= n * s
  BY DEF LegacyCount
<1>2. /\ (n - 1) * s \in Nat /\ n * s = (n - 1) * s + s
  BY <1>1
<1>3. (n - 1) * s <= t - 1 /\ t - 1 < (n - 1) * s + s
  BY <1>1, <1>2
<1>4. \A q \in Nat, r \in Int : q * s <= r /\ r < q * s + s => r \div s = q
  <2> SUFFICES ASSUME NEW q \in Nat, NEW r \in Int, q * s <= r, r < q * s + s
               PROVE  r \div s = q
    OBVIOUS
  <2> QED BY <1>1
<1>5. (t - 1) \div s = n - 1
  BY <1>1, <1>3, <1>4
<1>6. QED BY <1>1, <1>5

CountInv == LayoutInv /\ WriterCount /\ SealedCount

\* The number of partitions is that of the partitions written.
LEMMA WritePartitionCount ==
  ASSUME AnyLength = FALSE, CountInv, NEW d \in Parts, WritePartition(d)
  PROVE  WriterCount'
<1> SUFFICES ASSUME legacy
             PROVE  /\ LegacyCount(Len(written'), psize', total')
                    /\ psize' = 0 => ~lastWritten'
                    /\ ~lastWritten' => total' = Len(written') * psize'
  BY DEF WritePartition, WriterCount
<1>1. /\ mode = "w" /\ ApplicationWrites(d) /\ written' = Append(written, d)
      /\ psize' = (IF psize = 0 THEN d.length ELSE psize)
      /\ total' = total + d.length
  BY DEF WritePartition, Writable
<1>2. lastWritten' = (lastWritten \/ LengthDiffers(d))
  BY DEF WritePartition
<1>3. /\ written \in Seq(Parts) /\ psize \in Nat /\ total \in Nat
      /\ d.length \in Nat \ {0}
  BY PartitionSizes DEF CountInv, LayoutInv, TypeInv, TypeOK, DiskType, HandleType
<1> DEFINE n == Len(written)
<1>4. n \in Nat /\ Len(written') = n + 1
  BY <1>1, <1>3, LenProperties, AppendProperties
<1>5. /\ LegacyCount(n, psize, total)
      /\ psize = 0 => ~lastWritten
      /\ ~lastWritten => total = n * psize
  BY <1>1 DEF CountInv, WriterCount
<1> HIDE DEF n
<1>6. CASE psize = 0
  <2>1. n = 0
    BY <1>4, <1>5, <1>6 DEF LegacyCount
  <2>2. ~lastWritten /\ total = 0
    BY <1>5, <1>6, <2>1
  <2>3. ~lastWritten'
    BY <1>2, <1>6, <2>2 DEF LengthDiffers
  <2>4. psize' = d.length /\ total' = d.length /\ Len(written') = 1
    BY <1>1, <1>3, <1>4, <1>6, <2>1, <2>2
  <2>5. LegacyCount(1, d.length, d.length) /\ d.length = 1 * d.length /\ d.length # 0
    BY <1>3 DEF LegacyCount
  <2> QED BY <2>3, <2>4, <2>5
<1>7. CASE psize # 0
  <2>1. d.length <= psize /\ ~lastWritten
    BY <1>1, <1>7 DEF ApplicationWrites
  <2>2. /\ psize' = psize /\ total' = n * psize + d.length
        /\ ~lastWritten' => d.length = psize
    BY <1>1, <1>2, <1>5, <1>7, <2>1 DEF LengthDiffers
  <2>3. /\ LegacyCount(n + 1, psize, n * psize + d.length)
        /\ d.length = psize => n * psize + d.length = (n + 1) * psize
    BY <1>3, <1>4, <1>7, <2>1, LegacyCountGrows
  <2> QED BY <1>4, <1>7, <2>2, <2>3
<1>8. QED BY <1>6, <1>7

\* Every step keeps the count.
LEMMA CountInvStep == AnyLength = FALSE /\ CountInv /\ [Next]_vars => CountInv'
<1> SUFFICES ASSUME AnyLength = FALSE, CountInv, [Next]_vars PROVE CountInv'
  OBVIOUS
<1>1. LayoutInv /\ LayoutInv' /\ TypeInv
  BY LayoutInvStep DEF CountInv, LayoutInv
<1>2. CASE OpenWrite
  <2>1. /\ written' = <<>> /\ psize' = 0 /\ total' = 0 /\ lastWritten' = FALSE
        /\ mode' = "w"
    BY <1>2 DEF OpenWrite, FreshStore
  <2>2. Len(<<>>) = 0 /\ LegacyCount(0, 0, 0) /\ 0 = 0 * 0
    BY DEF LegacyCount
  <2> QED BY <1>1, <2>1, <2>2 DEF CountInv, WriterCount, SealedCount
<1>3. CASE \E d \in Parts : WritePartition(d)
  <2>1. SealedCount'
    BY <1>3 DEF WritePartition, Writable, SealedCount
  <2> QED BY <1>1, <1>3, <2>1, WritePartitionCount DEF CountInv
<1>4. CASE \E d \in Parts : RejectLength(d)
  <2>1. mode' = "w" /\ mode = "w"
    BY <1>4 DEF RejectLength, Writable
  <2>2. WriterCount'
    BY <1>4, <2>1 DEF RejectLength, CountInv, WriterCount, gmeta, writeState
  <2> QED BY <1>1, <2>1, <2>2 DEF CountInv, SealedCount
<1>5. CASE CloseWrite
  <2>1. /\ mode = "w" /\ mode' = "closed" /\ header' = HeaderWords
        /\ written' = written /\ legacy' = legacy
    BY <1>5 DEF CloseWrite
  <2>2. HeaderWords[1] = total /\ HeaderWords[2] = psize
    BY <1>1, <2>1, HeaderWordsType
  <2> QED BY <1>1, <2>1, <2>2 DEF CountInv, WriterCount, SealedCount
<1>6. CASE ReaderStep
  <2>1. mode # "w" /\ mode' # "w" /\ UNCHANGED <<disk, written, legacy>>
    BY <1>1, <1>6, ReaderStepFrame
  <2>2. header' = header /\ written' = written /\ legacy' = legacy
    BY <2>1 DEF disk
  <2> QED BY <1>1, <2>1, <2>2 DEF CountInv, WriterCount, SealedCount
<1>7. CASE UNCHANGED vars \/ WriterEOF \/ \E call \in Calls : Refuse(call)
  <2>1. UNCHANGED <<disk, written, legacy, mode, gmeta, writeState>>
    BY <1>7 DEF vars, Refuse, WriterEOF
  <2>2. /\ header' = header /\ written' = written /\ legacy' = legacy /\ mode' = mode
        /\ psize' = psize /\ total' = total /\ lastWritten' = lastWritten
    BY <2>1 DEF disk, gmeta, writeState
  <2> QED BY <1>1, <2>2 DEF CountInv, WriterCount, SealedCount
<1>8. QED
  BY <1>2, <1>3, <1>4, <1>5, <1>6, <1>7 DEF Next, ReaderStep

\* Loading the global metadata finds the writer's count and tables.
LEMMA LoadFindsTables ==
  ASSUME CountInv, mode = "r", ~loaded, ~DividesByZero
  PROVE  /\ HeaderCount = Len(written) /\ HeaderCount \in Nat
         /\ LoadCapacity \in Nat /\ HeaderCount <= LoadCapacity
         /\ TablesLocate(metaFile, Len(header), LoadTable(0), LoadTable(1), LoadTable(2))
         /\ \A k \in {0, 1, 2} : \A p \in 0 .. Len(written) - 1 :
              LoadTable(k)[p] = HeaderTable(k)[p]
         /\ ~legacy => /\ Len(written) < LoadCapacity
                       /\ LoadTable(0)[Len(written)] = header[4 + Len(written)]
<1>1. /\ header # <<>> /\ header \in Seq(Int) /\ legacy \in BOOLEAN
      /\ written \in Seq(Parts) /\ Len(written) \in Nat /\ capacity \in Nat \ {0}
      /\ header[1] \in Nat /\ header[2] \in Nat
  BY LenProperties DEF CountInv, LayoutInv, TypeInv, TypeOK, DiskType, TableType, LockInv,
     HeaderInv
<1>2. /\ Len(header) = HeaderSize(Len(written))
      /\ ~legacy => header[3] = Len(written)
      /\ TablesLocate(metaFile, Len(header), HeaderTable(0), HeaderTable(1), HeaderTable(2))
  BY <1>1 DEF CountInv, LayoutInv, SealedLayout
<1>3. HeaderCount = Len(written)
  <2>1. CASE legacy
    <3>1. header[2] # 0
      BY <2>1 DEF DividesByZero
    <3>2. LegacyCount(Len(written), header[2], header[1])
      BY <1>1, <2>1 DEF CountInv, SealedCount
    <3> QED BY <1>1, <2>1, <3>1, <3>2, LegacyCountFound DEF HeaderCount
  <2>2. CASE ~legacy
    BY <1>2, <2>2 DEF HeaderCount
  <2> QED BY <2>1, <2>2
<1> DEFINE n == Len(written)
           e == Entries(n)
<1>4. e \in Nat /\ n <= e /\ Entries(HeaderCount) = e
  BY <1>1, <1>3 DEF Entries
<1>5. LoadCapacity \in Nat /\ e <= LoadCapacity
  BY <1>1, <1>4 DEF LoadCapacity
<1>6. ASSUME NEW k \in {0, 1, 2}, NEW p \in 0 .. n - 1
      PROVE  LoadTable(k)[p] = HeaderTable(k)[p]
  <2>1. p \in Nat /\ p < e /\ p \in 0 .. LoadCapacity - 1
    BY <1>1, <1>4, <1>5
  <2>2. LoadTable(k)[p] = Word(FirstTableWord + k * e + p)
    BY <1>4, <2>1 DEF LoadTable
  <2>3. FirstTableWord + k * e + p \in 1 .. Len(header)
    <3>1. Len(header) = FirstTableWord - 1 + 3 * e
      BY <1>2 DEF HeaderSize
    <3>2. FirstTableWord \in {3, 4}
      BY <1>1 DEF FirstTableWord
    <3>3. CASE k = 0
      BY <1>4, <2>1, <3>1, <3>2, <3>3
    <3>4. CASE k = 1
      BY <1>4, <2>1, <3>1, <3>2, <3>4
    <3>5. CASE k = 2
      BY <1>4, <2>1, <3>1, <3>2, <3>5
    <3> QED BY <3>3, <3>4, <3>5
  <2> QED BY <2>2, <2>3 DEF Word, HeaderTable
<1>7. TablesLocate(metaFile, Len(header), LoadTable(0), LoadTable(1), LoadTable(2))
  <2> SUFFICES ASSUME NEW p \in 0 .. n - 1
               PROVE  /\ Located(metaFile, LoadTable(0)[p] - Len(header), p,
                                 written[p + 1].metaSize)
                      /\ Located(dataFile, LoadTable(1)[p], p, DataSize(written[p + 1]))
                      /\ Located(indexFile, LoadTable(2)[p], p, IndexSize(written[p + 1]))
    BY DEF TablesLocate
  <2>1. /\ LoadTable(0)[p] = HeaderTable(0)[p] /\ LoadTable(1)[p] = HeaderTable(1)[p]
        /\ LoadTable(2)[p] = HeaderTable(2)[p]
    BY <1>6
  <2>2. /\ Located(metaFile, HeaderTable(0)[p] - Len(header), p, written[p + 1].metaSize)
        /\ Located(dataFile, HeaderTable(1)[p], p, DataSize(written[p + 1]))
        /\ Located(indexFile, HeaderTable(2)[p], p, IndexSize(written[p + 1]))
    BY <1>2 DEF TablesLocate
  <2> QED BY <2>1, <2>2, Zenon
<1>8. ASSUME ~legacy
      PROVE  n < LoadCapacity /\ LoadTable(0)[n] = header[4 + n]
  <2>1. e = n + 1 /\ FirstTableWord = 4 /\ Len(header) = 3 + 3 * e
    BY <1>2, <1>8 DEF Entries, FirstTableWord, HeaderSize
  <2>2. n < LoadCapacity /\ n \in 0 .. LoadCapacity - 1 /\ n < Entries(HeaderCount)
    BY <1>1, <1>4, <1>5, <2>1
  <2>3. LoadTable(0)[n] = Word(4 + 0 * e + n)
    BY <1>4, <2>1, <2>2 DEF LoadTable
  <2>4. 4 + 0 * e + n = 4 + n /\ 4 + n \in 1 .. Len(header)
    BY <1>1, <1>4, <2>1
  <2> QED BY <2>2, <2>3, <2>4 DEF Word
<1>9. QED BY <1>1, <1>3, <1>4, <1>5, <1>6, <1>7, <1>8

LoadedInv == CountInv /\ LoadedLayout

\* A call that loads the global metadata, or has it already.
LEMMA LoadingKeepsLayout ==
  ASSUME LoadedInv, mode = "r", ~DividesByZero, EnsureLoaded,
         UNCHANGED <<disk, written, legacy>>
  PROVE  LoadedLayout'
<1>1. /\ header' = header /\ metaFile' = metaFile /\ dataFile' = dataFile
      /\ indexFile' = indexFile /\ written' = written
  BY DEF disk
<1>2. CASE loaded
  <2>1. /\ np' = np /\ capacity' = capacity
        /\ moff' = moff /\ doff' = doff /\ ioff' = ioff
    BY <1>2 DEF EnsureLoaded, Count, MetaTable, DataTable, IndexTable
  <2> QED BY <1>1, <1>2, <2>1 DEF LoadedInv, LoadedLayout, TablesLocate
<1>3. CASE ~loaded
  <2>1. /\ HeaderCount = Len(written) /\ HeaderCount <= LoadCapacity
        /\ TablesLocate(metaFile, Len(header), LoadTable(0), LoadTable(1), LoadTable(2))
    BY <1>3, LoadFindsTables DEF LoadedInv
  <2>2. /\ np' = HeaderCount /\ capacity' = LoadCapacity
        /\ moff' = LoadTable(0) /\ doff' = LoadTable(1) /\ ioff' = LoadTable(2)
    BY <1>3 DEF EnsureLoaded, Count, MetaTable, DataTable, IndexTable
  <2>3. TablesLocate(metaFile, Len(header), moff, doff, ioff)'
    BY <1>1, <2>1, <2>2, Zenon DEF TablesLocate
  <2> QED BY <1>1, <2>1, <2>2, <2>3 DEF LoadedLayout
<1>4. QED BY <1>2, <1>3

\* A call that changes neither the files nor the table.
LEMMA LoadedStays ==
  ASSUME LoadedLayout, UNCHANGED <<disk, written, mode, loaded, gmeta, table>>
  PROVE  LoadedLayout'
BY DEF LoadedLayout, TablesLocate, disk, gmeta, table

\* Every step keeps what is known of the metadata that is loaded.
LEMMA LoadedInvStep == AnyLength = FALSE /\ LoadedInv /\ [Next]_vars => LoadedInv'
<1> SUFFICES ASSUME AnyLength = FALSE, LoadedInv, [Next]_vars PROVE LoadedLayout'
  BY CountInvStep DEF LoadedInv
<1>1. CASE OpenWrite \/ CloseWrite \/ OpenRead \/ ProcessDies \/ CloseRead
  <2>1. loaded' = FALSE
    BY <1>1 DEF OpenWrite, CloseWrite, OpenRead, ProcessDies, CloseRead, FreshStore
  <2> QED BY <2>1 DEF LoadedLayout
<1>2. CASE \E d \in Parts : WritePartition(d) \/ RejectLength(d)
  <2>1. mode' = "w"
    BY <1>2 DEF WritePartition, RejectLength, Writable
  <2> QED BY <2>1 DEF LoadedLayout
<1>3. CASE GetGlobalMetadata \/ StoreEOF
  <2>1. mode = "r" /\ ~DividesByZero /\ EnsureLoaded /\ UNCHANGED <<disk, written, legacy>>
    BY <1>3 DEF GetGlobalMetadata, StoreEOF, CanLoad
  <2> QED BY <2>1, LoadingKeepsLayout
<1>4. CASE ReadPartition \/ OpenPartition
  <2>1. mode = "r" /\ ~DividesByZero /\ EnsureLoaded /\ UNCHANGED <<disk, written, legacy>>
    BY <1>4 DEF ReadPartition, OpenPartition, CanAdvance
  <2> QED BY <2>1, LoadingKeepsLayout
<1>5. CASE ReadMetadata \/ ClosePartition
  <2>1. UNCHANGED <<disk, written, mode, loaded, gmeta, table>>
    BY <1>5 DEF ReadMetadata, ClosePartition
  <2> QED BY <2>1, LoadedStays DEF LoadedInv
<1>6. CASE \E lo, hi \in BinIds : ReadDataBins(lo, hi) \/ ReadIndexBins(lo, hi)
  <2>1. UNCHANGED <<disk, written, mode, loaded, gmeta, table>>
    BY <1>6 DEF ReadDataBins, ReadIndexBins
  <2> QED BY <2>1, LoadedStays DEF LoadedInv
<1>7. CASE UNCHANGED vars \/ WriterEOF \/ \E call \in Calls : Refuse(call)
  <2>1. UNCHANGED <<disk, written, mode, loaded, gmeta, table>>
    BY <1>7 DEF vars, Refuse, WriterEOF
  <2> QED BY <2>1, LoadedStays DEF LoadedInv
<1>8. QED
  BY <1>1, <1>2, <1>3, <1>4, <1>5, <1>6, <1>7 DEF Next

(* A reader that has loaded the global metadata has the writer's partition *)
(* count and tables, however many partitions there are; in the legacy      *)
(* format, which stores no count, as long as the application keeps to      *)
(* partitions of one length and a last one that is not longer.             *)
THEOREM ReaderLoadsLayout ==
  ASSUME AnyLength = FALSE
  PROVE  Spec => []LoadedLayout
<1>1. Init => LoadedInv
  <2> SUFFICES ASSUME Init PROVE LoadedInv
    OBVIOUS
  <2>1. mode = "closed" /\ header = <<>>
    BY DEF Init
  <2> QED
    BY <2>1, InitLayout DEF LoadedInv, LoadedLayout, CountInv, WriterCount, SealedCount
<1>2. LoadedInv /\ [Next]_vars => LoadedInv'
  BY LoadedInvStep
<1>3. LoadedInv => LoadedLayout
  BY DEF LoadedInv
<1>4. QED BY <1>1, <1>2, <1>3, PTL DEF Spec

-------------------------------------------------------------------------------
(* The end of the store.                                                   *)

\* The count a reader compares its position with, loaded before or now.
LEMMA CountIsWritten ==
  ASSUME LoadedInv, mode = "r", ~DividesByZero
  PROVE  Count = Len(written)
<1>1. CASE loaded
  BY <1>1 DEF LoadedInv, LoadedLayout, Count
<1>2. CASE ~loaded
  BY <1>2, LoadFindsTables DEF LoadedInv, Count
<1>3. QED BY <1>1, <1>2

\* A result names its call.
LEMMA ResultCall ==
  ASSUME NEW call, NEW err
  PROVE  Result(call, err).call = call
BY DEF Result, Nothing

\* Every step keeps the answer about the end exact.
LEMMA EOFExactStep == LoadedInv /\ EOFExact /\ [Next]_vars => EOFExact'
<1> SUFFICES ASSUME LoadedInv, EOFExact, [Next]_vars PROVE EOFExact'
  OBVIOUS
<1>1. CASE OpenWrite \/ CloseWrite \/ ProcessDies \/ CloseRead \/ WriterEOF
  <2>1. mode' # "r"
    BY <1>1 DEF OpenWrite, CloseWrite, ProcessDies, CloseRead, WriterEOF
  <2> QED BY <2>1 DEF EOFExact
<1>2. CASE \E d \in Parts : WritePartition(d) \/ RejectLength(d)
  <2>1. mode' # "r"
    BY <1>2 DEF WritePartition, RejectLength, Writable
  <2> QED BY <2>1 DEF EOFExact
<1>3. CASE StoreEOF
  <2>1. /\ mode = "r" /\ ~DividesByZero /\ written' = written /\ cur' = cur
        /\ got' = [Result("EOF", "None") EXCEPT !.num = IF AtEnd THEN 1 ELSE 0]
    BY <1>3 DEF StoreEOF, CanLoad
  <2>2. got'.num = IF AtEnd THEN 1 ELSE 0
    BY <2>1 DEF Result, Nothing
  <2>3. AtEnd <=> cur' >= Len(written')
    BY <2>1, CountIsWritten DEF AtEnd
  <2> QED BY <2>2, <2>3 DEF EOFExact
<1>4. CASE \/ OpenRead \/ GetGlobalMetadata \/ ReadPartition \/ OpenPartition
           \/ ReadMetadata \/ ClosePartition
           \/ \E lo, hi \in BinIds : ReadDataBins(lo, hi) \/ ReadIndexBins(lo, hi)
           \/ \E call \in Calls : Refuse(call)
  <2>1. got'.call # "EOF"
    <3>1. CASE OpenRead
      BY <3>1, ResultCall DEF OpenRead
    <3>2. CASE GetGlobalMetadata
      BY <3>2 DEF GetGlobalMetadata, Result, Nothing
    <3>3. CASE ReadPartition
      BY <3>3 DEF ReadPartition, Result, Nothing
    <3>4. CASE OpenPartition
      BY <3>4 DEF OpenPartition, Result, Nothing
    <3>5. CASE ReadMetadata
      BY <3>5 DEF ReadMetadata, Result, Nothing
    <3>6. CASE ClosePartition
      BY <3>6, ResultCall DEF ClosePartition
    <3>7. CASE \E lo, hi \in BinIds : ReadDataBins(lo, hi) \/ ReadIndexBins(lo, hi)
      BY <3>7 DEF ReadDataBins, ReadIndexBins, Result, Nothing
    <3>8. CASE \E call \in Calls : Refuse(call)
      BY <3>8, ResultCall DEF Refuse, Calls
    <3> QED BY <1>4, <3>1, <3>2, <3>3, <3>4, <3>5, <3>6, <3>7, <3>8
  <2> QED BY <2>1 DEF EOFExact
<1>5. CASE UNCHANGED vars
  BY <1>5 DEF vars, EOFExact
<1>6. QED
  BY <1>1, <1>2, <1>3, <1>4, <1>5 DEF Next

(* A reader is told the end of the store exactly when every partition that *)
(* was written has been taken or opened, whatever it called before and     *)
(* however many partitions there are; in the legacy format, whose header   *)
(* stores no count, for applications that keep to partitions of one length *)
(* and a last one that is not longer.                                      *)
THEOREM EndIsExact ==
  ASSUME AnyLength = FALSE
  PROVE  Spec => []EOFExact
<1>1. Init => LoadedInv /\ EOFExact
  <2> SUFFICES ASSUME Init PROVE LoadedInv /\ EOFExact
    OBVIOUS
  <2>1. mode = "closed" /\ header = <<>>
    BY DEF Init
  <2> QED
    BY <2>1, InitLayout
       DEF LoadedInv, LoadedLayout, CountInv, WriterCount, SealedCount, EOFExact
<1>2. (LoadedInv /\ EOFExact) /\ [Next]_vars => (LoadedInv /\ EOFExact)'
  BY LoadedInvStep, EOFExactStep
<1>3. QED BY <1>1, <1>2, PTL DEF Spec
-------------------------------------------------------------------------------
(* The streams have no gaps: the offsets of one stream begin at the front  *)
(* of it, each partition's is where the one before it ends, and the last   *)
(* one ends where the stream does.                                         *)

Chain(tbl, n, start, end, size) ==
  IF n = 0 THEN end = start
  ELSE /\ tbl[0] = start
       /\ \A p \in 0 .. n - 1 : tbl[p] + size[p] = IF p = n - 1 THEN end ELSE tbl[p + 1]

\* One more partition, written where the stream ended.
LEMMA ChainGrows ==
  ASSUME NEW n \in Nat, NEW tbl, NEW new, NEW size, NEW newSize,
         NEW start \in Int, NEW end \in Int,
         Chain(tbl, n, start, end, size), new[n] = end,
         \A p \in 0 .. n - 1 : new[p] = tbl[p] /\ newSize[p] = size[p]
  PROVE  Chain(new, n + 1, start, end + newSize[n], newSize)
<1>1. n + 1 # 0 /\ n + 1 - 1 = n /\ 0 .. n + 1 - 1 = 0 .. n
  OBVIOUS
<1>2. new[0] = start
  <2>1. CASE n = 0
    BY <2>1 DEF Chain
  <2>2. CASE n # 0
    <3>1. 0 \in 0 .. n - 1
      BY <2>2
    <3> QED BY <2>2, <3>1 DEF Chain
  <2> QED BY <2>1, <2>2
<1>3. ASSUME NEW p \in 0 .. n
      PROVE  new[p] + newSize[p] = IF p = n THEN end + newSize[n] ELSE new[p + 1]
  <2>1. CASE p = n
    BY <2>1
  <2>2. CASE p # n
    <3>1. p \in 0 .. n - 1 /\ n # 0
      BY <2>2
    <3>2. tbl[p] + size[p] = IF p = n - 1 THEN end ELSE tbl[p + 1]
      BY <3>1 DEF Chain
    <3>3. new[p] = tbl[p] /\ newSize[p] = size[p]
      BY <3>1
    <3>4. CASE p = n - 1
      <4>1. p + 1 = n
        BY <3>4
      <4> QED BY <2>2, <3>2, <3>3, <3>4, <4>1
    <3>5. CASE p # n - 1
      <4>1. p + 1 \in 0 .. n - 1
        BY <3>1, <3>5
      <4> QED BY <2>2, <3>2, <3>3, <3>5, <4>1
    <3> QED BY <3>4, <3>5
  <2> QED BY <2>1, <2>2
<1>4. QED BY <1>1, <1>2, <1>3 DEF Chain

\* A chain moved as a whole.
LEMMA ChainMoved ==
  ASSUME NEW n \in Nat, NEW tbl, NEW new, NEW size, NEW k \in Int,
         NEW start \in Int, NEW end \in Int,
         \A p \in 0 .. n - 1 : tbl[p] \in Int /\ size[p] \in Int,
         Chain(tbl, n, start, end, size),
         \A p \in 0 .. n - 1 : new[p] = tbl[p] + k
  PROVE  Chain(new, n, start + k, end + k, size)
<1>1. CASE n = 0
  BY <1>1 DEF Chain
<1>2. CASE n # 0
  <2>1. 0 \in 0 .. n - 1 /\ new[0] = start + k
    BY <1>2 DEF Chain
  <2>2. ASSUME NEW p \in 0 .. n - 1
        PROVE  new[p] + size[p] = IF p = n - 1 THEN end + k ELSE new[p + 1]
    <3>1. /\ tbl[p] + size[p] = (IF p = n - 1 THEN end ELSE tbl[p + 1])
          /\ new[p] = tbl[p] + k /\ tbl[p] \in Int /\ size[p] \in Int
      BY <1>2 DEF Chain
    <3>2. CASE p = n - 1
      BY <3>1, <3>2
    <3>3. CASE p # n - 1
      <4>1. p + 1 \in 0 .. n - 1
        BY <3>3
      <4>2. new[p + 1] = tbl[p + 1] + k /\ tbl[p + 1] \in Int
        BY <4>1
      <4> QED BY <3>1, <3>3, <4>2
    <3> QED BY <3>2, <3>3
  <2> QED BY <1>2, <2>1, <2>2 DEF Chain
<1>3. QED BY <1>1, <1>2

\* Another copy of the same table.
LEMMA ChainCopied ==
  ASSUME NEW n \in Nat, NEW tbl, NEW new, NEW size, NEW start, NEW end,
         Chain(tbl, n, start, end, size),
         \A p \in 0 .. n - 1 : new[p] = tbl[p]
  PROVE  Chain(new, n, start, end, size)
<1>1. CASE n = 0
  BY <1>1 DEF Chain
<1>2. CASE n # 0
  <2>1. 0 \in 0 .. n - 1 /\ new[0] = start
    BY <1>2 DEF Chain
  <2>2. ASSUME NEW p \in 0 .. n - 1
        PROVE  new[p] + size[p] = IF p = n - 1 THEN end ELSE new[p + 1]
    <3>1. /\ tbl[p] + size[p] = (IF p = n - 1 THEN end ELSE tbl[p + 1])
          /\ new[p] = tbl[p]
      BY <1>2 DEF Chain
    <3>2. p # n - 1 => p + 1 \in 0 .. n - 1
      OBVIOUS
    <3> QED BY <3>1, <3>2
  <2> QED BY <1>2, <2>1, <2>2 DEF Chain
<1>3. QED BY <1>1, <1>2

MetaSizes == [p \in 0 .. Len(written) - 1 |-> written[p + 1].metaSize]
DataSizes == [p \in 0 .. Len(written) - 1 |-> DataSize(written[p + 1])]
IndexSizes == [p \in 0 .. Len(written) - 1 |-> IndexSize(written[p + 1])]

Packed(m, d, x, start, mend, dend, xend) ==
  /\ Chain(m, Len(written), start, mend, MetaSizes)
  /\ Chain(d, Len(written), 0, dend, DataSizes)
  /\ Chain(x, Len(written), 0, xend, IndexSizes)

\* The tables of a store that was closed fill the files.
FillsFiles(m, d, x) ==
  Packed(m, d, x, Len(header), Len(header) + Len(metaFile), Len(dataFile), Len(indexFile))

WriterPacked == mode = "w" => Packed(moff, doff, ioff, 0, wmeta, wdata, windex)

\* In the new format the header also has the end of the metadata.
SealedPacked ==
  (mode # "w" /\ header # <<>>) =>
    /\ FillsFiles(HeaderTable(0), HeaderTable(1), HeaderTable(2))
    /\ ~legacy => header[4 + Len(written)] = Len(header) + Len(metaFile)

LoadedPacked ==
  (mode = "r" /\ loaded) =>
    /\ FillsFiles(moff, doff, ioff)
    /\ ~legacy => /\ Len(written) < capacity
                  /\ moff[Len(written)] = Len(header) + Len(metaFile)

PackedInv == LoadedInv /\ WriterPacked /\ SealedPacked /\ LoadedPacked

\* The sizes are numbers.
LEMMA SizesType ==
  ASSUME TypeInv
  PROVE  /\ Len(written) \in Nat
         /\ MetaSizes \in [0 .. Len(written) - 1 -> Nat]
         /\ DataSizes \in [0 .. Len(written) - 1 -> Nat]
         /\ IndexSizes \in [0 .. Len(written) - 1 -> Nat]
<1>1. Len(written) \in Nat
  BY LenProperties DEF TypeInv, TypeOK, DiskType
<1>2. \A p \in 0 .. Len(written) - 1 :
        /\ written[p + 1].metaSize \in Nat /\ DataSize(written[p + 1]) \in Nat
        /\ IndexSize(written[p + 1]) \in Nat
  BY WrittenSizes
<1>3. QED BY <1>1, <1>2 DEF MetaSizes, DataSizes, IndexSizes

\* A partition that is written lies behind those before it.
LEMMA WritePartitionPacked ==
  ASSUME PackedInv, NEW d \in Parts, WritePartition(d)
  PROVE  WriterPacked'
<1>1. TypeInv /\ mode = "w" /\ NoteOffsets /\ written' = Append(written, d)
  BY DEF PackedInv, LoadedInv, CountInv, LayoutInv, WritePartition, Writable
<1>2. /\ cur \in Nat /\ cur = Len(written) /\ written \in Seq(Parts)
      /\ wmeta \in Int /\ wdata \in Int /\ windex \in Int
  BY <1>1, WriterFacts DEF TypeInv, TypeOK, HandleType
<1>3. /\ moff'[cur] = wmeta /\ doff'[cur] = wdata /\ ioff'[cur] = windex
      /\ \A p \in 0 .. cur - 1 :
           moff'[p] = moff[p] /\ doff'[p] = doff[p] /\ ioff'[p] = ioff[p]
  BY <1>1, NotedOffsets
<1>4. /\ Len(written') = cur + 1 /\ written'[cur + 1] = d
      /\ \A p \in 0 .. cur - 1 : written'[p + 1] = written[p + 1]
  BY <1>1, <1>2, AppendProperties
<1>5. /\ MetaSizes'[cur] = d.metaSize /\ DataSizes'[cur] = DataSize(d)
      /\ IndexSizes'[cur] = IndexSize(d)
  BY <1>2, <1>4 DEF MetaSizes, DataSizes, IndexSizes
<1>6. ASSUME NEW p \in 0 .. cur - 1
      PROVE  /\ MetaSizes'[p] = MetaSizes[p] /\ DataSizes'[p] = DataSizes[p]
             /\ IndexSizes'[p] = IndexSizes[p]
  BY <1>2, <1>4 DEF MetaSizes, DataSizes, IndexSizes
<1>7. /\ Chain(moff, cur, 0, wmeta, MetaSizes) /\ Chain(doff, cur, 0, wdata, DataSizes)
      /\ Chain(ioff, cur, 0, windex, IndexSizes)
  BY <1>1, <1>2 DEF PackedInv, WriterPacked, Packed
<1>8. /\ wmeta' = wmeta + d.metaSize /\ wdata' = wdata + DataSize(d)
      /\ windex' = windex + IndexSize(d)
  BY DEF WritePartition
<1>9. Chain(moff', cur + 1, 0, wmeta + MetaSizes'[cur], MetaSizes')
  <2>1. /\ moff'[cur] = wmeta /\ Chain(moff, cur, 0, wmeta, MetaSizes) /\ 0 \in Int
        /\ \A p \in 0 .. cur - 1 : moff'[p] = moff[p] /\ MetaSizes'[p] = MetaSizes[p]
    BY <1>3, <1>6, <1>7
  <2> QED BY <1>2, <2>1, ChainGrows
<1>10. Chain(doff', cur + 1, 0, wdata + DataSizes'[cur], DataSizes')
  <2>1. /\ doff'[cur] = wdata /\ Chain(doff, cur, 0, wdata, DataSizes) /\ 0 \in Int
        /\ \A p \in 0 .. cur - 1 : doff'[p] = doff[p] /\ DataSizes'[p] = DataSizes[p]
    BY <1>3, <1>6, <1>7
  <2> QED BY <1>2, <2>1, ChainGrows
<1>11. Chain(ioff', cur + 1, 0, windex + IndexSizes'[cur], IndexSizes')
  <2>1. /\ ioff'[cur] = windex /\ Chain(ioff, cur, 0, windex, IndexSizes) /\ 0 \in Int
        /\ \A p \in 0 .. cur - 1 : ioff'[p] = ioff[p] /\ IndexSizes'[p] = IndexSizes[p]
    BY <1>3, <1>6, <1>7
  <2> QED BY <1>2, <2>1, ChainGrows
<1>12. QED
  BY <1>4, <1>5, <1>8, <1>9, <1>10, <1>11 DEF WriterPacked, Packed

\* One that is refused leaves the partitions where they are.
LEMMA RejectLengthPacked ==
  ASSUME PackedInv, NEW d \in Parts, RejectLength(d)
  PROVE  WriterPacked'
<1>1. /\ TypeInv /\ mode = "w" /\ NoteOffsets
      /\ written' = written /\ wmeta' = wmeta /\ wdata' = wdata /\ windex' = windex
  BY DEF PackedInv, LoadedInv, CountInv, LayoutInv, RejectLength, Writable, writeState
<1>2. /\ cur \in Nat /\ cur = Len(written)
      /\ \A p \in 0 .. cur - 1 :
           moff'[p] = moff[p] /\ doff'[p] = doff[p] /\ ioff'[p] = ioff[p]
  BY <1>1, WriterFacts, NotedOffsets
<1>3. /\ Chain(moff, cur, 0, wmeta, MetaSizes) /\ Chain(doff, cur, 0, wdata, DataSizes)
      /\ Chain(ioff, cur, 0, windex, IndexSizes)
  BY <1>1, <1>2 DEF PackedInv, WriterPacked, Packed
<1>4. /\ Chain(moff', cur, 0, wmeta, MetaSizes) /\ Chain(doff', cur, 0, wdata, DataSizes)
      /\ Chain(ioff', cur, 0, windex, IndexSizes)
  BY <1>2, <1>3, ChainCopied
<1>5. MetaSizes' = MetaSizes /\ DataSizes' = DataSizes /\ IndexSizes' = IndexSizes
  BY <1>1 DEF MetaSizes, DataSizes, IndexSizes
<1>6. QED BY <1>1, <1>2, <1>4, <1>5 DEF WriterPacked, Packed

\* An empty file is packed.
LEMMA OpenWritePacked == OpenWrite => WriterPacked'
<1> SUFFICES ASSUME OpenWrite PROVE WriterPacked'
  OBVIOUS
<1>1. written' = <<>> /\ wmeta' = 0 /\ wdata' = 0 /\ windex' = 0 /\ Len(<<>>) = 0
  BY DEF OpenWrite, FreshStore
<1>2. QED BY <1>1 DEF WriterPacked, Packed, Chain

\* Behind the last entry of the metadata table the new format keeps its end.
LEMMA HeaderHoldsEnd ==
  ASSUME TypeInv, mode = "w", ~legacy
  PROVE  HeaderWords[4 + np] = wmeta + HeaderSize(np)
<1> DEFINE hs == HeaderSize(np)
           m == FinalTable(moff, hs, wmeta)
           t == FinalTable(doff, 0, wdata)
           x == FinalTable(ioff, 0, windex)
           n == Entries(np)
           ft == FirstTableWord
           e(i) == IF i = 1 THEN total ELSE IF i = 2 THEN psize
                   ELSE IF i < ft THEN np
                   ELSE IF i < ft + n THEN m[i - ft]
                   ELSE IF i < ft + 2 * n THEN t[i - ft - n]
                   ELSE x[i - ft - 2 * n]
<1>1. np \in Nat
  BY DEF TypeInv, TypeOK, HandleType
<1>2. n = np + 1 /\ ft = 4 /\ hs = 3 + 3 * n
  BY DEF Entries, FirstTableWord, HeaderSize
<1>3. m[np] = wmeta + hs
  <2>1. np \in 0 .. Entries(np) - 1 /\ ~(np < np)
    BY <1>1, <1>2
  <2> QED BY <2>1 DEF FinalTable
<1>4. HeaderWords = [i \in 1 .. hs |-> e(i)]
  BY DEF HeaderWords
<1> HIDE DEF m, t, x, n, hs, ft
<1>5. 4 + np \in 1 .. hs /\ e(4 + np) = m[np]
  <2>1. /\ 4 + np # 1 /\ 4 + np # 2 /\ ~(4 + np < ft) /\ 4 + np < ft + n
        /\ 4 + np - ft = np
    BY <1>1, <1>2
  <2> QED BY <1>1, <1>2, <2>1
<1>6. QED BY <1>3, <1>4, <1>5 DEF hs

\* A closed file is packed.
LEMMA CloseWritePacked ==
  ASSUME PackedInv, CloseWrite
  PROVE  SealedPacked'
<1>1. /\ LayoutInv /\ TypeInv /\ mode = "w" /\ header' = HeaderWords
      /\ metaFile' = tmpFile /\ UNCHANGED <<dataFile, indexFile, written, legacy>>
  BY DEF PackedInv, LoadedInv, CountInv, LayoutInv, CloseWrite
<1> DEFINE n == Len(written)
           hs == HeaderSize(np)
<1>2. /\ n \in Nat /\ np = n /\ hs \in Nat /\ Len(HeaderWords) = hs
      /\ wmeta \in Int /\ wdata \in Int /\ windex \in Int
      /\ \A p \in 0 .. n - 1 : moff[p] \in Int /\ doff[p] \in Int /\ ioff[p] \in Int
  BY <1>1, WriterFacts, HeaderWordsType DEF TypeInv, TypeOK, HandleType
<1>3. /\ wmeta = Len(tmpFile) /\ wdata = Len(dataFile) /\ windex = Len(indexFile)
      /\ Chain(moff, n, 0, wmeta, MetaSizes) /\ Chain(doff, n, 0, wdata, DataSizes)
      /\ Chain(ioff, n, 0, windex, IndexSizes)
  BY <1>1 DEF LayoutInv, WriterLayout, PackedInv, WriterPacked, Packed
<1>4. \A p \in 0 .. n - 1 :
        /\ HeaderTable(0)'[p] = moff[p] + hs
        /\ HeaderTable(1)'[p] = doff[p] /\ HeaderTable(2)'[p] = ioff[p]
  BY <1>1, <1>2, SealedTables
<1>5. MetaSizes' = MetaSizes /\ DataSizes' = DataSizes /\ IndexSizes' = IndexSizes
  BY <1>1 DEF MetaSizes, DataSizes, IndexSizes
<1> HIDE DEF hs
<1>6. Chain(HeaderTable(0)', n, hs, hs + wmeta, MetaSizes)
  <2>1. \A p \in 0 .. n - 1 : moff[p] \in Int /\ MetaSizes[p] \in Int
    <3>1. MetaSizes \in [0 .. n - 1 -> Nat]
      BY <1>1, SizesType
    <3>2. \A p \in 0 .. n - 1 : MetaSizes[p] \in Int
      BY <3>1
    <3> QED BY <1>2, <3>2
  <2>2. \A p \in 0 .. n - 1 : HeaderTable(0)'[p] = moff[p] + hs
    BY <1>4
  <2>3. Chain(HeaderTable(0)', n, 0 + hs, wmeta + hs, MetaSizes)
    <3>1. n \in Nat /\ hs \in Int /\ 0 \in Int /\ wmeta \in Int
      BY <1>2
    <3>2. Chain(moff, n, 0, wmeta, MetaSizes)
      BY <1>3
    <3> HIDE DEF n
    <3> QED BY <2>1, <2>2, <3>1, <3>2, ChainMoved
  <2>4. 0 + hs = hs /\ wmeta + hs = hs + wmeta
    BY <1>2
  <2> QED BY <2>3, <2>4
<1>7. Chain(HeaderTable(1)', n, 0, wdata, DataSizes)
  <2>1. \A p \in 0 .. n - 1 : HeaderTable(1)'[p] = doff[p]
    BY <1>4
  <2> QED BY <1>2, <1>3, <2>1, ChainCopied
<1>8. Chain(HeaderTable(2)', n, 0, windex, IndexSizes)
  <2>1. \A p \in 0 .. n - 1 : HeaderTable(2)'[p] = ioff[p]
    BY <1>4
  <2> QED BY <1>2, <1>3, <2>1, ChainCopied
<1>9. /\ Len(written)' = n /\ Len(header)' = hs /\ Len(metaFile)' = wmeta
      /\ Len(dataFile)' = wdata /\ Len(indexFile)' = windex
  BY <1>1, <1>2, <1>3
<1>10. FillsFiles(HeaderTable(0), HeaderTable(1), HeaderTable(2))'
  BY <1>5, <1>6, <1>7, <1>8, <1>9 DEF FillsFiles, Packed
<1>11. ~legacy' => header'[4 + Len(written')] = Len(header') + Len(metaFile')
  <2>1. ~legacy => HeaderWords[4 + np] = wmeta + hs
    BY <1>1, HeaderHoldsEnd DEF hs
  <2> QED BY <1>1, <1>2, <1>9, <2>1
<1>12. QED BY <1>10, <1>11 DEF SealedPacked

\* Nobody writes: the header and the files stay as they are.
LEMMA SealedStays ==
  ASSUME PackedInv, mode # "w", UNCHANGED <<disk, written, legacy>>
  PROVE  SealedPacked'
<1>1. /\ header' = header /\ metaFile' = metaFile /\ dataFile' = dataFile
      /\ indexFile' = indexFile /\ written' = written /\ legacy' = legacy
  BY DEF disk
<1>2. /\ MetaSizes' = MetaSizes /\ DataSizes' = DataSizes /\ IndexSizes' = IndexSizes
      /\ HeaderTable(0)' = HeaderTable(0) /\ HeaderTable(1)' = HeaderTable(1)
      /\ HeaderTable(2)' = HeaderTable(2)
  BY <1>1 DEF MetaSizes, DataSizes, IndexSizes, HeaderTable, Entries, FirstTableWord
<1>3. QED
  BY <1>1, <1>2 DEF PackedInv, SealedPacked, FillsFiles, Packed

\* A loaded table stays packed while it and the files do.
LEMMA LoadedPackedStays ==
  ASSUME PackedInv, UNCHANGED <<disk, written, legacy, mode, loaded, gmeta, table>>
  PROVE  LoadedPacked'
<1>1. MetaSizes' = MetaSizes /\ DataSizes' = DataSizes /\ IndexSizes' = IndexSizes
  BY DEF MetaSizes, DataSizes, IndexSizes
<1>2. QED
  BY <1>1 DEF PackedInv, LoadedPacked, FillsFiles, Packed, disk, gmeta, table

\* The tables a reader uses, loaded before or by the call it makes: every
\* entry it looks up exists, locates its partition, and follows the entry
\* before it.
LEMMA TablesRight ==
  ASSUME PackedInv, mode = "r", ~DividesByZero
  PROVE  /\ Count = Len(written) /\ Len(written) \in Nat
         /\ TablesLocate(metaFile, Len(header), MetaTable, DataTable, IndexTable)
         /\ FillsFiles(MetaTable, DataTable, IndexTable)
         /\ ~legacy => MetaTable[Len(written)] = Len(header) + Len(metaFile)
         /\ \A p \in 0 .. Len(written) :
              (p < Len(written) \/ ~legacy) =>
                /\ p \in DOMAIN MetaTable /\ p \in DOMAIN DataTable
                /\ p \in DOMAIN IndexTable
                /\ MetaTable[p] \in Int /\ DataTable[p] \in Int /\ IndexTable[p] \in Int
<1> DEFINE n == Len(written)
           mend == Len(header) + Len(metaFile)
<1>1. TypeInv /\ header # <<>> /\ header \in Seq(Int) /\ n \in Nat
  BY SizesType DEF PackedInv, LoadedInv, CountInv, LayoutInv, TypeInv, TypeOK, DiskType,
     LockInv
<1>2. CASE loaded
  <2>1. /\ MetaTable = moff /\ DataTable = doff /\ IndexTable = ioff /\ Count = np
    BY <1>2 DEF MetaTable, DataTable, IndexTable, Count
  <2>2. /\ np = n /\ np <= capacity
        /\ TablesLocate(metaFile, Len(header), moff, doff, ioff)
        /\ FillsFiles(moff, doff, ioff)
        /\ ~legacy => n < capacity /\ moff[n] = mend
    BY <1>2 DEF PackedInv, LoadedInv, LoadedLayout, LoadedPacked
  <2>3. /\ moff \in [0 .. capacity - 1 -> Int] /\ doff \in [0 .. capacity - 1 -> Int]
        /\ ioff \in [0 .. capacity - 1 -> Int] /\ capacity \in Nat
    BY <1>1 DEF TypeInv, TypeOK, TableType
  <2>4. \A p \in 0 .. n :
          (p < n \/ ~legacy) => /\ p \in DOMAIN moff /\ p \in DOMAIN doff
                                /\ p \in DOMAIN ioff
                                /\ moff[p] \in Int /\ doff[p] \in Int /\ ioff[p] \in Int
    <3>1. ASSUME NEW p \in 0 .. n, p < n \/ ~legacy
          PROVE  p \in 0 .. capacity - 1
      <4>1. n <= capacity /\ (~legacy => n < capacity)
        BY <2>2
      <4> HIDE DEF n
      <4> QED BY <1>1, <2>3, <3>1, <4>1
    <3> QED BY <2>3, <3>1
  <2> QED BY <1>1, <2>1, <2>2, <2>4
<1>3. CASE ~loaded
  <2>1. /\ MetaTable = LoadTable(0) /\ DataTable = LoadTable(1) /\ IndexTable = LoadTable(2)
        /\ Count = HeaderCount
    BY <1>3 DEF MetaTable, DataTable, IndexTable, Count
  <2>2. /\ HeaderCount = n /\ LoadCapacity \in Nat /\ HeaderCount <= LoadCapacity
        /\ TablesLocate(metaFile, Len(header), LoadTable(0), LoadTable(1), LoadTable(2))
        /\ \A k \in {0, 1, 2} : \A p \in 0 .. n - 1 : LoadTable(k)[p] = HeaderTable(k)[p]
        /\ ~legacy => n < LoadCapacity /\ LoadTable(0)[n] = header[4 + n]
    BY <1>3, LoadFindsTables DEF PackedInv, LoadedInv
  <2>3. /\ FillsFiles(HeaderTable(0), HeaderTable(1), HeaderTable(2))
        /\ ~legacy => header[4 + n] = mend
    BY <1>1 DEF PackedInv, SealedPacked
  <2>4. FillsFiles(LoadTable(0), LoadTable(1), LoadTable(2))
    <3>1. /\ \A p \in 0 .. n - 1 : LoadTable(0)[p] = HeaderTable(0)[p]
          /\ \A p \in 0 .. n - 1 : LoadTable(1)[p] = HeaderTable(1)[p]
          /\ \A p \in 0 .. n - 1 : LoadTable(2)[p] = HeaderTable(2)[p]
      BY <2>2
    <3>2. /\ Chain(HeaderTable(0), n, Len(header), mend, MetaSizes)
          /\ Chain(HeaderTable(1), n, 0, Len(dataFile), DataSizes)
          /\ Chain(HeaderTable(2), n, 0, Len(indexFile), IndexSizes)
      BY <2>3 DEF FillsFiles, Packed
    <3> HIDE DEF mend
    <3>3. Chain(LoadTable(0), n, Len(header), mend, MetaSizes)
      <4>1. /\ \A p \in 0 .. n - 1 : LoadTable(0)[p] = HeaderTable(0)[p]
            /\ Chain(HeaderTable(0), n, Len(header), mend, MetaSizes)
        BY <3>1, <3>2
      <4>2. n \in Nat
        BY <1>1
      <4> HIDE DEF n
      <4> QED BY <4>1, <4>2, ChainCopied
    <3>4. Chain(LoadTable(1), n, 0, Len(dataFile), DataSizes)
      <4>1. /\ \A p \in 0 .. n - 1 : LoadTable(1)[p] = HeaderTable(1)[p]
            /\ Chain(HeaderTable(1), n, 0, Len(dataFile), DataSizes)
        BY <3>1, <3>2
      <4>2. n \in Nat
        BY <1>1
      <4> HIDE DEF n
      <4> QED BY <4>1, <4>2, ChainCopied
    <3>5. Chain(LoadTable(2), n, 0, Len(indexFile), IndexSizes)
      <4>1. /\ \A p \in 0 .. n - 1 : LoadTable(2)[p] = HeaderTable(2)[p]
            /\ Chain(HeaderTable(2), n, 0, Len(indexFile), IndexSizes)
        BY <3>1, <3>2
      <4>2. n \in Nat
        BY <1>1
      <4> HIDE DEF n
      <4> QED BY <4>1, <4>2, ChainCopied
    <3> QED BY <3>3, <3>4, <3>5 DEF FillsFiles, Packed, mend
  <2>5. \A p \in 0 .. n :
          (p < n \/ ~legacy) => \A k \in {0, 1, 2} : /\ p \in DOMAIN LoadTable(k)
                                                     /\ LoadTable(k)[p] \in Int
    <3>1. \A i : Word(i) \in Int
      BY <1>1, ElementOfSeq DEF Word, Undef
    <3>2. \A k : LoadTable(k) \in [0 .. LoadCapacity - 1 -> Int]
      BY <3>1 DEF LoadTable, Undef
    <3>3. ASSUME NEW p \in 0 .. n, p < n \/ ~legacy
          PROVE  p \in 0 .. LoadCapacity - 1
      BY <1>1, <2>2, <3>3
    <3> QED BY <3>2, <3>3
  <2> QED BY <1>1, <2>1, <2>2, <2>3, <2>4, <2>5
<1>4. QED BY <1>2, <1>3

\* A call that loads the global metadata, or has it already.
LEMMA LoadingKeepsPacked ==
  ASSUME PackedInv, mode = "r", ~DividesByZero, EnsureLoaded,
         UNCHANGED <<disk, written, legacy>>
  PROVE  LoadedPacked'
<1>1. /\ header' = header /\ metaFile' = metaFile /\ dataFile' = dataFile
      /\ indexFile' = indexFile /\ written' = written /\ legacy' = legacy
      /\ MetaSizes' = MetaSizes /\ DataSizes' = DataSizes /\ IndexSizes' = IndexSizes
  BY DEF disk, MetaSizes, DataSizes, IndexSizes
<1>2. moff' = MetaTable /\ doff' = DataTable /\ ioff' = IndexTable
  BY DEF EnsureLoaded
<1>3. /\ FillsFiles(MetaTable, DataTable, IndexTable)
      /\ ~legacy => MetaTable[Len(written)] = Len(header) + Len(metaFile)
      /\ ~legacy => Len(written) \in DOMAIN MetaTable
      /\ Len(written) \in Nat
  BY TablesRight
<1>4. FillsFiles(moff, doff, ioff)'
  BY <1>1, <1>2, <1>3 DEF FillsFiles, Packed
<1>5. ~legacy' => Len(written') < capacity'
  <2>1. TypeInv
    BY DEF PackedInv, LoadedInv, CountInv, LayoutInv
  <2>2. TableType'
    BY <2>1, LoadedIsTyped
  <2>3. DOMAIN MetaTable = 0 .. capacity' - 1 /\ capacity' \in Nat
    BY <1>2, <2>2 DEF TableType
  <2> QED BY <1>1, <1>3, <2>3
<1>6. QED BY <1>1, <1>2, <1>3, <1>4, <1>5 DEF LoadedPacked

\* Every step keeps the partitions packed.
LEMMA PackedInvStep == AnyLength = FALSE /\ PackedInv /\ [Next]_vars => PackedInv'
<1> SUFFICES ASSUME AnyLength = FALSE, PackedInv, [Next]_vars
             PROVE  WriterPacked' /\ SealedPacked' /\ LoadedPacked'
  BY LoadedInvStep DEF PackedInv
<1>1. TypeInv
  BY DEF PackedInv, LoadedInv, CountInv, LayoutInv
<1>2. CASE OpenWrite
  <2>1. mode' = "w" /\ WriterPacked'
    BY <1>2, OpenWritePacked DEF OpenWrite
  <2> QED BY <2>1 DEF SealedPacked, LoadedPacked
<1>3. CASE \E d \in Parts : WritePartition(d)
  <2>1. mode' = "w" /\ WriterPacked'
    BY <1>3, WritePartitionPacked DEF WritePartition, Writable
  <2> QED BY <2>1 DEF SealedPacked, LoadedPacked
<1>4. CASE \E d \in Parts : RejectLength(d)
  <2>1. mode' = "w" /\ WriterPacked'
    BY <1>4, RejectLengthPacked DEF RejectLength, Writable
  <2> QED BY <2>1 DEF SealedPacked, LoadedPacked
<1>5. CASE CloseWrite
  <2>1. mode' = "closed" /\ SealedPacked'
    BY <1>5, CloseWritePacked DEF CloseWrite
  <2> QED BY <2>1 DEF WriterPacked, LoadedPacked
<1>6. CASE ReaderStep
  <2>1. mode # "w" /\ mode' # "w" /\ UNCHANGED <<disk, written, legacy>>
    BY <1>1, <1>6, ReaderStepFrame
  <2>2. WriterPacked' /\ SealedPacked'
    BY <2>1, SealedStays DEF WriterPacked
  <2>3. LoadedPacked'
    <3>1. CASE OpenRead \/ ProcessDies \/ CloseRead
      <4>1. loaded' = FALSE
        BY <3>1 DEF OpenRead, ProcessDies, CloseRead, FreshStore
      <4> QED BY <4>1 DEF LoadedPacked
    <3>2. CASE GetGlobalMetadata \/ StoreEOF \/ ReadPartition \/ OpenPartition
      <4>1. mode = "r" /\ ~DividesByZero /\ EnsureLoaded
        BY <3>2 DEF GetGlobalMetadata, StoreEOF, ReadPartition, OpenPartition,
           CanLoad, CanAdvance
      <4> QED BY <2>1, <4>1, LoadingKeepsPacked
    <3>3. CASE \/ ReadMetadata \/ ClosePartition
               \/ \E lo, hi \in BinIds : ReadDataBins(lo, hi)
               \/ \E lo, hi \in BinIds : ReadIndexBins(lo, hi)
      <4>1. UNCHANGED <<mode, loaded, gmeta, table>>
        BY <3>3 DEF ReadMetadata, ClosePartition, ReadDataBins, ReadIndexBins
      <4> QED BY <2>1, <4>1, LoadedPackedStays
    <3> QED BY <1>6, <3>1, <3>2, <3>3 DEF ReaderStep
  <2> QED BY <2>2, <2>3
<1>7. CASE UNCHANGED vars \/ WriterEOF \/ \E call \in Calls : Refuse(call)
  <2>1. UNCHANGED <<disk, written, legacy, mode, loaded, gmeta, table, writeState>>
    BY <1>7 DEF vars, Refuse, WriterEOF
  <2>2. LoadedPacked'
    BY <2>1, LoadedPackedStays
  <2>3. CASE mode = "w"
    <3>1. MetaSizes' = MetaSizes /\ DataSizes' = DataSizes /\ IndexSizes' = IndexSizes
      BY <2>1 DEF MetaSizes, DataSizes, IndexSizes
    <3>2. WriterPacked'
      BY <2>1, <2>3, <3>1 DEF PackedInv, WriterPacked, Packed, table, writeState
    <3>3. SealedPacked'
      BY <2>1, <2>3 DEF SealedPacked
    <3> QED BY <2>2, <3>2, <3>3
  <2>4. CASE mode # "w"
    <3>1. SealedPacked' /\ WriterPacked'
      BY <2>1, <2>4, SealedStays DEF WriterPacked
    <3> QED BY <2>2, <3>1
  <2> QED BY <2>3, <2>4
<1>8. QED
  BY <1>2, <1>3, <1>4, <1>5, <1>6, <1>7 DEF Next, ReaderStep
-------------------------------------------------------------------------------
(* What a read returns that starts where the tables say.                   *)

\* A read inside a located partition returns that part of it.
LEMMA ReadsRegion ==
  ASSUME NEW file \in Seq(Cell), NEW off \in Int, NEW p \in Nat, NEW n \in Nat,
         NEW from \in Nat, NEW to \in Nat, from <= to, to <= n,
         Located(file, off, p, n)
  PROVE  FRead(file, off + from, to - from) = Region(p, from, to)
<1> DEFINE r == FRead(file, off + from, to - from)
           g == Region(p, from, to)
<1>1. off >= 0 /\ off + n <= Len(file) /\ \A k \in 1 .. n : file[off + k] = <<p, k - 1>>
  BY DEF Located
<1>2. off + from \in Nat /\ to - from \in Nat /\ off + from + (to - from) <= Len(file)
  BY <1>1, LenProperties
<1>3. /\ Len(r) = to - from
      /\ \A k \in 1 .. to - from : r[k] = file[off + from + k]
  BY <1>2, FReadInside
<1>4. r \in Seq(Cell)
  BY <1>2, FReadType
<1>5. /\ g \in Seq(Cell) /\ Len(g) = to - from
      /\ \A k \in 1 .. to - from : g[k] = <<p, from + k - 1>>
  BY RegionType
<1> HIDE DEF r, g
<1>6. ASSUME NEW k \in 1 .. to - from PROVE r[k] = g[k]
  <2>1. from + k \in 1 .. n /\ off + (from + k) = off + from + k
    OBVIOUS
  <2>2. file[off + (from + k)] = <<p, (from + k) - 1>>
    <3>1. PICK i \in 1 .. n : i = from + k
      BY <2>1
    <3>2. file[off + i] = <<p, i - 1>>
      BY <1>1
    <3> QED BY <3>1, <3>2
  <2>3. r[k] = file[off + (from + k)]
    BY <1>3, <2>1
  <2> QED BY <1>5, <2>2, <2>3
<1>7. r = g
  BY <1>3, <1>4, <1>5, <1>6, SeqEqual
<1>8. QED BY <1>7 DEF r, g

\* Asking for more than is left returns what is left.
LEMMA ReadsToTheEnd ==
  ASSUME NEW file \in Seq(Cell), NEW pos \in Int, NEW n \in Nat, NEW m \in Nat,
         m <= n, pos + m = Len(file)
  PROVE  FRead(file, pos, n) = FRead(file, pos, m)
<1>1. Len(file) \in Nat
  BY LenProperties
<1>2. (IF pos + n <= Len(file) THEN pos + n ELSE Len(file)) = Len(file)
  BY <1>1
<1>3. (IF pos + m <= Len(file) THEN pos + m ELSE Len(file)) = Len(file)
  BY <1>1
<1>4. QED BY <1>2, <1>3 DEF FRead

\* The metadata of a partition is recognized.
LEMMA Recognized ==
  ASSUME TypeInv, NEW p \in 0 .. Len(written) - 1
  PROVE  Deserialize(Region(p, 0, written[p + 1].metaSize)) = p
<1> DEFINE ms == written[p + 1].metaSize
           g == Region(p, 0, ms)
<1>1. p \in Nat /\ ms \in Nat \ {0} /\ 0 \in Nat /\ 0 <= ms
  <2>1. written[p + 1] \in Parts /\ Len(written) \in Nat
    BY WrittenPart, SizesType
  <2> QED BY <2>1, PartitionSizes
<1> HIDE DEF ms
<1>2. /\ g \in Seq(Cell) /\ Len(g) = ms - 0
      /\ \A k \in 1 .. (ms - 0) : g[k] = <<p, 0 + k - 1>>
  BY <1>1, RegionType
<1>3. 1 \in 1 .. (ms - 0) /\ ms - 0 = ms
  BY <1>1
<1>4. g[1] = <<p, 0 + 1 - 1>>
  BY <1>2, <1>3
<1>5. g[1][1] = p /\ g[1][2] = 0
  BY <1>4
<1>6. g # <<>> /\ Len(g) = ms
  <2>1. Len(g) = ms /\ ms # 0 /\ Len(<<>>) = 0
    BY <1>1, <1>2, <1>3
  <2> QED BY <2>1
<1> HIDE DEF g
<1>7. Deserialize(g) = p
  BY <1>1, <1>5, <1>6 DEF Deserialize, ms
<1>8. QED BY <1>7 DEF g, ms

\* A reader that stands on the metadata of partition p reads it, whole.
LEMMA ReadsMetadata ==
  ASSUME PackedInv, mode = "r", ~DividesByZero, NEW p \in 0 .. Len(written) - 1
  PROVE  /\ FReadMeta(MetaTable[p], MetaLength(p)) = Region(p, 0, written[p + 1].metaSize)
         /\ Deserialize(FReadMeta(MetaTable[p], MetaLength(p))) = p
<1> DEFINE n == Len(written)
           ms == written[p + 1].metaSize
           off == MetaTable[p] - Len(header)
<1>1. /\ TypeInv /\ n \in Nat /\ p \in Nat /\ p < n
      /\ metaFile \in Seq(Cell) /\ Len(metaFile) \in Nat /\ Len(header) \in Nat
  BY SizesType, LenProperties DEF PackedInv, LoadedInv, CountInv, LayoutInv, TypeInv, TypeOK,
     DiskType
<1>2. ms \in Nat
  BY <1>1, WrittenSizes
<1>3. /\ Count = n /\ Located(metaFile, off, p, ms)
      /\ Chain(MetaTable, n, Len(header), Len(header) + Len(metaFile), MetaSizes)
      /\ ~legacy => MetaTable[n] = Len(header) + Len(metaFile)
  BY TablesRight DEF TablesLocate, FillsFiles, Packed
<1>4. /\ MetaTable[p] \in Int /\ At(MetaTable, p) = MetaTable[p]
      /\ p < n - 1 \/ ~legacy => At(MetaTable, p + 1) = MetaTable[p + 1]
  <2>1. \A i \in 0 .. n : (i < n \/ ~legacy) => i \in DOMAIN MetaTable /\ MetaTable[i] \in Int
    BY TablesRight
  <2>2. p \in 0 .. n /\ p + 1 \in 0 .. n /\ (p < n - 1 => p + 1 < n)
    BY <1>1
  <2>3. MetaTable[p] \in Int /\ p \in DOMAIN MetaTable
    BY <1>1, <2>1, <2>2
  <2>4. p < n - 1 \/ ~legacy => p + 1 \in DOMAIN MetaTable
    <3>1. p < n - 1 \/ ~legacy => p + 1 < n \/ ~legacy
      BY <2>2
    <3> QED BY <2>1, <2>2, <3>1
  <2> HIDE DEF n
  <2> QED BY <2>3, <2>4 DEF At
<1>5. MetaTable[p] + ms = IF p = n - 1 THEN Len(header) + Len(metaFile) ELSE MetaTable[p + 1]
  <2>1. MetaSizes[p] = ms /\ p \in 0 .. n - 1 /\ n # 0
    BY <1>1 DEF MetaSizes
  <2> HIDE DEF n, ms
  <2> QED BY <1>3, <2>1 DEF Chain
<1>6. FRead(metaFile, off, MetaLength(p)) = FRead(metaFile, off, ms)
  <2>1. CASE legacy /\ p = n - 1
    <3>1. MetaLength(p) = Len(metaFile)
      BY <1>3, <2>1 DEF MetaLength
    <3>2. off \in Int /\ off + ms = Len(metaFile) /\ off >= 0
      BY <1>1, <1>2, <1>3, <1>4, <1>5, <2>1 DEF Located
    <3>3. ms <= Len(metaFile)
      BY <1>1, <1>2, <3>2
    <3> HIDE DEF off, ms
    <3> QED BY <1>1, <1>2, <3>1, <3>2, <3>3, ReadsToTheEnd
  <2>2. CASE ~(legacy /\ p = n - 1)
    <3>1. MetaLength(p) = At(MetaTable, p + 1) - At(MetaTable, p)
      BY <1>3, <2>2 DEF MetaLength
    <3>2. At(MetaTable, p + 1) = MetaTable[p] + ms
      <4>1. CASE p = n - 1
        <5>1. ~legacy /\ p + 1 = n
          BY <1>1, <2>2, <4>1
        <5> HIDE DEF n, ms
        <5> QED BY <1>3, <1>4, <1>5, <4>1, <5>1
      <4>2. CASE p # n - 1
        <5>1. p < n - 1
          BY <1>1, <4>2
        <5> HIDE DEF n, ms
        <5> QED BY <1>4, <1>5, <4>2, <5>1
      <4> QED BY <4>1, <4>2
    <3>3. MetaLength(p) = ms
      BY <1>2, <1>4, <3>1, <3>2
    <3> QED BY <3>3
  <2> QED BY <2>1, <2>2
<1>7. FRead(metaFile, off, ms) = Region(p, 0, ms)
  <2>1. off \in Int /\ off + 0 = off /\ ms - 0 = ms /\ 0 \in Nat /\ 0 <= ms /\ ms <= ms
    BY <1>1, <1>2, <1>4
  <2> HIDE DEF off, ms
  <2>2. FRead(metaFile, off + 0, ms - 0) = Region(p, 0, ms)
    BY <1>1, <1>2, <1>3, <2>1, ReadsRegion
  <2> QED BY <2>1, <2>2
<1>8. FReadMeta(MetaTable[p], MetaLength(p)) = Region(p, 0, ms)
  BY <1>6, <1>7 DEF FReadMeta
<1>9. QED BY <1>1, <1>8, Recognized
-------------------------------------------------------------------------------
(* The file pointers stand on the next partition.                          *)

\* The index pointer only if no partition is ever opened: closing a
\* partition store does not put it back.
NextInPlace ==
  mode = "r" =>
    /\ ~loaded => cur = 0 /\ dpos = 0 /\ ipos = 0
    /\ (loaded /\ ~excl /\ cur < np) =>
         /\ mpos = moff[cur] /\ dpos = doff[cur]
         /\ "OpenPartition" \notin style => ipos = ioff[cur]
    /\ ps.open => "OpenPartition" \in style

PositionInv == PackedInv /\ NextInPlace

\* A reader stands on the next partition in each of its files.
LEMMA StandsOnNext ==
  ASSUME PositionInv, mode = "r", ~excl, ~DividesByZero, cur < Len(written)
  PROVE  /\ MetaPos = MetaTable[cur] /\ dpos = DataTable[cur]
         /\ "OpenPartition" \notin style => ipos = IndexTable[cur]
<1>1. PackedInv /\ NextInPlace
  BY DEF PositionInv
<1>2. CASE loaded
  <2>1. np = Len(written)
    BY <1>1, <1>2 DEF PackedInv, LoadedInv, LoadedLayout
  <2> QED
    BY <1>1, <1>2, <2>1 DEF NextInPlace, MetaPos, MetaTable, DataTable, IndexTable
<1>3. CASE ~loaded
  <2>1. cur = 0 /\ dpos = 0 /\ ipos = 0
    BY <1>1, <1>3 DEF NextInPlace
  <2>2. Len(written) # 0
    BY <2>1
  <2>3. header # <<>> /\ Len(header) = HeaderSize(Len(written))
    BY <1>1 DEF PackedInv, LoadedInv, CountInv, LayoutInv, SealedLayout, TypeInv, LockInv
  <2>4. MetaTable[0] = Len(header) /\ DataTable[0] = 0 /\ IndexTable[0] = 0
    BY <1>1, <2>2, TablesRight DEF FillsFiles, Packed, Chain
  <2>5. MetaPos = HeaderSize(Len(written))
    BY <1>1, <1>3, LoadFindsTables DEF PackedInv, LoadedInv, MetaPos
  <2> QED BY <2>1, <2>3, <2>4, <2>5
<1>4. QED BY <1>2, <1>3

\* Each partition ends where the next one begins.
LEMMA NextBegins ==
  ASSUME PackedInv, mode = "r", ~DividesByZero, NEW p \in Nat, p + 1 < Len(written)
  PROVE  /\ MetaTable[p] + written[p + 1].metaSize = MetaTable[p + 1]
         /\ DataTable[p] + DataSize(written[p + 1]) = DataTable[p + 1]
         /\ IndexTable[p] + IndexSize(written[p + 1]) = IndexTable[p + 1]
<1> DEFINE n == Len(written)
<1>1. /\ n \in Nat
      /\ Chain(MetaTable, n, Len(header), Len(header) + Len(metaFile), MetaSizes)
      /\ Chain(DataTable, n, 0, Len(dataFile), DataSizes)
      /\ Chain(IndexTable, n, 0, Len(indexFile), IndexSizes)
  BY TablesRight DEF FillsFiles, Packed
<1>2. p \in 0 .. n - 1 /\ p # n - 1 /\ n # 0
  BY <1>1
<1>3. /\ MetaSizes[p] = written[p + 1].metaSize /\ DataSizes[p] = DataSize(written[p + 1])
      /\ IndexSizes[p] = IndexSize(written[p + 1])
  BY <1>2 DEF MetaSizes, DataSizes, IndexSizes
<1> HIDE DEF n
<1>4. /\ MetaTable[p] + MetaSizes[p] = MetaTable[p + 1]
      /\ DataTable[p] + DataSizes[p] = DataTable[p + 1]
      /\ IndexTable[p] + IndexSizes[p] = IndexTable[p + 1]
  BY <1>1, <1>2 DEF Chain
<1>5. QED BY <1>3, <1>4

\* Bytes from .. to of the data or index of a located partition.
LEMMA ReadsStream ==
  ASSUME PackedInv, mode = "r", ~DividesByZero, NEW p \in 0 .. Len(written) - 1,
         NEW from \in Nat, NEW to \in Nat, from <= to
  PROVE  /\ to <= DataSize(written[p + 1]) =>
              FRead(dataFile, DataTable[p] + from, to - from) = Region(p, from, to)
         /\ to <= IndexSize(written[p + 1]) =>
              FRead(indexFile, IndexTable[p] + from, to - from) = Region(p, from, to)
<1>1. /\ TypeInv /\ Len(written) \in Nat /\ p \in Nat
      /\ dataFile \in Seq(Cell) /\ indexFile \in Seq(Cell)
  BY SizesType DEF PackedInv, LoadedInv, CountInv, LayoutInv, TypeInv, TypeOK, DiskType
<1>2. /\ DataSize(written[p + 1]) \in Nat /\ IndexSize(written[p + 1]) \in Nat
  BY <1>1, WrittenSizes
<1>3. /\ Located(dataFile, DataTable[p], p, DataSize(written[p + 1]))
      /\ Located(indexFile, IndexTable[p], p, IndexSize(written[p + 1]))
  BY TablesRight DEF TablesLocate
<1>4. DataTable[p] \in Int /\ IndexTable[p] \in Int
  <2>1. p \in 0 .. Len(written) /\ p < Len(written)
    BY <1>1
  <2> QED BY <2>1, TablesRight
<1>5. ASSUME to <= DataSize(written[p + 1])
      PROVE  FRead(dataFile, DataTable[p] + from, to - from) = Region(p, from, to)
  <2> DEFINE off == DataTable[p]
             n == DataSize(written[p + 1])
  <2>1. /\ dataFile \in Seq(Cell) /\ off \in Int /\ p \in Nat /\ n \in Nat /\ to <= n
        /\ Located(dataFile, off, p, n)
    BY <1>1, <1>2, <1>3, <1>4, <1>5
  <2> HIDE DEF off, n
  <2>2. FRead(dataFile, off + from, to - from) = Region(p, from, to)
    BY <2>1, ReadsRegion
  <2> QED BY <2>2 DEF off
<1>6. ASSUME to <= IndexSize(written[p + 1])
      PROVE  FRead(indexFile, IndexTable[p] + from, to - from) = Region(p, from, to)
  <2> DEFINE off == IndexTable[p]
             n == IndexSize(written[p + 1])
  <2>1. /\ indexFile \in Seq(Cell) /\ off \in Int /\ p \in Nat /\ n \in Nat /\ to <= n
        /\ Located(indexFile, off, p, n)
    BY <1>1, <1>2, <1>3, <1>4, <1>6
  <2> HIDE DEF off, n
  <2>2. FRead(indexFile, off + from, to - from) = Region(p, from, to)
    BY <2>1, ReadsRegion
  <2> QED BY <2>2 DEF off
<1>7. QED BY <1>5, <1>6

\* A partition that is taken is delivered as it was written, but for an
\* index read behind a pointer that a closed partition store left.
LEMMA TakesWhole ==
  ASSUME PositionInv, ReadPartition, cur < Len(written)
  PROVE  LET d == written[cur + 1]
         IN  /\ got' = [Result("ReadPartition", "None") EXCEPT
                          !.num = cur,
                          !.meta = Region(cur, 0, d.metaSize),
                          !.data = Region(cur, 0, DataSize(d)),
                          !.index = FRead(indexFile, ipos, IndexSize(d))]
             /\ "OpenPartition" \notin style =>
                  FRead(indexFile, ipos, IndexSize(d)) = Region(cur, 0, IndexSize(d))
             /\ cur + 1 < Len(written) =>
                  /\ mpos' = MetaTable[cur + 1] /\ dpos' = DataTable[cur + 1]
                  /\ "OpenPartition" \notin style => ipos' = IndexTable[cur + 1]
<1> DEFINE d == written[cur + 1]
           meta == FReadMeta(MetaPos, MetaLength(cur))
           q == Deserialize(meta)
           data == FRead(dataFile, dpos, DataSize(written[q + 1]))
           index == FRead(indexFile, ipos, IndexSize(written[q + 1]))
<1>1. mode = "r" /\ ~excl /\ ~DividesByZero
  BY DEF ReadPartition, CanAdvance
<1>2. PackedInv /\ TypeInv /\ cur \in Nat /\ cur \in 0 .. Len(written) - 1
  <2>1. PackedInv /\ TypeInv /\ cur \in Nat
    BY DEF PositionInv, PackedInv, LoadedInv, CountInv, LayoutInv, TypeInv, TypeOK, HandleType
  <2> QED BY <2>1, SizesType
<1>3. /\ MetaPos = MetaTable[cur] /\ dpos = DataTable[cur]
      /\ "OpenPartition" \notin style => ipos = IndexTable[cur]
  BY <1>1, StandsOnNext
<1>4. /\ d.metaSize \in Nat /\ DataSize(d) \in Nat /\ IndexSize(d) \in Nat
      /\ DataTable[cur] \in Int /\ IndexTable[cur] \in Int /\ MetaTable[cur] \in Int
  <2>1. cur \in 0 .. Len(written)
    BY <1>2
  <2> QED BY <1>1, <1>2, <2>1, WrittenSizes, TablesRight
<1>5. meta = Region(cur, 0, d.metaSize) /\ q = cur
  BY <1>1, <1>2, <1>3, ReadsMetadata
<1>6. /\ FRead(dataFile, DataTable[cur] + 0, DataSize(d) - 0) = Region(cur, 0, DataSize(d))
      /\ FRead(indexFile, IndexTable[cur] + 0, IndexSize(d) - 0)
           = Region(cur, 0, IndexSize(d))
  BY <1>1, <1>2, <1>4, ReadsStream
<1>7. /\ DataTable[cur] + 0 = DataTable[cur] /\ IndexTable[cur] + 0 = IndexTable[cur]
      /\ DataSize(d) - 0 = DataSize(d) /\ IndexSize(d) - 0 = IndexSize(d)
      /\ q # Garbage
  BY <1>2, <1>4, <1>5 DEF Garbage
<1>8. data = Region(cur, 0, DataSize(d)) /\ index = FRead(indexFile, ipos, IndexSize(d))
  BY <1>3, <1>5, <1>6, <1>7
<1>9. "OpenPartition" \notin style => index = Region(cur, 0, IndexSize(d))
  BY <1>3, <1>6, <1>7, <1>8
<1>10. /\ got' = [Result("ReadPartition", "None") EXCEPT
                    !.num = cur, !.meta = meta, !.data = data, !.index = index]
       /\ mpos' = MetaPos + Len(meta) /\ dpos' = dpos + Len(data)
       /\ ipos' = ipos + Len(index)
  BY <1>7 DEF ReadPartition
<1>11. /\ Len(Region(cur, 0, d.metaSize)) = d.metaSize
       /\ Len(Region(cur, 0, DataSize(d))) = DataSize(d)
       /\ Len(Region(cur, 0, IndexSize(d))) = IndexSize(d)
  <2>1. \A n \in Nat : Len(Region(cur, 0, n)) = n
    <3> SUFFICES ASSUME NEW n \in Nat PROVE Len(Region(cur, 0, n)) = n
      OBVIOUS
    <3>1. 0 \in Nat /\ 0 <= n /\ n - 0 = n
      OBVIOUS
    <3> QED BY <1>2, <3>1, RegionType
  <2> QED BY <1>4, <2>1
<1>12. cur + 1 < Len(written) =>
         /\ MetaTable[cur] + d.metaSize = MetaTable[cur + 1]
         /\ DataTable[cur] + DataSize(d) = DataTable[cur + 1]
         /\ IndexTable[cur] + IndexSize(d) = IndexTable[cur + 1]
  BY <1>1, <1>2, NextBegins
<1> HIDE DEF meta, q, data, index
<1>13. QED BY <1>3, <1>5, <1>8, <1>9, <1>10, <1>11, <1>12

\* Every step keeps the positions.
LEMMA PositionInvStep == AnyLength = FALSE /\ PositionInv /\ [Next]_vars => PositionInv'
<1> SUFFICES ASSUME AnyLength = FALSE, PositionInv, [Next]_vars PROVE NextInPlace'
  BY PackedInvStep DEF PositionInv
<1>1. /\ PackedInv /\ NextInPlace /\ TypeInv
      /\ ps.open = excl /\ (excl => mode = "r" /\ loaded)
  BY DEF PositionInv, PackedInv, LoadedInv, CountInv, LayoutInv, TypeInv, LockInv
<1>2. CASE OpenWrite \/ CloseWrite \/ ProcessDies \/ CloseRead \/ WriterEOF
  <2>1. mode' # "r"
    BY <1>2 DEF OpenWrite, CloseWrite, ProcessDies, CloseRead, WriterEOF
  <2> QED BY <2>1 DEF NextInPlace
<1>3. CASE \E d \in Parts : WritePartition(d) \/ RejectLength(d)
  <2>1. mode' # "r"
    BY <1>3 DEF WritePartition, RejectLength, Writable
  <2> QED BY <2>1 DEF NextInPlace
<1>4. CASE OpenRead
  <2>1. loaded' = FALSE /\ cur' = 0 /\ dpos' = 0 /\ ipos' = 0 /\ ps'.open = FALSE
    BY <1>4 DEF OpenRead, FreshStore, NoPartitionStore
  <2> QED BY <2>1 DEF NextInPlace
<1>5. CASE GetGlobalMetadata \/ StoreEOF
  <2>1. /\ mode = "r" /\ ~DividesByZero /\ EnsureLoaded /\ (loaded \/ ~excl)
        /\ mpos' = MetaPos /\ cur' = cur /\ excl' = excl /\ dpos' = dpos /\ ipos' = ipos
        /\ ps' = ps /\ style' = style
    BY <1>5 DEF GetGlobalMetadata, StoreEOF, CanLoad
  <2>2. /\ loaded' = TRUE /\ np' = Count /\ moff' = MetaTable /\ doff' = DataTable
        /\ ioff' = IndexTable /\ Count = Len(written)
    BY <1>1, <2>1, TablesRight DEF EnsureLoaded
  <2>3. (~excl /\ cur < Len(written)) =>
          /\ MetaPos = MetaTable[cur] /\ dpos = DataTable[cur]
          /\ "OpenPartition" \notin style => ipos = IndexTable[cur]
    BY <2>1, StandsOnNext
  <2> QED BY <1>1, <2>1, <2>2, <2>3 DEF NextInPlace
<1>6. CASE ReadPartition
  <2>1. /\ mode = "r" /\ ~DividesByZero /\ EnsureLoaded /\ ~excl
        /\ cur' = cur + 1 /\ excl' = excl /\ ps' = ps /\ style' = style
    BY <1>6 DEF ReadPartition, CanAdvance
  <2>2. /\ loaded' = TRUE /\ np' = Count /\ moff' = MetaTable /\ doff' = DataTable
        /\ ioff' = IndexTable /\ Count = Len(written)
    BY <1>1, <2>1, TablesRight DEF EnsureLoaded
  <2>3. cur + 1 < Len(written) =>
          /\ mpos' = MetaTable[cur + 1] /\ dpos' = DataTable[cur + 1]
          /\ "OpenPartition" \notin style => ipos' = IndexTable[cur + 1]
    <3>1. cur + 1 < Len(written) => cur < Len(written)
      <4>1. cur \in Nat /\ Len(written) \in Nat
        BY <1>1, SizesType DEF TypeInv, TypeOK, HandleType
      <4> QED BY <4>1
    <3> QED BY <1>6, <3>1, TakesWhole
  <2> QED BY <1>1, <2>1, <2>2, <2>3 DEF NextInPlace
<1>7. CASE OpenPartition
  <2>1. loaded' = TRUE /\ excl' = TRUE /\ "OpenPartition" \in style'
    BY <1>7 DEF OpenPartition, CanAdvance, EnsureLoaded
  <2> QED BY <2>1 DEF NextInPlace
<1>8. CASE \/ ReadMetadata
           \/ \E lo, hi \in BinIds : ReadDataBins(lo, hi) \/ ReadIndexBins(lo, hi)
  <2>1. ps.open /\ excl' = excl /\ loaded' = loaded /\ style' = style /\ mode' = mode
    BY <1>8 DEF ReadMetadata, ReadDataBins, ReadIndexBins, BinRange
  <2> QED BY <1>1, <2>1 DEF NextInPlace
<1>9. CASE ClosePartition
  <2>1. /\ ps.open /\ mpos' = At(moff, cur) /\ dpos' = At(doff, cur)
        /\ ps'.open = FALSE /\ style' = style /\ loaded' = loaded /\ mode' = mode
        /\ UNCHANGED <<cur, np, moff, doff, ioff>>
    BY <1>9 DEF ClosePartition, NoPartitionStore, gmeta, table
  <2>2. loaded /\ mode = "r" /\ "OpenPartition" \in style
    BY <1>1, <2>1 DEF NextInPlace
  <2>3. cur < np => cur \in DOMAIN moff /\ cur \in DOMAIN doff
    <3>1. np <= capacity
      BY <1>1, <2>2 DEF PackedInv, LoadedInv, LoadedLayout
    <3>2. /\ cur \in Nat /\ np \in Nat /\ capacity \in Nat
          /\ DOMAIN moff = 0 .. capacity - 1 /\ DOMAIN doff = 0 .. capacity - 1
      BY <1>1 DEF TypeInv, TypeOK, HandleType, TableType
    <3> QED BY <3>1, <3>2
  <2>4. cur < np => mpos' = moff[cur] /\ dpos' = doff[cur]
    BY <2>1, <2>3 DEF At
  <2> QED BY <2>1, <2>2, <2>4 DEF NextInPlace
<1>10. CASE UNCHANGED vars \/ \E call \in Calls : Refuse(call)
  <2>1. UNCHANGED <<mode, loaded, cur, excl, style, ps, gmeta, table, positions>>
    BY <1>10 DEF vars, Refuse
  <2> QED BY <1>1, <2>1 DEF NextInPlace, gmeta, table, positions
<1>11. QED
  BY <1>2, <1>3, <1>4, <1>5, <1>6, <1>7, <1>8, <1>9, <1>10 DEF Next

\* The positions hold at first.
LEMMA InitPositions == Init => PositionInv
<1> SUFFICES ASSUME Init PROVE PositionInv
  OBVIOUS
<1>1. mode = "closed" /\ header = <<>>
  BY DEF Init
<1>2. QED
  BY <1>1, InitLayout
     DEF PositionInv, NextInPlace, PackedInv, WriterPacked, SealedPacked, LoadedPacked,
         LoadedInv, LoadedLayout, CountInv, WriterCount, SealedCount

(* Between two partitions the metadata and data pointers of a reader stand *)
(* on the next one, for any mixture of taken and opened partitions and any *)
(* reads through the opened ones.                                          *)
THEOREM PointersKeepPlace ==
  ASSUME AnyLength = FALSE
  PROVE  Spec => []PointersInPlace
<1>1. PositionInv => PointersInPlace
  BY DEF PositionInv, NextInPlace, PointersInPlace
<1>2. AnyLength = FALSE /\ PositionInv /\ [Next]_vars => PositionInv'
  BY PositionInvStep
<1>3. QED BY <1>1, <1>2, InitPositions, PTL DEF Spec
-------------------------------------------------------------------------------
(* An open partition shows itself and nothing else.                        *)

\* An application that only takes partitions, or only opens them, and does
\* not read on past the end: each of the tools.
SingleStyle == Styles \subseteq {{"ReadPartition"}, {"OpenPartition"}}

ViewInv ==
  mode = "r" =>
    /\ style \in Styles /\ cur <= Len(written)
    /\ ps.open =>
         /\ cur = ps.num + 1
         /\ ps.moff = moff[ps.num] /\ ps.doff = doff[ps.num] /\ ps.ioff = ioff[ps.num]
         /\ ps.fresh => mpos = moff[ps.num]
         /\ ps.meta # Garbage => ps.meta = ps.num

DeliveryInv == PositionInv /\ ViewInv

\* What the invariant says of the state before a delivery.
LEMMA DeliveryFacts ==
  ASSUME DeliveryInv
  PROVE  /\ PositionInv /\ PackedInv /\ NextInPlace /\ ViewInv /\ TypeInv
         /\ cur \in Nat /\ Len(written) \in Nat /\ np \in Nat
         /\ ps.open = excl /\ (excl => mode = "r" /\ loaded)
         /\ ps.num \in Nat /\ ps.doff \in Int /\ ps.ioff \in Int
<1>1. PositionInv /\ PackedInv /\ NextInPlace /\ ViewInv /\ TypeInv
  BY DEF DeliveryInv, PositionInv, PackedInv, LoadedInv, CountInv, LayoutInv
<1>2. QED
  BY <1>1, SizesType DEF TypeInv, TypeOK, HandleType, LockInv, PartitionStoreType

\* What an open partition's store rests on.
LEMMA OpenFacts ==
  ASSUME DeliveryInv, ps.open
  PROVE  /\ mode = "r" /\ loaded /\ ~DividesByZero
         /\ ps.num \in 0 .. Len(written) - 1 /\ cur = ps.num + 1
         /\ MetaTable = moff /\ DataTable = doff /\ IndexTable = ioff
         /\ ps.moff = MetaTable[ps.num] /\ ps.doff = DataTable[ps.num]
         /\ ps.ioff = IndexTable[ps.num]
         /\ ps.fresh => mpos = MetaTable[ps.num]
         /\ ps.meta # Garbage => ps.meta = ps.num
<1>1. mode = "r" /\ loaded
  BY DeliveryFacts
<1>2. ~DividesByZero /\ MetaTable = moff /\ DataTable = doff /\ IndexTable = ioff
  BY <1>1 DEF DividesByZero, MetaTable, DataTable, IndexTable
<1>3. /\ cur = ps.num + 1 /\ cur <= Len(written)
      /\ ps.moff = moff[ps.num] /\ ps.doff = doff[ps.num] /\ ps.ioff = ioff[ps.num]
      /\ ps.fresh => mpos = moff[ps.num]
      /\ ps.meta # Garbage => ps.meta = ps.num
  BY <1>1 DEF DeliveryInv, ViewInv
<1>4. ps.num \in 0 .. Len(written) - 1
  <2>1. ps.num \in Nat /\ Len(written) \in Nat
    BY DeliveryFacts
  <2> QED BY <1>3, <2>1
<1>5. QED BY <1>1, <1>2, <1>3, <1>4

\* A reader that takes or opens a partition has one before it.
LEMMA ReadsBeforeEnd ==
  ASSUME SingleStyle, DeliveryInv, NEW call, CanAdvance(call)
  PROVE  /\ mode = "r" /\ ~excl /\ ~DividesByZero /\ call \in style
         /\ cur < Len(written) /\ Count = Len(written)
         /\ "ReadPartition" \in style => "OpenPartition" \notin style
<1>1. mode = "r" /\ ~excl /\ ~DividesByZero /\ call \in style /\ ApplicationReads
  BY DEF CanAdvance
<1>2. style \in {{"ReadPartition"}, {"OpenPartition"}}
  BY <1>1 DEF SingleStyle, DeliveryInv, ViewInv
<1>3. "PastEnd" \notin style /\ ("ReadPartition" \in style => "OpenPartition" \notin style)
  BY <1>2
<1>4. PackedInv /\ cur \in Nat /\ Len(written) \in Nat
  BY DeliveryFacts
<1>5. Count = Len(written)
  BY <1>1, <1>4, TablesRight
<1>6. cur < Len(written)
  BY <1>1, <1>3, <1>4, <1>5 DEF ApplicationReads, AtEnd
<1>7. QED BY <1>1, <1>3, <1>5, <1>6

\* What reading the metadata of an open partition returns.
LEMMA SeesMetadata ==
  ASSUME DeliveryInv, ReadMetadata
  PROVE  /\ got' = [Result("ReadMetadata", "None") EXCEPT
                      !.num = ps.num,
                      !.meta = Region(ps.num, 0, written[ps.num + 1].metaSize)]
         /\ ps' = [ps EXCEPT !.fresh = FALSE, !.meta = ps.num]
<1> DEFINE from == IF ps.fresh THEN mpos ELSE ps.moff
<1>1. ps.open
  BY DEF ReadMetadata
<1>2. from = MetaTable[ps.num]
  BY <1>1, OpenFacts
<1>3. /\ FReadMeta(from, MetaLength(ps.num))
           = Region(ps.num, 0, written[ps.num + 1].metaSize)
      /\ Deserialize(FReadMeta(from, MetaLength(ps.num))) = ps.num
  BY <1>1, <1>2, OpenFacts, DeliveryFacts, ReadsMetadata
<1>4. QED BY <1>3 DEF ReadMetadata

\* Every step keeps the invariant of the deliveries.
LEMMA ViewInvStep ==
  AnyLength = FALSE /\ SingleStyle /\ DeliveryInv /\ [Next]_vars => DeliveryInv'
<1> SUFFICES ASSUME AnyLength = FALSE, SingleStyle, DeliveryInv, [Next]_vars PROVE ViewInv'
  BY PositionInvStep DEF DeliveryInv
<1>1. /\ PositionInv /\ PackedInv /\ NextInPlace /\ ViewInv /\ TypeInv
      /\ cur \in Nat /\ Len(written) \in Nat /\ ps.num \in Nat
      /\ ps.open = excl /\ (excl => mode = "r" /\ loaded)
  BY DeliveryFacts
<1>2. CASE OpenWrite \/ CloseWrite \/ ProcessDies \/ CloseRead \/ WriterEOF
  <2>1. mode' # "r"
    BY <1>2 DEF OpenWrite, CloseWrite, ProcessDies, CloseRead, WriterEOF
  <2> QED BY <2>1 DEF ViewInv
<1>3. CASE \E d \in Parts : WritePartition(d) \/ RejectLength(d)
  <2>1. mode' # "r"
    BY <1>3 DEF WritePartition, RejectLength, Writable
  <2> QED BY <2>1 DEF ViewInv
<1>4. CASE OpenRead
  <2>1. style' \in Styles /\ cur' = 0 /\ ps'.open = FALSE /\ written' = written
    BY <1>4 DEF OpenRead, FreshStore, NoPartitionStore
  <2> QED BY <1>1, <2>1 DEF ViewInv
<1>5. CASE GetGlobalMetadata \/ StoreEOF
  <2>1. /\ mode = "r" /\ EnsureLoaded /\ mpos' = MetaPos /\ cur' = cur /\ ps' = ps
        /\ style' = style /\ written' = written
    BY <1>5 DEF GetGlobalMetadata, StoreEOF, CanLoad
  <2>2. ps.open => /\ moff' = moff /\ doff' = doff /\ ioff' = ioff /\ mpos' = mpos
    BY <1>1, <2>1 DEF EnsureLoaded, MetaTable, DataTable, IndexTable, MetaPos
  <2> QED BY <1>1, <2>1, <2>2 DEF ViewInv
<1>6. CASE ReadPartition
  <2>1. /\ mode = "r" /\ ~excl /\ cur < Len(written)
    BY <1>6, ReadsBeforeEnd DEF ReadPartition
  <2>2. cur' = cur + 1 /\ ps' = ps /\ style' = style /\ written' = written
    BY <1>6 DEF ReadPartition
  <2>3. cur + 1 <= Len(written)
    BY <1>1, <2>1
  <2> QED BY <1>1, <2>1, <2>2, <2>3 DEF ViewInv
<1>7. CASE OpenPartition
  <2>1. mode = "r" /\ ~excl /\ ~DividesByZero /\ cur < Len(written) /\ Count = Len(written)
    BY <1>7, ReadsBeforeEnd DEF OpenPartition
  <2>2. /\ cur' = cur + 1 /\ style' = style /\ written' = written /\ mpos' = MetaPos
        /\ moff' = MetaTable /\ doff' = DataTable /\ ioff' = IndexTable
        /\ ps' = [open |-> TRUE, num |-> cur,
                  moff |-> At(MetaTable, cur),
                  doff |-> At(DataTable, cur),
                  ioff |-> At(IndexTable, cur),
                  fresh |-> TRUE, iChanged |-> FALSE, cChanged |-> FALSE,
                  meta |-> Garbage]
    BY <1>7 DEF OpenPartition, EnsureLoaded
  <2>3. /\ At(MetaTable, cur) = MetaTable[cur] /\ At(DataTable, cur) = DataTable[cur]
        /\ At(IndexTable, cur) = IndexTable[cur]
    <3>1. cur \in 0 .. Len(written)
      BY <1>1, <2>1
    <3>2. cur \in DOMAIN MetaTable /\ cur \in DOMAIN DataTable /\ cur \in DOMAIN IndexTable
      BY <1>1, <2>1, <3>1, TablesRight
    <3> QED BY <3>2 DEF At
  <2>4. MetaPos = MetaTable[cur]
    BY <1>1, <2>1, StandsOnNext
  <2>5. /\ ps'.num = cur /\ ps'.moff = MetaTable[cur] /\ ps'.doff = DataTable[cur]
        /\ ps'.ioff = IndexTable[cur] /\ ps'.meta = Garbage
    BY <2>2, <2>3
  <2>6. cur + 1 <= Len(written)
    BY <1>1, <2>1
  <2> QED BY <1>1, <2>1, <2>2, <2>4, <2>5, <2>6 DEF ViewInv
<1>8. CASE ReadMetadata
  <2>1. /\ ps.open /\ UNCHANGED <<written, style, mode, cur, moff, doff, ioff>>
    BY <1>8 DEF ReadMetadata, table
  <2>2. ps' = [ps EXCEPT !.fresh = FALSE, !.meta = ps.num]
    BY <1>8, SeesMetadata
  <2>3. /\ ps'.num = ps.num /\ ps'.moff = ps.moff /\ ps'.doff = ps.doff /\ ps'.ioff = ps.ioff
        /\ ps'.fresh = FALSE /\ ps'.meta = ps.num
    <3>1. ps \in [open: BOOLEAN, num: Nat, moff: Int, doff: Int, ioff: Int,
                  fresh: BOOLEAN, iChanged: BOOLEAN, cChanged: BOOLEAN, meta: Int]
      BY <1>1 DEF TypeInv, TypeOK, PartitionStoreType
    <3> QED BY <2>2, <3>1
  <2> QED BY <1>1, <2>1, <2>3 DEF ViewInv
<1>9. CASE \E lo, hi \in BinIds : ReadDataBins(lo, hi)
  <2>1. UNCHANGED <<written, style, mode, cur, moff, doff, ioff, mpos, ps>>
    BY <1>9 DEF ReadDataBins, table
  <2> QED BY <1>1, <2>1 DEF ViewInv
<1>10. CASE \E lo, hi \in BinIds : ReadIndexBins(lo, hi)
  <2>1. /\ UNCHANGED <<written, style, mode, cur, moff, doff, ioff, mpos>>
        /\ ps' = [ps EXCEPT !.iChanged = TRUE]
    BY <1>10 DEF ReadIndexBins, table
  <2>2. /\ ps'.open = ps.open /\ ps'.num = ps.num /\ ps'.moff = ps.moff /\ ps'.doff = ps.doff
        /\ ps'.ioff = ps.ioff /\ ps'.fresh = ps.fresh /\ ps'.meta = ps.meta
    <3>1. ps \in [open: BOOLEAN, num: Nat, moff: Int, doff: Int, ioff: Int,
                  fresh: BOOLEAN, iChanged: BOOLEAN, cChanged: BOOLEAN, meta: Int]
      BY <1>1 DEF TypeInv, TypeOK, PartitionStoreType
    <3> QED BY <2>1, <3>1
  <2> QED BY <1>1, <2>1, <2>2 DEF ViewInv
<1>11. CASE ClosePartition
  <2>1. ps'.open = FALSE /\ UNCHANGED <<written, style, mode, cur>>
    BY <1>11 DEF ClosePartition, NoPartitionStore
  <2> QED BY <1>1, <2>1 DEF ViewInv
<1>12. CASE UNCHANGED vars \/ \E call \in Calls : Refuse(call)
  <2>1. UNCHANGED <<written, style, mode, cur, ps, table, positions>>
    BY <1>12 DEF vars, Refuse
  <2> QED BY <1>1, <2>1 DEF ViewInv, table, positions
<1>13. QED
  BY <1>2, <1>3, <1>4, <1>5, <1>6, <1>7, <1>8, <1>9, <1>10, <1>11, <1>12 DEF Next

\* The place of bins lo .. hi-1 in the streams of a partition.
LEMMA BinPlaces ==
  ASSUME NEW d \in Parts, NEW lo \in BinIds, NEW hi \in BinIds, lo <= hi, hi <= d.numBins
  PROVE  /\ lo \in 0 .. d.numBins /\ hi \in 0 .. d.numBins
         /\ DataBinOffset(d, lo) \in Nat /\ DataBinOffset(d, hi) \in Nat
         /\ DataBinOffset(d, lo) <= DataBinOffset(d, hi)
         /\ DataBinOffset(d, hi) <= DataSize(d)
         /\ IndexBinOffset(d, lo) \in Nat /\ IndexBinOffset(d, hi) \in Nat
         /\ IndexBinOffset(d, lo) <= IndexBinOffset(d, hi)
         /\ IndexBinOffset(d, hi) <= IndexSize(d)
<1>1. lo \in Nat /\ hi \in Nat
  BY PartitionSizes DEF BinIds
<1>2. /\ d.numBins \in Nat /\ d.dataStart \in Seq(Nat) /\ d.indexStart \in Seq(Nat)
      /\ Len(d.dataStart) = d.numBins + 1 /\ Len(d.indexStart) = d.numBins + 1
      /\ \A i, j \in 1 .. d.numBins + 1 :
           i <= j => /\ d.dataStart[i] <= d.dataStart[j]
                     /\ d.indexStart[i] <= d.indexStart[j]
  BY StoreAssumption DEF IsPartition
<1>3. /\ lo + 1 \in 1 .. d.numBins + 1 /\ hi + 1 \in 1 .. d.numBins + 1
      /\ d.numBins + 1 \in 1 .. d.numBins + 1
      /\ lo + 1 <= hi + 1 /\ hi + 1 <= d.numBins + 1
  BY <1>1, <1>2
<1>4. /\ d.dataStart[lo + 1] \in Nat /\ d.dataStart[hi + 1] \in Nat
      /\ d.indexStart[lo + 1] \in Nat /\ d.indexStart[hi + 1] \in Nat
      /\ d.indexStart[d.numBins + 1] \in Nat
  BY <1>2, <1>3, ElementOfSeq
<1>5. /\ d.dataStart[lo + 1] <= d.dataStart[hi + 1]
      /\ d.dataStart[hi + 1] <= d.dataStart[d.numBins + 1]
      /\ d.indexStart[lo + 1] <= d.indexStart[hi + 1]
      /\ d.indexStart[hi + 1] <= d.indexStart[d.numBins + 1]
  BY <1>2, <1>3
<1>6. lo \in 0 .. d.numBins /\ hi \in 0 .. d.numBins
  BY <1>1, <1>2
<1>7. QED
  BY <1>4, <1>5, <1>6 DEF DataBinOffset, IndexBinOffset, DataSize, IndexSize

\* What reading bins through an open partition returns.
LEMMA SeesBins ==
  ASSUME DeliveryInv, NEW lo \in BinIds, NEW hi \in BinIds, BinRange(lo, hi)
  PROVE  LET d == written[ps.num + 1]
         IN  /\ ps.open /\ ps.meta = ps.num
             /\ lo \in 0 .. d.numBins /\ hi \in 0 .. d.numBins
             /\ FRead(dataFile, ps.doff + DataBinOffset(d, lo),
                      DataBinOffset(d, hi) - DataBinOffset(d, lo))
                  = Region(ps.num, DataBinOffset(d, lo), DataBinOffset(d, hi))
             /\ FRead(indexFile, ps.ioff + IndexBinOffset(d, lo),
                      IndexBinOffset(d, hi) - IndexBinOffset(d, lo))
                  = Region(ps.num, IndexBinOffset(d, lo), IndexBinOffset(d, hi))
<1> DEFINE d == written[ps.num + 1]
<1>1. ps.open /\ ps.meta # Garbage /\ lo <= hi /\ hi <= written[ps.meta + 1].numBins
  BY DEF BinRange
<1>2. /\ mode = "r" /\ ~DividesByZero /\ ps.num \in 0 .. Len(written) - 1
      /\ ps.meta = ps.num
      /\ ps.doff = DataTable[ps.num] /\ ps.ioff = IndexTable[ps.num]
  BY <1>1, OpenFacts
<1>3. PackedInv /\ TypeInv
  BY DeliveryFacts
<1>4. d \in Parts
  BY <1>2, <1>3, WrittenPart
<1>5. hi <= d.numBins
  BY <1>1, <1>2
<1> HIDE DEF d
<1>6. /\ lo \in 0 .. d.numBins /\ hi \in 0 .. d.numBins
      /\ DataBinOffset(d, lo) \in Nat /\ DataBinOffset(d, hi) \in Nat
      /\ DataBinOffset(d, lo) <= DataBinOffset(d, hi)
      /\ DataBinOffset(d, hi) <= DataSize(d)
      /\ IndexBinOffset(d, lo) \in Nat /\ IndexBinOffset(d, hi) \in Nat
      /\ IndexBinOffset(d, lo) <= IndexBinOffset(d, hi)
      /\ IndexBinOffset(d, hi) <= IndexSize(d)
  BY <1>1, <1>4, <1>5, BinPlaces
<1>7. \A from, to \in Nat : from <= to =>
        /\ to <= DataSize(d) =>
             FRead(dataFile, ps.doff + from, to - from) = Region(ps.num, from, to)
        /\ to <= IndexSize(d) =>
             FRead(indexFile, ps.ioff + from, to - from) = Region(ps.num, from, to)
  <2> SUFFICES
        ASSUME NEW from \in Nat, NEW to \in Nat, from <= to
        PROVE  /\ to <= DataSize(d) =>
                    FRead(dataFile, ps.doff + from, to - from) = Region(ps.num, from, to)
               /\ to <= IndexSize(d) =>
                    FRead(indexFile, ps.ioff + from, to - from) = Region(ps.num, from, to)
    OBVIOUS
  <2>1. /\ to <= DataSize(d) =>
             FRead(dataFile, DataTable[ps.num] + from, to - from) = Region(ps.num, from, to)
        /\ to <= IndexSize(d) =>
             FRead(indexFile, IndexTable[ps.num] + from, to - from)
               = Region(ps.num, from, to)
    BY <1>2, <1>3, ReadsStream DEF d
  <2> QED BY <1>2, <2>1
<1>8. QED BY <1>1, <1>2, <1>6, <1>7 DEF d
-------------------------------------------------------------------------------
(* The store implements PartitionStream.                                   *)

\* A call that is not a successful read delivers nothing.
LEMMA DeliversNothing ==
  ASSUME got'.call \notin {"ReadMetadata", "ReadDataBins", "ReadIndexBins"},
         ~(got'.call = "ReadPartition" /\ got'.err = "None")
  PROVE  Delivered' = <<"none", 0, 0, 0>>
BY DEF Delivered

\* The other calls deliver nothing.
LEMMA ResultDeliversNothing ==
  ASSUME NEW call, NEW err, got' = Result(call, err),
         call \notin {"ReadMetadata", "ReadDataBins", "ReadIndexBins"},
         ~(call = "ReadPartition" /\ err = "None")
  PROVE  Delivered' = <<"none", 0, 0, 0>>
<1>1. got'.call = call /\ got'.err = err
  BY DEF Result, Nothing
<1>2. QED BY <1>1, DeliversNothing

\* Reading a partition takes the next one of the stream.
LEMMA TakeRefines ==
  ASSUME SingleStyle, DeliveryInv, ReadPartition
  PROVE  Stream!TakeWhole
<1>1. /\ mode = "r" /\ ~excl /\ cur < Len(written)
      /\ "OpenPartition" \notin style
  BY ReadsBeforeEnd DEF ReadPartition
<1>2. /\ cur' = cur + 1 /\ UNCHANGED <<written, mode, ps>> /\ ~ps.open
  BY <1>1, DeliveryFacts DEF ReadPartition
<1>3. /\ got'.call = "ReadPartition" /\ got'.err = "None" /\ got'.num = cur
      /\ got'.meta = Region(cur, 0, written[cur + 1].metaSize)
      /\ got'.data = Region(cur, 0, DataSize(written[cur + 1]))
      /\ got'.index = Region(cur, 0, IndexSize(written[cur + 1]))
  <2> DEFINE d == written[cur + 1]
  <2>1. got' = [Result("ReadPartition", "None") EXCEPT
                  !.num = cur,
                  !.meta = Region(cur, 0, d.metaSize),
                  !.data = Region(cur, 0, DataSize(d)),
                  !.index = Region(cur, 0, IndexSize(d))]
    BY <1>1, DeliveryFacts, TakesWhole
  <2> HIDE DEF d
  <2> QED BY <2>1 DEF Result, Nothing, d
<1>4. Delivered' = <<"whole", cur, 0, 0>>
  BY <1>2, <1>3 DEF Delivered, Whole
<1>5. QED BY <1>1, <1>2, <1>4 DEF Stream!TakeWhole, Stream!None

\* Reading a part of one looks at the partition that is open.
LEMMA ViewRefines ==
  ASSUME DeliveryInv,
         \/ ReadMetadata
         \/ \E lo, hi \in BinIds : ReadDataBins(lo, hi) \/ ReadIndexBins(lo, hi)
  PROVE  Stream!View
<1> DEFINE d == written[ps.num + 1]
<1>1. ps.open /\ ps.num \in Nat
  BY DeliveryFacts DEF ReadMetadata, ReadDataBins, ReadIndexBins, BinRange
<1>2. /\ UNCHANGED <<written, mode, cur>> /\ ps'.open = ps.open /\ ps'.num = ps.num
  <2>1. ps \in [open: BOOLEAN, num: Nat, moff: Int, doff: Int, ioff: Int,
                fresh: BOOLEAN, iChanged: BOOLEAN, cChanged: BOOLEAN, meta: Int]
    BY DeliveryFacts DEF TypeInv, TypeOK, PartitionStoreType
  <2> QED BY <2>1 DEF ReadMetadata, ReadDataBins, ReadIndexBins
<1>3. \E lo, hi \in 0 .. d.numBins :
        Delivered' \in {<<"metadata", ps.num, 0, 0>>, <<"data", ps.num, lo, hi>>,
                        <<"index", ps.num, lo, hi>>}
  <2>1. CASE ReadMetadata
    <3>1. got' = [Result("ReadMetadata", "None") EXCEPT
                    !.num = ps.num, !.meta = Region(ps.num, 0, d.metaSize)]
      BY <2>1, SeesMetadata
    <3>2. /\ got'.call = "ReadMetadata" /\ got'.num = ps.num
          /\ got'.meta = Region(ps.num, 0, d.metaSize)
      <4> HIDE DEF d
      <4> QED BY <3>1 DEF Result, Nothing
    <3>3. Delivered' = <<"metadata", ps.num, 0, 0>>
      BY <1>2, <3>2 DEF Delivered
    <3>4. 0 \in 0 .. d.numBins
      <4>1. ps.num \in 0 .. Len(written) - 1 /\ TypeInv
        BY <1>1, OpenFacts, DeliveryFacts
      <4>2. d \in Parts
        BY <4>1, WrittenPart
      <4> HIDE DEF d
      <4> QED BY <4>2, PartitionSizes
    <3> QED BY <3>3, <3>4
  <2>2. CASE \E lo, hi \in BinIds : ReadDataBins(lo, hi)
    <3>1. PICK lo \in BinIds, hi \in BinIds : ReadDataBins(lo, hi)
      BY <2>2
    <3>2. /\ ps.meta = ps.num /\ lo \in 0 .. d.numBins /\ hi \in 0 .. d.numBins
          /\ FRead(dataFile, ps.doff + DataBinOffset(d, lo),
                   DataBinOffset(d, hi) - DataBinOffset(d, lo))
               = Region(ps.num, DataBinOffset(d, lo), DataBinOffset(d, hi))
      <4>1. BinRange(lo, hi)
        BY <3>1 DEF ReadDataBins
      <4> QED BY <4>1, SeesBins
    <3>3. got' = [Result("ReadDataBins", "None") EXCEPT
                    !.num = ps.num, !.lo = lo, !.hi = hi,
                    !.data = Region(ps.num, DataBinOffset(d, lo), DataBinOffset(d, hi))]
      BY <3>1, <3>2 DEF ReadDataBins
    <3>4. /\ got'.call = "ReadDataBins" /\ got'.num = ps.num
          /\ got'.lo = lo /\ got'.hi = hi
          /\ got'.data = Region(ps.num, DataBinOffset(d, lo), DataBinOffset(d, hi))
      <4> HIDE DEF d
      <4> QED BY <3>3 DEF Result, Nothing
    <3>5. Delivered' = <<"data", ps.num, lo, hi>>
      BY <1>2, <3>4 DEF Delivered
    <3> QED BY <3>2, <3>5
  <2>3. CASE \E lo, hi \in BinIds : ReadIndexBins(lo, hi)
    <3>1. PICK lo \in BinIds, hi \in BinIds : ReadIndexBins(lo, hi)
      BY <2>3
    <3>2. /\ ps.meta = ps.num /\ lo \in 0 .. d.numBins /\ hi \in 0 .. d.numBins
          /\ FRead(indexFile, ps.ioff + IndexBinOffset(d, lo),
                   IndexBinOffset(d, hi) - IndexBinOffset(d, lo))
               = Region(ps.num, IndexBinOffset(d, lo), IndexBinOffset(d, hi))
      <4>1. BinRange(lo, hi)
        BY <3>1 DEF ReadIndexBins
      <4> QED BY <4>1, SeesBins
    <3>3. got' = [Result("ReadIndexBins", "None") EXCEPT
                    !.num = ps.num, !.lo = lo, !.hi = hi,
                    !.index = Region(ps.num, IndexBinOffset(d, lo), IndexBinOffset(d, hi))]
      BY <3>1, <3>2 DEF ReadIndexBins
    <3>4. /\ got'.call = "ReadIndexBins" /\ got'.num = ps.num
          /\ got'.lo = lo /\ got'.hi = hi
          /\ got'.index = Region(ps.num, IndexBinOffset(d, lo), IndexBinOffset(d, hi))
      <4> HIDE DEF d
      <4> QED BY <3>3 DEF Result, Nothing
    <3>5. Delivered' = <<"index", ps.num, lo, hi>>
      BY <1>2, <3>4 DEF Delivered
    <3> QED BY <3>2, <3>5
  <2> QED BY <2>1, <2>2, <2>3
<1>4. ps.num # -1
  BY <1>1
<1>5. QED BY <1>1, <1>2, <1>3, <1>4 DEF Stream!View, Stream!None

\* Every step of the store is one of the stream, or a stutter.
LEMMA StepRefines ==
  ASSUME SingleStyle, DeliveryInv, [Next]_vars
  PROVE  Stream!SNext \/ UNCHANGED Stream!svars
<1>1. /\ ps.open = excl /\ (excl => mode = "r" /\ loaded) /\ ps.num \in Nat
      /\ cur \in Nat
  BY DeliveryFacts
<1>2. CASE OpenWrite
  <2>1. /\ mode = "closed" /\ mode' = "w" /\ written' = <<>> /\ ps'.open = FALSE
        /\ got' = Result("Open", "None")
    BY <1>2 DEF OpenWrite, FreshStore, NoPartitionStore
  <2>2. Delivered' = <<"none", 0, 0, 0>>
    BY <2>1, ResultDeliversNothing
  <2>3. Stream!Create
    BY <2>1, <2>2 DEF Stream!Create, Stream!None, Stream!NoView
  <2> QED BY <2>3 DEF Stream!SNext
<1>3. CASE \E d \in Parts : WritePartition(d)
  <2>1. PICK d \in Parts : WritePartition(d)
    BY <1>3
  <2>2. /\ mode = "w" /\ mode' = mode /\ written' = Append(written, d) /\ ps' = ps
        /\ got' = Result("WritePartition", "None")
    BY <2>1 DEF WritePartition, Writable
  <2>3. Delivered' = <<"none", 0, 0, 0>>
    BY <2>2, ResultDeliversNothing
  <2>4. Stream!AppendPartition
    BY <2>2, <2>3 DEF Stream!AppendPartition, Stream!NoView
  <2> QED BY <2>4 DEF Stream!SNext
<1>4. CASE \/ WriterEOF \/ (\E d \in Parts : RejectLength(d))
           \/ (\E call \in Calls : Refuse(call)) \/ GetGlobalMetadata \/ StoreEOF
  <2>1. UNCHANGED <<written, mode, cur, ps>>
    BY <1>4 DEF WriterEOF, RejectLength, Refuse, GetGlobalMetadata, StoreEOF
  <2>2. Delivered' = <<"none", 0, 0, 0>>
    <3>1. CASE GetGlobalMetadata \/ StoreEOF
      <4>1. got'.call \in {"GetGlobalMetadata", "EOF"}
        BY <3>1 DEF GetGlobalMetadata, StoreEOF, Result, Nothing
      <4> QED BY <4>1, DeliversNothing
    <3>2. CASE WriterEOF
      BY <3>2, ResultDeliversNothing DEF WriterEOF
    <3>3. CASE \E d \in Parts : RejectLength(d)
      BY <3>3, ResultDeliversNothing DEF RejectLength
    <3>4. CASE \E call \in Calls : Refuse(call)
      BY <3>4, ResultDeliversNothing DEF Refuse, Calls
    <3> QED BY <1>4, <3>1, <3>2, <3>3, <3>4
  <2>3. Stream!Answer
    BY <2>1, <2>2 DEF Stream!Answer, Stream!NoView
  <2> QED BY <2>3 DEF Stream!SNext
<1>5. CASE CloseWrite \/ CloseRead \/ ProcessDies
  <2>1. /\ mode \in {"w", "r"} /\ mode' = "closed" /\ written' = written
        /\ ~ps.open /\ ps'.open = FALSE
    BY <1>1, <1>5 DEF CloseWrite, CloseRead, ProcessDies, DividesByZero, FreshStore,
       NoPartitionStore
  <2>2. Delivered' = <<"none", 0, 0, 0>>
    BY <1>5, ResultDeliversNothing DEF CloseWrite, CloseRead, ProcessDies
  <2>3. Stream!Finish
    BY <2>1, <2>2 DEF Stream!Finish, Stream!None, Stream!NoView
  <2> QED BY <2>3 DEF Stream!SNext
<1>6. CASE OpenRead
  <2>1. /\ mode = "closed" /\ mode' = "r" /\ written' = written /\ cur' = 0
        /\ ~ps.open /\ ps'.open = FALSE /\ got' = Result("Open", "None")
    BY <1>1, <1>6 DEF OpenRead, FreshStore, NoPartitionStore
  <2>2. Delivered' = <<"none", 0, 0, 0>>
    BY <2>1, ResultDeliversNothing
  <2>3. Stream!StartReading
    BY <2>1, <2>2 DEF Stream!StartReading, Stream!NoView
  <2> QED BY <2>3 DEF Stream!SNext
<1>7. CASE ReadPartition
  BY <1>7, TakeRefines DEF Stream!SNext
<1>8. CASE OpenPartition
  <2>1. /\ mode = "r" /\ ~excl /\ cur < Len(written)
    BY <1>8, ReadsBeforeEnd DEF OpenPartition
  <2>2. /\ cur' = cur + 1 /\ UNCHANGED <<written, mode>>
        /\ ps'.open = TRUE /\ ps'.num = cur
    BY <1>8 DEF OpenPartition
  <2>3. Delivered' = <<"none", 0, 0, 0>>
    <3>1. got'.call = "OpenPartition"
      BY <1>8 DEF OpenPartition, Result, Nothing
    <3> QED BY <3>1, DeliversNothing
  <2>4. Stream!OpenNext
    BY <1>1, <2>1, <2>2, <2>3 DEF Stream!OpenNext, Stream!None, Stream!NoView
  <2> QED BY <2>4 DEF Stream!SNext
<1>9. CASE \/ ReadMetadata
           \/ \E lo, hi \in BinIds : ReadDataBins(lo, hi)
           \/ \E lo, hi \in BinIds : ReadIndexBins(lo, hi)
  <2>1. Stream!View
    BY <1>9, ViewRefines
  <2> QED BY <2>1 DEF Stream!SNext
<1>10. CASE ClosePartition
  <2>1. /\ ps.open /\ ps'.open = FALSE /\ UNCHANGED <<written, mode, cur>>
        /\ got' = Result("ClosePartition", "None")
    BY <1>10 DEF ClosePartition, NoPartitionStore
  <2>2. Delivered' = <<"none", 0, 0, 0>>
    BY <2>1, ResultDeliversNothing
  <2>3. ps.num # -1
    BY <1>1
  <2>4. Stream!Release
    BY <2>1, <2>2, <2>3 DEF Stream!Release, Stream!None, Stream!NoView
  <2> QED BY <2>4 DEF Stream!SNext
<1>11. CASE UNCHANGED vars
  <2>1. UNCHANGED <<written, mode, cur, ps, got>>
    BY <1>11 DEF vars
  <2>2. Delivered' = Delivered
    BY <2>1 DEF Delivered, Whole
  <2>3. UNCHANGED Stream!svars
    BY <2>1, <2>2 DEF Stream!svars
  <2> QED BY <2>3
<1>12. QED
  BY <1>2, <1>3, <1>4, <1>5, <1>6, <1>7, <1>8, <1>9, <1>10, <1>11 DEF Next

\* The initial states are those of the stream.
LEMMA InitRefines == Init => Stream!SInit /\ DeliveryInv
<1> SUFFICES ASSUME Init PROVE Stream!SInit /\ DeliveryInv
  OBVIOUS
<1>1. mode = "closed" /\ written = <<>> /\ ps.open = FALSE /\ got = Nothing
  BY DEF Init, NoPartitionStore
<1>2. Delivered = <<"none", 0, 0, 0>>
  BY <1>1 DEF Delivered, Nothing
<1>3. Stream!SInit
  BY <1>1, <1>2 DEF Stream!SInit, Stream!None, Stream!NoView
<1>4. DeliveryInv
  BY <1>1, InitPositions DEF DeliveryInv, ViewInv
<1>5. QED BY <1>3, <1>4

(* An application that only takes partitions, or only opens them, and      *)
(* stops at the end sees the partitions that were written, whole, in       *)
(* order and each once, and through an open partition store only that      *)
(* partition: the store implements PartitionStream, for every set of       *)
(* partitions and any number of them, in both formats.                     *)
THEOREM StoreImplementsStream ==
  ASSUME AnyLength = FALSE, SingleStyle
  PROVE  Spec => ImplementsStream
<1>1. DeliveryInv /\ [Next]_vars => DeliveryInv'
  BY ViewInvStep
<1>2. DeliveryInv /\ [Next]_vars => [Stream!SNext]_(Stream!svars)
  BY StepRefines
<1>3. QED BY InitRefines, <1>1, <1>2, PTL DEF Spec, ImplementsStream, Stream!SSpec
===============================================================================
