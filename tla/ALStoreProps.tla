----------------------------- MODULE ALStoreProps -----------------------------
(***************************************************************************)
(* The properties of ALStorePOSIX: what the store owes to the application  *)
(* that writes a store, closes it, and reads it back.                      *)
(***************************************************************************)
EXTENDS ALStorePOSIX

\* The n cells of partition p stand in a file, from position off on.
Located(file, off, p, n) ==
  /\ off >= 0 /\ off + n <= Len(file)
  /\ \A k \in 1 .. n : file[off + k] = <<p, k - 1>>

\* Tables m, d and x give every written partition's place in the streams.
\* shift is the length of what precedes the metadata in the metadata file.
TablesLocate(meta, shift, m, d, x) ==
  \A p \in 0 .. Len(written) - 1 :
    /\ Located(meta, m[p] - shift, p, written[p + 1].metaSize)
    /\ Located(dataFile, d[p], p, DataSize(written[p + 1]))
    /\ Located(indexFile, x[p], p, IndexSize(written[p + 1]))

Cell == Nat \X Nat

DiskType ==
  /\ header \in Seq(Int)
  /\ metaFile \in Seq(Cell) /\ dataFile \in Seq(Cell)
  /\ indexFile \in Seq(Cell) /\ tmpFile \in Seq(Cell)
  /\ written \in Seq(Parts)
  /\ legacy \in BOOLEAN

HandleType ==
  /\ style \subseteq Habits
  /\ mode \in {"closed", "w", "r"}
  /\ cur \in Nat /\ loaded \in BOOLEAN /\ excl \in BOOLEAN
  /\ np \in Nat /\ psize \in Nat /\ total \in Nat
  /\ wmeta \in Nat /\ wdata \in Nat /\ windex \in Nat
  /\ lastWritten \in BOOLEAN

TableType ==
  /\ capacity \in Nat \ {0}
  /\ moff \in [0 .. capacity - 1 -> Int]
  /\ doff \in [0 .. capacity - 1 -> Int]
  /\ ioff \in [0 .. capacity - 1 -> Int]

PositionType ==
  mpos \in Int /\ dpos \in Int /\ ipos \in Int /\ cpos \in Int

PartitionStoreType ==
  ps \in [open: BOOLEAN, num: Nat, moff: Int, doff: Int, ioff: Int,
          fresh: BOOLEAN, iChanged: BOOLEAN, cChanged: BOOLEAN, meta: Int]

CallNames ==
  Calls \cup {"none", "Open", "Load", "EOF", "ReadMetadata", "ReadDataBins",
              "ReadIndexBins", "ClosePartition"}

Answers ==
  [call: CallNames, err: {"None", "Something", "SIGFPE"},
   num: Nat, lo: BinIds, hi: BinIds,
   meta: Seq(Cell), data: Seq(Cell), index: Seq(Cell)]

ResultType == got \in Answers

(* Every variable keeps its type, for all call sequences: file positions   *)
(* and offsets stay numbers even where an uninitialized table entry is     *)
(* used, and no call is made on what is not metadata.                      *)
TypeOK ==
  /\ DiskType /\ HandleType /\ TableType
  /\ PositionType /\ PartitionStoreType /\ ResultType

(* While a store is written, the table entries of every partition accepted *)
(* so far say where its metadata, data and index stand, across every       *)
(* doubling of the table and every rejected partition, and the running     *)
(* offsets are the lengths of the files (ALStoreWritePartitionPOSIX).      *)
WriterLayout ==
  mode = "w" =>
    /\ cur = Len(written) /\ np = cur /\ np <= capacity
    /\ wmeta = Len(tmpFile) /\ wdata = Len(dataFile) /\ windex = Len(indexFile)
    /\ TablesLocate(tmpFile, 0, moff, doff, ioff)

\* The k-th table of the header of a store of Len(written) partitions.
HeaderTable(k) ==
  [p \in 0 .. Len(written) - 1 |->
     header[FirstTableWord + k * Entries(Len(written)) + p]]

(* The header of a closed store locates every partition in the finished    *)
(* files, the metadata behind the header included (finalizeMetadata).      *)
SealedLayout ==
  (mode # "w" /\ header # <<>>) =>
    /\ Len(header) = HeaderSize(Len(written))
    /\ ~legacy => header[3] = Len(written)
    /\ TablesLocate(metaFile, Len(header), HeaderTable(0), HeaderTable(1),
                    HeaderTable(2))

(* Once the global metadata is loaded, a reader has the partition count    *)
(* and the offsets the writer had, whatever the table's capacity and even  *)
(* in the legacy format, which stores no count                             *)
(* (ALStoreLoadGlobalMetadataPOSIX).                                       *)
LoadedLayout ==
  (mode = "r" /\ loaded) =>
    /\ np = Len(written) /\ np <= capacity
    /\ TablesLocate(metaFile, Len(header), moff, doff, ioff)

(* A later ReadPartition starts at the metadata and the data of the next   *)
(* partition, however the partitions before it were read: taken whole, or  *)
(* opened and any of their parts read in any order                         *)
(* (ALStoreReadPartitionPOSIX's precondition).                             *)
PointersInPlace ==
  (mode = "r" /\ loaded /\ ~excl /\ cur < np) =>
    mpos = moff[cur] /\ dpos = doff[cur]

(* "What we must do is reset the parent ALStore's file pointers to the     *)
(* cur_partition" (ALStorePOSIX.c:556): closing a partition store through  *)
(* which a part of the index was read puts the pointer that read it to the *)
(* next partition.                                                         *)
PartOfIndexRead == ps.open /\ ps.iChanged /\ ipos > ps.ioff

IndexPointerPutBack ==
  [][(PartOfIndexRead /\ ~ps'.open /\ cur < np) => ipos' = ioff[cur]]_vars

(* "ALStore EOF" is answered exactly when every written partition has been *)
(* taken or opened.                                                        *)
EOFExact ==
  (mode = "r" /\ got.call = "EOF") => (got.num = 1 <=> cur >= Len(written))

(* "the metadata fp has just passed the global metadata": a reader that    *)
(* has loaded the global metadata stands behind all of it.                 *)
MetadataPointerPastHeader ==
  (mode = "r" /\ loaded /\ cur = 0) => mpos = Len(header)
-------------------------------------------------------------------------------
(* The store implements PartitionStream.  A delivery counts as the view    *)
(* asked for only if every cell delivered belongs to it.                   *)

Whole(p) ==
  /\ got.meta = Region(p, 0, written[p + 1].metaSize)
  /\ got.data = Region(p, 0, DataSize(written[p + 1]))
  /\ got.index = Region(p, 0, IndexSize(written[p + 1]))

Delivered ==
  LET p == got.num
      d == written[p + 1]
      bad == <<"wrong", p, 0, 0>>
  IN CASE got.call = "ReadPartition" /\ got.err = "None" ->
            IF Whole(p) THEN <<"whole", p, 0, 0>> ELSE bad
       [] got.call = "ReadMetadata" ->
            IF got.meta = Region(p, 0, d.metaSize)
              THEN <<"metadata", p, 0, 0>> ELSE bad
       [] got.call = "ReadDataBins" ->
            IF got.data = Region(p, DataBinOffset(d, got.lo), DataBinOffset(d, got.hi))
              THEN <<"data", p, got.lo, got.hi>> ELSE bad
       [] got.call = "ReadIndexBins" ->
            IF got.index = Region(p, IndexBinOffset(d, got.lo), IndexBinOffset(d, got.hi))
              THEN <<"index", p, got.lo, got.hi>> ELSE bad
       [] OTHER -> <<"none", 0, 0, 0>>

Stream == INSTANCE PartitionStream WITH
  parts  <- written,
  phase  <- CASE mode = "w" -> "writing" [] mode = "r" -> "reading"
              [] OTHER -> "closed",
  next   <- IF mode = "r" THEN cur ELSE 0,
  opened <- IF ps.open THEN ps.num ELSE -1,
  seen   <- Delivered

(* Whatever an application that reads in one style does, it sees the       *)
(* partitions that were written, whole, in order, each once, and through a *)
(* partition store only the partition it opened.                           *)
ImplementsStream == Stream!SSpec
-------------------------------------------------------------------------------
(* The loop of every reading tool, while (!ALStoreEOF(store)) ..., is a    *)
(* sequential program: it does not stop before the call it has come to.    *)
ReaderLoop ==
  /\ WF_vars(ReadPartition)
  /\ WF_vars(OpenPartition)
  /\ WF_vars(ClosePartition)

FairSpec == Spec /\ ReaderLoop

(* A reading loop comes to the end of the store: every partition is taken  *)
(* or opened, and the store is not left locked by an open partition.       *)
ScanCompletes ==
  (mode = "r") ~> (mode = "closed" \/ (~excl /\ cur >= Len(written)))
===============================================================================
