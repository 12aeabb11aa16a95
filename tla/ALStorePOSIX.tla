----------------------------- MODULE ALStorePOSIX -----------------------------
(***************************************************************************)
(* The ALStore of src/src/ALStore.c over its POSIX backend                 *)
(* (src/src/io/ALStorePOSIX.c): partitions are appended to three streams   *)
(* (metadata, data, index), the offsets of every partition are kept in a   *)
(* table that is written into a global header when the store is closed,    *)
(* and a reader walks the streams either partition by partition            *)
(* (ALStoreReadPartition) or through a partition store opened on the       *)
(* current partition (ALStoreOpenPartition).                               *)
(*                                                                         *)
(* A stream is a sequence of cells.  Cell <<p, k>> is the k-th cell of     *)
(* partition p, so what a read returns tells which partition it belongs    *)
(* to.  Positions are counted in cells, and one word of the global header  *)
(* takes one position of the metadata file.                                *)
(***************************************************************************)
EXTENDS Integers, Sequences

CONSTANTS
  Formats,          \* values of the legacyFormat argument of ALStoreOpenPOSIX
  InitialCapacity,  \* ALSTORE_POSIX_INITIAL_PARTITION_CAPACITY
  Parts,            \* the encoded partitions an application may write
  MaxPartitions,    \* bound on the partitions written to one store
  Styles,           \* how an application may read a store (see below)
  AnyLength         \* lengths of legacy partitions in any order (see below)

IndexForms == {"InvertedIndex", "CompressionIndex", "CompressedInvertedIndex"}

(***************************************************************************)
(* An application that opens a store for reading does so in one style, a   *)
(* set of: "ReadPartition" and "OpenPartition", the two ways of reading    *)
(* (every tool of the repository uses only one of them), and "PastEnd": it *)
(* reads on although ALStoreEOF is true.                                   *)
(*                                                                         *)
(* The tools write partitions of one length and at most one shorter        *)
(* partition after them.  In the new format any order of lengths is        *)
(* modelled; in the legacy format only if AnyLength.                       *)
(***************************************************************************)
Habits == {"ReadPartition", "OpenPartition", "PastEnd"}

(***************************************************************************)
(* An encoded partition, as far as a store sees it: its number of          *)
(* elements, its index form, the sizes of its serialized metadata and the  *)
(* offsets of its bins in its data and index (the last one is the size).   *)
(***************************************************************************)
IsPartition(d) ==
  /\ d \in [length: Nat \ {0}, form: IndexForms, metaSize: Nat \ {0},
            numBins: Nat \ {0}, dataStart: Seq(Nat), indexStart: Seq(Nat)]
  /\ Len(d.dataStart) = d.numBins + 1
  /\ Len(d.indexStart) = d.numBins + 1
  /\ d.dataStart[1] = 0 /\ d.indexStart[1] = 0
  /\ \A i, j \in 1 .. d.numBins + 1 :
        i <= j => /\ d.dataStart[i] <= d.dataStart[j]
                  /\ d.indexStart[i] <= d.indexStart[j]

ASSUME StoreAssumption ==
  /\ Formats \subseteq BOOLEAN
  /\ InitialCapacity \in Nat \ {0}
  /\ MaxPartitions \in Nat
  /\ Styles \subseteq SUBSET Habits
  /\ AnyLength \in BOOLEAN
  /\ \A d \in Parts : IsPartition(d)

Undef == -1      \* an uninitialized table entry, an unknown file position
Garbage == -1    \* "metadata" deserialized from bytes that are not metadata

VARIABLES
  header, metaFile, dataFile, indexFile,  \* the files, as the next open sees them
  tmpFile,                                \* the temporary metadata file
  written,                                \* the partitions the store accepted
  legacy, style,                          \* the format and the reading style
  mode, cur, loaded, excl,                \* ALStore
  np, psize, total,                       \* ALStore.global_meta
  capacity, moff, doff, ioff,             \* the offset table of the POSIX state
  wmeta, wdata, windex, lastWritten,      \* its write state
  mpos, dpos, ipos, cpos,                 \* its FILE* positions when reading
  ps,                                     \* the open ALPartitionStore
  got                                     \* what the last call returned

disk == <<header, metaFile, dataFile, indexFile, tmpFile>>
gmeta == <<np, psize, total>>
table == <<capacity, moff, doff, ioff>>
writeState == <<wmeta, wdata, windex, lastWritten>>
positions == <<mpos, dpos, ipos, cpos>>

vars == <<disk, written, legacy, style, mode, cur, loaded, excl, gmeta, table, writeState,
          positions, ps, got>>
-------------------------------------------------------------------------------
(* Streams and results.                                                    *)

DataSize(d) == d.dataStart[d.numBins + 1]
IndexSize(d) == d.indexStart[d.numBins + 1]

DataBinOffset(d, b) == d.dataStart[b + 1]

IndexBinOffset(d, b) ==
  IF d.form = "CompressionIndex" THEN 0 ELSE d.indexStart[b + 1]

\* Cells from .. to-1 of a stream of partition p.
Region(p, from, to) == [k \in 1 .. (to - from) |-> <<p, from + k - 1>>]

\* fread of n cells at a position; it stops at the end of the file, and
\* nothing is known of what it returns from an unknown position.
FRead(file, pos, n) ==
  IF pos < 0 THEN <<>>
  ELSE SubSeq(file, pos + 1, IF pos + n <= Len(file) THEN pos + n ELSE Len(file))

\* The metadata file is the global header followed by the metadata.
FReadMeta(pos, n) == FRead(metaFile, pos - Len(header), n)

\* Deserialization: it makes sense of a buffer only if the buffer begins
\* with the whole metadata of a partition; the result names that partition.
Deserialize(cells) ==
  IF /\ cells # <<>>
     /\ cells[1][2] = 0
     /\ Len(cells) >= written[cells[1][1] + 1].metaSize
    THEN cells[1][1] ELSE Garbage

\* table[i] of the code, which checks no bound.
At(tbl, i) == IF i \in DOMAIN tbl THEN tbl[i] ELSE Undef

NoTable == [i \in 0 .. InitialCapacity - 1 |-> Undef]

NoPartitionStore ==
  [open |-> FALSE, num |-> 0, moff |-> 0, doff |-> 0, ioff |-> 0,
   fresh |-> TRUE, iChanged |-> FALSE, cChanged |-> FALSE, meta |-> Garbage]

Nothing ==
  [call |-> "none", err |-> "None", num |-> 0, lo |-> 0, hi |-> 0,
   meta |-> <<>>, data |-> <<>>, index |-> <<>>]

Result(call, err) == [Nothing EXCEPT !.call = call, !.err = err]
-------------------------------------------------------------------------------
(* Opening.                                                                *)

Init ==
  /\ header = <<>> /\ metaFile = <<>> /\ dataFile = <<>> /\ indexFile = <<>>
  /\ tmpFile = <<>> /\ written = <<>>
  /\ legacy \in Formats /\ style = {}
  /\ mode = "closed" /\ cur = 0 /\ loaded = FALSE /\ excl = FALSE
  /\ np = 0 /\ psize = 0 /\ total = 0
  /\ capacity = InitialCapacity
  /\ moff = NoTable /\ doff = NoTable /\ ioff = NoTable
  /\ wmeta = 0 /\ wdata = 0 /\ windex = 0 /\ lastWritten = FALSE
  /\ mpos = 0 /\ dpos = 0 /\ ipos = 0 /\ cpos = 0
  /\ ps = NoPartitionStore
  /\ got = Nothing

\* The state both access modes start from.
FreshStore ==
  /\ cur' = 0 /\ loaded' = FALSE /\ excl' = FALSE
  /\ np' = 0 /\ psize' = 0 /\ total' = 0
  /\ capacity' = InitialCapacity
  /\ moff' = NoTable /\ doff' = NoTable /\ ioff' = NoTable
  /\ wmeta' = 0 /\ wdata' = 0 /\ windex' = 0 /\ lastWritten' = FALSE
  /\ mpos' = 0 /\ dpos' = 0 /\ ipos' = 0 /\ cpos' = 0
  /\ ps' = NoPartitionStore

OpenWrite ==
  /\ mode = "closed"
  /\ mode' = "w"
  /\ legacy' \in Formats
  /\ style' = {}
  /\ FreshStore
  /\ header' = <<>> /\ metaFile' = <<>> /\ dataFile' = <<>> /\ indexFile' = <<>>
  /\ tmpFile' = <<>> /\ written' = <<>>
  /\ got' = Result("Open", "None")

\* The files of a store that was written and closed, read in its format.
OpenRead ==
  /\ mode = "closed" /\ header # <<>>
  /\ mode' = "r"
  /\ style' \in Styles
  /\ FreshStore
  /\ got' = Result("Open", "None")
  /\ UNCHANGED <<disk, written, legacy>>
-------------------------------------------------------------------------------
(* Writing.                                                                *)

\* The table allocated anew instead of reallocated.
ResizeByMalloc(tbl, n) ==
  [i \in 0 .. n - 1 |-> IF n - 1 \in DOMAIN tbl THEN tbl[i] ELSE Undef]

Resize(tbl, n) == [i \in 0 .. n - 1 |-> At(tbl, i)]

\* The application's own discipline, not a check of the store.
ApplicationWrites(d) ==
  \/ ~legacy
  \/ AnyLength
  \/ psize = 0
  \/ d.length <= psize /\ ~lastWritten

\* The table doubled, but not its recorded capacity.
NoteOffsetsOnly ==
  LET n == IF capacity = np THEN 2 * capacity ELSE capacity
  IN /\ capacity' = capacity
     /\ moff' = [Resize(moff, n) EXCEPT ![cur] = wmeta]
     /\ doff' = [Resize(doff, n) EXCEPT ![cur] = wdata]
     /\ ioff' = [Resize(ioff, n) EXCEPT ![cur] = windex]

\* A full table is doubled and the offsets of the new partition noted,
\* before the length of the partition is checked.
NoteOffsets ==
  /\ capacity' = IF capacity = np THEN 2 * capacity ELSE capacity
  /\ moff' = [Resize(moff, capacity') EXCEPT ![cur] = wmeta]
  /\ doff' = [Resize(doff, capacity') EXCEPT ![cur] = wdata]
  /\ ioff' = [Resize(ioff, capacity') EXCEPT ![cur] = windex]

LengthDiffers(d) == psize # 0 /\ psize # d.length

Writable(d) ==
  /\ mode = "w" /\ cur < MaxPartitions /\ ApplicationWrites(d)
  /\ legacy => d.form = "InvertedIndex"

WritePartition(d) ==
  /\ Writable(d)
  /\ ~(LengthDiffers(d) /\ lastWritten)
  /\ NoteOffsets
  /\ psize' = IF psize = 0 THEN d.length ELSE psize
  /\ lastWritten' = (lastWritten \/ LengthDiffers(d))
  /\ tmpFile' = tmpFile \o Region(cur, 0, d.metaSize)
  /\ dataFile' = dataFile \o Region(cur, 0, DataSize(d))
  /\ indexFile' = indexFile \o Region(cur, 0, IndexSize(d))
  /\ total' = total + d.length
  /\ np' = np + 1
  /\ wmeta' = wmeta + d.metaSize
  /\ wdata' = wdata + DataSize(d)
  /\ windex' = windex + IndexSize(d)
  /\ cur' = cur + 1
  /\ written' = Append(written, d)
  /\ got' = Result("WritePartition", "None")
  /\ UNCHANGED <<header, metaFile, legacy, style, mode, loaded, excl, positions, ps>>

RejectLength(d) ==
  /\ Writable(d)
  /\ LengthDiffers(d) /\ lastWritten
  /\ NoteOffsets
  /\ got' = Result("WritePartition", "Something")
  /\ UNCHANGED <<disk, written, legacy, style, mode, cur, loaded, excl, gmeta, writeState,
                 positions, ps>>

\* Offset-table entries per stream and words of a header for n partitions.
FirstTableWord == IF legacy THEN 3 ELSE 4
Entries(n) == IF legacy THEN n ELSE n + 1
HeaderSize(n) == FirstTableWord - 1 + 3 * Entries(n)

\* Metadata offsets left relative to the first partition.
FinalTableUnshifted(tbl, shift, end) ==
  [i \in 0 .. Entries(np) - 1 |-> IF i < np THEN tbl[i] ELSE end]

\* finalizeMetadata: entries of the metadata table move past the header, and
\* the new format ends each table with the end of its stream.
FinalTable(tbl, shift, end) ==
  [i \in 0 .. Entries(np) - 1 |-> IF i < np THEN tbl[i] + shift ELSE end + shift]

HeaderWords ==
  LET n  == Entries(np)
      ft == FirstTableWord
      m  == FinalTable(moff, HeaderSize(np), wmeta)
      d  == FinalTable(doff, 0, wdata)
      x  == FinalTable(ioff, 0, windex)
  IN [i \in 1 .. HeaderSize(np) |->
        IF i = 1 THEN total
        ELSE IF i = 2 THEN psize
        ELSE IF i < ft THEN np
        ELSE IF i < ft + n THEN m[i - ft]
        ELSE IF i < ft + 2 * n THEN d[i - ft - n]
        ELSE x[i - ft - 2 * n]]

\* The handle is freed: nothing of its state outlives it.
CloseWrite ==
  /\ mode = "w"
  /\ header' = HeaderWords
  /\ metaFile' = tmpFile
  /\ tmpFile' = <<>>
  /\ mode' = "closed"
  /\ FreshStore
  /\ got' = Result("Close", "None")
  /\ UNCHANGED <<dataFile, indexFile, written, legacy, style>>
-------------------------------------------------------------------------------
(* Reading: the global metadata, loaded by the first call that needs it.   *)

Word(i) == IF i \in 1 .. Len(header) THEN header[i] ELSE Undef

\* The quotient not rounded up.
HeaderCountRoundedDown == IF legacy THEN header[1] \div header[2] ELSE header[3]

HeaderCount ==
  IF legacy THEN (header[1] - 1) \div header[2] + 1 ELSE header[3]

LoadCapacity ==
  IF Entries(HeaderCount) > capacity THEN Entries(HeaderCount) ELSE capacity

LoadTable(k) ==
  [i \in 0 .. LoadCapacity - 1 |->
     IF i < Entries(HeaderCount)
       THEN Word(FirstTableWord + k * Entries(HeaderCount) + i)
       ELSE Undef]

\* The state once the global metadata is loaded.
Count == IF loaded THEN np ELSE HeaderCount
MetaTable == IF loaded THEN moff ELSE LoadTable(0)
DataTable == IF loaded THEN doff ELSE LoadTable(1)
IndexTable == IF loaded THEN ioff ELSE LoadTable(2)

\* The early return of a loaded store forgotten.
MetaPosReloaded == HeaderSize(HeaderCount)

MetaPos == IF loaded THEN mpos ELSE HeaderSize(HeaderCount)

\* ALStoreEOF's answer, and an answer one partition late or early.
AtEndLate == cur > Count
AtEndEarly == cur + 1 >= Count
AtEnd == cur >= Count

EnsureLoaded ==
  /\ loaded' = TRUE
  /\ np' = Count
  /\ total' = IF loaded THEN total ELSE header[1]
  /\ psize' = IF loaded THEN psize ELSE header[2]
  /\ capacity' = IF loaded THEN capacity ELSE LoadCapacity
  /\ moff' = MetaTable /\ doff' = DataTable /\ ioff' = IndexTable

\* A legacy header holds no count: it is total_elements - 1 divided by a
\* partition_size that is 0 in a store without partitions.
DividesByZero == mode = "r" /\ ~loaded /\ legacy /\ header[2] = 0

ProcessDies ==
  /\ DividesByZero
  /\ mode' = "closed"
  /\ FreshStore
  /\ style' = {}
  /\ got' = Result("Load", "SIGFPE")
  /\ UNCHANGED <<disk, written, legacy>>

CanLoad == mode = "r" /\ ~DividesByZero /\ (loaded \/ ~excl)

\* ALStoreGetGlobalMetadata and ALStoreEOF.
GetGlobalMetadata ==
  /\ CanLoad
  /\ EnsureLoaded
  /\ mpos' = MetaPos
  /\ got' = [Result("GetGlobalMetadata", "None") EXCEPT !.num = Count]
  /\ UNCHANGED <<disk, written, legacy, style, mode, cur, excl, writeState, dpos, ipos, cpos, ps>>

StoreEOF ==
  /\ CanLoad
  /\ EnsureLoaded
  /\ mpos' = MetaPos
  /\ got' = [Result("EOF", "None") EXCEPT !.num = IF AtEnd THEN 1 ELSE 0]
  /\ UNCHANGED <<disk, written, legacy, style, mode, cur, excl, writeState, dpos, ipos, cpos, ps>>
-------------------------------------------------------------------------------
(* Reading: whole partitions.                                              *)

\* The loops of the tools call ALStoreEOF first; the store itself does not.
ApplicationReads == ~AtEnd \/ ("PastEnd" \in style /\ cur <= MaxPartitions)

\* The exclusive lock not looked at.
CanAdvanceUnlocked(call) ==
  mode = "r" /\ ~DividesByZero /\ call \in style /\ ApplicationReads

CanAdvance(call) ==
  /\ mode = "r" /\ ~excl /\ ~DividesByZero
  /\ call \in style /\ ApplicationReads

\* Length of the metadata of partition c; a legacy table has no end, so for
\* the last partition as much as any legacy metadata can take is read.
MetaLength(c) ==
  IF legacy /\ c = Count - 1 THEN Len(metaFile)
  ELSE At(MetaTable, c + 1) - At(MetaTable, c)

ReadPartition ==
  LET meta  == FReadMeta(MetaPos, MetaLength(cur))
      q     == Deserialize(meta)
      data  == FRead(dataFile, dpos, DataSize(written[q + 1]))
      index == FRead(indexFile, ipos, IndexSize(written[q + 1]))
  IN /\ CanAdvance("ReadPartition")
     /\ EnsureLoaded
     /\ IF q = Garbage
          THEN /\ got' = [Result("ReadPartition", "None") EXCEPT !.num = cur]
               /\ mpos' = Undef /\ dpos' = Undef /\ ipos' = Undef
          ELSE /\ got' = [Result("ReadPartition", "None") EXCEPT
                            !.num = cur, !.meta = meta,
                            !.data = data, !.index = index]
               /\ mpos' = MetaPos + Len(meta)
               /\ dpos' = dpos + Len(data)
               /\ ipos' = ipos + Len(index)
     /\ cur' = cur + 1
     /\ UNCHANGED <<disk, written, legacy, style, mode, excl, writeState, cpos, ps>>
-------------------------------------------------------------------------------
(* Reading: a partition store, open on one partition.                      *)

OpenPartition ==
  /\ CanAdvance("OpenPartition")
  /\ EnsureLoaded
  /\ mpos' = MetaPos
  /\ ps' = [open |-> TRUE, num |-> cur,
            moff |-> At(MetaTable, cur),
            doff |-> At(DataTable, cur),
            ioff |-> At(IndexTable, cur),
            fresh |-> TRUE, iChanged |-> FALSE, cChanged |-> FALSE,
            meta |-> Garbage]
  /\ cur' = cur + 1
  /\ excl' = TRUE
  /\ got' = [Result("OpenPartition", "None") EXCEPT !.num = cur]
  /\ UNCHANGED <<disk, written, legacy, style, mode, writeState, dpos, ipos, cpos>>

ReadMetadata ==
  LET from == IF ps.fresh THEN mpos ELSE ps.moff
      meta == FReadMeta(from, MetaLength(ps.num))
  IN /\ ps.open
     /\ mpos' = from + Len(meta)
     /\ ps' = [ps EXCEPT !.fresh = FALSE, !.meta = Deserialize(meta)]
     /\ got' = [Result("ReadMetadata", "None") EXCEPT
                  !.num = ps.num, !.meta = meta]
     /\ UNCHANGED <<disk, written, legacy, style, mode, cur, loaded, excl, gmeta, table,
                    writeState, dpos, ipos, cpos>>

\* The caller passes metadata it has read through the partition store, and
\* bins low .. high-1 of it.
BinRange(lo, hi) ==
  /\ ps.open /\ ps.meta # Garbage
  /\ lo <= hi /\ hi <= written[ps.meta + 1].numBins

ReadDataBins(lo, hi) ==
  LET d    == written[ps.meta + 1]
      from == ps.doff + DataBinOffset(d, lo)
      data == FRead(dataFile, from, DataBinOffset(d, hi) - DataBinOffset(d, lo))
  IN /\ BinRange(lo, hi)
     /\ dpos' = from + Len(data)
     /\ got' = [Result("ReadDataBins", "None") EXCEPT
                  !.num = ps.num, !.lo = lo, !.hi = hi, !.data = data]
     /\ UNCHANGED <<disk, written, legacy, style, mode, cur, loaded, excl, gmeta, table,
                    writeState, mpos, ipos, cpos, ps>>

\* cindexfp would serve a legacy compression index, which legacy metadata
\* never describes: the deserializer sets ALInvertedIndex.
ReadIndexBins(lo, hi) ==
  LET d     == written[ps.meta + 1]
      from  == ps.ioff + IndexBinOffset(d, lo)
      index == FRead(indexFile, from, IndexBinOffset(d, hi) - IndexBinOffset(d, lo))
  IN /\ BinRange(lo, hi)
     /\ ipos' = from + Len(index)
     /\ ps' = [ps EXCEPT !.iChanged = TRUE]
     /\ got' = [Result("ReadIndexBins", "None") EXCEPT
                  !.num = ps.num, !.lo = lo, !.hi = hi, !.index = index]
     /\ UNCHANGED <<disk, written, legacy, style, mode, cur, loaded, excl, gmeta, table,
                    writeState, mpos, dpos, cpos>>

\* The file pointers go back to cur_partition.  As in the code, each index
\* file pointer is moved when the *other* one has changed.
ClosePartition ==
  /\ ps.open
  /\ mpos' = At(moff, cur)
  /\ dpos' = At(doff, cur)
  /\ ipos' = IF ps.cChanged THEN At(ioff, cur) ELSE ipos
  /\ cpos' = IF ps.iChanged THEN At(ioff, cur) ELSE cpos
  /\ ps' = NoPartitionStore
  /\ excl' = FALSE
  /\ got' = Result("ClosePartition", "None")
  /\ UNCHANGED <<disk, written, legacy, style, mode, cur, loaded, gmeta, table, writeState>>

CloseRead ==
  /\ mode = "r" /\ ~excl
  /\ mode' = "closed"
  /\ style' = {}
  /\ FreshStore
  /\ got' = Result("Close", "None")
  /\ UNCHANGED <<disk, written, legacy>>
-------------------------------------------------------------------------------
(* Calls that return before they touch anything, most of them with an      *)
(* error.                                                                  *)

WrongMode(call) ==
  \/ mode = "w" /\ call \in {"GetGlobalMetadata", "ReadPartition", "OpenPartition"}
  \/ mode = "r" /\ call = "WritePartition"

HeldExclusively(call) ==
  excl /\ call \in {"ReadPartition", "OpenPartition", "Close"}

UnsupportedForm(call) ==
  /\ mode = "w" /\ legacy /\ call = "WritePartition"
  /\ \E d \in Parts : d.form # "InvertedIndex"

\* open_excl = false
SharedOpen(call) == mode = "r" /\ ~excl /\ call = "OpenShared"

Refuse(call) ==
  /\ \/ WrongMode(call)
     \/ HeldExclusively(call)
     \/ UnsupportedForm(call)
     \/ SharedOpen(call)
  /\ got' = Result(call, "Something")
  /\ UNCHANGED <<disk, written, legacy, style, mode, cur, loaded, excl, gmeta, table,
                 writeState, positions, ps>>

\* There is no end of store for a writer.
WriterEOF ==
  /\ mode = "w"
  /\ got' = Result("EOF", "None")
  /\ UNCHANGED <<disk, written, legacy, style, mode, cur, loaded, excl, gmeta, table,
                 writeState, positions, ps>>

Calls == {"GetGlobalMetadata", "WritePartition", "ReadPartition",
          "OpenPartition", "OpenShared", "Close"}
-------------------------------------------------------------------------------
BinIds == {0} \cup UNION {0 .. d.numBins : d \in Parts}

Next ==
  \/ OpenWrite
  \/ \E d \in Parts : WritePartition(d)
  \/ \E d \in Parts : RejectLength(d)
  \/ CloseWrite
  \/ OpenRead
  \/ ProcessDies
  \/ GetGlobalMetadata
  \/ StoreEOF
  \/ ReadPartition
  \/ OpenPartition
  \/ ReadMetadata
  \/ \E lo, hi \in BinIds : ReadDataBins(lo, hi)
  \/ \E lo, hi \in BinIds : ReadIndexBins(lo, hi)
  \/ ClosePartition
  \/ CloseRead
  \/ \E call \in Calls : Refuse(call)
  \/ WriterEOF

Spec == Init /\ [][Next]_vars
===============================================================================
