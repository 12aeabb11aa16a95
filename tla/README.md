# TLA+ specifications of ALACRITY

ALACRITY is a C/C++ library that bins arrays of floating-point values by their
high-order bits, indexes and compresses them, keeps the result in a store of
partitions, and answers range queries on it.  This directory holds TLA+
specifications of it, the TLC configurations that check them, and TLAPS proofs.
Source paths below are relative to the repository root (`src/ALStore.c` and so
on); the line numbers of every definition are in `PROJECT.json`.

## The system

The library is single-threaded, and almost all of it is called through a few
handles.  What makes it hard is not concurrency but *sequences of calls that
share hidden state*: the offset tables, the `FILE*` positions that one call
leaves for the next, the lock an open partition holds on its store, lengths that
are recomputed rather than stored, and boundary cases of binning and compression.

| Component | State | Operations | Talks to |
|---|---|---|---|
| **ALStore** and the **POSIX backend** (`src/ALStore.c`, `src/io/ALStorePOSIX.c`) | access mode, cached global metadata, current partition, exclusive flag; offset tables and capacity, running offsets, five file handles; per open partition: offsets and "pointer moved" flags | open, write partition, close, get global metadata, EOF, read partition, open partition, read metadata / data bins / index bins, close partition | serialization, the C library's files |
| **Encoder** (`src/ALEncode.c`, `src/ALConfigure.c`) | count table reused as lookup table, bin layout, fill offsets | `ALEncode` in two scans of the data | types, utilities |
| **Decoder** (`src/ALDecode.c`) | read positions in data and index | `ALDecode` for each index form | RID compression |
| **Index conversion** (`src/ALConvert.c`, `src/ALRIDTranslate.c`) | compressed bin offsets | inverted to compressed index and back, for all or some bins; RID offset | RID compression |
| **Merge** (`src/ALMerge.c`), not modelled | positions in two bin layouts | `ALMerge` | |
| **Serialization** (`src/ALSerialization.c`, `src/ALSerializationLegacy.c`, `src/memstream`) | a memory stream | sizes, serialize, deserialize, in two formats | |
| **ALFileStore** (`src/ALFileStore.c`), not modelled | preallocated offset tables | open, append, close; no reading | files; read by ALStore in the legacy format |
| **Univariate query engine** (`src/uniquery`) | cached global and partition metadata | start query, next result, destroy | ALStore, conversion |
| **Multivariate query tool** (`tools/multiquery.c`) | several engines, a bitmap | count rows over several stores in lockstep | query engine's parts, ALStore, RID compression |
| **RID compression** (`ridcompress`) | batches of 128 RIDs | encode, decode to list, bitmap or selection box, translate | generated bit packing |
| **Tools** (`tools/alacrity.c`, `tools/uniquery.c`) | | encode and decode files, show bins, query | all of the above |

The section *Not modelled* says what is left out of these components, and why.

### What is hard, and what makes each part correct

* **Store.**  A reader must get back the written partitions, whole, in order,
  each once, whichever way it reads.  This depends on the writer's tables
  surviving doubling and refused partitions; on the header written at close; on
  a legacy partition count that is recomputed from lengths; on file positions
  that every call must leave where the next one expects them; on the exclusive
  lock.  Everything is durable only at close.
* **Encoder and decoder.**  Decoding inverts encoding for every input; bins are
  in one's complement order (the order of the values), non-empty, and their
  offsets partition the elements; the reused count table is never read as the
  wrong thing.
* **Conversion, RID compression.**  Every bin decompresses to the RIDs it was
  compressed from, for lengths around the batch size; the compressed offsets
  delimit the bins.
* **Query.**  The bin range found contains every element in the interval, the
  boundary bins are trimmed exactly, the metadata cached for a partition is that
  partition's, iteration visits each partition once.
* **Multivariate query.**  Stores stay in step although variables are skipped.
* **Serialization.**  The announced size is the size written and the size read,
  in both formats and for every form of the index, and every field comes back.

`PROJECT.json` lists the individual hazards with their lines and the properties
that cover them.

## Modules

| Module | What it is |
|---|---|
| `PartitionStream` | abstract specification: what a store promises, with no files, offsets or positions |
| `ALStorePOSIX` | `ALStore.c` over `ALStorePOSIX.c`: one action per call |
| `ALStoreProps` | its invariants, the refinement mapping to `PartitionStream`, fairness and liveness |
| `ALStoreProofs` | TLAPS: type correctness; the writer's, the sealed and the loaded layout; the end of the store, the reader's file pointers, and that the store implements `PartitionStream` |
| `Serialization`, `SerializationProps` | both formats of a partition in a memory stream: one action per function |
| `SerializationProofs` | TLAPS: sizes, writers and readers agree to the byte; what is written is read back |
| `DatumBits` | how an element is cut into bin value and stored bytes, and joined (`include/alacrity-util.h`) |
| `ALCodec`, `ALCodecProps` | `ALEncode.c` and `ALDecode.c`: one action per pass of a loop |
| `ALCodecProofs` | TLAPS: joining an element's parts inverts cutting it; layout, buffers and the decoded input are right |
| `FixedLengthCode`, `FixedLengthFunctions` | the packing of a batch at one width; the 64 generated functions and the tables that find them |
| `PFORBatch`, `PFORBatchDecode` | one batch of a compressed RID list, encoded in four ways and decoded in eight (`patchedframeofreference.cpp`) |
| `RidLists` | lists of batches (`pfordelta-c-interface.cpp`) |
| `IndexForms` | the forms of an index, as functions on lists |
| `PartitionIndex`, `PartitionIndexProps` | the index of a partition, converted, translated and read (`ALConvert.c`, `ALRIDTranslate.c`, `ALRIDCompression.c`) |
| `RidListProofs` | TLAPS: unpacking inverts packing; a batch is read as it was encoded, and no batch is larger than the bound; the same of a list, of several lists, and of lists whose RIDs were moved |
| `PartitionIndexProofs` | TLAPS: through any conversions and translations the index holds its RIDs, and the reads return them |
| `BinRange` | the bins an interval touches (`findbinrange.templates.cc`); used by both query modules |
| `UniQuery`, `UniQueryProps` | the univariate query engine (`src/uniquery`): one action per call or pass of a trimming loop |
| `MultiQuery`, `MultiQueryProps` | the multivariate query tool: `BinRange` and `IndexForms` composed over several stores |
| `BinRangeProofs` | TLAPS: the bins an interval touches; used by the proofs of both query modules |
| `UniQueryProofs` | TLAPS: the answers of the query engine |
| `MultiQueryProofs` | TLAPS: the lockstep of the stores, the rows that are counted and their total; uses what `RidListProofs` says of lists |
| `BinnedTables` | partitions from rows, for the instances of the query modules |
| `MC*.tla`, `MC*.cfg` | small instances for TLC |

`RidLists` sits on `PFORBatchDecode`, that on `PFORBatch`, that on
`FixedLengthFunctions`: what a list decodes to is computed from the bits of its
packed words.  `PartitionIndex` and `MultiQuery` both use the lists through
`IndexForms`; `UniQuery` and `MultiQuery` both find bins through `BinRange`.

A few operators named for what they get wrong stand before the definition they
are a faulty version of.  Nothing in the specification uses them: replacing the
definition by its faulty version must make TLC report the property that guards
it (`"mutants"` in `PROJECT.json`).  They are `ResizeByMalloc`,
`NoteOffsetsOnly`, `FinalTableUnshifted`, `HeaderCountRoundedDown`,
`MetaPosReloaded`, `AtEndLate`, `AtEndEarly`, `CanAdvanceUnlocked` (store);
`LayoutSizeWithoutEnd`, `EndiannessFirst`, `OffsetsOfBytes` (`Serialization`);
`TwosComplementOrder`, `NoEndOffset`, `TableStaysCounts`, `OffsetsOfEnds`,
`CursorNotMoved`, `PlaceInBinOrder`, `BinEndsLate` (`ALCodec`);
`PatchFromTheStart`, `RunsAfterTheirStart`, `DeltasWithoutFrame`,
`InBoxOfFirstDimension` (`PFORBatchDecode`); `CapacityOfFullBatches`,
`UpdateBeyondRids`, `UpdateFullBatches` (`RidLists`); `AboveLow`, `AtOrAboveUp`
(`BinRange`); `CacheTooShort`, `FirstSlot`, `StaysAt`, `RowLeftBehind`,
`SeveralGaps` (`UniQuery`); `TooFewWords`, `AdvancedWhenNeeded`, `LeftOver`,
`CountAlways` (`MultiQuery`).

### ALStorePOSIX: state and actions against the code

A stream (metadata, data, index) is a sequence of *cells*; cell `<<p, k>>` is the
k-th cell of partition `p`, so what a read returns says which partition it came
from.  Positions count cells, and each word of the global header takes one
position of the metadata file.  An encoded partition is reduced to its length,
its index form, the size of its serialized metadata, and the offsets of its bins
in data and index.

| State | In the code |
|---|---|
| `header`, `metaFile`, `dataFile`, `indexFile`, `tmpFile` | `-metadata.dat` (split into header and the rest), `-compressed_data.dat`, `-query_index.dat`, `-metadata.dat.tmp` |
| `mode`, `cur`, `loaded`, `excl` | `access_mode`, `cur_partition`, `global_meta_loaded`, `has_part_store_excl_open` |
| `np`, `psize`, `total` | `ALGlobalMetadata` |
| `capacity`, `moff`, `doff`, `ioff` | `partition_capacity` and the three offset tables; an entry never assigned is `Undef` |
| `wmeta`, `wdata`, `windex`, `lastWritten` | the running offsets and `has_last_partition_been_written` |
| `mpos`, `dpos`, `ipos`, `cpos` | the positions of the four `FILE*` when reading |
| `ps` | `ALPartitionStore` and its POSIX state |
| `got` | what the last call returned |
| `written`, `style` | history: the partitions accepted; how the application reads |

`-index.dat` has a position (`cpos`) but no content: only a legacy compression
index would be written to it, and the legacy format refuses every form but the
inverted index.  There is one index position per handle because closing a
partition store confuses the two.

| Action | Call |
|---|---|
| `OpenWrite`, `OpenRead` | `ALStoreOpenPOSIX` |
| `WritePartition`, `RejectLength` | `ALStoreWritePartition`, accepted or refused for its length *after* the table was extended |
| `CloseWrite`, `CloseRead` | `ALStoreClose`, with `finalizeMetadata` |
| `GetGlobalMetadata`, `StoreEOF` | the same; both load the header if no call has yet |
| `ReadPartition` | `ALStoreReadPartition` |
| `OpenPartition`, `ReadMetadata`, `ReadDataBins`, `ReadIndexBins`, `ClosePartition` | the partition store |
| `ProcessDies` | the legacy loader's division by a `partition_size` of 0 |
| `WriterEOF` | `ALStoreEOF` by a writer: always false |
| `Refuse` | every call that returns an error before it touches anything |

Reads are what `fread` does: they stop at the end of the file and advance the
position by what was read.  Loading the header is part of the call that causes
it (`EnsureLoaded`, `MetaPos`), as in the code.  A buffer that does not begin
with a whole partition's metadata deserializes to `Garbage`, after which all
positions are unknown.

The application is modelled where the store relies on it.  `style` says how it
reads: every tool in the repository uses only `ReadPartition` or only
`OpenPartition`, and looks at `ALStoreEOF` first; a style can also allow both, or
reading past the end (only the proof of `TypeCorrect` covers this last one).  `ApplicationWrites` says which lengths it writes: the
encoder writes partitions of one length and at most one shorter partition after
them.  In the new format the model lets it write any lengths; in the legacy
format only with the constant `AnyLength`.

**Left out** of the store: I/O calls that fail or come back short; a crash
before or during the close; a legacy partition that its serialization refuses
(element size other than 8, significant bits other than 16); 64-bit wraparound.

**Bounds.**  `MaxPartitions` bounds the partitions of one store; everything else
that could grow is bounded by it.  With `InitialCapacity = 2` (16 in the code)
three partitions are enough for a table to be full, to be doubled, and for the
new format's end entry to need an extension of its own; a partition store can be
opened on a first, a middle and a last partition.  The four partitions differ in
the sizes of all three streams, so that no offset of one stream or partition is
right for another by chance, and one has an empty index bin.

### DatumBits and ALCodec: state and actions against the code

`DatumBits` treats an unsigned integer as the set of its 1 bits, so that `&`, `|`
and shifts are set operations.  It keeps two peculiarities of the macros: the mask
for the low-order bits is cut from a 64-bit word whatever the element's size,
and the data buffer holds whole bytes.  With 12 significant bits of a float, for
example, 4 of them are stored a second time with the low-order bits, and joined
to themselves by the OR.

`ALCodec` does not know the bits: its constants `High`, `Low` and `Rejoin` are
what `DatumBits` defines, and the assumption it makes of them,
`CodecAssumption`, is the theorem `RejoinSplit`.  Array subscripts start at 0 as
in the code, and memory from `malloc` holds `Undef` until it is written.

| State | In the code |
|---|---|
| `raw`, `form` | the input of `ALEncode`, `config->indexForm` |
| `table` | `countTable`, which becomes `*invertedLookupTable` in place |
| `numBins`, `binValues`, `binStart` | `ALBinLayout` |
| `step`, `curBin`, `curEnd` | the bin value the layout scan has come to, `curBinID`, `curEndOffset` |
| `cursor`, `data`, `index` | `binCurOffsets`, the partition's buffers |
| `bin`, `pos`, `out`, `outCount` | the decoder's bin and element, its output |

| Action | Code |
|---|---|
| `CountElement` | the first scan of the data |
| `AllocateLayout` | the layout's arrays are allocated, offset 0 is set |
| `SkipValue`, `LayoutValue` | one bin value in one's complement order: it does not occur; it becomes a bin |
| `AllocateBuffers` | `initMetadataAndAllocateBuffers` and the copy of the offsets; `ALCompressedInvertedIndex` is refused here |
| `FillElement` | one element of the second scan, for either index form |
| `StartDecode` | `ALDecode`; for a compression index it is also its end |
| `DecodeElement`, `NextBin`, `FinishDecode` | `ALDecodeWithInvertedIndex` |

Left out: the assertions of `ALEncoderConfigure`, more than 2^32 - 1 elements in
a partition, and the branch of `ALDecode` that decompresses a compressed inverted
index bin by bin (its decoders are those of `RidLists`).

**Bounds.**  Elements of three bits, two of them significant, give two bin values
of each sign (so the order of both loops shows, and both zeros) and two elements
to each bin value; four elements can be four bins, one bin, or any bins between,
with rows of different bins interleaved in every way.  Bytes of two bits make
the data buffer repeat a significant bit.

### Serialization: state and actions against the code

Memory is a sequence of bytes that know what they are a part of: byte k of the
number v, or byte i of a buffer.  So a field read at the wrong place or with the
wrong width is not the number that was written (`Number` gives `Undef`), and a
byte that was never written is `Unset`.

| State | In the code |
|---|---|
| `part`, `format` | the `ALPartitionData`, and which of the two serializers is called |
| `buf`, `ptr`, `announced` | the `memstream_t` and the size it was allocated with; the stream checks no bound, so `buf` grows when it is written past its end |
| `pc`, `err` | the function that runs next; a serializer's result |
| `back` | the `ALPartitionData` read back, its arrays as bytes |

The actions are the functions, in the order in which `ALSerializePartitionData`
and `ALDeserializePartitionData` call them; the legacy functions are cut in two,
before the bins.  A writer puts its fields one behind the other (`HeadBytes`), and a
reader takes every field from an offset of its own, so that nothing but the proof
says that the two agree.  Sizes are computed in the code's widths:
`partitionLength * insigbytes` is a product of 32 bits in `ALGetDataSize`, and one
of 64 in `ALSerializeData`.

**Bounds.**  `Shorts = 4` and `Words = 64` stand for 2^16 and 2^32, so that
partitions of four bins, of an offset that overflows when scaled to bytes, and of
data that overflow their size, all occur.  All seven forms of the index, and
element sizes and significant bits of which the legacy format takes one pair.

### RID compression: the modules against the code

A batch holds up to `BatchSize` ascending RIDs of a bin: the first as frame of
reference, the others as differences of the width `optimal_param` (or, with
expansion, `determine_b_to_expand`) finds the cheapest.  Differences that are
wider are *exceptions*: they are packed as 0 and kept apart, without a list of
their positions, so that on reading every packed 0 from the first exception on is
taken for one.  Batches of consecutive RIDs with few gaps are stored as *runs*:
numbers of ones and zeros in turn.

`FixedLengthFunctions` has a definition for each of the 64 generated functions
because the file has a text for each; all are the packing `Pack` and `Unpack` at
their width.  (The shifts and masks of the 64 texts were compared with these
formulas mechanically: they agree in every line.)  A buffer of words is a function
to sets of bits, so a batch's body is a set of places in its bit stream.

| Definition | Code |
|---|---|
| `optimal_param`, `determine_b_to_expand`, `required_buffer_size` | the same; the 1.6 of the threshold is `10 * a < 16 * b` |
| `encode`, `expand_encode`, `hybrid_encode`, `expand_runlength_encode` | the four ways to encode a batch |
| `Header_write`, `Header_read`, `Batch` | `CompactHeader`, with the widths of its bit fields (`BatchOK`) |
| `decode_new`, `decode_every_batch`, `decode_new_to_deltas`, ... | the eight ways to decode one |
| `encode_rids`, ..., `update_rids`, `decode_rids_to_selbox` | the functions on lists; a buffer of lists is a sequence of lists |

`PartitionIndex` is the state machine that uses them.  `original`, `shift` and
`translations` are history; `form` and `index` are the metadata and the buffer;
`answer` is what the last read returned.  Its actions are `ALConvertIndexForm` in
its cases (`convertIIToCII`, `convertIIToSkip`, `convertCIIToII`,
`ConvertUnsupported`), `ALConvertPartialIndexForm`, `ALTranslateRIDs` and its
refusal, and the four families of reads.  A failed assertion sets `aborted`.

Peculiarities the model keeps:

* A difference of the width of a RID (2^31 or more) makes expansion choose 32 for
  the width, whose code in the header means "every difference is an exception":
  the batch is not read as it was written.  The properties exclude it
  (`NoneTooWide`); it needs a gap of 2^31 rows in one bin.
* The form of skip lists allocates and writes nothing; its assertion fails.
* `update_rids` moves only the first list of its buffer, and `ALTranslateRIDs`
  calls it for one list at a time and does not look at its result.
* Two template functions of the expansion forms end without a return statement:
  their result is any value.
* The decoder for a region that is not contained in the selection box gives up at
  the first element outside of a box of three dimensions (it goes on for 1, 2 and
  4), and reads only the first of several lists.
* RIDs are added without the width of a RID by the bitmap decoders; of a batch of
  runs only the place where a run starts has that width (`RunStart`).  So the
  property about bitmaps asks that a bin's RIDs have wrapped together.

**Bounds.**  `BatchSize = 8`, RIDs of 8 bits, bytes of 2 and words of 4 bits keep
the proportions of the code (a batch is a whole number of words, four bytes to a
RID, three sizes of exceptions) in a scale in which batches are full, short and
several to a list, every exception size occurs, runs are cheaper or dearer than
packing, and RIDs wrap.  The partitions have a gap of three lengths at every place
of a batch, regular differences, one outlier, single rows, bins of one to three
batches, and one difference of the width of a RID.  Two translations in either direction
(`MaxTranslations`) go back and forth past 0 and past the largest RID.  The boxes
have one to four dimensions, contain the region or cut it.

### BinRange and UniQuery: state and actions against the code

The engine reads a store through the calls `PartitionStream` specifies, so here a
store is a sequence of partitions and `cur` the one that is opened next.  A
partition has the layout `ALCodec` produces (`IsPartition`): bins in one's
complement order, none empty, each listing its rows and elements.  An element is
its bit pattern, sign and magnitude; `Value` orders the patterns as the floating
point comparison does, with -0 equal to 0, and `High` is the bin value.

| State | In the code |
|---|---|
| `store`, `cur` | the store's partitions, `cur_partition` |
| `metadatas` | `ALQueryEngine.metadatas`, a slot for each partition; `gmeta` is loaded with it |
| `query`, `pc` | `ALUnivariateQuery`; where `ALQueryNextResult` is, or that the application is between two calls (`loop`) or without a query (`idle`) |
| `meta`, `range` | its local `meta`, `start_bin` and `end_bin` |
| `data`, `rids`, `inputOff`, `head`, `tail` | the result's buffers and the locals of `trimQueryResultsTemplate` |
| `answer` | the result returned last, with the partition and query it is for |

| Action | Code |
|---|---|
| `EngineInit` | `ALQueryEngineDestroy` of the last engine, if any, and `ALQueryEngineInit` with either value of `preload_metadata` |
| `Reopen` | the application closes the store and opens it again for the same engine |
| `StartQuery`, `DestroyQuery` | `ALQueryEngineStartUnivariate...Query`; the application leaves its loop early |
| `NextAtEnd`, `NextOpen` | `ALQueryNextResult` at the end; otherwise it opens the partition and takes its metadata from the cache or the store |
| `NoBinTouched`, `IndexOnly`, `ReadRange` | the outcomes of `findBinRange1C` and of the query type |
| `TrimFirst`, `FirstTrimmed`, `TrimLast`, `PackageResult` | `trimQueryResults`: one pass of each loop, and the ends of the loops |

`findBinRange1C` runs four loops with one shared iterator: negative bins, then
positive ones, for the start bin and again for the end bin.  When a loop for
negative bins stops early it stops at a bin that satisfies the positive loop's
condition as well, because both compare the rounded values in two's complement.
So each pair of loops finds the first bin with its condition, which is what
`StartBin` and `EndBin` of `BinRange` say; both zero bins have rounded value 0 there.

A region query that touches more than two bins reads only the two at the ends;
the gap in the data buffer is `Undef` and no property would survive its use.

Left out: NaN and infinities, decompression of the index (RID compression), and
where in the buffer the stored bytes are expanded.

**Bounds.**  `Sign = 4` and `Lows = 2` give sixteen elements: bins -3 to -0 and +0
to +3 of two elements, so a bound can be at a bin's first element or inside it.
The partitions have bins of both signs with and without each zero, positive or
negative ones only, zero bins only, and a single bin; rows are not in the order of
the bins.  Every pair of bounds is asked, also empty and reversed ones.  Two
stores have two partitions with different numbers of bins, which the metadata
cache could confuse.

### MultiQuery: state and actions against the code

| State | In the code |
|---|---|
| `stores`, `queries` | the `ALStore` and the bounds of every variable |
| `cur`, `metadatas` | `cur_partition` of each store, the metadata cache of each engine |
| `part`, `i`, `touched` | `current_part_num`, the loop over variables, `are_bins_touched` |
| `bitmap`, `total` | `p_bitmap`, `total_result_count` |
| `pc` | the place in `doMultiQueryValueConstraint` |

| Action | Code |
|---|---|
| `NextPartition`, `Finish` | the outer loop, which asks only the first store for its end |
| `SkipVariable` | a variable after one that touched no bin: its partition is opened and closed again |
| `UntouchedVariable`, `MixVariable` | the variable touches no bin; its bits are intersected |
| `OtherFormVariable` | the index has another compressed form |
| `Refuse` | `return false` in the middle |
| `CountPartition` | the count at the end of a partition |

Peculiarities the model keeps: candidates are decoded only in the mix form, with
the other compressed forms their RIDs are memory that was never written
(`OtherFormVariable`: any bits of `Garbage`, or a failed assertion); `float`
variables get no candidates at all; RIDs of a batch of runs in a checked bin are
one too high (disagreement 5); a zero bin between the checked ones is not checked
(disagreement 4); a batch whose differences need the width of a RID is not read as
it was written; and the assertion in `setBitsinBitMap` (line 143) lets a word
just behind the bitmap pass.  `Plain` says which partitions meet none of these,
and `RowsMatch` and `TotalCount` are about them; `InLockstep` is about all.

`IsIndexed` says what the index of a partition is: for every bin the list that
`convertIIToCII` makes of its rows (`ListOf`), which ascend, as `ALEncode` puts
them in (`RowsOfBin`).  It is part of `PartitionAssumption`, so TLC evaluates it on
the tables of the run.

Left out: stores whose partitions have different lengths, which the tool does not
check; argument parsing; timing.

**Bounds.**  `Sign = 4`, `Lows = 2` as for `UniQuery`, batches of 8 RIDs.  Two
tables have two `double` variables in the mix form, in two partitions, the second
one shorter, or in one with runs; four tables have one variable of another type or
form.  One variable is asked for every pair of bounds, the other for six intervals
around the values of its bins, so that in each partition neither, either or both
touch bins.

## Runs

| Run | Result | Shows |
|---|---|---|
| `MCStore.cfg` | passes | all properties below, both formats, both reading styles |
| `MCStoreMixed.cfg` | `IndexPointerPutBack` violated | a partition store closed after some index bins were read leaves the pointer behind these bins: the flags are swapped |
| `MCStoreLegacyCount.cfg` | `MetadataPointerPastHeader` violated | a longer second partition makes the legacy reader count one too many |
| `MCSerialization.cfg` | passes | sizes, writers and readers of both formats agree to the byte |
| `MCSerializationLegacy.cfg` | `LegacyKeepsBinValues` violated | half of the bin values is lost in the legacy format |
| `MCCodec.cfg` | passes | every input of up to 4 elements: layout, buffers and round trip |
| `MCPartitionIndex.cfg` | passes | every form of the index, converted, translated and read by every function |
| `MCPartitionIndexRuns.cfg` | `RunListsDecode` violated | RIDs of a batch of runs are decoded one too high |
| `MCQuery.cfg` | passes | every interval and query type on eight stores, with queries left and stores reopened |
| `MCQueryUpperBin.cfg` | `IndexOnlyLeavesOutUpperBin` violated | a query without candidate checks returns the bin that begins at the excluded upper bound |
| `MCQueryZero.cfg` | `ResultsInRange` violated | an element below the lower bound is returned from a zero bin |
| `MCMultiQuery.cfg` | passes | two variables in one or two partitions, every interval of sixteen values for one of them |

Properties of the run `MCStore.cfg`:

* `TypeOK`: types, including that offsets stay numbers and no call is made on
  what is not metadata.
* `WriterLayout`, `SealedLayout`, `LoadedLayout`: the offset tables locate every
  accepted partition in the files: while writing, in the finished header, and in
  the reader's memory.
* `PointersInPlace`: between calls the metadata and data positions are at the
  next partition, whatever was read before.  (The index pointer is
  not: disagreement 1.)
* `EOFExact`: `ALStoreEOF` says true exactly at the end.
* `ImplementsStream`: the store implements `PartitionStream`.  A delivery maps to
  a view of partition p only if every cell delivered is p's, so a read from a
  stale position is a step the abstract specification does not have.
* `ScanCompletes`: a reading loop comes to its end and leaves no partition open.

**Fairness.**  `ReaderLoop` is weak fairness of `ReadPartition`, `OpenPartition`
and `ClosePartition`.  The loops `while (!ALStoreEOF(store)) { ... }` of
`tools/alacrity.c` are sequential programs: one does not stop before the call it
has come to, and each pass opens and closes (or reads) one partition.  No
fairness is assumed of the calls in between or of writers.

Properties of the run `MCCodec.cfg`:

* `TypeOK`: types, and arrays of the extents allocated.
* `TableChangesInPlace`: while the count table is overwritten with bin ids, what
  the scan has passed is an id and what it has not is still a count.
* `LayoutMatchesInput`: the bins are exactly the values that occur, in signed
  order, each as long as its value is frequent.
* `BinsListTheirRows`: each bin lists its rows, ascending, with their own bytes.
* `CompressionIndexSuffices`: though it holds no positions, a compression index
  determines every element.
* `RoundTrip`: decoding an inverted index returns the input.
* `Finishes`: encoding and decoding end.  `WF_vars(Next)` is that a running
  function goes on to its next statement.  `MCCodec.cfg` turns deadlock checking
  off because both functions return.

Properties of the run `MCQuery.cfg`, in which deadlock is checked:

* `TypeOK`: types; the cache has a slot for each partition, and trimming stays
  inside the buffers.
* `NothingLost`: no row in the interval is missing, for any query type.
* `OnlyZeroBinsLeak`: after candidate checks the only rows outside the interval
  come from zero bins, in the case of disagreement 4.
* `IndexOnlyMeetsInterval`: a query without candidate checks answers with every
  row of each bin that meets the *closed* interval from lb to ub, the two zero bins
  taken as one, and with no other row.  The edges of a bin are computed from the
  values of its elements (`LowEdge`, `HighEdge`), not from rounded bounds, so this
  is what the comparisons of `findBinRange1C` amount to.  The interval of a query
  excludes ub, and the repository's test excludes the bin that begins there: that
  is `IndexOnlyLeavesOutUpperBin`, disagreement 8.
* `ValuesMatchRows`: every row once, and with its own value, though rows and
  values are moved separately.
* `CacheHoldsOwnMetadata`: the metadata used for a partition is that partition's,
  over early exits, reopened stores and new engines.
* `QueryEnds`: a loop over the results ends.  The fairness is `WF_vars(NextResult)`:
  a call runs to its end, and `while (ALQueryNextResult(...))` in
  `tools/uniquery.c` calls it again.  Nothing is assumed of beginning or leaving
  a query.

Properties of the run `MCSerialization.cfg`, which stops when a partition is read
(no deadlock is checked):

* `StreamFits`: nothing is written or read past the announced size, and all of it
  is; as long as data and index are shorter than 2^32 bytes, where the product in
  `ALGetDataSize` is exact (otherwise: disagreement 9).
* `ReadsBack`: from the new format every field is read back; from the legacy one
  the length and the place of every bin, unless there are 2^16 bins
  (disagreement 7) or an offset in bytes overflows 32 bits.

Properties of the run `MCPartitionIndex.cfg` (a failed assertion ends the process,
so no deadlock is checked):

* `TypeOK`: what a header's fields can hold.
* `CapacitySuffices`: the buffer allocated for a compressed index takes it, and
  the only assertion that fails is that of the skip form.
* `InvertedKeepsRids`: compressing, translating in either form and decompressing,
  in any order, gives the original RIDs moved by the sum of the offsets, modulo
  2^32.
* `RidAnswers`, `BitmapAnswers`, `DeltaAnswers`: each kind of read gives the RIDs of
  the bins asked for, in the forms it exists for.
* `SelectionBoxAnswers`: a bit of the box is set exactly for the elements of box
  and region whose RID is in the bins.

Properties of the run `MCMultiQuery.cfg` (the tool returns, so no deadlock is
checked):

* `InLockstep`: all stores are at the same partition when the next one begins,
  whichever variables were skipped, and each engine's cache holds the metadata of
  the partitions passed.
* `RowsMatch`, `TotalCount`: exactly the rows with every variable in its interval
  are in the bitmap that is counted, and in the total.

### Disagreements found

Disagreements 1, 2, 4, 5, 6 and 8 are what the violated runs show.  The other three
are in the model too, and the passing runs name them as exceptions.

1. `ALPartitionStoreClosePOSIX` (lines 566-569) tests swapped flags: the index pointer
   that was moved stays behind the bins that were read, and the other one is put to
   the next partition, against the comment there (556-558) and the precondition of
   `ALStoreReadPartitionPOSIX` (379-383).  The property is about a partition store
   through which a part of the index was read; with the flags exchanged in the model
   it holds in the same instance.  To exchange them is not all there is to do: when
   the index was *not* read, no flag is set, and the pointer stays at the partition
   that was opened while the store has gone on to the next one.  The tools do not mix
   the two ways of reading, so they are not affected by either.
2. The legacy loader recomputes the number of partitions (line 163), which is
   wrong when a later partition is longer than the first; the writer accepts one.
3. `ALDecode` of a partition with a compression index, which `ALEncode` and the
   tools produce, returns no error, a count of 0 and no data
   (`src/ALDecode.c:52-57`), although such a partition holds what is needed
   (`CompressionIndexSuffices`).  It is `StartDecode` in the model; `RoundTrip` is
   about the inverted index only.
4. `trimQueryResults` trims the first and the last touched bin only
   (`src/uniquery/trimbins.templates.cc:72`).  The bins of -0 and +0 have the same
   rounded value, so when a bound lies in a zero bin both are touched, and with a
   further bin one of the two is neither first nor last.  A query for
   0.5 <= x < 1.0 then returns 0.0, which `src/tests/test-uniquery-correctness.c:83`
   asserts not to happen.  (The test's data have no such partition.)
5. `decode_ones_zeros_typed` (`ridcompress/patchedframeofreference.cpp:364`)
   increases the RID before it writes it, the first one of a batch included: the
   "output RID list" (`src/ALRIDCompression.c:41`) of a batch of runs is one too
   high everywhere.  The bitmap decoder is right.  `tools/multiquery.c` checks
   candidates with these RIDs.
6. The legacy format keeps two bytes for each bin value, and the serializer copies
   the first 2n bytes of an array of n numbers of 4 bytes
   (`src/ALSerializationLegacy.c:70`; the reader, line 115, allocates as little).
   The values of the second half of the bins are lost, although
   `tools/alacrity.c:110-112` decodes files of "the new encoder with the -l legacy
   format option".
7. "Serialize partition length and bin count" (`src/ALSerializationLegacy.c:65`)
   appends the number of bins as one of 16 bits: all 65536 values of 16 significant
   bits are stored, and read back, as no bins.  `ReadsBack` excludes it.
8. A query without candidate checks returns the bin that begins exactly at the upper
   bound (`src/uniquery/findbinrange.templates.cc:159` and `:182` end the range at
   the first bin *above* the rounded bound), though the interval excludes the bound.
   `src/tests/test-uniquery-correctness.c:48` and `:70` leave this bin out:
   "assert(maskedRealValH >= query->lb.asDouble && maskedRealValL <
   query->ub.asDouble);".  The code means it: "we can treat them as inclusive
   whenever they intersect a bin value" (`findbinrange.templates.cc:59`).  Which of
   the two is right is for the maintainers to say; a caller that does no candidate
   check of its own gets a bin more than the test allows.  (The only such query of the
   test ends at 0.4, which is no bin's first value.)  A bound in a zero bin takes in
   both zero bins besides, as in disagreement 4.
9. `ALGetDataSize` (`src/ALSerialization.c:93`) multiplies in 32 bits and
   `ALSerializeData` in 64: for 2^32 bytes of data or more, the "size in bytes
   consumed by the serialized ALPartitionData object" (line 109) is less than what is
   written.  `StreamFits` excludes it.

Met in reading and not the subject of a run: the writer's error text
(`ALStorePOSIX.c:287`) says only the final partition may have a different length,
and the check lets further partitions of the common length in; `ALErrorEndOfStore`
(`src/include/alacrity-types.h:22`) is never returned, a read past the end returns
no error; the warning of `ALFileStore.c:121`, "this is not fatal", is about
offsets that were never written.

A legacy store closed without a partition makes its reader divide by zero
(line 163); no text of the repository says otherwise, so it is an action of the
model (`ProcessDies`) and not a property.

## Proofs

For every set of partitions, table capacity, bound, format and reading style
allowed by `StoreAssumption`:

* `TypeCorrect` (`ALStoreProofs`): `Spec => []TypeOK`.  `TypeOK` is not
  inductive: to know that a bin range read is in range one must know that
  metadata that deserialized was some written partition's, hence what cells the
  files hold.  `TypeInv` adds this (`CellsInv`), that the header of a closed
  store has the words its count asks for (`HeaderInv`), that the store is locked
  exactly while a partition store is open and then has its metadata loaded
  (`LockInv`), and that the writer's counters agree (`WriterInv`).
* `WriterKeepsLayout` and `SealedKeepsLayout` (`ALStoreProofs`): the
  layout of the files follows the tables across writing, doubling, refusal and
  close.  `LayoutInv` carries the writer's tables and the sealed header
  together, since the second is computed from the first in one step.
* `ReaderLoadsLayout`: `ASSUME AnyLength = FALSE PROVE Spec => []LoadedLayout`.
  The step needs that the count the reader computes is the count written; in the
  legacy format this is the lemma `LegacyCountFound`: for n partitions, all but
  the last of length s and the last not longer, (total - 1) \div s + 1 = n.  The
  assumption is needed: without it `MCStoreLegacyCount.cfg` has a counterexample
  of the same kind.

The next three are under the same assumption.

* `EndIsExact`: `Spec => []EOFExact`.  Once or not yet loaded, the count a reader
  compares its position with is the number of partitions written (`CountIsWritten`).
* `PointersKeepPlace`: `Spec => []PointersInPlace`, for any mixture of taken and
  opened partitions.  That tables locate partitions is not enough for it: a reader
  that goes on where it stopped needs that nothing lies between two partitions.
  `PackedInv` says so (`Chain`: the offsets of a stream begin at its front, each is
  where the partition before it ends, and the last one ends where the stream does)
  of the writer's tables, the header and the loaded tables; growing, shifting and
  copying a table keep it.  `NextInPlace` then carries the positions, and adds the
  index pointer for readers that never open a partition: closing a partition store
  does not put that one back, which is the run `MCStoreMixed.cfg`.
* `StoreImplementsStream`: `Spec => ImplementsStream`, assuming also `SingleStyle`
  (an application takes partitions or opens them, and stops at the end), which is
  what the run `MCStore.cfg` checks with `Styles <- OneStyle`.  `ViewInv` says that
  an open partition store has the offsets and, once read, the metadata of the
  partition before the reader's position.  Of every action one lemma or case shows
  which step of `PartitionStream` it is: `TakeWhole` needs `NextInPlace` and, for
  the last partition of the legacy format, whose metadata is read to the end of the
  file, that the last entry of the chain ends there; a `View` of some bins is a part
  of what the tables locate (`ReadsRegion`).

For the encoder and the decoder (`ALCodecProofs`), for every input, element width and
number of significant bits:

* `RejoinSplit` (of `DatumBits`): joining inverts cutting, for every width of
  element, word and byte.  A low-order bit survives because both masks and the
  stored bytes reach it (`BytesHoldBits`); a significant bit comes back from the
  bin value; and whatever else is stored was in the element.  `ALCodec` assumes of
  its operators `High`, `Low` and `Rejoin` just this (`CodecAssumption`).
* `CodecTypeCorrect`, `TableIsReadRight`, `LayoutIsRight`, `BinsHaveTheirRows`,
  `CompressionIndexDetermines`, `DecodingInvertsEncoding`: `Spec => []P` for every
  safety property of the run `MCCodec.cfg`.

They follow from one invariant, `CodecInv`, that says of each pass how far it has
come.  While rows are counted, the table holds how often each bin value occurs in
the rows seen, and `numBins` is the number of values met (`Counted`).  While the
table is turned into bins, the values passed by the scan that occur are
`PassedValues` and their rows `PassedRows`; the bins begun are as many as the former
and the end of the last one is the size of the latter (`LayoutSoFar`), so that at
the end of the scan, when every value has been passed, there are `numBins` bins
that end at `Count`.  That starts strictly rise with the bins is part of the
invariant: nothing about sums over a range of bins could be derived later, since
that would take an induction.  While rows are put in their bins, row r goes to
`Slot(r)`, its bin's start plus the number of earlier rows of the same bin; slots of
different rows differ (`BinsApart`, `SlotsInOrder`), so a row that is put in place
stays there (`Filled`).  The decoder walks over places instead of rows, and what it
has passed is decoded (`Decoded`).  Each step of a pass is a lemma about these
operators with the state as parameters; each action is then one lemma.

For the serializers (`SerializationProofs`), for every partition that `IsPart`
allows, and for any widths 2^16 and 2^32 (`Shorts`, `Words`):

* `StreamsFit`: `Spec => []StreamFits`.  What the size functions announce is what the
  writers write and the readers read, in both formats.
* `WhatIsWrittenIsRead`: `Spec => []ReadsBack`.  Every field of the new format comes
  back; of the legacy format the length and the place of every bin.

Neither is inductive.  `SerializationInv` says at each point of the two sequences of
calls where the stream pointer stands, which is where the next piece begins
(`NewPlaces`, `LegacyPlaces`); which bytes memory holds at the places of the pieces
written so far, and that no byte before the pointer is unset (`NewBytes`,
`LegacyBytes`); and which fields have been read (`NewFields`, `LegacyFields`).  A
write inside the buffer keeps what lies before it (`Writing`, `StillHolds`); where
memory holds a concatenation it holds each part behind the one before
(`HoldsJoined`); and a number, or element i of an array, is read from where its
bytes are (`WordRead`, `ArrayRead`).  The condition under which sizes fit 32 bits is
part of the invariant only where a size is computed from a product.  A legacy offset
is multiplied by 6 and divided by it again, which is the offset as long as the
product did not overflow.

For packing (`RidListProofs`), for every width, batch and word that
`PackingAssumption` allows:

* `UnpackPack`: unpacking inverts packing for a batch that fits its width.  Bit j of
  element i is place i * w + j of the stream, and no other pair (i, j) has that
  place because j < w: a fact about quotients that has a lemma of its own.
* `DecodesWhatWasEncoded`: what the two tables find for a width are functions of
  that width, so `fixed_length_decode` returns what `fixed_length_encode` took
  (with widths up to 32).

For the index of a partition (`PartitionIndexProofs`), for every set of partitions,
every size of a batch and of a word, and RIDs of up to 32 bits:

* `IndexTypeCorrect`, `CapacityIsSufficient`, `InvertedFormKeepsRids`, `RidsAreRead`,
  `DifferencesAreRead`, `BitmapsAreRead`, `SelectionBoxesAreRead`: `Spec => []P` for
  every property of the run `MCPartitionIndex.cfg`.

They follow from one invariant, `IndexInv`: the buffer holds, in the form the metadata
name, the original RIDs moved by the sum of the offsets so far, that is, it is what
compressing the moved RIDs would write.  The properties alone are not inductive: that
a translated list still decompresses to its RIDs needs to know of the differences and
exceptions in it, which a translation leaves alone.  An answer, in turn, is right
because every change of the index forgets it, so it was read from the index of now.

What the invariant rests on is that decoding inverts encoding, from the inside out:

1. A batch (`RidListProofs`).  The packed differences are read back whatever lies behind
   them in the body (`UnpackedIsPacked`); the k-th value of a batch's end is the k-th
   exception (`ExceptionRead`); and since RIDs of a bin are distinct, no packed
   difference but the first is 0 except for exceptions and behind the last RID, so the
   places the decoder patches are the exceptions' (`ExceptionsPatched`).  The running
   sum modulo 2^RidBits then gives the RIDs.  Batches of runs are read through the
   places where runs start (`RunsInOrder`, `SumsInRun`).  The width that is chosen
   never costs more than the RIDs themselves, which bounds a batch (`ExpandedWidth`).
2. A list is its batches put together (`PiecesOfList`), and several
   lists are theirs (`FlattenPlaces`).
3. Moving the frames of all batches of a list is compressing the moved list
   (`FrameMoved`): its differences are the same modulo 2^RidBits (`MovedIsDistinct`),
   also where a RID wraps.

A selection box adds arithmetic to this.  `ALDecompressRIDtoSelBox` turns a RID into
coordinates of the region, dividing by the region's strides, moves them by the
difference of the two origins, and adds them up again with the strides of the box.
The property says the converse, from the box: place p has a bit if its coordinates
lie in the region and the RID there is in the bins.

1. The strides are products of extents (`StridesAre`), a number below the product of
   all extents has one sequence of coordinates (`PlacesOfNumber`), and a sequence of
   coordinates within the extents has one number (`NumberOfPlaces`).
2. So an element in both is the same element whether it is reached from the region or
   from the box (`RidInBoxIs`, `PlaceInBox`), and different RIDs have different places
   (`SelectedPlaces`, `PlacesCount`).  That RIDs which lie in the box have different
   places is what makes the number returned the number of bits set.
3. Without the check (the region is contained in the box) every row of every list has
   its bit (`ContainedRead`); rows of different lists and batches are apart
   (`PiecesApart`), so counts add up (`SumOfDisjoint`).  With the check, the batches of
   the first list are read until one gives up (`PiecesExact`, `IntersectedRead`).

Sums, powers of two and concatenations are recursive in the model, so the proofs need
inductions over numbers.  The provers cannot instantiate the library's induction
theorems, but they can use a well-founded order on numbers: among the numbers that
are not in a set there would be a least one (`InductionUpTo`, from `WFMin` and
`NatLessThanWellFounded`).  A recursive function is taken from a `CHOOSE`; that a
function with its equations exists is proved by the same induction (`PartialSums`,
`PowersExist`, `FlatExists`), and then the chosen one has them.

The assumptions are `PackingAssumption` and `BatchAssumption` (a batch is a whole number of
words, a word of bytes, a RID has four bytes of at most 32 bits), and `IndexAssumption`
(the bins of a partition are not empty, their RIDs ascend and no row is in two of
them, as `ALEncode` makes them; a region and a box have one to four dimensions, as
the decoder has code for, and no extent is 0).  They are those under which TLC checks
the runs.

For the range of bins (`BinRangeProofs`), for every partition and interval that
`IsPartition` allows:

* `BinsOfRange`: the bins touched are those whose rounded value is between the
  rounded bounds.  The points of bins rise with the bins (not strictly: there are
  two zero bins), so the first bin with a monotone condition splits them.
* `RangeHoldsInterval`: every element of the interval is in a touched bin, because
  rounding toward zero is monotone in the value.
* `InnerBinsInInterval`: an element in a bin that is neither the first nor the last
  touched one is in the interval, unless a bound lies in a zero bin, both exist,
  and the element is in one of them.  This is what lets both programs check only
  two bins, and disagreement 4 is its exception.

For the univariate query engine (`UniQueryProofs`), for every table, interval and
sequence of queries that `QueryAssumption` allows, `Spec => []P` for every
invariant of the run `MCQuery.cfg`:

* `TypeCorrect`, `NoRowIsLost`, `LeaksAreOfZeroBins`, `IndexAnswersMeetInterval`,
  `ValuesBelongToRows`, `CacheIsRight`.

They follow from one invariant, `Inv`, of three parts.  `EngineInv` has the types,
the cache, and that the range is the one of the partition that is open.
`TrimInv` says what the trimming loops have done so far: of the first bin, the
places behind `head` hold exactly the rows seen so far that are in the interval,
each once and with its value, and the places not yet seen are as they were read
(`FirstOK`); of the last bin the same up to `tail` (`LastOK`).  That one pass of a
loop preserves them is proved of these operators alone, without the state machine.
`AnswerInv` says of an answer that it is `Right`: it holds every row in the
interval, each with its value, once, and what it holds beyond is of an inner bin.
When trimming is over, `BinRange`'s theorems turn the two bins that were trimmed
and the bins between into an answer that is `Right`; the properties are read off it.
For `IndexAnswersMeetInterval` comparing rounded values still has to be the same as
comparing values with the edges of a bin (`EdgesOfBins`): the numbers that are
rounded to P lie in one stretch of `Lows` numbers, or for P = 0 of almost twice as
many, and stretches of different P do not overlap (`EdgesOfMultiples`).

For the multivariate query (`MultiQueryProofs`), for every number of variables and
partitions:

* `StoresInLockstep`: `Spec => []InLockstep`.  The invariant `Lockstep` adds to it
  where each engine's cache stands while the variables of a partition are taken in
  turn; it needs `TableAssumption`, that the stores of a table have equally many
  partitions.
* `RowsAreMatched` and `TotalIsCounted`: `Spec => []RowsMatch` and `Spec => []TotalCount`,
  for bins and rows of any number too.

The last two compose the three parts of the project that the tool composes: what is
read of lists, which bins an interval touches, and the loop over the stores.

1. One variable in one partition: its bits are the rows whose values are in the
   interval (`BitsOfVariable`).  The bins that are checked contribute the rows found,
   because the lists of bins behind one another decode to the rows of their elements
   in order, so that the RID at the place of a value is its row (`DecodedRows`,
   `CandidateRows`); the bins between contribute all rows of their lists
   (`BitsOfBins`), and these are in the interval by `InnerBinsInInterval`.  No row is
   missed by `RangeHoldsInterval`, which also says that a variable that touches no bin
   has no row (`NoRowsUntouched`).
2. Every row has a bit in the bitmap, whose size is that of the first partition of the
   first store rounded up to words (`EnoughWords`, `PartitionOf`).
3. The loop: `Counted` says that before variable i the bitmap has the rows that all
   earlier variables leave (`InTurn`), or, once bins were not touched, that one of them
   has none (`EmptyBefore`); and that the total is the one of the partitions counted
   (`CountOf`).  It speaks of partition `part + 1`, while a variable is read from the
   partition its own store has come to: that they are the same is `Lockstep`, so the
   two invariants are proved together.  `RowsMatch` alone is not inductive, since it
   only speaks of the end of the loop over the variables.

The hypothesis `Plain` of the two properties is the one described with the model:
without each of its conditions a peculiarity of the tool makes the count differ.

All invariants that the runs check have a theorem.  Only model-checked is liveness
(`ScanCompletes`, `Finishes`, `QueryEnds`), which is out of the prover's reach.

## Not modelled

* **Failing and short I/O, and crashes**, in the store.  The code recovers from
  neither: files are durable only at close, errors of `fread` are looked for with
  `ferror` only, and `ALStoreEOF` takes an error for the end.  `PROJECT.json` lists
  these hazards with the reason no property covers each.
* **ALFileStore** (`src/ALFileStore.c`): an older form of the store that nothing in
  the repository calls.  No reader accepts the header it writes in the new format.
* **Merge** (`src/ALMerge.c`): it was written for a layout in which bins have end
  offsets and sizes are in bytes.  On the layout of today it takes start offsets for
  ends (line 56) and bytes for bits (line 30), so its inputs are not states the rest
  of the library produces.
* **Of RID compression**: selection boxes of batches of runs, the second set of
  decoders `fixed_decode_no_exp_*` and the older encoders and decoders
  (`encode_param`, `decode`, `decode_set_bmap`) that nothing calls, and functions
  that only print.  The padding behind a batch of runs is uninitialized, and
  nothing reads it.
* **ADIOS backend** (`src/io/ALStoreADIOS.c`): a binding to an external library
  that the default build leaves out.
* **`src/io/ALStoreTemplate.c`** (a skeleton), `ALDataDestroy.c`, `ALErrorString.c`,
  the timers, option parsing and printing in the tools: no behaviour to check.

## What would come next

1. The store with I/O calls that fail or come back short, and with a crash between
   the steps of close.
2. `ALDecode` of a compressed index: the codec of `ALCodec` composed with the lists
   that `RidLists` decodes bin by bin.
3. The univariate query engine on a compressed index, composed with `IndexForms` as
   `MultiQuery` is.
