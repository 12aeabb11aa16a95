-------------------------------- MODULE UniQuery --------------------------------
(***************************************************************************)
(* The univariate query engine (src/src/uniquery): range queries lb <= x < *)
(* ub over the partitions of a store, one partition for each call of       *)
(* ALQueryNextResult.  The touched bins are found from the bin values      *)
(* alone; then the first and the last of them are trimmed in place.        *)
(*                                                                         *)
(* The store is what PartitionStream promises, a sequence of partitions    *)
(* read in order, and a partition has the layout ALCodec proves of the     *)
(* encoder.  Arrays start at 0.                                            *)
(***************************************************************************)
EXTENDS BinRange

CONSTANT Stores    \* sequences of partitions, as IsPartition describes them

ASSUME QueryAssumption ==
  \A s \in Stores : /\ s \in Seq({s[i] : i \in DOMAIN s})
                    /\ \A i \in DOMAIN s : IsPartition(s[i])

QueryTypes == {"ValueRetrieval", "RegionIndexOnly", "RegionCandidateCheck"}
Queries == [lb : Element, ub : Element, type : QueryTypes]

VARIABLES
  store,     \* the partitions of the open store
  cur,       \* cur_partition of the store
  metadatas, \* the engine's cache of partition metadata, by partition number, or
             \* NotLoaded before the global metadata is loaded
  query,     \* the query
  pc,        \* where ALQueryNextResult is
  meta,      \* the metadata it works with,
  range,     \* and the bin range
  data, rids, inputOff, head, tail,   \* trimming
  answer     \* the last result

trimming == <<data, rids, inputOff, head, tail>>
vars == <<store, cur, metadatas, query, pc, meta, range, trimming, answer>>

None == [none |-> TRUE]
Undef == -1
EmptyAnswer == [part |-> None, query |-> None, rids |-> <<>>, data |-> <<>>]
NotLoaded == <<>>   \* no cache yet
-------------------------------------------------------------------------------
Init ==
  /\ store \in Stores /\ cur = 0
  /\ metadatas = NotLoaded
  /\ query = None /\ pc = "idle" /\ meta = None /\ range = <<0, 0>>
  /\ data = <<>> /\ rids = <<>> /\ inputOff = Undef /\ head = Undef /\ tail = Undef
  /\ answer = EmptyAnswer

AtEnd == cur >= Len(store)

\* CacheTooShort, FirstSlot and others below, each before the definition it
\* resembles, are that definition with a fault.
CacheTooShort == [p \in 0 .. Len(store) - 2 |-> None]
EmptyCache == [p \in 0 .. Len(store) - 1 |-> None]

\* ALQueryEnsureMetadataReady
ReadyCache == IF metadatas = NotLoaded THEN EmptyCache ELSE metadatas

\* ALQueryEngineInit, with the metadata loaded at once or later.
EngineInit(preload) ==
  /\ pc = "idle"
  /\ metadatas' = IF preload THEN EmptyCache ELSE NotLoaded
  /\ query' = None
  /\ UNCHANGED <<store, cur, pc, meta, range, trimming, answer>>

\* The application closes the store and opens it again, for another query of
\* the same engine.
Reopen ==
  /\ pc = "idle" /\ cur # 0
  /\ cur' = 0
  /\ UNCHANGED <<store, metadatas, query, pc, meta, range, trimming, answer>>

StartQuery(q) ==
  /\ pc = "idle"
  /\ query' = q /\ pc' = "loop"
  /\ UNCHANGED <<store, cur, metadatas, meta, range, trimming, answer>>

\* The application leaves its loop: ALQueryDestroy.
DestroyQuery ==
  /\ pc = "loop"
  /\ query' = None /\ pc' = "idle" /\ answer' = EmptyAnswer
  /\ UNCHANGED <<store, cur, metadatas, meta, range, trimming>>

\* ALQueryNextResult returns false.
NextAtEnd ==
  /\ pc = "loop" /\ AtEnd
  /\ query' = None /\ pc' = "idle" /\ answer' = EmptyAnswer
  /\ UNCHANGED <<store, cur, metadatas, meta, range, trimming>>

FirstSlot == 0
Slot == cur

\* The partition is opened, and its metadata read unless it is cached
\* (ALQueryGetPartitionMetadata).
NextOpen ==
  /\ pc = "loop" /\ ~ AtEnd
  /\ metadatas' = IF ReadyCache[Slot] = None
                    THEN [ReadyCache EXCEPT ![Slot] = store[cur + 1]]
                    ELSE ReadyCache
  /\ meta' = metadatas'[Slot]
  /\ pc' = "find"
  /\ UNCHANGED <<store, cur, query, range, trimming, answer>>

StaysAt == cur
ClosedAt == cur + 1

\* ALPartitionStoreClose and the return to the application.
Return(theRids, theData) ==
  /\ answer' = [part |-> store[cur + 1], query |-> query,
                rids |-> theRids, data |-> theData]
  /\ cur' = ClosedAt
  /\ pc' = "loop" /\ meta' = None /\ range' = <<0, 0>>
  /\ data' = <<>> /\ rids' = <<>>
  /\ inputOff' = Undef /\ head' = Undef /\ tail' = Undef
  /\ UNCHANGED <<store, metadatas, query>>

NoBinTouched ==
  /\ pc = "find" /\ ~ Touched(meta, query)
  /\ Return(<<>>, <<>>)

\* Bins lo up to hi of the partition that is open, as its metadata locates them.
ReadBins(stream, lo, hi) ==
  [k \in 0 .. meta.binStart[hi] - meta.binStart[lo] - 1 |-> stream[meta.binStart[lo] + k]]

\* Neither data nor candidate checks: the bins are returned as they are.
IndexOnly ==
  /\ pc = "find" /\ Touched(meta, query)
  /\ query.type = "RegionIndexOnly"
  /\ Return(ReadBins(store[cur + 1].rids, StartBin(meta, query), EndBin(meta, query)), <<>>)

\* Ends of the first and the last bin of a range in the result's arrays.
Offset(r, b) == meta.binStart[b] - meta.binStart[r[1]]
FirstBinEnd(r) == Offset(r, r[1] + 1)
LastBinStart(r) == Offset(r, r[2] - 1)
LastBinEnd(r) == Offset(r, r[2])

\* readIndex and readAndReconstituteData.  For a region query over more than
\* two bins only the first and the last are read; the buffer between them is
\* not written.
ReadRange ==
  /\ pc = "find" /\ Touched(meta, query)
  /\ query.type # "RegionIndexOnly"
  /\ LET r == <<StartBin(meta, query), EndBin(meta, query)>>
         all == ReadBins(store[cur + 1].elems, r[1], r[2])
         gap == query.type = "RegionCandidateCheck" /\ r[2] - r[1] > 2
     IN /\ range' = r
        /\ rids' = ReadBins(store[cur + 1].rids, r[1], r[2])
        /\ data' = [k \in DOMAIN all |->
                      IF gap /\ FirstBinEnd(r) <= k /\ k < LastBinStart(r) THEN Undef
                      ELSE all[k]]
        /\ inputOff' = FirstBinEnd(r) - 1 /\ head' = FirstBinEnd(r)
  /\ tail' = Undef
  /\ pc' = "trimFirst"
  /\ UNCHANGED <<store, cur, metadatas, query, meta, answer>>

RowLeftBehind(to, from) == rids
RowMoved(to, from) == [rids EXCEPT ![to] = rids[from]]

\* trimQueryResults, first bin: downwards, what is kept moves to the bin's end.
TrimFirst ==
  /\ pc = "trimFirst" /\ inputOff >= 0
  /\ IF InRange(data[inputOff], query)
       THEN /\ head' = head - 1
            /\ data' = [data EXCEPT ![head'] = data[inputOff]]
            /\ rids' = RowMoved(head', inputOff)
       ELSE UNCHANGED <<head, data, rids>>
  /\ inputOff' = inputOff - 1
  /\ UNCHANGED <<store, cur, metadatas, query, pc, meta, range, tail, answer>>

SeveralGaps == range[2] - range[1] > 2
LastIsDistinct == range[2] - range[1] > 1

FirstTrimmed ==
  /\ pc = "trimFirst" /\ inputOff < 0
  /\ IF LastIsDistinct
       THEN inputOff' = LastBinStart(range) /\ tail' = LastBinStart(range)
       ELSE inputOff' = LastBinEnd(range) /\ tail' = LastBinEnd(range)
  /\ pc' = "trimLast"
  /\ UNCHANGED <<store, cur, metadatas, query, meta, range, data, rids, head, answer>>

\* Last bin: upwards, what is kept moves to the bin's start.
TrimLast ==
  /\ pc = "trimLast" /\ inputOff < LastBinEnd(range)
  /\ IF InRange(data[inputOff], query)
       THEN /\ tail' = tail + 1
            /\ data' = [data EXCEPT ![tail] = data[inputOff]]
            /\ rids' = RowMoved(tail, inputOff)
       ELSE UNCHANGED <<tail, data, rids>>
  /\ inputOff' = inputOff + 1
  /\ UNCHANGED <<store, cur, metadatas, query, pc, meta, range, head, answer>>

\* The result is what lies between the trimmed ends; a region query keeps only
\* the rows.
PackageResult ==
  /\ pc = "trimLast" /\ inputOff >= LastBinEnd(range)
  /\ LET between(f) == [k \in 0 .. tail - head - 1 |-> f[head + k]] IN
       Return(between(rids),
              IF query.type = "ValueRetrieval" THEN between(data) ELSE <<>>)

Next ==
  \/ \E preload \in BOOLEAN : EngineInit(preload)
  \/ Reopen
  \/ \E q \in Queries : StartQuery(q)
  \/ DestroyQuery
  \/ NextAtEnd
  \/ NextOpen
  \/ NoBinTouched
  \/ IndexOnly
  \/ ReadRange
  \/ TrimFirst
  \/ FirstTrimmed
  \/ TrimLast
  \/ PackageResult

Spec == Init /\ [][Next]_vars
===============================================================================
