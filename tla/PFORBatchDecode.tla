---------------------------- MODULE PFORBatchDecode ----------------------------
(***************************************************************************)
(* How the batches of PFORBatch are read: as RIDs, as differences, into a  *)
(* bitmap (the set of its bits that are 1), and into the bitmap of a       *)
(* selection box (src/ridcompress/patchedframeofreference.cpp).            *)
(***************************************************************************)
EXTENDS PFORBatch

\* Here and below, a definition with nothing but a name for a fault is what
\* the definition after it would be with that fault.
PatchFromTheStart(data, batch) ==
  LET holes == {i \in 0 .. batch.significant - 1 : data[i] = 0}
  IN [i \in Elements |->
        IF i \in holes
        THEN decode_as_typed_exceptions(batch, Cardinality({h \in holes : h <= i}))
        ELSE data[i]]

(* From the first exception on, every packed 0 is taken for the place of   *)
(* an exception.                                                           *)
patch_typed_exceptions_new(data, batch) ==
  LET holes == {i \in batch.first_exception .. batch.significant - 1 : data[i] = 0}
  IN [i \in Elements |->
        IF i \in holes
        THEN decode_as_typed_exceptions(batch, Cardinality({h \in holes : h <= i}))
        ELSE data[i]]

Unpacked(batch, w) ==
  LET bits == fixed_length_decode(w, Words64(batch, w))
  IN [i \in Elements |-> NumberOf(bits[i])]

\* A width of RidBits means that all differences are exceptions.
BatchDeltas(batch) ==
  IF Header_read(batch) = RidBits
  THEN [i \in Elements |->
          IF i < batch.significant THEN decode_as_typed_exceptions(batch, i + 1) ELSE 0]
  ELSE patch_typed_exceptions_new(Unpacked(batch, Header_read(batch)), batch)

\* The frame of reference plus the differences so far, as an unbounded number.
RunningSum(frame, deltas) ==
  LET sum[i \in Elements] == deltas[i] + (IF i = 0 THEN frame ELSE sum[i - 1])
  IN sum

SumsOf(batch) ==
  LET sums == RunningSum(batch.frame_of_reference, BatchDeltas(batch))
  IN [i \in 1 .. batch.significant |-> sums[i - 1]]

\* decode_new adds in 32 bits, the bitmap decoders in 64.
decode_new(batch) == LET sums == SumsOf(batch) IN [i \in DOMAIN sums |-> sums[i] % RidLimit]
decode_every_batch(batch) == Range(SumsOf(batch))
expand_decode_every_batch(batch) == Range(SumsOf(batch))

DeltasWithoutFrame(batch) ==
  [i \in 1 .. batch.significant |-> BatchDeltas(batch)[i - 1]]

\* Only the first difference of a batch becomes a RID.
decode_new_to_deltas(batch) ==
  LET ds == BatchDeltas(batch)
  IN [i \in 1 .. batch.significant |->
        IF i = 1 THEN (ds[0] + batch.frame_of_reference) % RidLimit ELSE ds[i - 1]]

-------------------------------------------------------------------------------
(* Batches of runs: width 1.                                               *)
\* The RID the counting of run k starts from.  It has the width of a RID, but the
\* bits of a run are counted on from it without wrapping.
RunStart(batch, k) ==
  (batch.frame_of_reference
     + SumOf([j \in 1 .. k - 1 |-> batch.ones[j] + batch.zeros[j]])) % RidLimit

RunsAfterTheirStart(batch) ==
  UNION {RunStart(batch, k) + 1 .. RunStart(batch, k) + batch.ones[k] :
           k \in DOMAIN batch.ones}

expand_exceptions_binary_typed(batch) ==
  UNION {RunStart(batch, k) .. RunStart(batch, k) + batch.ones[k] - 1 :
           k \in DOMAIN batch.ones}

\* The RID is increased before it is written, also for the first of a run.
decode_ones_zeros_typed(batch) ==
  FlattenSeq([k \in DOMAIN batch.ones |->
    [m \in 1 .. batch.ones[k] |-> (RunStart(batch, k) + m) % RidLimit]])

rle_decode_every_batch(batch) ==
  IF Header_read(batch) = 1 THEN expand_exceptions_binary_typed(batch)
  ELSE Range(SumsOf(batch))

rle_decode_every_batch_to_rids(batch) ==
  IF Header_read(batch) = 1 THEN decode_ones_zeros_typed(batch) ELSE decode_new(batch)

-------------------------------------------------------------------------------
(* Selection boxes: the RIDs count the elements of a region (start and     *)
(* count of the source, slowest dimension first); a bit is set at the      *)
(* place the element has in the box (start and count of the destination).  *)
Strides(count) ==
  LET stride[d \in DOMAIN count] ==
        IF d = Len(count) THEN 1 ELSE count[d + 1] * stride[d + 1]
  IN stride

Coordinates(rid, count) ==
  [d \in DOMAIN count |->
     IF d = 1 THEN rid \div Strides(count)[1] ELSE (rid \div Strides(count)[d]) % count[d]]

GlobalCoordinates(rid, box) ==
  [d \in DOMAIN box.srccount |-> Coordinates(rid, box.srccount)[d] + box.srcstart[d]]

InBox(rid, box) ==
  \A d \in DOMAIN box.destcount :
     GlobalCoordinates(rid, box)[d]
       \in box.deststart[d] .. box.deststart[d] + box.destcount[d] - 1

RidInBox(rid, box) ==
  LET places == GlobalCoordinates(rid, box)
      strides == Strides(box.destcount)
      sum[d \in DOMAIN places] ==
        (places[d] - box.deststart[d]) * strides[d] + (IF d = 1 THEN 0 ELSE sum[d - 1])
  IN sum[Len(places)]

\* The region lies in the box: nothing is checked.
batch_decode_within_selbox_without_checking(batch, box) ==
  {RidInBox(rid, box) : rid \in Range(SumsOf(batch))}

InBoxOfFirstDimension(batch, box) ==
  LET taken == {i \in DOMAIN SumsOf(batch) :
                  GlobalCoordinates(SumsOf(batch)[i], box)[1]
                    \in box.deststart[1] .. box.deststart[1] + box.destcount[1] - 1}
  IN [ok |-> TRUE, bits |-> {RidInBox(SumsOf(batch)[i], box) : i \in taken},
      count |-> Cardinality(taken)]

\* RIDs outside of the box are passed over, but in three dimensions the first
\* one ends the decoding with an error.
RidsWithinBox(rids, box) ==
  LET outside == {i \in DOMAIN rids : ~ InBox(rids[i], box)}
      stops == Len(box.destcount) = 3 /\ outside # {}
      taken == {i \in DOMAIN rids \ outside : stops => i < Min(outside)}
  IN [ok |-> ~ stops, bits |-> {RidInBox(rids[i], box) : i \in taken},
      count |-> IF stops THEN 0 ELSE Cardinality(taken)]

batch_decode_within_selbox_with_checking(batch, box) == RidsWithinBox(SumsOf(batch), box)
===============================================================================
