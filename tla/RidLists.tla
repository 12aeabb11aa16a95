-------------------------------- MODULE RidLists -------------------------------
(***************************************************************************)
(* Compressed RID lists: a count and the batches of the list               *)
(* (src/ridcompress/pfordelta-c-interface.cpp, called through the wrappers *)
(* of src/src/ALRIDCompression.c).  The decoders take a buffer of several  *)
(* lists, one after the other: a sequence of lists.                        *)
(***************************************************************************)
EXTENDS PFORBatchDecode

CountBytes == RidBits \div ByteBits   \* the count is a uint32_t

\* The RIDs of batch k: only the last batch may be shorter than BatchSize.
BatchCount(n) == (n + BatchSize - 1) \div BatchSize
BatchRids(rids, k) ==
  SubSeq(rids, (k - 1) * BatchSize + 1, Min({k * BatchSize, Len(rids)}))

List(rids, batch(_)) ==
  [count |-> Len(rids),
   batches |-> [k \in 1 .. BatchCount(Len(rids)) |-> batch(BatchRids(rids, k))]]

encode_rids(rids) == List(rids, encode)
hybrid_encode_rids(rids) == List(rids, hybrid_encode)
expand_encode_rids(rids) == List(rids, expand_encode)
exapnd_runlength_encode_rids(rids) == List(rids, expand_runlength_encode)

ListBytes(list) ==
  CountBytes + SumOf([k \in DOMAIN list.batches |-> list.batches[k].encoded_size])

CapacityOfFullBatches(n) == kSufficientBufferCapacity * (n \div BatchSize)
get_sufficient_buffer_capacity(n) == kSufficientBufferCapacity * BatchCount(n)

-------------------------------------------------------------------------------
(* Reading the batches of all lists in order.                              *)
BatchesOf(lists) == FlattenSeq([l \in DOMAIN lists |-> lists[l].batches])
InOrder(lists, read(_)) ==
  LET bs == BatchesOf(lists) IN FlattenSeq([k \in DOMAIN bs |-> read(bs[k])])
SetBits(lists, read(_)) == UNION {read(b) : b \in Range(BatchesOf(lists))}

decode_rids(lists) == InOrder(lists, decode_new)
adios_expand_decode_rid(lists) == decode_rids(lists)
adios_decode_deltas(lists) == InOrder(lists, decode_new_to_deltas)
adios_runlength_decode_rid(lists) == InOrder(lists, rle_decode_every_batch_to_rids)
adios_expand_runlength_decode_rid(lists) == adios_runlength_decode_rid(lists)

decode_rids_set_bmap(lists) == SetBits(lists, decode_every_batch)
expand_decode_rids(lists) == SetBits(lists, expand_decode_every_batch)
rle_decode_rids(lists) == SetBits(lists, rle_decode_every_batch)
expand_runlength_decode_rids(lists) == rle_decode_rids(lists)

\* A contained region is decoded from all lists and counted by the counts of
\* the lists, another one from the first list only: 0 is returned when a batch
\* fails or lists remain, whatever bits are already set.
UpToFailure(read, isLast) ==
  LET failed == {k \in DOMAIN read : ~ read[k].ok}
      done == {k \in DOMAIN read : \A f \in failed : k <= f}
  IN [count |-> IF failed = {} /\ isLast
                THEN SumOf([k \in DOMAIN read |-> read[k].count]) ELSE 0,
      bits |-> UNION {read[k].bits : k \in done}]

decode_rids_to_selbox(contained, lists, box) ==
  IF contained
  THEN [count |-> SumOf([l \in DOMAIN lists |-> lists[l].count]),
        bits |-> UNION {batch_decode_within_selbox_without_checking(b, box) :
                          b \in Range(BatchesOf(lists))}]
  ELSE UpToFailure([k \in DOMAIN lists[1].batches |->
                      batch_decode_within_selbox_with_checking(lists[1].batches[k], box)],
                   Len(lists) = 1)

MovedFrame(batch, offset) ==
  [batch EXCEPT !.frame_of_reference = (@ + offset) % RidLimit]

UpdateFullBatches(lists, offset) ==
  [ok |-> Len(lists) = 1,
   lists |-> [lists EXCEPT ![1].batches = [k \in DOMAIN @ |->
                IF @[k].significant < BatchSize THEN @[k] ELSE MovedFrame(@[k], offset)]]]
UpdateBeyondRids(lists, offset) ==
  [ok |-> Len(lists) = 1,
   lists |-> [lists EXCEPT ![1].batches = [k \in DOMAIN @ |->
                [@[k] EXCEPT !.frame_of_reference = @ + offset]]]]

\* The frames of the first list are moved; the result is a failure when another
\* list follows.
update_rids(lists, offset) ==
  [ok |-> Len(lists) = 1,
   lists |-> [lists EXCEPT ![1].batches = [k \in DOMAIN @ |-> MovedFrame(@[k], offset)]]]
===============================================================================
