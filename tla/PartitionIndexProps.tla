-------------------------- MODULE PartitionIndexProps --------------------------
(***************************************************************************)
(* What the forms of an index keep of its RIDs.                            *)
(***************************************************************************)
EXTENDS PartitionIndex

\* The RIDs of bin b after the translations, in the bits of a RID.
Moved(b) == [i \in DOMAIN original[b] |-> (original[b][i] + shift) % RidLimit]
MovedRids(lo, hi) == FlattenSeq([k \in 1 .. hi - lo + 1 |-> Moved(lo + k - 1)])

\* All RIDs of bin b have passed the largest RID, or zero, equally often.
MovedTogether(b) ==
  \A i, j \in DOMAIN original[b] :
    (original[b][i] + shift) \div RidLimit = (original[b][j] + shift) \div RidLimit

\* Expansion has given a batch of the bin the width of a RID.
TooWide(b) ==
  /\ form \in {Expansion, Mix}
  /\ \E k \in 1 .. BatchCount(Len(original[b])) :
       LET rids == BatchRids(original[b], k)
       IN determine_b_to_expand(Deltas(rids), Len(rids)) = RidBits
NoneTooWide(lo, hi) == \A b \in lo .. hi : ~ TooWide(b)

HasRuns(list) == \E k \in DOMAIN list.batches : list.batches[k].ones # <<>>

(***************************************************************************)
(* Types, and what the headers can hold: frames fit a RID, at most         *)
(* BatchSize RIDs in a batch, sizes in whole words (the bit fields of      *)
(* CompactHeader).                                                         *)
(***************************************************************************)
BatchOK(batch) ==
  /\ batch.frame_of_reference \in 0 .. RidLimit - 1
  /\ batch.significant \in 1 .. BatchSize
  /\ batch.first_exception \in 0 .. BatchSize
  /\ batch.fixed_length \in 0 .. RidBits - 1
  /\ batch.encoded_size % WordBytes = 0
  /\ batch.encoded_size \in WordBytes .. kSufficientBufferCapacity

TypeOK ==
  /\ form \in Forms
  /\ DOMAIN index = Bins
  /\ form = InvertedIndex => \A b \in Bins : Range(index[b]) \subseteq 0 .. RidLimit - 1
  /\ form \in CompressedForms =>
       \A b \in Bins : \A k \in DOMAIN index[b].batches : BatchOK(index[b].batches[k])

(***************************************************************************)
(* The buffer allocated by get_sufficient_buffer_capacity takes the lists  *)
(* of every partition in every form: only the abandoned form fails the     *)
(* assertion of convertIIToCII, and none the one of convertCIIToII.        *)
(***************************************************************************)
CapacitySuffices == aborted => form = Skip

(***************************************************************************)
(* However often an index was compressed, translated in either form, and   *)
(* decompressed, the inverted form holds the original RIDs, moved by the   *)
(* sum of the offsets, in their order (test-rid-translate.c).              *)
(***************************************************************************)
InvertedKeepsRids ==
  form = InvertedIndex => \A b \in Bins : index[b] = Moved(b)

(***************************************************************************)
(* A list gives its RIDs in order, without the batches of runs (whose      *)
(* RIDs RunListsDecode is about) and those of the width of a RID: differ-  *)
(* ences that look like exceptions, and exceptions of the wrong batch,     *)
(* would show here (decode_rids).                                          *)
(***************************************************************************)
RidAnswers ==
  answer.op = "rids" /\ NoneTooWide(answer.from, answer.to) =>
    /\ Len(answer.rids) = Len(MovedRids(answer.from, answer.to))
    /\ (\A b \in answer.from .. answer.to : ~ HasRuns(index[b])) =>
         answer.rids = MovedRids(answer.from, answer.to)

(***************************************************************************)
(* A bitmap has the bits of exactly the RIDs of the bins, in every form,   *)
(* for bins whose RIDs wrapped together: the bitmap decoders add without   *)
(* the width of a RID (decode_every_batch, expand_exceptions_binary).      *)
(***************************************************************************)
BitmapAnswers ==
  /\ answer.op = "bitmap"
  /\ NoneTooWide(answer.from, answer.to)
  /\ \A b \in answer.from .. answer.to : MovedTogether(b)
  => answer.bits = Range(MovedRids(answer.from, answer.to))

(***************************************************************************)
(* The differences rebuild the RIDs when every batch of every list is      *)
(* started anew: its first value is a RID (decode_new_to_deltas).          *)
(***************************************************************************)
StartsBatch(b, i) == (i - 1) % BatchSize = 0
RebuiltFrom(b, before) ==
  \A i \in DOMAIN original[b] :
    Moved(b)[i] = IF StartsBatch(b, i) THEN answer.rids[before + i]
                  ELSE (Moved(b)[i - 1] + answer.rids[before + i]) % RidLimit
DeltaAnswers ==
  answer.op = "deltas" /\ NoneTooWide(answer.from, answer.to) =>
    \A b \in answer.from .. answer.to :
      RebuiltFrom(b, IF b = answer.from THEN 0 ELSE Len(MovedRids(answer.from, b - 1)))

(***************************************************************************)
(* The bits of a selection box are the places of the box whose elements    *)
(* lie in the region and whose RID in the region is in one of the bins,    *)
(* and they are counted.  Where the decoder gives up (an element outside   *)
(* of a three-dimensional box, several lists of a region that is not       *)
(* contained) it returns 0 and has set no bit but such bits.               *)
(***************************************************************************)
Mirror(box) == [srcstart |-> box.deststart, srccount |-> box.destcount,
                deststart |-> box.srcstart, destcount |-> box.srccount]
Selected(box, rids) ==
  {p \in 0 .. box.destcount[1] * Strides(box.destcount)[1] - 1 :
     InBox(p, Mirror(box)) /\ RidInBox(p, Mirror(box)) \in rids}

SelectionBoxAnswers ==
  answer.op \in {"contained", "intersected"} /\ NoneTooWide(answer.from, answer.to) =>
    LET box == answer.rids[1]
        rids == Range(MovedRids(answer.from, answer.to))
        exact == /\ answer.bits = Selected(box, rids)
                 /\ answer.count = Cardinality(answer.bits)
        givesUp == /\ answer.op = "intersected"
                   /\ \/ answer.from < answer.to
                      \/ /\ Len(box.destcount) = 3
                         /\ \E rid \in rids : ~ InBox(rid, box)
    IN IF givesUp THEN answer.count = 0 /\ answer.bits \subseteq Selected(box, rids)
       ELSE exact

(***************************************************************************)
(* The list a function called ALERPFDDecompressRIDs writes, "output RID    *)
(* list", is the list that was compressed.                                 *)
(***************************************************************************)
RunListsDecode ==
  answer.op = "rids" /\ form = Mix /\ NoneTooWide(answer.from, answer.to) =>
    answer.rids = MovedRids(answer.from, answer.to)
===============================================================================
