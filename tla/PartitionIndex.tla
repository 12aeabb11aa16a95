----------------------------- MODULE PartitionIndex ----------------------------
(***************************************************************************)
(* The index of one partition after it was encoded as an inverted index:   *)
(* converted between its forms (src/src/ALConvert.c), translated to other  *)
(* RIDs (src/src/ALRIDTranslate.c), and read through the functions of      *)
(* src/src/ALRIDCompression.c, which the tools and the transport methods   *)
(* of ADIOS call.                                                          *)
(*                                                                         *)
(* Bins count from 1.  The buffer of the index is the sequence of its      *)
(* bins, cut where indexBinStartOffsets cuts it: the RIDs of every bin in  *)
(* the inverted form, one compressed list for every bin in the others.     *)
(***************************************************************************)
EXTENDS IndexForms

CONSTANTS
  Partitions,       \* inverted indexes: the RIDs of every bin
  Offsets,          \* offsets of translations, of either sign
  MaxTranslations,  \* bounds their number
  Boxes             \* selection boxes, with the region of the partition

\* No bin of ALEncode is empty, its RIDs are ascending, and a row is in one bin.
IsInverted(p) ==
  /\ p \in Seq(Seq(0 .. RidLimit - 1))
  /\ \A b \in DOMAIN p : /\ p[b] # <<>>
                         /\ \A i \in 1 .. Len(p[b]) - 1 : p[b][i] < p[b][i + 1]
  /\ \A a, b \in DOMAIN p : a # b => Range(p[a]) \cap Range(p[b]) = {}

\* A region and a box have one to four dimensions, and neither is empty.
IsBox(box) ==
  \E n \in 1 .. 4 :
    box \in [srcstart : [1 .. n -> Nat], srccount : [1 .. n -> Nat \ {0}],
            deststart : [1 .. n -> Nat], destcount : [1 .. n -> Nat \ {0}]]

ASSUME IndexAssumption ==
  /\ \A p \in Partitions : IsInverted(p)
  /\ Offsets \subseteq Int /\ MaxTranslations \in Nat
  /\ \A box \in Boxes : IsBox(box)

VARIABLES
  original,      \* what ALEncode put into the bins (history)
  shift,         \* sum of the offsets translated so far (history)
  translations,  \* their number (bound)
  form,          \* metadata.indexMeta.indexForm
  index,         \* the buffer
  aborted,       \* an assertion failed
  answer         \* result of the last read

vars == <<original, shift, translations, form, index, aborted, answer>>

Bins == DOMAIN original
NoAnswer == [op |-> "none", from |-> 1, to |-> 0, ok |-> TRUE,
             rids |-> <<>>, bits |-> {}, count |-> 0]

Init ==
  /\ original \in Partitions
  /\ index = original
  /\ shift = 0 /\ translations = 0
  /\ form = InvertedIndex
  /\ aborted = FALSE
  /\ answer = NoAnswer

-------------------------------------------------------------------------------
(* Conversions.                                                            *)
Capacity(bins) ==
  SumOf([b \in DOMAIN bins |-> get_sufficient_buffer_capacity(Len(bins[b]))])
Bytes(lists) == SumOf([b \in DOMAIN lists |-> ListBytes(lists[b])])

\* The assertion that the buffer sufficed comes after all bins are written.
convertIIToCII(newForm) ==
  /\ form = InvertedIndex /\ newForm \in CompressedForms
  /\ index' = [b \in Bins |-> Compress(newForm, index[b])]
  /\ form' = newForm
  /\ aborted' = (Bytes(index') > Capacity(index))
  /\ answer' = NoAnswer
  /\ UNCHANGED <<original, shift, translations>>

\* The form of skip lists is accepted, but nothing is allocated for it and
\* nothing is written: the room it would take fails the assertion.
convertIIToSkip ==
  /\ form = InvertedIndex
  /\ form' = Skip
  /\ aborted' = (Capacity(index) > 0)
  /\ index' = [b \in Bins |-> <<>>]
  /\ answer' = NoAnswer
  /\ UNCHANGED <<original, shift, translations>>

\* The assertion is that every list gives as many RIDs as the bin has.
convertCIIToII ==
  /\ form = PFD
  /\ index' = [b \in Bins |-> decode_rids(<<index[b]>>)]
  /\ form' = InvertedIndex
  /\ aborted' = \E b \in Bins : Len(index'[b]) # Len(original[b])
  /\ answer' = NoAnswer
  /\ UNCHANGED <<original, shift, translations>>

Error(op) == answer' = [NoAnswer EXCEPT !.op = op, !.ok = FALSE]

ConvertUnsupported(newForm) ==
  /\ \/ form # InvertedIndex /\ newForm # InvertedIndex
     \/ form \notin {PFD} /\ newForm = InvertedIndex
  /\ Error("convert")
  /\ UNCHANGED <<original, shift, translations, form, index, aborted>>

ALConvertIndexForm ==
  \/ \E newForm \in CompressedForms : convertIIToCII(newForm)
  \/ convertIIToSkip
  \/ convertCIIToII
  \/ \E newForm \in Forms : ConvertUnsupported(newForm)

\* A range of bins read from the store is decompressed; the metadata stays.
ALConvertPartialIndexForm(lo, hi) ==
  /\ IF form = PFD
     THEN answer' = [NoAnswer EXCEPT !.op = "rids", !.from = lo, !.to = hi,
                       !.rids = FlattenSeq([k \in 1 .. hi - lo + 1 |->
                                              decode_rids(<<index[lo + k - 1]>>)])]
     ELSE Error("convert")
  /\ UNCHANGED <<original, shift, translations, form, index, aborted>>

-------------------------------------------------------------------------------
(* Translation: the plain RIDs one by one, the lists by their frames.      *)
TranslatedRids(rids, offset) == [i \in DOMAIN rids |-> (rids[i] + offset) % RidLimit]

ALTranslateRIDs(offset) ==
  /\ form \in {InvertedIndex, PFD}
  /\ translations < MaxTranslations
  /\ index' = [b \in Bins |->
                 IF form = InvertedIndex THEN TranslatedRids(index[b], offset)
                 ELSE update_rids(<<index[b]>>, offset).lists[1]]
  /\ shift' = shift + offset
  /\ translations' = translations + 1
  /\ answer' = NoAnswer
  /\ UNCHANGED <<original, form, aborted>>

TranslateUnsupported ==
  /\ form \notin {InvertedIndex, PFD}
  /\ Error("translate")
  /\ UNCHANGED <<original, shift, translations, form, index, aborted>>

-------------------------------------------------------------------------------
(* Reads of the consecutive bins lo .. hi of a compressed index.           *)
Lists(lo, hi) == SubSeq(index, lo, hi)

\* The RIDs of the lists, by the function the interface has for the form.
ALDecompressRIDs(lo, hi) ==
  /\ form \in {PFD, Expansion, Mix}
  /\ answer' = [NoAnswer EXCEPT !.op = "rids", !.from = lo, !.to = hi,
                  !.rids = CASE form = PFD -> decode_rids(Lists(lo, hi))
                             [] form = Expansion -> adios_expand_decode_rid(Lists(lo, hi))
                             [] form = Mix -> adios_expand_runlength_decode_rid(Lists(lo, hi))]
  /\ UNCHANGED <<original, shift, translations, form, index, aborted>>

ALDecompressDeltas(lo, hi) ==
  /\ form \in {PFD, Expansion}
  /\ answer' = [NoAnswer EXCEPT !.op = "deltas", !.from = lo, !.to = hi,
                  !.rids = adios_decode_deltas(Lists(lo, hi))]
  /\ UNCHANGED <<original, shift, translations, form, index, aborted>>

\* The bits of bins in a bitmap that was 0; expand_runlength_decode_rids ends
\* without a return statement, so that its result is any value.
ALDecompressRIDs_set_bmap(lo, hi) ==
  /\ form \in CompressedForms
  /\ \E ok \in BOOLEAN :
       /\ form # Mix => ok
       /\ answer' = [NoAnswer EXCEPT !.op = "bitmap", !.from = lo, !.to = hi, !.ok = ok,
                       !.bits = UNION {ListBits(form, index[b]) : b \in lo .. hi}]
  /\ UNCHANGED <<original, shift, translations, form, index, aborted>>

\* RIDs of a region fill the region; the caller says whether the region lies in
\* the box, and may always say that it does not.
RegionSize(box) == box.srccount[1] * Strides(box.srccount)[1]
AllRids == UNION {Range(original[b]) : b \in Bins}
Contained(box) ==
  \A d \in DOMAIN box.srccount :
    /\ box.deststart[d] <= box.srcstart[d]
    /\ box.srcstart[d] + box.srccount[d] <= box.deststart[d] + box.destcount[d]

ALDecompressRIDtoSelBox(contained, lo, hi, box) ==
  /\ form \in {PFD, Expansion}
  /\ shift = 0 /\ AllRids = 0 .. RegionSize(box) - 1
  /\ contained => Contained(box)
  /\ LET read == decode_rids_to_selbox(contained, Lists(lo, hi), box)
     IN answer' = [NoAnswer EXCEPT !.op = IF contained THEN "contained" ELSE "intersected",
                     !.from = lo, !.to = hi, !.rids = <<box>>,
                     !.bits = read.bits, !.count = read.count]
  /\ UNCHANGED <<original, shift, translations, form, index, aborted>>

\* Reads come from a fresh state: what one read returned does not matter to the next.
Read ==
  /\ answer = NoAnswer
  /\ \E lo, hi \in Bins :
       /\ lo <= hi
       /\ \/ ALConvertPartialIndexForm(lo, hi)
          \/ ALDecompressRIDs(lo, hi)
          \/ ALDecompressDeltas(lo, hi)
          \/ ALDecompressRIDs_set_bmap(lo, hi)
          \/ \E contained \in BOOLEAN, box \in Boxes :
               ALDecompressRIDtoSelBox(contained, lo, hi, box)

Change ==
  \/ ALConvertIndexForm
  \/ \E offset \in Offsets : ALTranslateRIDs(offset)
  \/ TranslateUnsupported

Next == ~ aborted /\ (Read \/ Change)

Spec == Init /\ [][Next]_vars
===============================================================================
