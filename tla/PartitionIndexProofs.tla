------------------------- MODULE PartitionIndexProofs --------------------------
(***************************************************************************)
(* The index of a partition holds the RIDs of its bins, moved by the       *)
(* translations, through every chain of conversions, and what is read      *)
(* from it are those RIDs, their differences and their bits, for every     *)
(* set of partitions, every size of a batch and every width of a RID.      *)
(***************************************************************************)
EXTENDS PartitionIndexProps, RidListProofs

-------------------------------------------------------------------------------
(* The inductive invariant: the buffer holds the moved RIDs.               *)

\* What the buffer holds of a bin.
Stored(b) == CASE form = InvertedIndex -> Moved(b)
               [] form = Skip -> <<>>
               [] OTHER -> Compress(form, Moved(b))

\* The buffer holds the moved RIDs in the current form, and nothing but the
\* abandoned form of skip lists has failed an assertion.
IndexInv ==
  /\ original \in Partitions /\ shift \in Int /\ form \in Forms
  /\ index = [b \in Bins |-> Stored(b)]
  /\ aborted => form = Skip

\* The names of the forms differ.
LEMMA FormsDiffer ==
  /\ InvertedIndex # Skip /\ InvertedIndex \notin CompressedForms /\ Skip \notin CompressedForms
  /\ PFD # Hybrid /\ PFD # Expansion /\ PFD # Mix
  /\ Hybrid # Expansion /\ Hybrid # Mix /\ Expansion # Mix
  /\ PFD \in CompressedForms /\ Hybrid \in CompressedForms
  /\ Expansion \in CompressedForms /\ Mix \in CompressedForms
BY DEF InvertedIndex, Skip, PFD, Hybrid, Expansion, Mix, CompressedForms

\* The bins of a partition hold rising RIDs.
LEMMA BinsRise ==
  ASSUME NEW p \in Partitions
  PROVE  /\ Len(p) \in Nat /\ DOMAIN p = 1 .. Len(p)
         /\ \A b \in 1 .. Len(p) : Rising(p[b])
<1> DEFINE L == 0 .. RidLimit - 1
<1>1. /\ p \in Seq(Seq(L))
      /\ \A b \in DOMAIN p : p[b] # <<>> /\ \A i \in 1 .. Len(p[b]) - 1 : p[b][i] < p[b][i + 1]
  BY IndexAssumption DEF IsInverted
<1> HIDE DEF L
<1>2. Len(p) \in Nat /\ DOMAIN p = 1 .. Len(p) /\ \A b \in 1 .. Len(p) : p[b] \in Seq(L)
  BY <1>1
<1>3. ASSUME NEW b \in 1 .. Len(p) PROVE Len(p[b]) # 0
  <2> DEFINE s == p[b]
  <2>1. s \in Seq(L) /\ s # <<>>
    BY <1>1, <1>2
  <2> HIDE DEF s
  <2>2. Len(s) # 0
    BY ONLY <2>1
  <2> QED BY <2>2 DEF s
<1> QED BY <1>1, <1>2, <1>3 DEF Rising, L

\* The moved RIDs of a bin.
LEMMA MovedBin ==
  ASSUME original \in Partitions, shift \in Int, NEW b \in Bins
  PROVE  /\ Rising(original[b]) /\ Moved(b) = MovedBy(original[b], shift)
         /\ Distinct(Moved(b)) /\ Len(Moved(b)) = Len(original[b]) /\ Len(Moved(b)) # 0
<1>1. Rising(original[b])
  BY BinsRise DEF Bins
<1>2. Moved(b) = MovedBy(original[b], shift)
  BY DEF Moved, MovedBy
<1> QED BY <1>1, <1>2, MovedIsDistinct

\* The buffer by form.
LEMMA Held ==
  ASSUME IndexInv, NEW b \in Bins
  PROVE  /\ form = InvertedIndex => index[b] = Moved(b)
         /\ form \in CompressedForms => index[b] = Compress(form, Moved(b))
<1>1. index[b] = Stored(b)
  BY DEF IndexInv
<1>2. /\ form = InvertedIndex => Stored(b) = Moved(b)
      /\ form \in CompressedForms => Stored(b) = Compress(form, Moved(b))
  BY FormsDiffer DEF Stored
<1> QED BY <1>1, <1>2

\* One sequence joined.
LEMMA JoinedOne ==
  ASSUME NEW s
  PROVE  Joined(<<s>>, 1) = s
<1>1. [l \in 1 .. 1 |-> <<s>>[l]] = <<s>>
  OBVIOUS
<1> QED BY <1>1, FlattenOne DEF Joined

\* A list that was compressed without widening is read as the RIDs it has.
LEMMA ListReadBack ==
  ASSUME NEW rids, Distinct(rids), Len(rids) # 0
  PROVE  decode_rids(<<encode_rids(rids)>>) = rids
<1> DEFINE rr == <<rids>>
           lists == <<encode_rids(rids)>>
<1>1. Len(lists) = 1 /\ DOMAIN lists = 1 .. 1 /\ rr[1] = rids /\ lists[1] = encode_rids(rids)
  OBVIOUS
<1>2. Compress(PFD, rids) = encode_rids(rids)
  BY DEF Compress, PFD, Hybrid, Expansion, Mix
<1> HIDE DEF rr, lists
<1>3. ListsOf(PFD, lists, rr, 1)
  BY <1>1, <1>2, FormsDiffer DEF ListsOf
<1>4. decode_rids(lists) = Joined(rr, 1)
  <2>1. 1 \in Nat \ {0} /\ PFD \in {PFD, Expansion}
    OBVIOUS
  <2>2. decode_rids(lists) = FlattenSeq([l \in 1 .. 1 |-> rr[l]])
    BY <1>3, <2>1, PlainListsRead DEF Joined
  <2> QED BY <2>2 DEF Joined
<1> QED BY <1>4, JoinedOne DEF rr, lists

\* The inverted index of the input holds its RIDs.
LEMMA InvInit == ASSUME Init PROVE IndexInv
<1>1. original \in Partitions /\ shift = 0 /\ form = InvertedIndex /\ index = original /\ ~ aborted
  BY DEF Init
<1>2. Len(original) \in Nat /\ DOMAIN original = 1 .. Len(original)
      /\ \A b \in Bins : Rising(original[b])
  BY <1>1, BinsRise DEF Bins
<1>3. ASSUME NEW b \in Bins PROVE Stored(b) = original[b]
  <2>1. Moved(b) = MovedBy(original[b], 0)
    BY <1>1 DEF Moved, MovedBy
  <2>2. MovedBy(original[b], 0) = original[b]
    <3>1. Rising(original[b]) /\ 0 \in Int
      BY <1>2
    <3> QED BY <3>1, MovedTwice
  <2> QED BY <1>1, <2>1, <2>2, FormsDiffer DEF Stored
<1>4. original = [b \in Bins |-> original[b]]
  <2>1. original \in Seq(Seq(0 .. RidLimit - 1))
    BY <1>1, IndexAssumption DEF IsInverted
  <2> QED BY <2>1 DEF Bins
<1>5. index = [b \in Bins |-> Stored(b)]
  BY <1>1, <1>3, <1>4
<1> QED BY <1>1, <1>5, FormsDiffer DEF IndexInv, Forms

\* The lists of a partition fit into the buffer that is allocated for them.
LEMMA ConvertedFits ==
  ASSUME IndexInv, form = InvertedIndex, NEW newForm \in CompressedForms
  PROVE  ~ (Bytes([b \in Bins |-> Compress(newForm, index[b])]) > Capacity(index))
<1> DEFINE m == Len(original)
           s == [b \in 1 .. m |-> ListBytes(Compress(newForm, index[b]))]
           t == [b \in 1 .. m |-> get_sufficient_buffer_capacity(Len(index[b]))]
           lists == [b \in Bins |-> Compress(newForm, index[b])]
<1>1. original \in Partitions /\ shift \in Int
  BY DEF IndexInv
<1>2. m \in Nat /\ Bins = 1 .. m
  BY <1>1, BinsRise DEF Bins
<1>3. DOMAIN index = 1 .. m /\ DOMAIN lists = 1 .. m
  BY <1>2 DEF IndexInv
<1>4. \A b \in 1 .. m : s[b] \in Int /\ t[b] \in Int /\ s[b] <= t[b]
  <2> SUFFICES ASSUME NEW b \in 1 .. m PROVE s[b] \in Int /\ t[b] \in Int /\ s[b] <= t[b]
    OBVIOUS
  <2>1. b \in Bins
    BY <1>2
  <2>2. index[b] = Moved(b) /\ Distinct(Moved(b)) /\ Len(Moved(b)) # 0
    BY <1>1, <2>1, Held, MovedBin
  <2>3. Distinct(index[b]) /\ Len(index[b]) # 0
    BY <2>2
  <2> DEFINE x == ListBytes(Compress(newForm, index[b]))
             y == get_sufficient_buffer_capacity(Len(index[b]))
  <2>4. x \in Int /\ y \in Int /\ x <= y
    BY <2>3, ListFits
  <2>5. s[b] = x /\ t[b] = y
    OBVIOUS
  <2> HIDE DEF x, y, s, t
  <2> QED BY <2>4, <2>5
<1>5. Len(s) = m /\ Len(t) = m
  BY <1>2
<1>6. Bytes(lists) = SumOf(s) /\ Capacity(index) = SumOf(t)
  <2>1. [b \in DOMAIN lists |-> ListBytes(lists[b])] = s
    BY <1>2, <1>3
  <2>2. [b \in DOMAIN index |-> get_sufficient_buffer_capacity(Len(index[b]))] = t
    BY <1>3
  <2> HIDE DEF s, t, lists
  <2> QED BY <2>1, <2>2 DEF Bytes, Capacity
<1> HIDE DEF s, t, lists, m
<1>7. SumOf(s) \in Int /\ SumOf(t) \in Int /\ SumOf(s) <= SumOf(t)
  BY <1>2, <1>4, <1>5, SumBound
<1>8. ~ (Bytes(lists) > Capacity(index))
  BY <1>6, <1>7
<1> QED BY <1>8 DEF lists

\* Compressing a held index keeps it: the lists encoded are of the moved RIDs.
LEMMA InvCompress ==
  ASSUME IndexInv, NEW newForm, convertIIToCII(newForm)
  PROVE  IndexInv'
<1>1. /\ form = InvertedIndex /\ newForm \in CompressedForms /\ form' = newForm
      /\ index' = [b \in Bins |-> Compress(newForm, index[b])]
      /\ aborted' = (Bytes(index') > Capacity(index))
      /\ original' = original /\ shift' = shift
  BY DEF convertIIToCII
<1>2. ~ aborted'
  <2> DEFINE lists == [b \in Bins |-> Compress(newForm, index[b])]
  <2>1. ~ (Bytes(lists) > Capacity(index))
    BY <1>1, ConvertedFits
  <2>2. index' = lists
    BY <1>1
  <2> HIDE DEF lists
  <2>3. ~ (Bytes(index') > Capacity(index))
    BY <2>1, <2>2
  <2> QED BY <1>1, <2>3
<1>3. Bins' = Bins /\ \A b \in Bins : Moved(b)' = Moved(b)
  BY <1>1 DEF Bins, Moved
<1>4. \A b \in Bins : Stored(b)' = Compress(newForm, Moved(b))
  BY <1>1, <1>3, FormsDiffer DEF Stored
<1>5. \A b \in Bins : index[b] = Moved(b)
  BY <1>1, Held
<1>6. index' = [b \in Bins' |-> Stored(b)']
  BY <1>1, <1>3, <1>4, <1>5
<1> QED BY <1>1, <1>2, <1>6 DEF IndexInv, Forms

\* Replacing a held index by a skip leaves nothing to hold.
LEMMA InvSkip ==
  ASSUME IndexInv, convertIIToSkip
  PROVE  IndexInv'
<1>1. /\ form' = Skip /\ index' = [b \in Bins |-> <<>>]
      /\ original' = original /\ shift' = shift
  BY DEF convertIIToSkip
<1>2. Bins' = Bins
  BY <1>1 DEF Bins
<1>3. \A b \in Bins : Stored(b)' = <<>>
  BY <1>1, FormsDiffer DEF Stored
<1>4. index' = [b \in Bins' |-> Stored(b)']
  BY <1>1, <1>2, <1>3
<1> QED BY <1>1, <1>4 DEF IndexInv, Forms

\* Decompressing keeps what is held: decoding inverts encoding.
LEMMA InvDecompress ==
  ASSUME IndexInv, convertCIIToII
  PROVE  IndexInv'
<1>1. /\ form = PFD /\ form' = InvertedIndex
      /\ index' = [b \in Bins |-> decode_rids(<<index[b]>>)]
      /\ aborted' = \E b \in Bins : Len(index'[b]) # Len(original[b])
      /\ original' = original /\ shift' = shift
  BY DEF convertCIIToII
<1>2. original \in Partitions /\ shift \in Int
  BY DEF IndexInv
<1>3. Bins' = Bins /\ \A b \in Bins : Moved(b)' = Moved(b)
  BY <1>1 DEF Bins, Moved
<1>4. \A b \in Bins : Stored(b)' = Moved(b)
  BY <1>1, <1>3, FormsDiffer DEF Stored
<1>5. ASSUME NEW b \in Bins
      PROVE  decode_rids(<<index[b]>>) = Moved(b) /\ Len(Moved(b)) = Len(original[b])
  <2>1. Distinct(Moved(b)) /\ Len(Moved(b)) # 0 /\ Len(Moved(b)) = Len(original[b])
    BY <1>2, MovedBin
  <2>2. index[b] = Compress(PFD, Moved(b))
    BY <1>1, Held, FormsDiffer
  <2>3. Compress(PFD, Moved(b)) = encode_rids(Moved(b))
    BY DEF Compress, PFD, Hybrid, Expansion, Mix
  <2> QED BY <2>1, <2>2, <2>3, ListReadBack
<1>6. index' = [b \in Bins' |-> Stored(b)']
  BY <1>1, <1>3, <1>4, <1>5
<1>7. aborted' = FALSE
  BY <1>1, <1>5
<1> QED BY <1>1, <1>2, <1>6, <1>7 DEF IndexInv, Forms

\* Translating the RIDs moves what is held by the same offset, in every form:
\* in the RIDs themselves or in the frames of the batches.
LEMMA InvTranslate ==
  ASSUME IndexInv, NEW offset \in Offsets, ALTranslateRIDs(offset)
  PROVE  IndexInv'
<1>1. /\ form \in {InvertedIndex, PFD} /\ form' = form /\ aborted' = aborted
      /\ index' = [b \in Bins |-> IF form = InvertedIndex THEN TranslatedRids(index[b], offset)
                                  ELSE update_rids(<<index[b]>>, offset).lists[1]]
      /\ original' = original /\ shift' = shift + offset
  BY DEF ALTranslateRIDs
<1>2. original \in Partitions /\ shift \in Int /\ offset \in Int /\ shift' \in Int
  BY <1>1, IndexAssumption DEF IndexInv
<1>3. Bins' = Bins
  BY <1>1 DEF Bins
<1>4. \A b \in Bins : Moved(b)' = MovedBy(original[b], shift + offset)
  BY <1>1 DEF Moved, MovedBy
<1>5. ASSUME NEW b \in Bins
      PROVE  Stored(b)' = IF form = InvertedIndex THEN TranslatedRids(index[b], offset)
                          ELSE update_rids(<<index[b]>>, offset).lists[1]
  <2>1. Rising(original[b]) /\ Moved(b) = MovedBy(original[b], shift)
    BY <1>2, MovedBin
  <2>2. CASE form = InvertedIndex
    <3>1. index[b] = MovedBy(original[b], shift)
      BY <2>1, <2>2, Held
    <3>2. TranslatedRids(index[b], offset) = MovedBy(index[b], offset)
      BY DEF TranslatedRids, MovedBy
    <3>3. MovedBy(MovedBy(original[b], shift), offset) = MovedBy(original[b], shift + offset)
      BY <1>2, <2>1, MovedTwice
    <3>4. Stored(b)' = Moved(b)'
      BY <1>1, <2>2, FormsDiffer DEF Stored
    <3> QED BY <1>4, <2>2, <3>1, <3>2, <3>3, <3>4
  <2>3. CASE form = PFD
    <3>1. \A rids : Compress(PFD, rids) = encode_rids(rids)
      BY DEF Compress, PFD, Hybrid, Expansion, Mix
    <3>2. index[b] = encode_rids(MovedBy(original[b], shift))
      BY <2>1, <2>3, <3>1, Held, FormsDiffer
    <3>3. update_rids(<<encode_rids(MovedBy(original[b], shift))>>, offset).lists[1]
            = encode_rids(MovedBy(original[b], shift + offset))
      BY <1>2, <2>1, ListMoved
    <3>4. Stored(b)' = Compress(PFD, Moved(b)')
      BY <1>1, <2>3, FormsDiffer DEF Stored
    <3>5. form # InvertedIndex
      BY <2>3, FormsDiffer
    <3> QED BY <1>4, <3>1, <3>2, <3>3, <3>4, <3>5
  <2> QED BY <1>1, <2>2, <2>3
<1>6. index' = [b \in Bins' |-> Stored(b)']
  BY <1>1, <1>3, <1>5
<1> QED BY <1>1, <1>2, <1>6 DEF IndexInv

\* A step that changes neither index nor input keeps the invariant.
LEMMA InvSame ==
  ASSUME IndexInv, UNCHANGED <<original, shift, form, index, aborted>>
  PROVE  IndexInv'
<1>1. Bins' = Bins /\ \A b \in Bins : Stored(b)' = Stored(b)
  BY DEF Bins, Stored, Moved
<1>2. [b \in Bins' |-> Stored(b)'] = [b \in Bins |-> Stored(b)]
  BY <1>1
<1> QED BY <1>2 DEF IndexInv

\* Reads, and what is refused, leave the index alone.
LEMMA ReadsLeave ==
  ASSUME Read \/ TranslateUnsupported \/ (\E newForm \in Forms : ConvertUnsupported(newForm))
  PROVE  UNCHANGED <<original, shift, form, index, aborted>>
BY DEF Read, TranslateUnsupported, ConvertUnsupported, ALConvertPartialIndexForm,
       ALDecompressRIDs, ALDecompressDeltas, ALDecompressRIDs_set_bmap, ALDecompressRIDtoSelBox

\* Every step keeps the invariant.
LEMMA InvNext ==
  ASSUME IndexInv, [Next]_vars
  PROVE  IndexInv'
<1>1. CASE Read \/ TranslateUnsupported \/ (\E newForm \in Forms : ConvertUnsupported(newForm))
  BY <1>1, ReadsLeave, InvSame
<1>2. ASSUME NEW newForm \in CompressedForms, convertIIToCII(newForm) PROVE IndexInv'
  BY <1>2, InvCompress
<1>3. CASE convertIIToSkip
  BY <1>3, InvSkip
<1>4. CASE convertCIIToII
  BY <1>4, InvDecompress
<1>5. ASSUME NEW offset \in Offsets, ALTranslateRIDs(offset) PROVE IndexInv'
  BY <1>5, InvTranslate
<1>6. CASE UNCHANGED vars
  BY <1>6, InvSame DEF vars
<1> QED BY <1>1, <1>2, <1>3, <1>4, <1>5, <1>6 DEF Next, Change, ALConvertIndexForm

\* In every reachable state the buffer holds, in the form the metadata say,
\* the input's RIDs moved by the translations so far (the conversions of
\* ALIndex*.c and ALTranslateRIDs).
THEOREM IndexInvariant == Spec => []IndexInv
<1>1. Init => IndexInv
  BY InvInit
<1>2. IndexInv /\ [Next]_vars => IndexInv'
  BY InvNext
<1> QED BY <1>1, <1>2, PTL DEF Spec

\* The variables of the index have their types in every reachable state.
THEOREM IndexTypeCorrect == Spec => []TypeOK
<1>1. ASSUME IndexInv PROVE TypeOK
  <2>1. original \in Partitions /\ shift \in Int /\ form \in Forms /\ DOMAIN index = Bins
    BY <1>1 DEF IndexInv
  <2>2. ASSUME form = InvertedIndex, NEW b \in Bins PROVE Range(index[b]) \subseteq 0 .. RidLimit - 1
    <3>1. index[b] = Moved(b) /\ Distinct(Moved(b))
      BY <1>1, <2>1, <2>2, Held, MovedBin
    <3> DEFINE L == 0 .. RidLimit - 1
               s == index[b]
    <3>2. s \in Seq(L)
      BY <3>1 DEF Distinct
    <3> HIDE DEF L, s
    <3>3. Range(s) \subseteq L
      BY <3>2 DEF Range
    <3> QED BY <3>3 DEF L, s
  <2>3. ASSUME form \in CompressedForms, NEW b \in Bins, NEW k \in DOMAIN index[b].batches
        PROVE  BatchOK(index[b].batches[k])
    <3>1. /\ index[b] = Compress(form, Moved(b))
          /\ Distinct(Moved(b)) /\ Len(Moved(b)) # 0
      BY <1>1, <2>1, <2>3, Held, MovedBin
    <3>2. HeaderHolds(index[b].batches[k])
      <4>1. /\ DOMAIN index[b].batches = 1 .. BatchCount(Len(Moved(b)))
            /\ \A j \in 1 .. BatchCount(Len(Moved(b))) : HeaderHolds(index[b].batches[j])
        <5> DEFINE rids == Moved(b)
        <5>1. index[b] = Compress(form, rids) /\ Distinct(rids) /\ Len(rids) # 0
          BY <3>1
        <5> HIDE DEF rids
        <5>2. /\ DOMAIN index[b].batches = 1 .. BatchCount(Len(rids))
              /\ \A j \in 1 .. BatchCount(Len(rids)) : HeaderHolds(index[b].batches[j])
          <6> DEFINE f == form
          <6>1. f \in CompressedForms
            BY <2>3
          <6> HIDE DEF f
          <6>2. /\ DOMAIN Compress(f, rids).batches = 1 .. BatchCount(Len(rids))
                /\ \A j \in 1 .. BatchCount(Len(rids)) : HeaderHolds(Compress(f, rids).batches[j])
            BY <5>1, <6>1, ListBatches
          <6> QED BY <5>1, <6>2 DEF f
        <5> QED BY <5>2 DEF rids
      <4> QED BY <4>1
    <3>3. WordBytes \in Int /\ kSufficientBufferCapacity \in Int
      <4>1. kSufficientBufferCapacity = WordBytes + 8 * BatchSize
        BY FullBatchWords
      <4> QED BY <4>1, BatchShape
    <3> QED BY <3>2, <3>3 DEF HeaderHolds, BatchOK
  <2> QED BY <2>1, <2>2, <2>3 DEF TypeOK
<1> QED BY <1>1, IndexInvariant, PTL

\* No conversion needs more room than the buffers that ALConvertIndexForm
\* allocates from the capacity bounds, however many RIDs each list has.
THEOREM CapacityIsSufficient == Spec => []CapacitySuffices
<1>1. IndexInv => CapacitySuffices
  BY DEF IndexInv, CapacitySuffices
<1> QED BY <1>1, IndexInvariant, PTL

\* An index converted back to the inverted form, through any chain of forms and
\* translations, holds each bin's RIDs, moved, in their order.
THEOREM InvertedFormKeepsRids == Spec => []InvertedKeepsRids
<1>1. IndexInv => InvertedKeepsRids
  BY Held DEF InvertedKeepsRids
<1> QED BY <1>1, IndexInvariant, PTL

-------------------------------------------------------------------------------
(* The lists of a range of bins.                                           *)

\* x is the compressed index of the RIDs of p moved by s.
Holding(p, s, f, x) ==
  /\ p \in Partitions /\ s \in Int /\ f \in CompressedForms
  /\ x = [b \in DOMAIN p |-> Compress(f, MovedBy(p[b], s))]

\* The moved RIDs of consecutive bins, and whether none has a batch too wide.
BinRids(p, s, lo, hi) == [k \in 1 .. hi - lo + 1 |-> MovedBy(p[lo + k - 1], s)]
Narrow(p, f, lo, hi) == \A b \in lo .. hi : ~ (f \in {Expansion, Mix} /\ Wide(p[b]))

\* A translation makes no batch wider.
LEMMA WideMoved ==
  ASSUME NEW rids, Rising(rids), NEW s \in Int
  PROVE  Wide(MovedBy(rids, s)) <=> Wide(rids)
<1>1. Len(MovedBy(rids, s)) = Len(rids)
  BY MovedIsDistinct
<1>2. \A k \in 1 .. BatchCount(Len(rids)) :
        /\ Len(BatchRids(MovedBy(rids, s), k)) = Len(BatchRids(rids, k))
        /\ Deltas(BatchRids(MovedBy(rids, s), k)) = Deltas(BatchRids(rids, k))
  BY MovedBatches
<1> QED BY <1>1, <1>2 DEF Wide

\* The lists of consecutive bins.
LEMMA ListsRange ==
  ASSUME NEW p, NEW s, NEW f, NEW x, Holding(p, s, f, x),
         NEW lo \in DOMAIN p, NEW hi \in DOMAIN p, lo <= hi, Narrow(p, f, lo, hi)
  PROVE  /\ hi - lo + 1 \in Nat \ {0} /\ lo \in Int /\ hi \in Int
         /\ ListsOf(f, SubSeq(x, lo, hi), BinRids(p, s, lo, hi), hi - lo + 1)
         /\ Joined(BinRids(p, s, lo, hi), hi - lo + 1) = FlattenSeq(BinRids(p, s, lo, hi))
         /\ \A l \in 1 .. hi - lo + 1 :
              /\ lo + l - 1 \in lo .. hi /\ lo + l - 1 \in DOMAIN p
              /\ SubSeq(x, lo, hi)[l] = x[lo + l - 1]
              /\ x[lo + l - 1] = Compress(f, MovedBy(p[lo + l - 1], s))
              /\ BinRids(p, s, lo, hi)[l] = MovedBy(p[lo + l - 1], s)
<1> DEFINE m == hi - lo + 1
           lists == SubSeq(x, lo, hi)
           rr == BinRids(p, s, lo, hi)
           n == Len(p)
<1>1. /\ p \in Partitions /\ s \in Int /\ f \in CompressedForms
      /\ x = [b \in DOMAIN p |-> Compress(f, MovedBy(p[b], s))]
  BY DEF Holding
<1>2. n \in Nat /\ DOMAIN p = 1 .. n /\ \A b \in 1 .. n : Rising(p[b])
  BY <1>1, BinsRise
<1> HIDE DEF n
<1>3. lo \in 1 .. n /\ hi \in 1 .. n /\ m \in Nat \ {0} /\ lo \in Int /\ hi \in Int
  BY <1>2
<1>4. ASSUME NEW l \in 1 .. m PROVE lo + l - 1 \in lo .. hi /\ lo + l - 1 \in 1 .. n
  <2>1. lo \in 1 .. n /\ hi \in 1 .. n /\ n \in Nat /\ l \in 1 .. hi - lo + 1
    BY <1>2, <1>3
  <2> QED BY ONLY <2>1
<1>5. lists = [l \in 1 .. m |-> x[lo + l - 1]]
  <2>1. \A b \in 1 .. n : x[b] \in Range(x)
    BY <1>1, <1>2 DEF Range
  <2>2. x \in Seq(Range(x)) /\ Len(x) = n
    <3>1. x = [b \in 1 .. n |-> x[b]]
      BY <1>1, <1>2
    <3> DEFINE Y == Range(x)
    <3> HIDE DEF Y
    <3> QED BY <1>2, <2>1, <3>1 DEF Y
  <2> DEFINE Y == Range(x)
  <2>3. x \in Seq(Y)
    BY <2>2
  <2> HIDE DEF Y, m, lists
  <2>4. SubSeq(x, lo, hi) = [l \in 1 .. (1 + hi - lo) |-> x[l + lo - 1]]
    BY <1>3, <2>2, <2>3
  <2>5. 1 + hi - lo = m /\ \A l \in 1 .. m : l + lo - 1 = lo + l - 1
    BY <1>3 DEF m
  <2> QED BY <2>4, <2>5 DEF lists
<1>6. Len(lists) = m /\ DOMAIN lists = 1 .. m
  BY <1>3, <1>5
<1>7. rr = [l \in 1 .. m |-> MovedBy(p[lo + l - 1], s)]
  BY DEF BinRids
<1> HIDE DEF m, lists, rr
<1>8. ASSUME NEW l \in 1 .. m
      PROVE  /\ Distinct(rr[l]) /\ Len(rr[l]) # 0 /\ lists[l] = Compress(f, rr[l])
             /\ f \in {Expansion, Mix} => ~ Wide(rr[l])
  <2> DEFINE b == lo + l - 1
  <2>1. b \in lo .. hi /\ b \in 1 .. n
    BY <1>4
  <2>2. rr[l] = MovedBy(p[b], s) /\ lists[l] = x[b]
    BY <1>5, <1>7
  <2> HIDE DEF b
  <2>3. Rising(p[b]) /\ ~ (f \in {Expansion, Mix} /\ Wide(p[b]))
    BY <1>2, <2>1 DEF Narrow
  <2>4. x[b] = Compress(f, MovedBy(p[b], s))
    BY <1>1, <1>2, <2>1
  <2> QED BY <1>1, <2>2, <2>3, <2>4, WideMoved, MovedIsDistinct
<1>9. ListsOf(f, lists, rr, m)
  BY <1>1, <1>6, <1>8 DEF ListsOf
<1>10. Joined(rr, m) = FlattenSeq(rr)
  <2>1. [l \in 1 .. m |-> rr[l]] = rr
    BY <1>7
  <2> QED BY <2>1 DEF Joined
<1>11. ASSUME NEW l \in 1 .. m
       PROVE  /\ lo + l - 1 \in lo .. hi /\ lo + l - 1 \in DOMAIN p
              /\ lists[l] = x[lo + l - 1]
              /\ x[lo + l - 1] = Compress(f, MovedBy(p[lo + l - 1], s))
              /\ rr[l] = MovedBy(p[lo + l - 1], s)
  <2>1. lo + l - 1 \in lo .. hi /\ lo + l - 1 \in DOMAIN p
    BY <1>2, <1>4
  <2>2. lists[l] = x[lo + l - 1] /\ rr[l] = MovedBy(p[lo + l - 1], s)
    BY <1>5, <1>7
  <2> QED BY <1>1, <2>1, <2>2
<1> QED BY <1>3, <1>9, <1>10, <1>11 DEF m, lists, rr

\* What the functions that read RIDs return.
LEMMA RidsOfLists ==
  ASSUME NEW p, NEW s, NEW f, NEW x, Holding(p, s, f, x),
         NEW lo \in DOMAIN p, NEW hi \in DOMAIN p, lo <= hi, Narrow(p, f, lo, hi),
         NEW read,
         \/ f = PFD /\ read = decode_rids(SubSeq(x, lo, hi))
         \/ f = Expansion /\ read = adios_expand_decode_rid(SubSeq(x, lo, hi))
         \/ f = Mix /\ read = adios_expand_runlength_decode_rid(SubSeq(x, lo, hi))
  PROVE  /\ Len(read) = Len(FlattenSeq(BinRids(p, s, lo, hi)))
         /\ (\A b \in lo .. hi : ~ HasRuns(x[b])) => read = FlattenSeq(BinRids(p, s, lo, hi))
<1> DEFINE m == hi - lo + 1
           lists == SubSeq(x, lo, hi)
           rr == BinRids(p, s, lo, hi)
<1>1. /\ m \in Nat \ {0} /\ ListsOf(f, lists, rr, m) /\ Joined(rr, m) = FlattenSeq(rr)
      /\ \A l \in 1 .. m : lo + l - 1 \in lo .. hi /\ lists[l] = x[lo + l - 1]
  BY ListsRange
<1> HIDE DEF m, rr, lists
<1>2. CASE f \in {PFD, Expansion}
  <2>1. decode_rids(lists) = Joined(rr, m)
    BY <1>1, <1>2, PlainListsRead
  <2>2. read = decode_rids(lists)
    BY <1>2, FormsDiffer DEF adios_expand_decode_rid, lists
  <2> QED BY <1>1, <2>1, <2>2 DEF rr
<1>3. CASE f = Mix
  <2>1. read = adios_expand_runlength_decode_rid(lists)
    BY <1>3, FormsDiffer DEF lists
  <2>2. /\ Len(adios_expand_runlength_decode_rid(lists)) = Len(Joined(rr, m))
        /\ (\A l \in 1 .. m : \A k \in DOMAIN lists[l].batches : lists[l].batches[k].ones = <<>>)
             => adios_expand_runlength_decode_rid(lists) = Joined(rr, m)
    BY <1>1, <1>3, MixListsRead
  <2>3. ASSUME \A b \in lo .. hi : ~ HasRuns(x[b]) PROVE read = FlattenSeq(rr)
    <3>1. \A l \in 1 .. m : \A k \in DOMAIN lists[l].batches : lists[l].batches[k].ones = <<>>
      BY <1>1, <2>3 DEF HasRuns
    <3> QED BY <1>1, <2>1, <2>2, <3>1
  <2> QED BY <1>1, <2>1, <2>2, <2>3 DEF rr
<1> QED BY <1>2, <1>3

\* What decompressing bin by bin returns.
LEMMA RidsBinByBin ==
  ASSUME NEW p, NEW s, NEW x, Holding(p, s, PFD, x),
         NEW lo \in DOMAIN p, NEW hi \in DOMAIN p, lo <= hi
  PROVE  FlattenSeq([k \in 1 .. hi - lo + 1 |-> decode_rids(<<x[lo + k - 1]>>)])
           = FlattenSeq(BinRids(p, s, lo, hi))
<1> DEFINE m == hi - lo + 1
<1>1. Narrow(p, PFD, lo, hi)
  BY FormsDiffer DEF Narrow
<1>2. \A l \in 1 .. m : lo + l - 1 \in DOMAIN p
                        /\ x[lo + l - 1] = Compress(PFD, MovedBy(p[lo + l - 1], s))
  BY <1>1, ListsRange
<1>3. p \in Partitions /\ s \in Int
  BY DEF Holding
<1>4. ASSUME NEW k \in 1 .. m PROVE decode_rids(<<x[lo + k - 1]>>) = MovedBy(p[lo + k - 1], s)
  <2> DEFINE b == lo + k - 1
  <2>1. b \in DOMAIN p /\ x[b] = Compress(PFD, MovedBy(p[b], s))
    BY <1>2
  <2> HIDE DEF b
  <2>2. Rising(p[b])
    BY <1>3, <2>1, BinsRise
  <2>3. Distinct(MovedBy(p[b], s)) /\ Len(MovedBy(p[b], s)) # 0
    BY <1>3, <2>2, MovedIsDistinct
  <2>4. x[b] = encode_rids(MovedBy(p[b], s))
    BY <2>1 DEF Compress, PFD, Hybrid, Expansion, Mix
  <2>5. decode_rids(<<x[b]>>) = MovedBy(p[b], s)
    BY <2>3, <2>4, ListReadBack
  <2> QED BY <2>5 DEF b
<1>5. [k \in 1 .. m |-> decode_rids(<<x[lo + k - 1]>>)] = BinRids(p, s, lo, hi)
  BY <1>4 DEF BinRids
<1> QED BY <1>5

-------------------------------------------------------------------------------
(* The differences and the bits of a range of bins.                        *)

\* The sequences of tt are as long as the first j of ss.
AsLong(tt, ss, j, X) ==
  Len(tt) = j /\ \A k \in 1 .. j : tt[k] \in Seq(X) /\ Len(tt[k]) = Len(ss[k])

\* Sequences that are as long as the first j of others end where those end.
LEMMA FirstPieces ==
  ASSUME NEW m \in Nat \ {0}, NEW ss, NEW q, Cuts(q, m, ss), NEW j \in 1 .. m,
         NEW X, NEW tt, AsLong(tt, ss, j, X)
  PROVE  Len(FlattenSeq(tt)) = q[j]
<1> USE DEF AsLong
<1> DEFINE c == [k \in 0 .. j |-> q[k]]
<1>1. q \in [0 .. m -> Nat] /\ q[0] = 0 /\ \A k \in 1 .. m : q[k] = q[k - 1] + Len(ss[k])
  BY DEF Cuts
<1>2. c \in [0 .. j -> Nat] /\ \A k \in 0 .. j : c[k] = q[k]
  BY <1>1
<1> HIDE DEF c
<1>3. c[0] = 0 /\ c[j] = q[j]
  BY <1>1, <1>2
<1>4. ASSUME NEW k \in 1 .. j PROVE c[k] = c[k - 1] + Len(tt[k])
  <2>1. k \in 1 .. m /\ k \in 0 .. j /\ k - 1 \in 0 .. j
    OBVIOUS
  <2> QED BY <1>1, <1>2, <2>1
<1>5. Cuts(c, j, tt)
  BY <1>2, <1>3, <1>4 DEF Cuts
<1>6. Placed(FlattenSeq(tt), c, j, tt)
  <2>1. j \in Nat \ {0} /\ \A k \in 1 .. j : tt[k] \in Seq(X)
    OBVIOUS
  <2> QED BY <1>5, <2>1, FlattenPlaces
<1> QED BY <1>3, <1>6 DEF Placed

\* How many RIDs the bins before b have.
Before(p, s, lo, b) == IF b = lo THEN 0 ELSE Len(FlattenSeq(BinRids(p, s, lo, b - 1)))

\* Element i of the moved RIDs of bin b, rebuilt from what was read.
Rebuilt(p, s, lo, b, i, read) ==
  LET moved == MovedBy(p[b], s)
      d == read[Before(p, s, lo, b) + i]
  IN moved[i] = IF (i - 1) % BatchSize = 0 THEN d ELSE (moved[i - 1] + d) % RidLimit

\* read is what the reader of differences returns for the bins lo .. hi.
DeltasRead(p, s, f, x, lo, hi, read) ==
  /\ f \in {PFD, Expansion} /\ Holding(p, s, f, x)
  /\ lo \in DOMAIN p /\ hi \in DOMAIN p /\ lo <= hi /\ Narrow(p, f, lo, hi)
  /\ read = adios_decode_deltas(SubSeq(x, lo, hi))

\* The differences that are read rebuild the RIDs of every bin.
LEMMA DeltasOfLists ==
  ASSUME NEW p, NEW s, NEW f, NEW x, NEW lo, NEW hi, NEW read,
         DeltasRead(p, s, f, x, lo, hi, read), NEW b \in lo .. hi, NEW i \in DOMAIN p[b]
  PROVE  Rebuilt(p, s, lo, b, i, read)
<1> DEFINE m == hi - lo + 1
           lists == SubSeq(x, lo, hi)
           rr == BinRids(p, s, lo, hi)
           dd == [l \in 1 .. m |-> DeltasOf(rr[l])]
           L == 0 .. RidLimit - 1
           moved == MovedBy(p[b], s)
           l == b - lo + 1
<1> USE DEF DeltasRead
<1>1. /\ m \in Nat \ {0} /\ ListsOf(f, lists, rr, m) /\ lo \in Int /\ hi \in Int
      /\ \A k \in 1 .. m : rr[k] = MovedBy(p[lo + k - 1], s)
  BY ListsRange
<1>2. /\ p \in Partitions /\ s \in Int /\ DOMAIN p = 1 .. Len(p) /\ Len(p) \in Nat
      /\ \A k \in 1 .. Len(p) : Rising(p[k])
  BY BinsRise DEF Holding
<1>3. l \in 1 .. m /\ lo + l - 1 = b /\ b \in Int /\ b \in 1 .. Len(p)
  <2>1. lo \in 1 .. Len(p) /\ hi \in 1 .. Len(p) /\ b \in lo .. hi /\ Len(p) \in Nat
    BY <1>2
  <2> QED BY ONLY <2>1
<1> HIDE DEF m, lists, rr, l, L
<1>4. \A k \in 1 .. m : Distinct(rr[k]) /\ Len(rr[k]) # 0
  BY <1>1 DEF ListsOf
<1>5. read = FlattenSeq(dd)
  <2>1. read = Joined(dd, m)
    <3>1. read = adios_decode_deltas(lists)
      BY DEF lists
    <3> QED BY <1>1, <3>1, PlainListsRead
  <2>2. dd = [k \in 1 .. m |-> dd[k]]
    OBVIOUS
  <2> HIDE DEF dd
  <2> QED BY <2>1, <2>2 DEF Joined
<1>6. ASSUME NEW k \in 1 .. m
      PROVE  dd[k] = DeltasOf(rr[k]) /\ dd[k] \in Seq(L) /\ Len(dd[k]) = Len(rr[k])
             /\ rr[k] \in Seq(L) /\ Len(dd[k]) \in Nat
  <2> DEFINE u == rr[k]
  <2>1. Distinct(u)
    BY <1>4
  <2>2. dd[k] = DeltasOf(u)
    OBVIOUS
  <2> HIDE DEF u, dd
  <2>3. DeltasOf(u) \in Seq(L) /\ Len(DeltasOf(u)) = Len(u) /\ u \in Seq(L) /\ Len(u) \in Nat
    BY <2>1, DeltasTyped, TypedRids DEF Distinct, L
  <2> QED BY <2>2, <2>3 DEF u
<1>7. Len(dd) = m
  BY <1>1
<1> HIDE DEF dd
<1>8. PICK q : Cuts(q, m, dd)
  BY <1>1, <1>6, <1>7, CutsExist
<1>9. Placed(read, q, m, dd)
  BY <1>1, <1>5, <1>6, <1>7, <1>8, FlattenPlaces
\* The differences of bin b are in their place.
<1>10. Before(p, s, lo, b) = q[l - 1]
  <2>1. CASE b = lo
    <3>1. l - 1 = 0
      BY <1>1, <2>1 DEF l
    <3>2. q[0] = 0
      BY <1>8 DEF Cuts
    <3> QED BY <2>1, <3>1, <3>2 DEF Before
  <2>2. CASE b # lo
    <3> DEFINE j == l - 1
               tt == BinRids(p, s, lo, b - 1)
    <3>1. j \in 1 .. m /\ (b - 1) - lo + 1 = j
      <4>1. l \in 1 .. m /\ m \in Nat /\ lo \in Int /\ b \in Int /\ b # lo /\ l = b - lo + 1 /\ j = l - 1
        BY <1>1, <1>3, <2>2 DEF l
      <4> HIDE DEF j
      <4> QED BY ONLY <4>1
    <3>2. tt = [k \in 1 .. j |-> MovedBy(p[lo + k - 1], s)]
      BY <3>1 DEF BinRids
    <3> HIDE DEF j, tt
    <3>3. Len(tt) = j /\ \A k \in 1 .. j : k \in 1 .. m /\ tt[k] = MovedBy(p[lo + k - 1], s)
      BY <1>1, <3>1, <3>2
    <3>4. \A k \in 1 .. j : tt[k] \in Seq(L) /\ Len(tt[k]) = Len(dd[k])
      BY <1>1, <1>6, <3>3
    <3>5. Len(FlattenSeq(tt)) = q[j]
      <4>1. m \in Nat \ {0} /\ j \in 1 .. m /\ Len(tt) = j
        BY <1>1, <3>1, <3>3
      <4>2. AsLong(tt, dd, j, L)
        BY <3>4, <4>1 DEF AsLong
      <4> QED BY ONLY <1>8, <4>1, <4>2, FirstPieces
    <3> QED BY <2>2, <3>5 DEF Before, tt, j
  <2> QED BY <2>1, <2>2
<1>11. rr[l] = moved /\ Rising(p[b])
  BY <1>1, <1>2, <1>3
<1>12. /\ Distinct(moved) /\ Len(moved) = Len(p[b]) /\ DOMAIN p[b] = 1 .. Len(p[b])
       /\ Len(p[b]) \in Nat
  BY <1>2, <1>11, MovedIsDistinct, TypedRising
<1> HIDE DEF moved
<1> DEFINE n == Len(moved)
           d == read[q[l - 1] + i]
<1>13. i \in 1 .. n /\ n \in Nat
  BY <1>12
<1>14. d = DeltasOf(moved)[i]
  <2>1. dd[l] = DeltasOf(moved) /\ Len(dd[l]) = n
    BY <1>3, <1>6, <1>11
  <2> QED BY <1>3, <1>9, <1>13, <2>1 DEF Placed
<1>15. d = IF (i - 1) % BatchSize = 0 THEN moved[i] ELSE (moved[i] - moved[i - 1]) % RidLimit
  BY <1>13, <1>14 DEF DeltasOf
<1>16. CASE (i - 1) % BatchSize = 0
  BY <1>10, <1>15, <1>16 DEF moved, Rebuilt
<1>17. CASE (i - 1) % BatchSize # 0
  <2>1. i # 1
    <3> SUFFICES ASSUME i = 1 PROVE FALSE
      OBVIOUS
    <3>1. BatchSize \in Nat \ {0} /\ 0 \in 0 .. BatchSize - 1 /\ i - 1 = 0
      BY BatchShape
    <3> QED BY <1>17, <3>1, SmallRemainder
  <2>2. i - 1 \in 1 .. n
    BY <1>13, <2>1
  <2>3. moved[i] \in 0 .. RidLimit - 1 /\ moved[i - 1] \in 0 .. RidLimit - 1
    BY <1>12, <1>13, <2>2, TypedRids
  <2>4. (moved[i - 1] + ((moved[i] - moved[i - 1]) % RidLimit)) % RidLimit = moved[i]
    <3>1. RidLimit \in Nat \ {0}
      BY Powers
    <3> DEFINE u == moved[i - 1]
               v == moved[i]
    <3>2. u \in 0 .. RidLimit - 1 /\ v \in 0 .. RidLimit - 1
      BY <2>3
    <3> HIDE DEF u, v
    <3>3. (u + ((v - u) % RidLimit)) % RidLimit = v
      BY ONLY <3>1, <3>2, DifferenceModulo
    <3> QED BY <3>3 DEF u, v
  <2>5. d = (moved[i] - moved[i - 1]) % RidLimit
    BY <1>15, <1>17
  <2> HIDE DEF d
  <2>6. moved[i] = (moved[i - 1] + d) % RidLimit
    BY <2>4, <2>5
  <2> QED BY <1>10, <1>17, <2>6 DEF moved, d, Rebuilt
<1> QED BY <1>16, <1>17 DEF Rebuilt

\* The bits of consecutive bins whose RIDs ascend.
LEMMA BitsOfLists ==
  ASSUME NEW p, NEW s, NEW f, NEW x, Holding(p, s, f, x),
         NEW lo \in DOMAIN p, NEW hi \in DOMAIN p, lo <= hi, Narrow(p, f, lo, hi),
         \A b \in lo .. hi : Ascends(MovedBy(p[b], s))
  PROVE  UNION {ListBits(f, x[b]) : b \in lo .. hi} = Range(FlattenSeq(BinRids(p, s, lo, hi)))
<1> DEFINE m == hi - lo + 1
           rr == BinRids(p, s, lo, hi)
           L == 0 .. RidLimit - 1
<1>1. /\ m \in Nat \ {0} /\ lo \in Int /\ hi \in Int /\ rr = [k \in 1 .. m |-> rr[k]]
      /\ \A k \in 1 .. m : /\ rr[k] = MovedBy(p[lo + k - 1], s)
                           /\ lo + k - 1 \in lo .. hi /\ lo + k - 1 \in DOMAIN p
  BY ListsRange DEF BinRids
<1>2. p \in Partitions /\ s \in Int /\ f \in CompressedForms
      /\ \A b \in DOMAIN p : x[b] = Compress(f, MovedBy(p[b], s))
  BY DEF Holding
<1>3. ASSUME NEW b \in lo .. hi
      PROVE  /\ ListBits(f, x[b]) = Range(MovedBy(p[b], s))
             /\ b - lo + 1 \in 1 .. m /\ rr[b - lo + 1] = MovedBy(p[b], s)
             /\ MovedBy(p[b], s) \in Seq(L)
  <2>1. DOMAIN p = 1 .. Len(p) /\ Len(p) \in Nat
    BY <1>2, BinsRise
  <2>2. lo \in 1 .. Len(p) /\ hi \in 1 .. Len(p)
    BY <2>1
  <2>3. b \in 1 .. Len(p) /\ b - lo + 1 \in 1 .. m /\ lo + (b - lo + 1) - 1 = b
    BY ONLY <2>1, <2>2, b \in lo .. hi
  <2>4. Rising(p[b])
    BY <1>2, <2>3, BinsRise
  <2> DEFINE rids == MovedBy(p[b], s)
  <2>5. Distinct(rids) /\ Len(rids) # 0 /\ Ascends(rids)
    BY <1>2, <2>4, MovedIsDistinct
  <2>6. f \in {Expansion, Mix} => ~ Wide(rids)
    BY <1>2, <2>4, WideMoved DEF Narrow
  <2>7. x[b] = Compress(f, rids)
    BY <1>2, <2>1, <2>3
  <2>8. rr[b - lo + 1] = rids
    BY <1>1, <2>3
  <2> HIDE DEF rids, rr, m
  <2>9. ListBits(f, x[b]) = Range(rids)
    BY <1>2, <2>5, <2>6, <2>7, ListBitsAreRids
  <2> QED BY <2>3, <2>5, <2>8, <2>9 DEF rids, L, Distinct
<1>4. \A k \in 1 .. m : rr[k] \in Seq(L)
  BY <1>1, <1>3
<1>5. Len(rr) = m
  BY <1>1
<1> HIDE DEF rr, m, L
<1>6. Range(FlattenSeq(rr)) = UNION {Range(rr[k]) : k \in 1 .. m}
  <2>1. m \in Nat \ {0}
    BY <1>1
  <2> QED BY ONLY <1>4, <1>5, <2>1, FlattenRange
<1>7. {ListBits(f, x[b]) : b \in lo .. hi} = {Range(rr[k]) : k \in 1 .. m}
  <2>1. ASSUME NEW b \in lo .. hi
        PROVE  ListBits(f, x[b]) \in {Range(rr[k]) : k \in 1 .. m}
    BY <1>3
  <2>2. ASSUME NEW k \in 1 .. m
        PROVE  Range(rr[k]) \in {ListBits(f, x[b]) : b \in lo .. hi}
    <3>1. lo + k - 1 \in lo .. hi /\ rr[k] = MovedBy(p[lo + k - 1], s)
      BY <1>1
    <3> QED BY <1>3, <3>1
  <2> QED BY <2>1, <2>2
<1> QED BY <1>6, <1>7 DEF rr

-------------------------------------------------------------------------------
(* The answers.                                                            *)

\* The properties of answers, for an index and an answer.
RidsKept(p, s, f, x, a) ==
  a.op = "rids" /\ Narrow(p, f, a.from, a.to) =>
    /\ Len(a.rids) = Len(FlattenSeq(BinRids(p, s, a.from, a.to)))
    /\ (\A b \in a.from .. a.to : ~ HasRuns(x[b])) =>
         a.rids = FlattenSeq(BinRids(p, s, a.from, a.to))

DeltasKept(p, s, f, a) ==
  a.op = "deltas" /\ Narrow(p, f, a.from, a.to) =>
    \A b \in a.from .. a.to : \A i \in DOMAIN p[b] : Rebuilt(p, s, a.from, b, i, a.rids)

Together(rids, s) ==
  \A i, j \in DOMAIN rids : (rids[i] + s) \div RidLimit = (rids[j] + s) \div RidLimit

BitsKept(p, s, f, a) ==
  /\ a.op = "bitmap" /\ Narrow(p, f, a.from, a.to)
  /\ \A b \in a.from .. a.to : Together(p[b], s)
  => a.bits = Range(FlattenSeq(BinRids(p, s, a.from, a.to)))

\* The property of the run, as a relation of its variables.
LEMMA RidsKeptIs == RidAnswers <=> RidsKept(original, shift, form, index, answer)
BY DEF RidAnswers, RidsKept, NoneTooWide, TooWide, Narrow, Wide, MovedRids, Moved, BinRids, MovedBy

\* The property of the bitmaps, as a relation of its variables.
LEMMA BitsKeptIs == BitmapAnswers <=> BitsKept(original, shift, form, answer)
BY DEF BitmapAnswers, BitsKept, NoneTooWide, TooWide, Narrow, Wide, MovedRids, Moved, BinRids,
       MovedBy, MovedTogether, Together

\* The property of the differences, as a relation of its variables.
LEMMA DeltasKeptIs == DeltaAnswers <=> DeltasKept(original, shift, form, answer)
BY DEF DeltaAnswers, DeltasKept, NoneTooWide, TooWide, Narrow, Wide, MovedRids, Moved, BinRids,
       MovedBy, RebuiltFrom, StartsBatch, Before, Rebuilt

\* A compressed index holds the moved RIDs.
LEMMA IndexHolds ==
  ASSUME IndexInv, form \in CompressedForms
  PROVE  Holding(original, shift, form, index)
<1>1. \A b \in Bins : Stored(b) = Compress(form, MovedBy(original[b], shift))
  <2>1. \A b \in Bins : Moved(b) = MovedBy(original[b], shift)
    BY DEF Moved, MovedBy
  <2> QED BY <2>1, FormsDiffer DEF Stored
<1> QED BY <1>1 DEF IndexInv, Holding, Bins

\* No answer outlives a change of the index.
LEMMA ChangesForget ==
  ASSUME Change
  PROVE  answer'.op \in {"none", "convert", "translate"}
<1>1. NoAnswer.op = "none"
  BY DEF NoAnswer
<1>2. ASSUME NEW op, Error(op) PROVE answer'.op = op
  <2>1. answer' = [NoAnswer EXCEPT !.op = op, !.ok = FALSE]
    BY <1>2 DEF Error
  <2> QED BY <2>1 DEF NoAnswer
<1> QED BY <1>1, <1>2
        DEF Change, ALConvertIndexForm, convertIIToCII, convertIIToSkip, convertCIIToII,
            ConvertUnsupported, ALTranslateRIDs, TranslateUnsupported

\* The reads, with the answer they give.
LEMMA ReadAnswers ==
  ASSUME Read
  PROVE  \E lo, hi \in Bins :
           /\ lo <= hi
           /\ \/ answer'.op = "convert"
              \/ /\ answer'.op \in {"contained", "intersected"}
                 /\ \E contained \in BOOLEAN, box \in Boxes :
                      ALDecompressRIDtoSelBox(contained, lo, hi, box)
              \/ /\ answer'.op = "rids" /\ answer'.from = lo /\ answer'.to = hi
                 /\ \/ /\ form = PFD
                       /\ answer'.rids = FlattenSeq([k \in 1 .. hi - lo + 1 |->
                                                       decode_rids(<<index[lo + k - 1]>>)])
                    \/ form = PFD /\ answer'.rids = decode_rids(Lists(lo, hi))
                    \/ form = Expansion /\ answer'.rids = adios_expand_decode_rid(Lists(lo, hi))
                    \/ form = Mix /\ answer'.rids = adios_expand_runlength_decode_rid(Lists(lo, hi))
              \/ /\ answer'.op = "deltas" /\ answer'.from = lo /\ answer'.to = hi
                 /\ form \in {PFD, Expansion} /\ answer'.rids = adios_decode_deltas(Lists(lo, hi))
              \/ /\ answer'.op = "bitmap" /\ answer'.from = lo /\ answer'.to = hi
                 /\ form \in CompressedForms
                 /\ answer'.bits = UNION {ListBits(form, index[b]) : b \in lo .. hi}
<1>1. PICK lo, hi \in Bins :
        /\ lo <= hi
        /\ \/ ALConvertPartialIndexForm(lo, hi)
           \/ ALDecompressRIDs(lo, hi)
           \/ ALDecompressDeltas(lo, hi)
           \/ ALDecompressRIDs_set_bmap(lo, hi)
           \/ \E contained \in BOOLEAN, box \in Boxes :
                ALDecompressRIDtoSelBox(contained, lo, hi, box)
  BY DEF Read
<1>2. CASE ALConvertPartialIndexForm(lo, hi)
  <2>1. CASE form = PFD
    <3>1. answer' = [NoAnswer EXCEPT !.op = "rids", !.from = lo, !.to = hi,
                       !.rids = FlattenSeq([k \in 1 .. hi - lo + 1 |->
                                              decode_rids(<<index[lo + k - 1]>>)])]
      BY <1>2, <2>1 DEF ALConvertPartialIndexForm
    <3> DEFINE r == FlattenSeq([k \in 1 .. hi - lo + 1 |-> decode_rids(<<index[lo + k - 1]>>)])
    <3> HIDE DEF r
    <3>2. answer' = [NoAnswer EXCEPT !.op = "rids", !.from = lo, !.to = hi, !.rids = r]
      BY <3>1 DEF r
    <3>3. answer'.op = "rids" /\ answer'.from = lo /\ answer'.to = hi /\ answer'.rids = r
      BY <3>2 DEF NoAnswer
    <3> QED BY <1>1, <2>1, <3>3 DEF r
  <2>2. CASE form # PFD
    <3>1. answer' = [NoAnswer EXCEPT !.op = "convert", !.ok = FALSE]
      BY <1>2, <2>2 DEF ALConvertPartialIndexForm, Error
    <3>2. answer'.op = "convert"
      BY <3>1 DEF NoAnswer
    <3> QED BY <1>1, <3>2
  <2> QED BY <2>1, <2>2
<1>3. CASE ALDecompressRIDs(lo, hi)
  <2> DEFINE r == CASE form = PFD -> decode_rids(Lists(lo, hi))
                    [] form = Expansion -> adios_expand_decode_rid(Lists(lo, hi))
                    [] form = Mix -> adios_expand_runlength_decode_rid(Lists(lo, hi))
  <2>1. form \in {PFD, Expansion, Mix}
        /\ answer' = [NoAnswer EXCEPT !.op = "rids", !.from = lo, !.to = hi, !.rids = r]
    BY <1>3 DEF ALDecompressRIDs
  <2>2. \/ form = PFD /\ r = decode_rids(Lists(lo, hi))
        \/ form = Expansion /\ r = adios_expand_decode_rid(Lists(lo, hi))
        \/ form = Mix /\ r = adios_expand_runlength_decode_rid(Lists(lo, hi))
    BY <2>1, FormsDiffer
  <2> HIDE DEF r
  <2>3. answer'.op = "rids" /\ answer'.from = lo /\ answer'.to = hi /\ answer'.rids = r
    BY <2>1 DEF NoAnswer
  <2> QED BY <1>1, <2>2, <2>3
<1>4. CASE ALDecompressDeltas(lo, hi)
  <2> DEFINE r == adios_decode_deltas(Lists(lo, hi))
  <2>1. form \in {PFD, Expansion}
        /\ answer' = [NoAnswer EXCEPT !.op = "deltas", !.from = lo, !.to = hi, !.rids = r]
    BY <1>4 DEF ALDecompressDeltas
  <2> HIDE DEF r
  <2>2. answer'.op = "deltas" /\ answer'.from = lo /\ answer'.to = hi /\ answer'.rids = r
    BY <2>1 DEF NoAnswer
  <2> QED BY <1>1, <2>1, <2>2 DEF r
<1>5. CASE ALDecompressRIDs_set_bmap(lo, hi)
  <2> DEFINE r == UNION {ListBits(form, index[b]) : b \in lo .. hi}
  <2>1. PICK ok \in BOOLEAN :
          form \in CompressedForms
          /\ answer' = [NoAnswer EXCEPT !.op = "bitmap", !.from = lo, !.to = hi, !.ok = ok, !.bits = r]
    BY <1>5 DEF ALDecompressRIDs_set_bmap
  <2> HIDE DEF r
  <2>2. answer'.op = "bitmap" /\ answer'.from = lo /\ answer'.to = hi /\ answer'.bits = r
    BY <2>1 DEF NoAnswer
  <2> QED BY <1>1, <2>1, <2>2 DEF r
<1>6. ASSUME NEW contained \in BOOLEAN, NEW box \in Boxes,
             ALDecompressRIDtoSelBox(contained, lo, hi, box)
      PROVE  answer'.op \in {"contained", "intersected"}
  <2> DEFINE op == IF contained THEN "contained" ELSE "intersected"
             read == decode_rids_to_selbox(contained, Lists(lo, hi), box)
  <2>1. answer' = [NoAnswer EXCEPT !.op = op, !.from = lo, !.to = hi, !.rids = <<box>>,
                     !.bits = read.bits, !.count = read.count]
    BY <1>6 DEF ALDecompressRIDtoSelBox
  <2> HIDE DEF op, read
  <2>2. answer'.op = op
    BY <2>1 DEF NoAnswer
  <2> QED BY <2>2 DEF op
<1> QED BY <1>1, <1>2, <1>3, <1>4, <1>5, <1>6

\* A step answers with the RIDs of the bins or keeps an answer of an index that
\* has not changed.
LEMMA RidsKeptNext ==
  ASSUME IndexInv, RidsKept(original, shift, form, index, answer), [Next]_vars
  PROVE  RidsKept(original, shift, form, index, answer)'
<1>1. CASE Change
  BY <1>1, ChangesForget DEF RidsKept
<1>2. CASE UNCHANGED vars
  BY <1>2 DEF vars, RidsKept
<1>3. CASE Read
  <2>1. original' = original /\ shift' = shift /\ form' = form /\ index' = index
    BY <1>3, ReadsLeave
  <2> SUFFICES ASSUME answer'.op = "rids", Narrow(original, form, answer'.from, answer'.to)
               PROVE  /\ Len(answer'.rids)
                           = Len(FlattenSeq(BinRids(original, shift, answer'.from, answer'.to)))
                      /\ (\A b \in answer'.from .. answer'.to : ~ HasRuns(index[b])) =>
                           answer'.rids = FlattenSeq(BinRids(original, shift, answer'.from, answer'.to))
    BY <2>1 DEF RidsKept
  <2>2. PICK lo, hi \in Bins :
          /\ lo <= hi /\ answer'.from = lo /\ answer'.to = hi
          /\ \/ /\ form = PFD
                /\ answer'.rids = FlattenSeq([k \in 1 .. hi - lo + 1 |->
                                                decode_rids(<<index[lo + k - 1]>>)])
             \/ form = PFD /\ answer'.rids = decode_rids(Lists(lo, hi))
             \/ form = Expansion /\ answer'.rids = adios_expand_decode_rid(Lists(lo, hi))
             \/ form = Mix /\ answer'.rids = adios_expand_runlength_decode_rid(Lists(lo, hi))
    BY <1>3, ReadAnswers
  <2>3. form \in CompressedForms
    BY <2>2, FormsDiffer
  <2>4. Holding(original, shift, form, index)
    BY <2>3, IndexHolds
  <2>5. lo \in DOMAIN original /\ hi \in DOMAIN original
    BY DEF Bins
  <2>6. CASE form = PFD /\ answer'.rids = FlattenSeq([k \in 1 .. hi - lo + 1 |->
                                                        decode_rids(<<index[lo + k - 1]>>)])
    <3>1. Holding(original, shift, PFD, index)
      BY <2>4, <2>6
    <3>2. answer'.rids = FlattenSeq(BinRids(original, shift, lo, hi))
      BY <2>2, <2>5, <2>6, <3>1, RidsBinByBin
    <3> QED BY <2>2, <3>2
  <2>7. CASE \/ form = PFD /\ answer'.rids = decode_rids(Lists(lo, hi))
             \/ form = Expansion /\ answer'.rids = adios_expand_decode_rid(Lists(lo, hi))
             \/ form = Mix /\ answer'.rids = adios_expand_runlength_decode_rid(Lists(lo, hi))
    <3> DEFINE read == answer'.rids
               lists == SubSeq(index, lo, hi)
    <3>1. \/ form = PFD /\ read = decode_rids(lists)
          \/ form = Expansion /\ read = adios_expand_decode_rid(lists)
          \/ form = Mix /\ read = adios_expand_runlength_decode_rid(lists)
      BY <2>7 DEF Lists
    <3>2. Narrow(original, form, lo, hi) /\ lo <= hi
      BY <2>2
    <3> HIDE DEF read
    <3>3. /\ Len(read) = Len(FlattenSeq(BinRids(original, shift, lo, hi)))
          /\ (\A b \in lo .. hi : ~ HasRuns(index[b]))
               => read = FlattenSeq(BinRids(original, shift, lo, hi))
      BY <2>4, <2>5, <3>1, <3>2, RidsOfLists
    <3> QED BY <2>2, <3>3 DEF read
  <2> QED BY <2>2, <2>6, <2>7
<1> QED BY <1>1, <1>2, <1>3 DEF Next

\* The same of the differences.
LEMMA DeltasKeptNext ==
  ASSUME IndexInv, DeltasKept(original, shift, form, answer), [Next]_vars
  PROVE  DeltasKept(original, shift, form, answer)'
<1>1. CASE Change
  BY <1>1, ChangesForget DEF DeltasKept
<1>2. CASE UNCHANGED vars
  BY <1>2 DEF vars, DeltasKept
<1>3. CASE Read
  <2>1. original' = original /\ shift' = shift /\ form' = form /\ index' = index
    BY <1>3, ReadsLeave
  <2> SUFFICES ASSUME answer'.op = "deltas", Narrow(original, form, answer'.from, answer'.to),
                      NEW b \in answer'.from .. answer'.to, NEW i \in DOMAIN original[b]
               PROVE  Rebuilt(original, shift, answer'.from, b, i, answer'.rids)
    BY <2>1 DEF DeltasKept
  <2>2. PICK lo, hi \in Bins :
          /\ lo <= hi /\ answer'.from = lo /\ answer'.to = hi
          /\ form \in {PFD, Expansion} /\ answer'.rids = adios_decode_deltas(Lists(lo, hi))
    BY <1>3, ReadAnswers
  <2>3. Holding(original, shift, form, index)
    BY <2>2, IndexHolds, FormsDiffer
  <2> DEFINE read == answer'.rids
  <2>4. DeltasRead(original, shift, form, index, lo, hi, read)
    BY <2>2, <2>3 DEF Lists, DeltasRead, Bins
  <2> HIDE DEF read
  <2>5. Rebuilt(original, shift, lo, b, i, read)
    <3>1. b \in lo .. hi
      BY <2>2
    <3> QED BY <2>4, <3>1, DeltasOfLists
  <2> QED BY <2>2, <2>5 DEF read
<1> QED BY <1>1, <1>2, <1>3 DEF Next

\* The same of the bitmaps.
LEMMA BitsKeptNext ==
  ASSUME IndexInv, BitsKept(original, shift, form, answer), [Next]_vars
  PROVE  BitsKept(original, shift, form, answer)'
<1>1. CASE Change
  BY <1>1, ChangesForget DEF BitsKept
<1>2. CASE UNCHANGED vars
  BY <1>2 DEF vars, BitsKept
<1>3. CASE Read
  <2>1. original' = original /\ shift' = shift /\ form' = form /\ index' = index
    BY <1>3, ReadsLeave
  <2> SUFFICES ASSUME answer'.op = "bitmap", Narrow(original, form, answer'.from, answer'.to),
                      \A b \in answer'.from .. answer'.to : Together(original[b], shift)
               PROVE  answer'.bits = Range(FlattenSeq(BinRids(original, shift, answer'.from, answer'.to)))
    BY <2>1 DEF BitsKept
  <2>2. PICK lo, hi \in Bins :
          /\ lo <= hi /\ answer'.from = lo /\ answer'.to = hi
          /\ form \in CompressedForms
          /\ answer'.bits = UNION {ListBits(form, index[b]) : b \in lo .. hi}
    BY <1>3, ReadAnswers
  <2>3. Holding(original, shift, form, index) /\ original \in Partitions /\ shift \in Int
    BY <2>2, IndexHolds DEF Holding
  <2>4. lo \in DOMAIN original /\ hi \in DOMAIN original /\ lo <= hi
        /\ Narrow(original, form, lo, hi)
    BY <2>2 DEF Bins
  <2>5. ASSUME NEW b \in lo .. hi PROVE Ascends(MovedBy(original[b], shift))
    <3>1. DOMAIN original = 1 .. Len(original) /\ Len(original) \in Nat
      BY <2>3, BinsRise
    <3>2. lo \in 1 .. Len(original) /\ hi \in 1 .. Len(original)
      BY <2>4, <3>1
    <3>3. b \in 1 .. Len(original)
      BY <3>1, <3>2
    <3>4. Rising(original[b])
      BY <2>3, <3>3, BinsRise
    <3>5. Together(original[b], shift)
      BY <2>2
    <3> QED BY <2>3, <3>4, <3>5, MovedAscends DEF Together
  <2>6. UNION {ListBits(form, index[b]) : b \in lo .. hi}
          = Range(FlattenSeq(BinRids(original, shift, lo, hi)))
    BY <2>3, <2>4, <2>5, BitsOfLists
  <2> QED BY <2>2, <2>6
<1> QED BY <1>1, <1>2, <1>3 DEF Next

\* ALDecompressRIDs answers, for every range of bins and every compressed form
\* that it can read, with the RIDs of those bins, moved by the translations.
THEOREM RidsAreRead == Spec => []RidAnswers
<1>1. Init => RidsKept(original, shift, form, index, answer)
  BY DEF Init, NoAnswer, RidsKept
<1>2. IndexInv /\ RidsKept(original, shift, form, index, answer) /\ [Next]_vars
        => RidsKept(original, shift, form, index, answer)'
  BY RidsKeptNext
<1> QED BY <1>1, <1>2, IndexInvariant, RidsKeptIs, PTL DEF Spec

\* ALDecompressDeltas answers with each list's first RID and the differences
\* of its neighbours.
THEOREM DifferencesAreRead == Spec => []DeltaAnswers
<1>1. Init => DeltasKept(original, shift, form, answer)
  BY DEF Init, NoAnswer, DeltasKept
<1>2. IndexInv /\ DeltasKept(original, shift, form, answer) /\ [Next]_vars
        => DeltasKept(original, shift, form, answer)'
  BY DeltasKeptNext
<1> QED BY <1>1, <1>2, IndexInvariant, DeltasKeptIs, PTL DEF Spec

\* ALDecompressRIDs_set_bmap sets exactly the bits of the RIDs of the bins.
THEOREM BitmapsAreRead == Spec => []BitmapAnswers
<1>1. Init => BitsKept(original, shift, form, answer)
  BY DEF Init, NoAnswer, BitsKept
<1>2. IndexInv /\ BitsKept(original, shift, form, answer) /\ [Next]_vars
        => BitsKept(original, shift, form, answer)'
  BY BitsKeptNext
<1> QED BY <1>1, <1>2, IndexInvariant, BitsKeptIs, PTL DEF Spec

-------------------------------------------------------------------------------
(* Places in a box.                                                        *)

\* The strides of a box of n dimensions: the last dimension varies fastest.
IsStride(s, c, n) ==
  /\ s \in [1 .. n -> Nat \ {0}] /\ s[n] = 1
  /\ \A d \in 1 .. n - 1 : s[d] = c[d + 1] * s[d + 1]

Dims(c, n) == n \in Nat \ {0} /\ c \in Seq(Nat \ {0}) /\ Len(c) = n

\* Products of positive numbers are positive.
LEMMA PositiveProduct ==
  ASSUME NEW a \in Nat \ {0}, NEW b \in Nat \ {0}
  PROVE  a * b \in Nat \ {0}
<1>1. a * b \in Nat
  OBVIOUS
<1>2. PICK k \in Nat : a = k + 1
  <2>1. a - 1 \in Nat /\ a = (a - 1) + 1
    OBVIOUS
  <2> QED BY <2>1
<1>3. a * b = k * b + b /\ k * b \in Nat
  BY <1>2
<1> QED BY <1>1, <1>3

\* The strides from dimension n - k on.
StrideFrom(s, c, n, k) ==
  /\ s \in [n - k .. n -> Nat \ {0}] /\ s[n] = 1
  /\ \A d \in n - k .. n - 1 : s[d] = c[d + 1] * s[d + 1]

\* Strides exist.
LEMMA StrideExists ==
  ASSUME NEW n, NEW c, Dims(c, n)
  PROVE  \E s : IsStride(s, c, n)
<1>0. n \in Nat \ {0} /\ \A d \in 1 .. n : c[d] \in Nat \ {0}
  BY DEF Dims
<1> DEFINE S == {k \in 0 .. n - 1 : \E s : StrideFrom(s, c, n, k)}
<1>1. 0 \in S
  <2> DEFINE s == [d \in n .. n |-> 1]
  <2>1. n \in n .. n /\ n - 0 = n /\ n .. n - 1 = {}
    BY <1>0
  <2>2. s \in [n .. n -> Nat \ {0}] /\ s[n] = 1
    BY <2>1
  <2> HIDE DEF s
  <2>3. StrideFrom(s, c, n, 0)
    BY <2>1, <2>2 DEF StrideFrom
  <2> QED BY <1>0, <2>3
<1>2. \A k \in 0 .. (n - 1) - 1 : k \in S => k + 1 \in S
  <2> SUFFICES ASSUME NEW k \in 0 .. (n - 1) - 1, k \in S PROVE k + 1 \in S
    OBVIOUS
  <2>1. PICK s : StrideFrom(s, c, n, k)
    OBVIOUS
  <2> DEFINE e == n - k
             t == [d \in e - 1 .. n |-> IF d = e - 1 THEN c[e] * s[e] ELSE s[d]]
  <2>2. e \in 1 .. n /\ e - 1 \in 1 .. n /\ e \in Int /\ n - (k + 1) = e - 1 /\ k + 1 \in 0 .. n - 1
    BY <1>0
  <2>3. s \in [e .. n -> Nat \ {0}] /\ s[n] = 1 /\ \A d \in e .. n - 1 : s[d] = c[d + 1] * s[d + 1]
    BY <2>1 DEF StrideFrom
  <2> HIDE DEF e
  <2>4. e \in e .. n /\ s[e] \in Nat \ {0} /\ c[e] \in Nat \ {0}
    BY <1>0, <2>2, <2>3
  <2>5. c[e] * s[e] \in Nat \ {0}
    BY <2>4, PositiveProduct
  <2> DEFINE x == c[e] * s[e]
  <2> HIDE DEF x
  <2>5a. x \in Nat \ {0} /\ t = [d \in e - 1 .. n |-> IF d = e - 1 THEN x ELSE s[d]]
    BY <2>5 DEF x
  <2> HIDE DEF t
  <2>6. t \in [e - 1 .. n -> Nat \ {0}]
    <3>1. \A d \in e - 1 .. n : d # e - 1 => d \in e .. n
      BY <2>2
    <3>2. \A d \in e .. n : s[d] \in Nat \ {0}
      BY <2>3
    <3>3. \A d \in e - 1 .. n : (IF d = e - 1 THEN x ELSE s[d]) \in Nat \ {0}
      BY <2>5a, <3>1, <3>2
    <3> QED BY ONLY <2>5a, <3>3
  <2>7. t[n] = 1
    <3>1. n \in e - 1 .. n /\ n # e - 1
      BY <1>0, <2>2
    <3> QED BY <2>3, <2>5a, <3>1
  <2>8. ASSUME NEW d \in e - 1 .. n - 1 PROVE t[d] = c[d + 1] * t[d + 1]
    <3>1. d \in e - 1 .. n /\ d + 1 \in e .. n /\ d + 1 \in e - 1 .. n /\ d + 1 # e - 1
      BY <2>2, <1>0
    <3>2. t[d + 1] = s[d + 1]
      BY <2>5a, <3>1
    <3>3. CASE d = e - 1
      <4>1. d + 1 = e
        BY <2>2, <3>3
      <4>2. t[d] = x
        BY <2>5a, <3>1, <3>3
      <4> QED BY <3>2, <4>1, <4>2 DEF x
    <3>4. CASE d # e - 1
      <4>1. d \in e .. n - 1 /\ t[d] = s[d]
        BY <2>2, <2>5a, <3>1, <3>4
      <4> QED BY <2>3, <3>2, <4>1
    <3> QED BY <3>3, <3>4
  <2>9. StrideFrom(t, c, n, k + 1)
    BY <2>2, <2>6, <2>7, <2>8 DEF StrideFrom
  <2> QED BY <2>2, <2>9
<1> HIDE DEF S
<1>3. n - 1 \in S
  <2>1. n - 1 \in Nat /\ n - 1 \in 0 .. n - 1
    BY <1>0
  <2>2. \A k \in 0 .. n - 1 : k \in S
    BY <1>1, <1>2, <2>1, InductionUpTo
  <2> QED BY <2>1, <2>2
<1>4. PICK s : StrideFrom(s, c, n, n - 1)
  BY <1>3 DEF S
<1>5. n - (n - 1) = 1
  BY <1>0
<1>6. IsStride(s, c, n)
  BY <1>4, <1>5 DEF StrideFrom, IsStride
<1> QED BY <1>6

\* The strides of the model are such strides.
LEMMA StridesAre ==
  ASSUME NEW n, NEW c, Dims(c, n)
  PROVE  IsStride(Strides(c), c, n)
<1>1. PICK s : IsStride(s, c, n)
  BY StrideExists
<1>2. n \in Nat \ {0} /\ Len(c) = n /\ DOMAIN c = 1 .. n
  BY DEF Dims
<1> DEFINE u[d \in DOMAIN c] == IF d = Len(c) THEN 1 ELSE c[d + 1] * u[d + 1]
<1>3. Strides(c) = u
  BY DEF Strides
<1>4. s = [d \in DOMAIN c |-> IF d = Len(c) THEN 1 ELSE c[d + 1] * s[d + 1]]
  <2>1. \A d \in 1 .. n : d # n => d \in 1 .. n - 1
    BY <1>2
  <2>2. \A d \in 1 .. n : s[d] = IF d = n THEN 1 ELSE c[d + 1] * s[d + 1]
    BY <1>1, <2>1 DEF IsStride
  <2>3. s = [d \in 1 .. n |-> s[d]]
    BY <1>1 DEF IsStride
  <2> QED BY <1>2, <2>2, <2>3
<1>5. u = [d \in DOMAIN c |-> IF d = Len(c) THEN 1 ELSE c[d + 1] * u[d + 1]]
  BY <1>4
<1> HIDE DEF u
<1> DEFINE S == {k \in 0 .. n - 1 : u[n - k] = s[n - k]}
<1>6. 0 \in S
  BY <1>2, <1>4, <1>5
<1>7. \A k \in 0 .. (n - 1) - 1 : k \in S => k + 1 \in S
  <2> SUFFICES ASSUME NEW k \in 0 .. (n - 1) - 1, u[n - k] = s[n - k]
               PROVE  k + 1 \in S
    OBVIOUS
  <2> DEFINE d == n - (k + 1)
  <2>1. d \in 1 .. n /\ d # n /\ d + 1 = n - k /\ k + 1 \in 0 .. n - 1
    BY <1>2
  <2> HIDE DEF d
  <2>2. u[d] = c[d + 1] * u[d + 1] /\ s[d] = c[d + 1] * s[d + 1]
    BY <1>2, <1>4, <1>5, <2>1
  <2> QED BY <2>1, <2>2 DEF d
<1> HIDE DEF S
<1>8. ASSUME NEW d \in 1 .. n PROVE u[d] = s[d]
  <2>1. n - 1 \in Nat /\ n - d \in 0 .. n - 1 /\ n - (n - d) = d
    BY <1>2
  <2>2. \A k \in 0 .. n - 1 : k \in S
    BY <1>6, <1>7, <2>1, InductionUpTo
  <2>3. n - d \in S
    BY <2>1, <2>2
  <2> QED BY <2>1, <2>3 DEF S
<1>9. u = s
  <2>1. u = [d \in 1 .. n |-> u[d]]
    BY <1>2, <1>5
  <2>2. s = [d \in 1 .. n |-> s[d]]
    BY <1>1 DEF IsStride
  <2> QED BY <1>8, <2>1, <2>2
<1> QED BY <1>1, <1>3, <1>9


\* Dividing by one number and then by another is dividing by their product.
LEMMA DividedTwice ==
  ASSUME NEW N \in Nat \ {0}, NEW M \in Nat \ {0}, NEW r \in Nat
  PROVE  /\ (r \div M) \div N = r \div (N * M)
         /\ r \div M = (r \div (N * M)) * N + ((r \div M) % N)
<1> DEFINE q == r \div M
           t == r % M
           p == q \div N
           u == q % N
<1>1. q \in Nat /\ t \in 0 .. M - 1 /\ r = q * M + t
  BY Divided
<1>2. p \in Nat /\ u \in 0 .. N - 1 /\ q = p * N + u
  BY <1>1, Divided
<1> HIDE DEF q, t, p, u
<1> DEFINE K == N * M
           v == u * M + t
<1>3. K \in Nat \ {0}
  BY PositiveProduct
<1>4. r = p * K + v
  <2>1. q * M = p * K + u * M
    BY <1>2
  <2>2. p * K \in Int /\ u * M \in Int
    BY <1>2, <1>3
  <2> QED BY <1>1, <2>1, <2>2
<1>5. v \in 0 .. K - 1
  <2>1. u * M + M <= N * M
    BY <1>2, NextMultiple
  <2>2. u * M \in Nat
    BY <1>2
  <2> QED BY <1>1, <2>1, <2>2, <1>3
<1> HIDE DEF K, v
<1>6. r \div K = p
  BY <1>2, <1>3, <1>4, <1>5, QuotientAndRemainder
<1>7. q \div N = p /\ q % N = u
  BY DEF p, u
<1> QED BY <1>2, <1>6, <1>7 DEF q, K

\* The counts of the dimensions.
LEMMA CountsAre ==
  ASSUME NEW n, NEW c, Dims(c, n)
  PROVE  n \in Nat \ {0} /\ DOMAIN c = 1 .. n /\ \A d \in 1 .. n : c[d] \in Nat \ {0}
BY DEF Dims

\* The strides of the dimensions.
LEMMA StridesPositive ==
  ASSUME NEW n, NEW s, NEW c, IsStride(s, c, n)
  PROVE  /\ DOMAIN s = 1 .. n /\ s[n] = 1 /\ \A d \in 1 .. n : s[d] \in Nat \ {0}
         /\ \A d \in 1 .. n - 1 : s[d] = c[d + 1] * s[d + 1]
BY DEF IsStride

\* A quotient from a product.
LEMMA QuotientIs ==
  ASSUME NEW N \in Nat \ {0}, NEW q \in Int, NEW x \in Int, x - q * N \in 0 .. N - 1
  PROVE  x \div N = q
<1> DEFINE m == q * N
           r == x - m
<1>1. m \in Int /\ r \in 0 .. N - 1 /\ x = m + r
  OBVIOUS
<1> HIDE DEF r
<1>2. x = q * N + r
  BY <1>1
<1> QED BY <1>1, <1>2, QuotientAndRemainder

\* The sums of places times strides.
SumOfPlaces(f, n, x, s) ==
  /\ f \in [0 .. n -> Int] /\ f[0] = 0
  /\ \A d \in 1 .. n : f[d] = f[d - 1] + x[d] * s[d]

\* They exist.
LEMMA PlacesSum ==
  ASSUME NEW n \in Nat, NEW x, NEW s, \A d \in 1 .. n : x[d] \in Int /\ s[d] \in Int
  PROVE  \E f : SumOfPlaces(f, n, x, s)
<1> DEFINE t == [d \in 1 .. n |-> x[d] * s[d]]
<1>1. \A d \in 1 .. n : t[d] = x[d] * s[d] /\ t[d] \in Int
  OBVIOUS
<1> HIDE DEF t
<1>2. PICK f : IsSum(f, n, t)
  BY <1>1, PartialSums
<1>3. SumOfPlaces(f, n, x, s)
  BY <1>1, <1>2 DEF SumOfPlaces, IsSum
<1> QED BY <1>3

\* Coordinates within the counts, and the coordinates of a number.
Within(x, c, n) == \A d \in 1 .. n : x[d] \in 0 .. c[d] - 1
PlacesOf(x, r, s, c, n) ==
  \A d \in 1 .. n : x[d] = IF d = 1 THEN r \div s[1] ELSE (r \div s[d]) % c[d]

\* The place of coordinates within the counts is a number below the size, and
\* the coordinates can be had from it.
LEMMA NumberOfPlaces ==
  ASSUME NEW n, NEW c, Dims(c, n), NEW s, IsStride(s, c, n),
         NEW x, Within(x, c, n), NEW f, SumOfPlaces(f, n, x, s)
  PROVE  /\ f[n] \in 0 .. c[1] * s[1] - 1
         /\ f[n] \div s[1] = x[1]
         /\ \A d \in 2 .. n : (f[n] \div s[d]) % c[d] = x[d]
<1>0. n \in Nat \ {0} /\ 1 \in 1 .. n /\ n \in 1 .. n
      /\ \A d \in 1 .. n : c[d] \in Nat \ {0} /\ s[d] \in Nat \ {0} /\ x[d] \in Nat
                           /\ x[d] < c[d] /\ f[d] \in Int
  <2>1. n \in Nat \ {0} /\ \A d \in 1 .. n : c[d] \in Nat \ {0} /\ s[d] \in Nat \ {0}
    BY CountsAre, StridesPositive
  <2>2. \A d \in 1 .. n : f[d] \in Int
    BY <2>1 DEF SumOfPlaces
  <2>3. \A d \in 1 .. n : x[d] \in 0 .. c[d] - 1
    BY DEF Within
  <2> QED BY <2>1, <2>2, <2>3
<1>1. /\ \A d \in 1 .. n - 1 : s[d] = c[d + 1] * s[d + 1]
      /\ \A d \in 1 .. n : f[d] = f[d - 1] + x[d] * s[d]
      /\ s[n] = 1 /\ f[0] = 0
  BY DEF IsStride, SumOfPlaces
<1> DEFINE Q(d, q) == /\ q \in Nat /\ f[d] = q * s[d]
                      /\ d = 1 => q = x[1]
                      /\ d # 1 => q % c[d] = x[d]
           S == {d \in 1 .. n : \E q \in Nat : Q(d, q)}
           T == {k \in 0 .. n - 1 : f[n] - f[n - k] \in 0 .. s[n - k] - 1}
<1>2. 1 \in S
  <2>1. f[1] = 0 + x[1] * s[1] /\ x[1] \in Nat /\ x[1] * s[1] \in Nat
    BY <1>0, <1>1
  <2>2. Q(1, x[1])
    BY <2>1
  <2> QED BY <1>0, <2>1, <2>2
<1>3. \A d \in 1 .. n - 1 : d \in S => d + 1 \in S
  <2> SUFFICES ASSUME NEW d \in 1 .. n - 1, NEW q \in Nat, Q(d, q) PROVE d + 1 \in S
    OBVIOUS
  <2> DEFINE e == d + 1
             qc == q * c[e]
             p == qc + x[e]
  <2>1. d \in 1 .. n /\ e \in 1 .. n /\ e # 1 /\ e - 1 = d
    BY <1>0
  <2> HIDE DEF e
  <2>2. f[e] = f[d] + x[e] * s[e] /\ s[d] = c[e] * s[e]
    BY <1>1, <2>1 DEF e
  <2>3. f[d] = q * s[d]
    OBVIOUS
  <2>4. c[e] \in Nat \ {0} /\ s[e] \in Nat \ {0} /\ x[e] \in 0 .. c[e] - 1
    BY <1>0, <2>1
  <2>5. f[e] = p * s[e] /\ p \in Nat
    <3>1. q * (c[e] * s[e]) = qc * s[e] /\ qc \in Nat
      BY <2>4
    <3> QED BY <2>2, <2>3, <2>4, <3>1
  <2>6. p % c[e] = x[e]
    <3>1. p = q * c[e] + x[e] /\ q \in Int
      OBVIOUS
    <3> HIDE DEF p, qc
    <3> QED BY ONLY <2>4, <3>1, QuotientAndRemainder
  <2> HIDE DEF p, qc
  <2>7. Q(e, p)
    BY <2>1, <2>5, <2>6
  <2> QED BY <2>1, <2>5, <2>7 DEF e
<1>4. \A d \in 1 .. n : d \in S
  <2> HIDE DEF S
  <2> QED BY <1>0, <1>2, <1>3, InductionFromOne
<1>5. 0 \in T
  BY <1>0, <1>1
<1>6. \A k \in 0 .. (n - 1) - 1 : k \in T => k + 1 \in T
  <2> SUFFICES ASSUME NEW k \in 0 .. (n - 1) - 1, f[n] - f[n - k] \in 0 .. s[n - k] - 1
               PROVE  k + 1 \in T
    OBVIOUS
  <2> DEFINE d == n - k
             e == n - (k + 1)
  <2>1. d \in 1 .. n /\ e \in 1 .. n - 1 /\ e \in 1 .. n /\ d = e + 1 /\ e = d - 1 /\ k + 1 \in 0 .. n - 1
    BY <1>0
  <2> HIDE DEF d, e
  <2>2. f[d] = f[e] + x[d] * s[d] /\ s[e] = c[d] * s[d]
    BY <1>1, <2>1
  <2>3. x[d] * s[d] + s[d] <= c[d] * s[d]
    BY <1>0, <2>1, NextMultiple
  <2>4. x[d] * s[d] \in Nat /\ s[e] \in Nat /\ s[d] \in Nat /\ f[d] \in Int /\ f[e] \in Int /\ f[n] \in Int
    BY <1>0, <2>1
  <2>5. f[n] - f[d] \in 0 .. s[d] - 1
    BY DEF d
  <2> DEFINE xs == x[d] * s[d]
             cs == c[d] * s[d]
  <2> HIDE DEF xs, cs
  <2>6. f[d] = f[e] + xs /\ s[e] = cs /\ xs + s[d] <= cs /\ xs \in Nat
    BY <2>2, <2>3, <2>4 DEF xs, cs
  <2>7. f[n] - f[e] \in 0 .. s[e] - 1
    BY <2>4, <2>5, <2>6
  <2> QED BY <2>1, <2>7 DEF e
<1>7. ASSUME NEW d \in 1 .. n PROVE f[n] - f[d] \in 0 .. s[d] - 1
  <2> HIDE DEF T
  <2>1. n - 1 \in Nat /\ n - d \in 0 .. n - 1 /\ n - (n - d) = d
    BY <1>0
  <2>2. \A k \in 0 .. n - 1 : k \in T
    BY <1>5, <1>6, <2>1, InductionUpTo
  <2>3. n - d \in T
    BY <2>1, <2>2
  <2> QED BY <2>1, <2>3 DEF T
<1>8. ASSUME NEW d \in 1 .. n, NEW q \in Nat, f[d] = q * s[d] PROVE f[n] \div s[d] = q
  <2>1. f[n] - q * s[d] \in 0 .. s[d] - 1
    BY <1>7, <1>8
  <2>2. s[d] \in Nat \ {0} /\ f[n] \in Int /\ q \in Int
    BY <1>0
  <2> QED BY ONLY <2>1, <2>2, QuotientIs
<1>9. PICK q1 \in Nat : f[1] = q1 * s[1] /\ q1 = x[1]
  BY <1>0, <1>4
<1>10. f[n] \in 0 .. c[1] * s[1] - 1
  <2>1. x[1] * s[1] + s[1] <= c[1] * s[1]
    BY <1>0, NextMultiple
  <2>2. x[1] * s[1] \in Nat /\ c[1] * s[1] \in Nat /\ f[1] = x[1] * s[1] /\ f[1] \in Int /\ f[n] \in Int
        /\ s[1] \in Nat
    BY <1>0, <1>9
  <2>3. f[n] - f[1] \in 0 .. s[1] - 1
    BY <1>0, <1>7
  <2> DEFINE xs == x[1] * s[1]
             cs == c[1] * s[1]
  <2> HIDE DEF xs, cs
  <2>4. xs + s[1] <= cs /\ xs \in Nat /\ cs \in Nat /\ f[1] = xs
    BY <2>1, <2>2 DEF xs, cs
  <2>5. f[n] \in 0 .. cs - 1
    BY <2>2, <2>3, <2>4
  <2> QED BY <2>5 DEF cs
<1>11. f[n] \div s[1] = x[1]
  BY <1>0, <1>8, <1>9
<1>12. ASSUME NEW d \in 2 .. n PROVE (f[n] \div s[d]) % c[d] = x[d]
  <2>1. d \in 1 .. n /\ d # 1
    BY <1>0
  <2>2. PICK q \in Nat : f[d] = q * s[d] /\ q % c[d] = x[d]
    BY <1>4, <2>1
  <2>3. f[n] \div s[d] = q
    BY <1>8, <2>1, <2>2
  <2> QED BY <2>2, <2>3
<1> QED BY <1>10, <1>11, <1>12

\* A number below the size is the place of its coordinates, which are within
\* the counts.
LEMMA PlacesOfNumber ==
  ASSUME NEW n, NEW c, Dims(c, n), NEW s, IsStride(s, c, n),
         NEW r \in 0 .. c[1] * s[1] - 1, NEW x,
         PlacesOf(x, r, s, c, n)
  PROVE  /\ Within(x, c, n)
         /\ \A f : SumOfPlaces(f, n, x, s) => f[n] = r
<1>0. n \in Nat \ {0} /\ 1 \in 1 .. n /\ n \in 1 .. n
      /\ \A d \in 1 .. n : c[d] \in Nat \ {0} /\ s[d] \in Nat \ {0}
  <2>1. n \in Nat \ {0} /\ \A d \in 1 .. n : c[d] \in Nat \ {0} /\ s[d] \in Nat \ {0}
    BY CountsAre, StridesPositive
  <2> QED BY <2>1
<1>0a. \A d \in 1 .. n : x[d] = IF d = 1 THEN r \div s[1] ELSE (r \div s[d]) % c[d]
  BY DEF PlacesOf
<1>1. /\ \A d \in 1 .. n - 1 : s[d] = c[d + 1] * s[d + 1]
      /\ s[n] = 1
  BY DEF IsStride
<1>2. r \in Nat /\ r < c[1] * s[1]
  <2>1. c[1] * s[1] \in Nat
    BY <1>0
  <2> QED BY <2>1
<1>3. \A d \in 1 .. n : r \div s[d] \in Nat
  BY <1>0, <1>2, Divided
<1>4. x[1] \in 0 .. c[1] - 1
  <2> DEFINE q == r \div s[1]
             t == r % s[1]
  <2>1. q \in Nat /\ t \in 0 .. s[1] - 1 /\ r = q * s[1] + t
    BY <1>0, <1>2, Divided
  <2> HIDE DEF q, t
  <2>2. ~ (c[1] <= q)
    <3> SUFFICES ASSUME c[1] <= q PROVE FALSE
      OBVIOUS
    <3>1. c[1] * s[1] <= q * s[1]
      <4>1. CASE c[1] = q
        BY <1>0, <2>1, <4>1
      <4>2. CASE c[1] < q
        <5>1. c[1] * s[1] + s[1] <= q * s[1]
          BY <1>0, <2>1, <4>2, NextMultiple
        <5>2. c[1] * s[1] \in Nat /\ q * s[1] \in Nat
          BY <1>0, <2>1
        <5> QED BY <1>0, <5>1, <5>2
      <4> QED BY <1>0, <2>1, <4>1, <4>2
    <3>2. c[1] * s[1] \in Nat /\ q * s[1] \in Nat
      BY <1>0, <2>1
    <3> QED BY <1>2, <2>1, <3>1, <3>2
  <2>3. x[1] = q
    BY <1>0, <1>0a DEF q
  <2> QED BY <1>0, <2>1, <2>2, <2>3
<1>5. ASSUME NEW d \in 1 .. n PROVE x[d] \in 0 .. c[d] - 1
  <2>1. CASE d = 1
    BY <1>4, <2>1
  <2>2. CASE d # 1
    <3>1. x[d] = (r \div s[d]) % c[d] /\ c[d] \in Nat \ {0} /\ r \div s[d] \in Nat
      BY <1>0, <1>0a, <1>3, <2>2
    <3> QED BY <3>1, Divided
  <2> QED BY <2>1, <2>2
<1>6. ASSUME NEW f, SumOfPlaces(f, n, x, s) PROVE f[n] = r
  <2>1. /\ \A d \in 1 .. n : f[d] = f[d - 1] + x[d] * s[d]
        /\ f[0] = 0
    BY <1>6 DEF SumOfPlaces
  <2> DEFINE S == {d \in 1 .. n : f[d] = (r \div s[d]) * s[d]}
  <2>2. 1 \in S
    <3>1. f[1] = 0 + x[1] * s[1] /\ x[1] = r \div s[1]
      BY <1>0, <1>0a, <2>1
    <3>2. (r \div s[1]) * s[1] \in Nat
      BY <1>0, <1>3
    <3> QED BY <1>0, <3>1, <3>2
  <2>3. \A d \in 1 .. n - 1 : d \in S => d + 1 \in S
    <3> SUFFICES ASSUME NEW d \in 1 .. n - 1, f[d] = (r \div s[d]) * s[d] PROVE d + 1 \in S
      OBVIOUS
    <3> DEFINE e == d + 1
    <3>1. d \in 1 .. n /\ e \in 1 .. n /\ e # 1 /\ e - 1 = d
      BY <1>0
    <3> HIDE DEF e
    <3>2. f[e] = f[d] + x[e] * s[e] /\ s[d] = c[e] * s[e] /\ x[e] = (r \div s[e]) % c[e]
      BY <1>0a, <1>1, <2>1, <3>1 DEF e
    <3> DEFINE q == r \div s[e]
               p == r \div s[d]
    <3>3. q = p * c[e] + x[e]
      <4>1. q = (r \div (c[e] * s[e])) * c[e] + (q % c[e])
        BY <1>0, <1>2, <3>1, DividedTwice
      <4> QED BY <3>2, <4>1
    <3>4. q \in Nat /\ p \in Nat /\ c[e] \in Nat /\ s[e] \in Nat /\ x[e] \in Nat
      <4>1. x[e] \in 0 .. c[e] - 1
        BY <1>5, <3>1
      <4> QED BY <1>0, <1>3, <3>1, <4>1
    <3>5. f[d] = p * s[d]
      OBVIOUS
    <3> HIDE DEF q, p
    <3>6. q * s[e] = p * (c[e] * s[e]) + x[e] * s[e]
      BY <3>3, <3>4
    <3>7. f[e] = q * s[e]
      BY <3>2, <3>5, <3>6
    <3> QED BY <3>1, <3>7 DEF e, q
  <2>4. n \in S
    <3> HIDE DEF S
    <3>1. \A d \in 1 .. n : d \in S
      BY <1>0, <2>2, <2>3, InductionFromOne
    <3> QED BY <1>0, <3>1
  <2>5. f[n] = (r \div 1) * 1
    BY <1>1, <2>4
  <2> QED BY <1>2, <2>5
<1> QED BY <1>5, <1>6 DEF Within


\* Functions on the first numbers are sequences.
LEMMA FunctionIsSequence ==
  ASSUME NEW S, NEW n \in Nat, NEW f \in [1 .. n -> S]
  PROVE  f \in Seq(S) /\ Len(f) = n /\ DOMAIN f = 1 .. n /\ \A d \in 1 .. n : f[d] \in S
OBVIOUS

\* The sequences of a box have one length, and box and region change places.
LEMMA BoxShape ==
  ASSUME NEW box, IsBox(box)
  PROVE  LET n == Len(box.srccount)
         IN /\ Dims(box.srccount, n) /\ Dims(box.destcount, n) /\ n \in Nat \ {0}
            /\ DOMAIN box.srccount = 1 .. n /\ DOMAIN box.destcount = 1 .. n
            /\ \A d \in 1 .. n : box.srcstart[d] \in Nat /\ box.deststart[d] \in Nat
            /\ IsBox(Mirror(box)) /\ Mirror(Mirror(box)) = box
            /\ Mirror(box).srccount = box.destcount /\ Mirror(box).destcount = box.srccount
            /\ Mirror(box).srcstart = box.deststart /\ Mirror(box).deststart = box.srcstart
            /\ Len(Mirror(box).srccount) = n
<1> DEFINE P == Nat \ {0}
<1>1. PICK n \in 1 .. 4 :
        box \in [srcstart : [1 .. n -> Nat], srccount : [1 .. n -> P],
                 deststart : [1 .. n -> Nat], destcount : [1 .. n -> P]]
  BY DEF IsBox
<1>2. /\ box.srcstart \in [1 .. n -> Nat] /\ box.deststart \in [1 .. n -> Nat]
      /\ box.srccount \in [1 .. n -> P] /\ box.destcount \in [1 .. n -> P]
      /\ box = [srcstart |-> box.srcstart, srccount |-> box.srccount,
                deststart |-> box.deststart, destcount |-> box.destcount]
  BY <1>1
<1>3. n \in Nat /\ n \in P
  OBVIOUS
<1>4. /\ box.srccount \in Seq(P) /\ Len(box.srccount) = n /\ DOMAIN box.srccount = 1 .. n
      /\ box.destcount \in Seq(P) /\ Len(box.destcount) = n /\ DOMAIN box.destcount = 1 .. n
      /\ \A d \in 1 .. n : box.srcstart[d] \in Nat /\ box.deststart[d] \in Nat
  BY ONLY <1>2, <1>3, FunctionIsSequence
<1> DEFINE m == Mirror(box)
<1>5. /\ m.srccount = box.destcount /\ m.destcount = box.srccount
      /\ m.srcstart = box.deststart /\ m.deststart = box.srcstart
      /\ m = [srcstart |-> box.deststart, srccount |-> box.destcount,
              deststart |-> box.srcstart, destcount |-> box.srccount]
  BY DEF Mirror
<1>6. Mirror(m) = box
  BY <1>2, <1>5 DEF Mirror
<1>7. IsBox(m)
  <2> HIDE DEF m
  <2>1. m \in [srcstart : [1 .. n -> Nat], srccount : [1 .. n -> P],
               deststart : [1 .. n -> Nat], destcount : [1 .. n -> P]]
    BY <1>2, <1>5
  <2> QED BY <2>1 DEF IsBox
<1> HIDE DEF m
<1>8. Dims(box.srccount, n) /\ Dims(box.destcount, n)
  BY <1>3, <1>4 DEF Dims
<1> QED BY <1>3, <1>4, <1>5, <1>6, <1>7, <1>8 DEF m

\* The coordinates of a RID in its region.
LEMMA CoordinatesAre ==
  ASSUME NEW box, IsBox(box), NEW rid
  PROVE  LET n == Len(box.srccount)
             x == Coordinates(rid, box.srccount)
             g == GlobalCoordinates(rid, box)
             s == Strides(box.srccount)
         IN /\ \A d \in 1 .. n : x[d] = IF d = 1 THEN rid \div s[1]
                                        ELSE (rid \div s[d]) % box.srccount[d]
            /\ \A d \in 1 .. n : g[d] = x[d] + box.srcstart[d]
            /\ DOMAIN g = 1 .. n /\ Len(g) = n
<1> DEFINE n == Len(box.srccount)
           x == Coordinates(rid, box.srccount)
           g == GlobalCoordinates(rid, box)
<1>1. DOMAIN box.srccount = 1 .. n /\ n \in Nat
  BY BoxShape
<1>2. x = [d \in 1 .. n |-> IF d = 1 THEN rid \div Strides(box.srccount)[1]
                            ELSE (rid \div Strides(box.srccount)[d]) % box.srccount[d]]
  BY <1>1 DEF Coordinates
<1>3. g = [d \in 1 .. n |-> x[d] + box.srcstart[d]]
  BY <1>1 DEF GlobalCoordinates
<1> HIDE DEF x, n, g
<1>4. DOMAIN g = 1 .. n /\ Len(g) = n
  BY <1>1, <1>3
<1> QED BY <1>2, <1>3, <1>4 DEF x, n, g

\* Coordinates relative to a start.
Displaced(y, g, start, n) == \A d \in 1 .. n : y[d] \in Int /\ y[d] = g[d] - start[d]

\* The place of a RID in the box is a sum of places.
LEMMA RidInBoxIs ==
  ASSUME NEW box, IsBox(box), NEW rid, NEW n, n = Len(box.srccount), NEW y,
         Displaced(y, GlobalCoordinates(rid, box), box.deststart, n),
         NEW f, SumOfPlaces(f, n, y, Strides(box.destcount))
  PROVE  RidInBox(rid, box) = f[n]
<1> DEFINE g == GlobalCoordinates(rid, box)
           s == Strides(box.destcount)
           u[d \in DOMAIN g] == (g[d] - box.deststart[d]) * s[d] + (IF d = 1 THEN 0 ELSE u[d - 1])
           w == [d \in 1 .. n |-> f[d]]
<1>1. n \in Nat \ {0} /\ DOMAIN g = 1 .. n /\ Len(g) = n
      /\ Dims(box.destcount, n)
  BY BoxShape, CoordinatesAre
<1>2. RidInBox(rid, box) = u[n]
  BY <1>1 DEF RidInBox
<1>3. IsStride(s, box.destcount, n)
  BY <1>1, StridesAre
<1>4. \A d \in 1 .. n : s[d] \in Nat
  BY <1>3, StridesPositive
<1> HIDE DEF g, s
<1>5. \A d \in 1 .. n : f[d] = f[d - 1] + y[d] * s[d]
  BY DEF SumOfPlaces, s
<1>6. f[0] = 0 /\ \A d \in 0 .. n : f[d] \in Int
  BY DEF SumOfPlaces
<1>7. ASSUME NEW d \in 1 .. n
      PROVE  f[d] = (g[d] - box.deststart[d]) * s[d] + (IF d = 1 THEN 0 ELSE f[d - 1])
  <2> DEFINE v == y[d] * s[d]
  <2>1. v \in Int
    BY <1>4 DEF Displaced
  <2>2. v = (g[d] - box.deststart[d]) * s[d]
    BY DEF g, Displaced
  <2>3. f[d] = f[d - 1] + v /\ f[d - 1] \in Int
    BY <1>1, <1>5, <1>6
  <2> HIDE DEF v
  <2>4. f[d] = v + f[d - 1]
    BY <2>1, <2>3
  <2>5. d = 1 => f[d - 1] = 0
    BY <1>6
  <2> QED BY <2>2, <2>4, <2>5
<1>8. w = [d \in DOMAIN g |-> (g[d] - box.deststart[d]) * s[d] + (IF d = 1 THEN 0 ELSE w[d - 1])]
  <2>1. \A d \in 1 .. n : d # 1 => d - 1 \in 1 .. n
    BY <1>1
  <2>2. \A d \in 1 .. n :
          w[d] = (g[d] - box.deststart[d]) * s[d] + (IF d = 1 THEN 0 ELSE w[d - 1])
    BY <1>7, <2>1
  <2> QED BY <1>1, <2>2
<1>9. u = [d \in DOMAIN g |-> (g[d] - box.deststart[d]) * s[d] + (IF d = 1 THEN 0 ELSE u[d - 1])]
  BY <1>8
<1> HIDE DEF u, w
<1> DEFINE S == {d \in 1 .. n : u[d] = w[d]}
<1>10. 1 \in S
  BY <1>1, <1>8, <1>9
<1>11. \A d \in 1 .. n - 1 : d \in S => d + 1 \in S
  <2> SUFFICES ASSUME NEW d \in 1 .. n - 1, u[d] = w[d] PROVE d + 1 \in S
    OBVIOUS
  <2> DEFINE e == d + 1
  <2>1. e \in 1 .. n /\ e # 1 /\ e - 1 = d
    BY <1>1
  <2> HIDE DEF e
  <2>2. /\ u[e] = (g[e] - box.deststart[e]) * s[e] + u[d]
        /\ w[e] = (g[e] - box.deststart[e]) * s[e] + w[d]
    BY <1>1, <1>8, <1>9, <2>1
  <2>3. u[e] = w[e]
    BY <2>2
  <2> QED BY <2>1, <2>3 DEF e
<1> HIDE DEF S
<1>12. n \in 1 .. n /\ \A d \in 1 .. n : d \in S
  <2>1. n \in Nat /\ n \in 1 .. n
    BY <1>1
  <2> QED BY ONLY <2>1, <1>10, <1>11, InductionFromOne
<1>13. u[n] = w[n]
  BY <1>12 DEF S
<1> QED BY <1>1, <1>2, <1>12, <1>13 DEF w

\* The number of places of a box.
DestSize(box) == box.destcount[1] * Strides(box.destcount)[1]

\* A row of the region that lies in the box has a place in it, and is the row
\* of that place.
LEMMA PlaceInBox ==
  ASSUME NEW box, IsBox(box), NEW r \in 0 .. RegionSize(box) - 1, InBox(r, box)
  PROVE  LET p == RidInBox(r, box)
         IN /\ p \in 0 .. DestSize(box) - 1
            /\ InBox(p, Mirror(box))
            /\ RidInBox(p, Mirror(box)) = r
<1> DEFINE n == Len(box.srccount)
           c == box.srccount
           s == Strides(c)
           e == box.destcount
           t == Strides(e)
           x == Coordinates(r, c)
           g == GlobalCoordinates(r, box)
           y == [d \in 1 .. n |-> g[d] - box.deststart[d]]
           p == RidInBox(r, box)
           m == Mirror(box)
           h == GlobalCoordinates(p, m)
<1>1. n \in Nat \ {0} /\ Dims(c, n) /\ Dims(e, n) /\ DOMAIN e = 1 .. n
      /\ \A d \in 1 .. n : box.srcstart[d] \in Nat /\ box.deststart[d] \in Nat
  BY BoxShape
<1>14. /\ IsBox(m) /\ Mirror(m) = box /\ m.srccount = e /\ m.destcount = c
       /\ m.srcstart = box.deststart /\ m.deststart = box.srcstart /\ Len(m.srccount) = n
       /\ DOMAIN c = 1 .. n
  BY BoxShape
<1>2. IsStride(s, c, n) /\ IsStride(t, e, n)
  BY <1>1, StridesAre
<1>3. /\ \A d \in 1 .. n : c[d] \in Nat \ {0} /\ e[d] \in Nat \ {0}
      /\ \A d \in 1 .. n : s[d] \in Nat \ {0} /\ t[d] \in Nat \ {0}
  BY <1>1, <1>2, CountsAre, StridesPositive
<1>4. /\ \A d \in 1 .. n : x[d] = IF d = 1 THEN r \div s[1] ELSE (r \div s[d]) % c[d]
      /\ \A d \in 1 .. n : g[d] = x[d] + box.srcstart[d]
  BY CoordinatesAre
<1>4a. \A d \in 1 .. n : h[d] = (IF d = 1 THEN p \div Strides(m.srccount)[1]
                                ELSE (p \div Strides(m.srccount)[d]) % m.srccount[d]) + m.srcstart[d]
  <2> HIDE DEF m, p
  <2> QED BY ONLY <1>14, CoordinatesAre DEF h
<1>4b. \A f : SumOfPlaces(f, n, y, t) /\ Displaced(y, g, box.deststart, n) => p = f[n]
  BY RidInBoxIs
<1>4c. \A k : SumOfPlaces(k, n, x, s) /\ Displaced(x, h, m.deststart, n)
               => RidInBox(p, m) = k[n]
  <2> HIDE DEF m, p
  <2>1. s = Strides(m.destcount)
    BY ONLY <1>14
  <2>2. IsBox(m) /\ n = Len(m.srccount)
    BY ONLY <1>14
  <2> SUFFICES ASSUME NEW k, SumOfPlaces(k, n, x, s), Displaced(x, h, m.deststart, n)
               PROVE  RidInBox(p, m) = k[n]
    OBVIOUS
  <2> HIDE DEF n, s, x
  <2>3. Displaced(x, GlobalCoordinates(p, m), m.deststart, n)
    BY DEF h
  <2>4. SumOfPlaces(k, n, x, Strides(m.destcount))
    BY <2>1
  <2> QED BY ONLY <2>2, <2>3, <2>4, RidInBoxIs
<1>4d. InBox(r, box) => \A d \in 1 .. n : g[d] \in box.deststart[d] .. box.deststart[d] + e[d] - 1
  BY <1>1 DEF InBox
<1>5. r \in 0 .. c[1] * s[1] - 1
  BY DEF RegionSize
<1>5a. DestSize(box) = e[1] * t[1]
  BY DEF DestSize
<1>5b. /\ m.srccount = e /\ m.destcount = c /\ m.srcstart = box.deststart /\ m.deststart = box.srcstart
       /\ t = Strides(m.srccount)
  BY ONLY <1>14
<1>5c. DOMAIN c = 1 .. n
  BY <1>14
<1>5d. (\A d \in 1 .. n : h[d] \in box.srcstart[d] .. box.srcstart[d] + c[d] - 1) => InBox(p, m)
  <2> HIDE DEF m, p
  <2> QED BY ONLY <1>5b, <1>5c DEF InBox, h
<1> HIDE DEF x, g, s, t, n, c, e, m, p, h
<1>6. /\ \A d \in 1 .. n : x[d] \in 0 .. c[d] - 1
      /\ \A f : SumOfPlaces(f, n, x, s) => f[n] = r
  <2>1. PlacesOf(x, r, s, c, n)
    BY <1>4 DEF PlacesOf
  <2>2. Dims(c, n) /\ IsStride(s, c, n)
    BY <1>1, <1>2
  <2>3. Within(x, c, n) /\ \A f : SumOfPlaces(f, n, x, s) => f[n] = r
    BY ONLY <1>5, <2>1, <2>2, PlacesOfNumber
  <2> QED BY <2>3 DEF Within
<1>7. \A d \in 1 .. n : g[d] \in Int /\ g[d] \in box.srcstart[d] .. box.srcstart[d] + c[d] - 1
  <2> SUFFICES ASSUME NEW d \in 1 .. n
               PROVE  g[d] \in Int /\ g[d] \in box.srcstart[d] .. box.srcstart[d] + c[d] - 1
    OBVIOUS
  <2>1. box.srcstart[d] \in Nat /\ c[d] \in Nat /\ x[d] \in 0 .. c[d] - 1 /\ g[d] = x[d] + box.srcstart[d]
    BY <1>1, <1>3, <1>4, <1>6
  <2> QED BY ONLY <2>1
<1>8. \A d \in 1 .. n : g[d] \in box.deststart[d] .. box.deststart[d] + e[d] - 1
  BY <1>4d
<1>9. \A d \in 1 .. n : y[d] \in Int /\ y[d] \in 0 .. e[d] - 1 /\ y[d] = g[d] - box.deststart[d]
  <2> SUFFICES ASSUME NEW d \in 1 .. n
               PROVE  y[d] \in Int /\ y[d] \in 0 .. e[d] - 1 /\ y[d] = g[d] - box.deststart[d]
    OBVIOUS
  <2>1. box.deststart[d] \in Nat /\ e[d] \in Nat /\ g[d] \in Int
        /\ g[d] \in box.deststart[d] .. box.deststart[d] + e[d] - 1
    BY <1>1, <1>3, <1>7, <1>8
  <2>2. y[d] = g[d] - box.deststart[d]
    OBVIOUS
  <2> QED BY ONLY <2>1, <2>2
<1> HIDE DEF y
<1>10. PICK f : SumOfPlaces(f, n, y, t)
  <2>1. n \in Nat /\ \A d \in 1 .. n : y[d] \in Int /\ t[d] \in Int
    BY <1>1, <1>3, <1>9
  <2> QED BY ONLY <2>1, PlacesSum
<1>11. p = f[n]
  BY <1>4b, <1>9, <1>10 DEF Displaced
<1>12. /\ f[n] \in 0 .. e[1] * t[1] - 1
       /\ f[n] \div t[1] = y[1]
       /\ \A d \in 2 .. n : (f[n] \div t[d]) % e[d] = y[d]
  <2>1. Dims(e, n) /\ IsStride(t, e, n)
    BY <1>1, <1>2
  <2>2. Within(y, e, n)
    BY <1>9 DEF Within
  <2> QED BY ONLY <1>10, <2>1, <2>2, NumberOfPlaces
<1>13. p \in 0 .. DestSize(box) - 1
  BY <1>5a, <1>11, <1>12
<1>15. \A d \in 1 .. n : h[d] = (IF d = 1 THEN p \div t[1] ELSE (p \div t[d]) % e[d]) + box.deststart[d]
  BY <1>4a, <1>5b
<1>16. \A d \in 1 .. n : h[d] = g[d]
  <2> SUFFICES ASSUME NEW d \in 1 .. n PROVE h[d] = g[d]
    OBVIOUS
  <2>1. h[d] = y[d] + box.deststart[d]
    <3>1. d # 1 => d \in 2 .. n
      BY <1>1
    <3> QED BY <1>11, <1>12, <1>15, <3>1
  <2> QED BY <1>1, <1>7, <1>9, <2>1
<1>17. InBox(p, m)
  BY <1>5d, <1>7, <1>16
<1>18. RidInBox(p, m) = r
  <2>1. \A d \in 1 .. n : x[d] \in Int /\ x[d] = h[d] - box.srcstart[d]
    <3> SUFFICES ASSUME NEW d \in 1 .. n PROVE x[d] \in Int /\ x[d] = h[d] - box.srcstart[d]
      OBVIOUS
    <3>1. box.srcstart[d] \in Nat /\ c[d] \in Nat /\ x[d] \in 0 .. c[d] - 1
          /\ h[d] = x[d] + box.srcstart[d]
      BY <1>1, <1>3, <1>4, <1>6, <1>16
    <3> QED BY ONLY <3>1
  <2>2. PICK k : SumOfPlaces(k, n, x, s)
    <3>1. n \in Nat /\ \A d \in 1 .. n : x[d] \in Int /\ s[d] \in Int
      BY <1>1, <1>3, <2>1
    <3> QED BY ONLY <3>1, PlacesSum
  <2>3. RidInBox(p, m) = k[n]
    BY <1>4c, <1>5b, <2>1, <2>2 DEF Displaced
  <2> QED BY <1>6, <2>2, <2>3
<1> QED BY <1>13, <1>17, <1>18 DEF p, m

\* The places that are selected are those of the rows.
LEMMA SelectedPlaces ==
  ASSUME NEW box, IsBox(box), NEW rids, rids \subseteq 0 .. RegionSize(box) - 1
  PROVE  /\ Selected(box, rids) = {RidInBox(r, box) : r \in {q \in rids : InBox(q, box)}}
         /\ \A q, r \in rids :
              InBox(q, box) /\ InBox(r, box) /\ RidInBox(q, box) = RidInBox(r, box) => q = r
<1> DEFINE m == Mirror(box)
<1>1. /\ IsBox(m) /\ Mirror(m) = box /\ RegionSize(m) = DestSize(box)
      /\ DestSize(m) = RegionSize(box)
  BY BoxShape DEF RegionSize, DestSize
<1>2. Selected(box, rids) = {p \in 0 .. DestSize(box) - 1 : InBox(p, m) /\ RidInBox(p, m) \in rids}
  BY DEF Selected, DestSize
<1> HIDE DEF m
<1>3. ASSUME NEW r \in rids, InBox(r, box)
      PROVE  /\ RidInBox(r, box) \in Selected(box, rids)
             /\ RidInBox(RidInBox(r, box), m) = r
  <2>1. r \in 0 .. RegionSize(box) - 1
    OBVIOUS
  <2>2. /\ RidInBox(r, box) \in 0 .. DestSize(box) - 1
        /\ InBox(RidInBox(r, box), m) /\ RidInBox(RidInBox(r, box), m) = r
    BY <1>3, <2>1, PlaceInBox DEF m
  <2> QED BY <1>2, <2>2
<1>4. ASSUME NEW p \in Selected(box, rids)
      PROVE  \E r \in rids : InBox(r, box) /\ p = RidInBox(r, box)
  <2>1. p \in 0 .. DestSize(box) - 1 /\ InBox(p, m) /\ RidInBox(p, m) \in rids
    BY <1>2
  <2>2. p \in 0 .. RegionSize(m) - 1
    BY <1>1, <2>1
  <2>3. InBox(RidInBox(p, m), Mirror(m)) /\ RidInBox(RidInBox(p, m), Mirror(m)) = p
    BY <1>1, <2>1, <2>2, PlaceInBox
  <2> QED BY <1>1, <2>1, <2>3
<1>5. \A q, r \in rids :
        InBox(q, box) /\ InBox(r, box) /\ RidInBox(q, box) = RidInBox(r, box) => q = r
  BY <1>3
<1> QED BY <1>3, <1>4, <1>5

\* Every row of a region that is contained lies in the box.
LEMMA ContainedRows ==
  ASSUME NEW box, IsBox(box), Contained(box), NEW r \in 0 .. RegionSize(box) - 1
  PROVE  InBox(r, box)
<1> DEFINE n == Len(box.srccount)
           c == box.srccount
           s == Strides(c)
           x == Coordinates(r, c)
           g == GlobalCoordinates(r, box)
<1>1. n \in Nat \ {0} /\ Dims(c, n) /\ DOMAIN c = 1 .. n /\ DOMAIN box.destcount = 1 .. n
      /\ \A d \in 1 .. n : box.srcstart[d] \in Nat /\ box.deststart[d] \in Nat
      /\ Dims(box.destcount, n)
  BY BoxShape
<1>2. IsStride(s, c, n)
  BY <1>1, StridesAre
<1>3. \A d \in 1 .. n : c[d] \in Nat \ {0} /\ box.destcount[d] \in Nat \ {0}
  BY <1>1, CountsAre
<1>4. /\ \A d \in 1 .. n : x[d] = IF d = 1 THEN r \div s[1] ELSE (r \div s[d]) % c[d]
      /\ \A d \in 1 .. n : g[d] = x[d] + box.srcstart[d]
  BY CoordinatesAre
<1>5. r \in 0 .. c[1] * s[1] - 1
  BY DEF RegionSize
<1>5a. \A d \in 1 .. n : /\ box.deststart[d] <= box.srcstart[d]
                         /\ box.srcstart[d] + c[d] <= box.deststart[d] + box.destcount[d]
  BY <1>1 DEF Contained
<1>5b. (\A d \in 1 .. n : g[d] \in box.deststart[d] .. box.deststart[d] + box.destcount[d] - 1)
         => InBox(r, box)
  BY <1>1 DEF InBox
<1> HIDE DEF x, g, s, n, c
<1>6. \A d \in 1 .. n : x[d] \in 0 .. c[d] - 1
  <2>1. PlacesOf(x, r, s, c, n)
    BY <1>4 DEF PlacesOf
  <2>2. Dims(c, n) /\ IsStride(s, c, n)
    BY <1>1, <1>2
  <2>3. Within(x, c, n)
    BY ONLY <1>5, <2>1, <2>2, PlacesOfNumber
  <2> QED BY <2>3 DEF Within
<1>7. ASSUME NEW d \in 1 .. n
      PROVE  g[d] \in box.deststart[d] .. box.deststart[d] + box.destcount[d] - 1
  <2>1. /\ box.srcstart[d] \in Nat /\ box.deststart[d] \in Nat /\ box.destcount[d] \in Nat
        /\ c[d] \in Nat /\ x[d] \in 0 .. c[d] - 1 /\ g[d] = x[d] + box.srcstart[d]
        /\ box.deststart[d] <= box.srcstart[d]
        /\ box.srcstart[d] + c[d] <= box.deststart[d] + box.destcount[d]
    BY <1>1, <1>3, <1>4, <1>5a, <1>6
  <2> QED BY ONLY <2>1
<1> QED BY <1>5b, <1>7


-------------------------------------------------------------------------------
(* Counting.                                                               *)

\* An injective image has as many members.
LEMMA ImageCount ==
  ASSUME NEW S, IsFiniteSet(S), NEW F, \A x, y \in S : F[x] = F[y] => x = y
  PROVE  IsFiniteSet({F[x] : x \in S}) /\ Cardinality({F[x] : x \in S}) = Cardinality(S)
<1> DEFINE T == {F[x] : x \in S}
           f == [x \in S |-> F[x]]
<1>1. f \in Surjection(S, T)
  BY DEF Surjection
<1>2. f \in Injection(S, T)
  BY DEF Injection, IsInjective
<1> HIDE DEF f, T
<1>3. IsFiniteSet(T) /\ Cardinality(T) = Cardinality(S)
  BY <1>1, <1>2, FS_Surjection
<1> QED BY <1>3 DEF T

\* The elements of s count those of the disjoint sets A.
Counted(s, A, m) ==
  /\ Len(s) = m /\ \A k \in 1 .. m : IsFiniteSet(A[k]) /\ s[k] = Cardinality(A[k])
  /\ \A j, k \in 1 .. m : j # k => A[j] \cap A[k] = {}

\* Disjoint sets are counted one by one.
LEMMA SumOfDisjoint ==
  ASSUME NEW m \in Nat, NEW A, NEW s, Counted(s, A, m)
  PROVE  /\ IsFiniteSet(UNION {A[k] : k \in 1 .. m})
         /\ SumOf(s) = Cardinality(UNION {A[k] : k \in 1 .. m})
<1> USE DEF Counted
<1> DEFINE U(n) == UNION {A[k] : k \in 1 .. n}
<1>1. \A k \in 1 .. m : s[k] \in Int /\ s[k] = Cardinality(A[k]) /\ IsFiniteSet(A[k])
  <2> SUFFICES ASSUME NEW k \in 1 .. m PROVE Cardinality(A[k]) \in Int
    OBVIOUS
  <2>1. IsFiniteSet(A[k])
    OBVIOUS
  <2>2. Cardinality(A[k]) \in Nat
    BY <2>1, FS_CardinalityType
  <2> QED BY <2>2
<1>2. PICK f : IsSum(f, m, s)
  BY <1>1, PartialSums
<1> DEFINE S == {n \in 0 .. m : IsFiniteSet(U(n)) /\ f[n] = Cardinality(U(n))}
<1>3. 0 \in S
  <2>1. U(0) = {}
    OBVIOUS
  <2>2. f[0] = 0
    BY <1>2 DEF IsSum
  <2> HIDE DEF U
  <2> QED BY <2>1, <2>2, FS_EmptySet
<1>4. \A n \in 0 .. m - 1 : n \in S => n + 1 \in S
  <2> SUFFICES ASSUME NEW n \in 0 .. m - 1, n \in S PROVE n + 1 \in S
    OBVIOUS
  <2> DEFINE e == n + 1
  <2>1. e \in 1 .. m /\ e \in 0 .. m /\ e - 1 = n
    OBVIOUS
  <2>2. U(e) = U(n) \cup A[e]
    OBVIOUS
  <2>3. U(n) \cap A[e] = {}
    <3>1. \A k \in 1 .. n : k \in 1 .. m /\ k # e
      OBVIOUS
    <3> HIDE DEF e
    <3> QED BY <2>1, <3>1
  <2>4. IsFiniteSet(U(n)) /\ f[n] = Cardinality(U(n))
    OBVIOUS
  <2> HIDE DEF e, U, S
  <2>5. f[e] = f[n] + s[e]
    BY <1>2, <2>1 DEF IsSum
  <2>6. IsFiniteSet(A[e]) /\ s[e] = Cardinality(A[e])
    BY <1>1, <2>1
  <2>7. IsFiniteSet(U(e)) /\ Cardinality(U(e)) = Cardinality(U(n)) + Cardinality(A[e])
    <3>1. IsFiniteSet(U(n) \cup A[e])
          /\ Cardinality(U(n) \cup A[e]) = Cardinality(U(n)) + Cardinality(A[e]) - Cardinality(U(n) \cap A[e])
      BY <2>4, <2>6, FS_Union
    <3>2. Cardinality(U(n) \cap A[e]) = 0
      BY <2>3, FS_EmptySet
    <3>3. Cardinality(U(n)) \in Int /\ Cardinality(A[e]) \in Int
      BY <2>4, <2>6, FS_CardinalityType
    <3> QED BY <2>2, <3>1, <3>2, <3>3
  <2> QED BY <2>1, <2>4, <2>5, <2>6, <2>7 DEF e, S
<1> HIDE DEF S, U
<1>5. m \in S
  <2>1. \A n \in 0 .. m : n \in S
    BY <1>3, <1>4, InductionUpTo
  <2> QED BY <2>1
<1>6. SumOf(s) = f[m]
  BY <1>2, SumIs
<1> QED BY <1>5, <1>6 DEF S, U

\* Rising RIDs rise from any to any later one.
LEMMA RisingOrder ==
  ASSUME NEW rids, Rising(rids), NEW i \in 1 .. Len(rids), NEW j \in 1 .. Len(rids), i < j
  PROVE  rids[i] < rids[j]
<1> DEFINE n == Len(rids)
           m == j - i - 1
           S == {d \in 0 .. m : rids[i] < rids[i + 1 + d]}
<1>1. /\ n \in Nat \ {0} /\ \A k \in 1 .. n : rids[k] \in Int
      /\ \A k \in 1 .. n - 1 : rids[k] < rids[k + 1]
  <2>1. RidLimit \in Nat
    BY Powers
  <2> QED BY <2>1, TypedRising DEF Rising
<1> HIDE DEF n
<1>2. m \in Nat /\ i + 1 + m = j /\ i \in 1 .. n /\ j \in 1 .. n /\ i \in 1 .. n - 1
  BY <1>1 DEF n
<1>3. 0 \in S
  BY <1>1, <1>2
<1>4. \A d \in 0 .. m - 1 : d \in S => d + 1 \in S
  <2> SUFFICES ASSUME NEW d \in 0 .. m - 1, rids[i] < rids[i + 1 + d] PROVE d + 1 \in S
    OBVIOUS
  <2>1. i + 1 + d \in 1 .. n - 1 /\ i + 1 + d \in 1 .. n /\ (i + 1 + d) + 1 = i + 1 + (d + 1)
        /\ d + 1 \in 0 .. m /\ (i + 1 + d) + 1 \in 1 .. n
    BY <1>1, <1>2
  <2>2. rids[i + 1 + d] < rids[(i + 1 + d) + 1]
    BY <1>1, <2>1
  <2>3. rids[i] < rids[(i + 1 + d) + 1]
    BY <1>1, <1>2, <2>1, <2>2
  <2> QED BY <2>1, <2>3
<1>5. m \in S
  <2> HIDE DEF S, m
  <2>1. \A d \in 0 .. m : d \in S
    BY <1>2, <1>3, <1>4, InductionUpTo
  <2> QED BY <1>2, <2>1
<1> QED BY <1>2, <1>5

\* No RID is twice in a rising list, which has as many RIDs as its length says.
LEMMA RisingCount ==
  ASSUME NEW rids, Rising(rids)
  PROVE  /\ \A i, j \in 1 .. Len(rids) : rids[i] = rids[j] => i = j
         /\ IsFiniteSet(Range(rids)) /\ Cardinality(Range(rids)) = Len(rids)
<1> DEFINE n == Len(rids)
<1>1. n \in Nat /\ DOMAIN rids = 1 .. n /\ \A i \in 1 .. n : rids[i] \in Int
  <2>1. RidLimit \in Nat
    BY Powers
  <2> QED BY <2>1, TypedRising
<1>2. \A i, j \in 1 .. n : rids[i] = rids[j] => i = j
  <2> SUFFICES ASSUME NEW i \in 1 .. n, NEW j \in 1 .. n, rids[i] = rids[j], i # j PROVE FALSE
    OBVIOUS
  <2>1. i < j \/ j < i
    BY <1>1
  <2>2. rids[i] < rids[j] \/ rids[j] < rids[i]
    BY <2>1, RisingOrder
  <2> QED BY <1>1, <2>2
<1> HIDE DEF n
<1>3. IsFiniteSet(1 .. n) /\ Cardinality(1 .. n) = n
  <2>1. 1 \in Int /\ n \in Int
    BY <1>1
  <2> QED BY <1>1, <2>1, FS_Interval
<1>4. IsFiniteSet({rids[i] : i \in 1 .. n}) /\ Cardinality({rids[i] : i \in 1 .. n}) = n
  <2> DEFINE S == 1 .. n
  <2>1. IsFiniteSet(S) /\ Cardinality(S) = n /\ \A x, y \in S : rids[x] = rids[y] => x = y
    BY <1>2, <1>3
  <2> HIDE DEF S
  <2>2. IsFiniteSet({rids[x] : x \in S}) /\ Cardinality({rids[x] : x \in S}) = Cardinality(S)
    BY ONLY <2>1, ImageCount
  <2> QED BY <2>1, <2>2 DEF S
<1>5. Range(rids) = {rids[i] : i \in 1 .. n}
  BY <1>1 DEF Range
<1> QED BY <1>2, <1>4, <1>5 DEF n

-------------------------------------------------------------------------------
(* Selection boxes: what the decoders return.                              *)

\* The rows of consecutive bins.
BinRows(p, lo, hi) == UNION {Range(p[b]) : b \in lo .. hi}

\* Bins lo .. hi of an index x of a region are read into a box.
BoxRead(p, f, x, lo, hi, box) ==
  /\ f \in {PFD, Expansion} /\ Holding(p, 0, f, x) /\ IsBox(box)
  /\ lo \in DOMAIN p /\ hi \in DOMAIN p /\ lo <= hi /\ Narrow(p, f, lo, hi)
  /\ UNION {Range(p[b]) : b \in DOMAIN p} = 0 .. RegionSize(box) - 1

\* What a bin and its list are.
LEMMA ListOfBin ==
  ASSUME NEW p, NEW f, NEW x, NEW lo, NEW hi, NEW box, BoxRead(p, f, x, lo, hi, box),
         NEW b \in lo .. hi
  PROVE  LET n == Len(p[b])
             bs == x[b].batches
         IN /\ b \in DOMAIN p /\ Rising(p[b]) /\ Distinct(p[b]) /\ n \in Nat \ {0}
            /\ x[b].count = n /\ DOMAIN bs = 1 .. BatchCount(n) /\ BatchCount(n) \in Nat \ {0}
            /\ \A k \in 1 .. BatchCount(n) : SumsOf(bs[k]) = BatchRids(p[b], k)
            /\ x[b] = Compress(f, p[b]) /\ p[b] = MovedBy(p[b], 0)
            /\ Range(p[b]) \subseteq 0 .. RegionSize(box) - 1
<1> DEFINE n == Len(p[b])
           rids == p[b]
<1>1. /\ f \in {PFD, Expansion} /\ Holding(p, 0, f, x) /\ IsBox(box)
      /\ lo \in DOMAIN p /\ hi \in DOMAIN p /\ lo <= hi /\ Narrow(p, f, lo, hi)
      /\ UNION {Range(p[a]) : a \in DOMAIN p} = 0 .. RegionSize(box) - 1
  BY DEF BoxRead
<1>2. p \in Partitions /\ f \in CompressedForms
      /\ \A a \in DOMAIN p : x[a] = Compress(f, MovedBy(p[a], 0))
  BY <1>1, FormsDiffer DEF Holding
<1>3. DOMAIN p = 1 .. Len(p) /\ Len(p) \in Nat /\ \A a \in 1 .. Len(p) : Rising(p[a])
  BY <1>2, BinsRise
<1>4. b \in DOMAIN p /\ b \in 1 .. Len(p)
  BY <1>1, <1>3
<1>5. Rising(rids)
  BY <1>3, <1>4
<1>6. MovedBy(rids, 0) = rids
  BY <1>5, MovedTwice
<1>7. Distinct(rids)
  <2>1. Distinct(MovedBy(rids, 0))
    BY <1>5, MovedIsDistinct
  <2> QED BY <1>6, <2>1
<1>8. x[b] = Compress(f, rids)
  BY <1>2, <1>4, <1>6
<1>9. n \in Nat \ {0}
  BY <1>5, TypedRising
<1>10. f = Expansion => ~ Wide(rids)
  BY <1>1 DEF Narrow
<1>11. Ascends(rids)
  <2>1. \A i \in 1 .. n - 1 : rids[i] < rids[i + 1] /\ rids[i] \in Int /\ rids[i + 1] \in Int
    <3>1. RidLimit \in Nat
      BY Powers
    <3>2. \A i \in 1 .. n : rids[i] \in Int
      BY <1>5, <3>1, TypedRising
    <3>3. \A i \in 1 .. n - 1 : i \in 1 .. n /\ i + 1 \in 1 .. n
      BY <1>9
    <3> QED BY <1>5, <3>2, <3>3 DEF Rising
  <2> HIDE DEF rids
  <2> QED BY <2>1 DEF Ascends, rids
<1> HIDE DEF rids
<1>12. /\ x[b].count = n /\ DOMAIN x[b].batches = 1 .. BatchCount(n) /\ BatchCount(n) \in Nat \ {0}
  <2>1. n = Len(rids) /\ Len(rids) # 0
    BY <1>9 DEF rids
  <2> HIDE DEF n
  <2> QED BY <1>2, <1>7, <1>8, <2>1, ListBatches
<1>13. ASSUME NEW k \in 1 .. BatchCount(n) PROVE SumsOf(x[b].batches[k]) = BatchRids(rids, k)
  <2>1. n = Len(rids) /\ Len(rids) # 0
    BY <1>9 DEF rids
  <2>2. Ascends(BatchRids(rids, k))
    BY <1>7, <1>11, <2>1, BatchPieces
  <2> HIDE DEF n
  <2>3. SumsOf(Compress(f, rids).batches[k]) = BatchRids(rids, k)
    BY <1>1, <1>7, <1>10, <2>1, <2>2, PlainPieces
  <2> QED BY <1>8, <2>3
<1>14. Range(rids) \subseteq 0 .. RegionSize(box) - 1
  BY <1>1, <1>4 DEF rids
<1> QED BY <1>4, <1>5, <1>6, <1>7, <1>8, <1>9, <1>12, <1>13, <1>14 DEF rids

\* The rows of a range of bins are in the region, and different bins have
\* different rows.
LEMMA RowsOfBins ==
  ASSUME NEW p, NEW f, NEW x, NEW lo, NEW hi, NEW box, BoxRead(p, f, x, lo, hi, box)
  PROVE  /\ BinRows(p, lo, hi) \subseteq 0 .. RegionSize(box) - 1
         /\ Range(FlattenSeq(BinRids(p, 0, lo, hi))) = BinRows(p, lo, hi)
         /\ \A a, b \in lo .. hi : a # b => Range(p[a]) \cap Range(p[b]) = {}
<1>1. \A b \in lo .. hi : /\ b \in DOMAIN p /\ Range(p[b]) \subseteq 0 .. RegionSize(box) - 1
                          /\ p[b] = MovedBy(p[b], 0) /\ Distinct(p[b])
  BY ListOfBin
<1>2. BinRows(p, lo, hi) \subseteq 0 .. RegionSize(box) - 1
  BY <1>1 DEF BinRows
<1>3. \A a, b \in DOMAIN p : a # b => Range(p[a]) \cap Range(p[b]) = {}
  <2>1. p \in Partitions
    BY DEF BoxRead, Holding
  <2> QED BY <2>1, IndexAssumption DEF IsInverted
<1> DEFINE m == hi - lo + 1
           L == 0 .. RidLimit - 1
           rr == BinRids(p, 0, lo, hi)
<1>4. lo \in Int /\ hi \in Int /\ m \in Nat \ {0}
  <2>1. p \in Partitions /\ lo \in DOMAIN p /\ hi \in DOMAIN p /\ lo <= hi
    BY DEF BoxRead, Holding
  <2>2. DOMAIN p = 1 .. Len(p) /\ Len(p) \in Nat
    BY <2>1, BinsRise
  <2> QED BY ONLY <2>1, <2>2
<1>5. rr = [k \in 1 .. m |-> MovedBy(p[lo + k - 1], 0)]
  BY DEF BinRids
<1>6. \A k \in 1 .. m : lo + k - 1 \in lo .. hi
  BY <1>4
<1> HIDE DEF rr
<1>7. ASSUME NEW k \in 1 .. m PROVE rr[k] = p[lo + k - 1] /\ rr[k] \in Seq(L)
  BY <1>1, <1>5, <1>6 DEF Distinct
<1>8. Range(FlattenSeq(rr)) = UNION {Range(rr[k]) : k \in 1 .. m}
  <2>1. Len(rr) = m
    BY <1>4, <1>5
  <2> HIDE DEF L, m
  <2> QED BY <1>4, <1>7, <2>1, FlattenRange
<1>9. {Range(rr[k]) : k \in 1 .. m} = {Range(p[b]) : b \in lo .. hi}
  <2>1. ASSUME NEW b \in lo .. hi PROVE b - lo + 1 \in 1 .. m /\ rr[b - lo + 1] = p[b]
    <3>1. b - lo + 1 \in 1 .. m /\ lo + (b - lo + 1) - 1 = b
      BY <1>4
    <3> QED BY <1>7, <3>1
  <2> HIDE DEF m
  <2> QED BY <1>6, <1>7, <2>1
<1> QED BY <1>1, <1>2, <1>3, <1>8, <1>9 DEF rr, BinRows

\* Counts of rows are counts of places.
LEMMA PlacesCount ==
  ASSUME NEW box, IsBox(box), NEW rids, rids \subseteq 0 .. RegionSize(box) - 1,
         NEW S, S = {r \in rids : InBox(r, box)}, IsFiniteSet(S)
  PROVE  Selected(box, rids) = {RidInBox(r, box) : r \in S} /\ Cardinality(Selected(box, rids)) = Cardinality(S)
<1>1. /\ Selected(box, rids) = {RidInBox(r, box) : r \in S}
      /\ \A q, r \in S : RidInBox(q, box) = RidInBox(r, box) => q = r
  BY SelectedPlaces
<1> DEFINE F == [r \in S |-> RidInBox(r, box)]
<1>2. Selected(box, rids) = {F[r] : r \in S} /\ \A q, r \in S : F[q] = F[r] => q = r
  BY <1>1
<1> HIDE DEF F
<1>3. IsFiniteSet(S) /\ \A x, y \in S : F[x] = F[y] => x = y
  BY <1>2
<1>4. Cardinality({F[x] : x \in S}) = Cardinality(S)
  BY ONLY <1>3, ImageCount
<1> QED BY <1>1, <1>2, <1>4


\* A RID of a list is in one batch, once.
LEMMA PiecesApart ==
  ASSUME NEW rids, Rising(rids), Distinct(rids),
         NEW j \in 1 .. BatchCount(Len(rids)), NEW k \in 1 .. BatchCount(Len(rids)),
         NEW g \in 1 .. Len(BatchRids(rids, j)), NEW i \in 1 .. Len(BatchRids(rids, k)),
         BatchRids(rids, j)[g] = BatchRids(rids, k)[i]
  PROVE  j = k /\ g = i
<1> DEFINE n == Len(rids)
           c == BatchCount(n)
           a == BatchEnd(n, j - 1)
           b == BatchEnd(n, k - 1)
<1>1. n \in Nat \ {0}
  BY TypedRising
<1>2. BatchSize \in Nat \ {0}
  BY BatchShape
<1>3. c \in Nat \ {0}
  BY <1>1, BatchEnds
<1>4. a + g \in 1 .. n /\ BatchRids(rids, j)[g] = rids[a + g] /\ g \in 1 .. BatchSize
  <2>1. Len(rids) # 0
    BY <1>1
  <2>2. Len(BatchRids(rids, j)) \in 1 .. BatchSize
    BY <2>1, BatchPieces
  <2>3. a + g \in 1 .. n /\ BatchRids(rids, j)[g] = rids[a + g]
    BY <2>1, BatchPieces
  <2> QED BY <1>2, <2>2, <2>3
<1>5. b + i \in 1 .. n /\ BatchRids(rids, k)[i] = rids[b + i] /\ i \in 1 .. BatchSize
  <2>1. Len(rids) # 0
    BY <1>1
  <2>2. Len(BatchRids(rids, k)) \in 1 .. BatchSize
    BY <2>1, BatchPieces
  <2>3. b + i \in 1 .. n /\ BatchRids(rids, k)[i] = rids[b + i]
    BY <2>1, BatchPieces
  <2> QED BY <1>2, <2>2, <2>3
<1>6. a + g = b + i
  BY <1>4, <1>5, RisingCount
<1>7. a = (j - 1) * BatchSize /\ b = (k - 1) * BatchSize
  BY <1>1, BatchEnds
<1> DEFINE x == j - 1
           y == k - 1
           s == g - 1
           t == i - 1
<1>8. x \in Nat /\ y \in Nat /\ s \in 0 .. BatchSize - 1 /\ t \in 0 .. BatchSize - 1
  BY <1>2, <1>3, <1>4, <1>5
<1>9. x * BatchSize + s = y * BatchSize + t
  <2>1. a = x * BatchSize /\ b = y * BatchSize /\ a \in Int /\ b \in Int
    BY <1>7, <1>8, <1>2
  <2> HIDE DEF a, b
  <2>2. a + s = b + t
    BY <1>2, <1>4, <1>5, <1>6, <2>1
  <2> HIDE DEF x, y, s, t
  <2> QED BY ONLY <2>1, <2>2
<1>10. x = y /\ s = t
  <2> HIDE DEF x, y, s, t
  <2>1. BatchSize \in Nat
    BY <1>2
  <2> QED BY ONLY <1>8, <1>9, <2>1, OnePlace
<1> QED BY <1>3, <1>4, <1>5, <1>10

\* The rows that lie in a box.
RowsInBox(box, rows) == {r \in rows : InBox(r, box)}
PlacesOfRows(box, rows) == {RidInBox(r, box) : r \in rows}

\* In three dimensions a row that is outside of the box ends the decoding.
Outside(box, rows) == Len(box.destcount) = 3 /\ \E r \in rows : ~ InBox(r, box)

\* One batch with checks: in three dimensions it fails when a row is outside.
LEMMA WithinBox ==
  ASSUME NEW rids, NEW box, NEW n \in Nat, DOMAIN rids = 1 .. n,
         \A i, j \in 1 .. n : rids[i] = rids[j] => i = j
  PROVE  LET read == RidsWithinBox(rids, box)
             rows == RowsInBox(box, Range(rids))
         IN /\ read.bits \subseteq PlacesOfRows(box, rows)
            /\ read.ok = ~ Outside(box, Range(rids))
            /\ IsFiniteSet(rows)
            /\ read.ok => read.bits = PlacesOfRows(box, rows) /\ read.count = Cardinality(rows)
<1> DEFINE outside == {i \in DOMAIN rids : ~ InBox(rids[i], box)}
           stops == Len(box.destcount) = 3 /\ outside # {}
           taken == {i \in DOMAIN rids \ outside : stops => i < Min(outside)}
           inside == DOMAIN rids \ outside
           read == RidsWithinBox(rids, box)
           rows == RowsInBox(box, Range(rids))
<1>1. /\ read.ok = ~ stops /\ read.bits = {RidInBox(rids[i], box) : i \in taken}
      /\ read.count = IF stops THEN 0 ELSE Cardinality(taken)
  BY DEF RidsWithinBox
<1>2. taken \subseteq inside /\ (~ stops => taken = inside)
  OBVIOUS
<1>3. rows = {rids[i] : i \in inside}
  BY DEF RowsInBox, Range
<1>4. outside # {} <=> \E r \in Range(rids) : ~ InBox(r, box)
  BY DEF Range
<1>5. IsFiniteSet(inside) /\ \A y, z \in inside : rids[y] = rids[z] => y = z
  <2>1. inside \subseteq 1 .. n
    OBVIOUS
  <2>2. IsFiniteSet(1 .. n)
    BY 1 \in Int, n \in Int, FS_Interval
  <2>3. IsFiniteSet(inside)
    BY ONLY <2>1, <2>2, FS_Subset
  <2> QED BY <2>1, <2>3
<1> HIDE DEF inside, read
<1>6. IsFiniteSet({rids[y] : y \in inside}) /\ Cardinality({rids[y] : y \in inside}) = Cardinality(inside)
  BY ONLY <1>5, ImageCount
<1>7. {RidInBox(rids[i], box) : i \in inside} = PlacesOfRows(box, rows)
  BY <1>3 DEF PlacesOfRows
<1> HIDE DEF taken, stops, rows
<1>8. read.bits \subseteq {RidInBox(rids[i], box) : i \in inside}
  BY <1>1, <1>2
<1>9. ~ stops => read.bits = PlacesOfRows(box, rows) /\ read.count = Cardinality(rows)
  BY <1>1, <1>2, <1>3, <1>6, <1>7
<1>10. stops \in BOOLEAN /\ stops = Outside(box, Range(rids))
  BY <1>4 DEF stops, Outside
<1> QED BY <1>1, <1>3, <1>6, <1>7, <1>8, <1>9, <1>10 DEF read, rows

\* The batches of a list hold the rows of its bin.
LEMMA BatchRows ==
  ASSUME NEW p, NEW f, NEW x, NEW lo, NEW hi, NEW box, BoxRead(p, f, x, lo, hi, box),
         NEW b \in lo .. hi
  PROVE  LET c == BatchCount(Len(p[b]))
             rows(k) == Range(SumsOf(x[b].batches[k]))
         IN /\ \A k \in 1 .. c : rows(k) \subseteq Range(p[b])
            /\ \A r \in Range(p[b]) : \E k \in 1 .. c : r \in rows(k)
<1> DEFINE rids == p[b]
           c == BatchCount(Len(rids))
<1>1. /\ Distinct(rids) /\ Len(rids) # 0
      /\ \A k \in 1 .. c : SumsOf(x[b].batches[k]) = BatchRids(rids, k)
  BY ListOfBin
<1> HIDE DEF rids
<1>2. UNION {Range(BatchRids(rids, k)) : k \in 1 .. c} = Range(rids)
  BY <1>1, BatchesCover
<1> QED BY <1>1, <1>2 DEF rids

\* The counts in the lists.
ListCounts(lists) == [l \in DOMAIN lists |-> lists[l].count]

\* The rows of consecutive bins are as many as their lists count.
LEMMA RowsCounted ==
  ASSUME NEW p, NEW f, NEW x, NEW lo, NEW hi, NEW box, BoxRead(p, f, x, lo, hi, box)
  PROVE  LET lists == SubSeq(x, lo, hi)
         IN /\ IsFiniteSet(BinRows(p, lo, hi))
            /\ SumOf(ListCounts(lists)) = Cardinality(BinRows(p, lo, hi))
<1> DEFINE m == hi - lo + 1
           lists == SubSeq(x, lo, hi)
           s == ListCounts(lists)
           A == [l \in 1 .. m |-> Range(p[lo + l - 1])]
<1>1. /\ f \in {PFD, Expansion} /\ Holding(p, 0, f, x) /\ lo \in DOMAIN p /\ hi \in DOMAIN p
      /\ lo <= hi /\ Narrow(p, f, lo, hi)
  BY DEF BoxRead
<1>2. /\ m \in Nat \ {0} /\ lo \in Int /\ hi \in Int
      /\ \A l \in 1 .. m : lo + l - 1 \in lo .. hi /\ lists[l] = x[lo + l - 1]
  BY <1>1, ListsRange
<1>3. DOMAIN lists = 1 .. m
  BY <1>2
<1>4. ASSUME NEW b \in lo .. hi
      PROVE  x[b].count = Cardinality(Range(p[b])) /\ IsFiniteSet(Range(p[b]))
  <2>1. x[b].count = Len(p[b]) /\ Rising(p[b])
    BY ListOfBin
  <2> QED BY <2>1, RisingCount
<1> HIDE DEF m, lists
<1>5. Len(s) = m /\ \A l \in 1 .. m : s[l] = x[lo + l - 1].count
  BY <1>2, <1>3 DEF ListCounts
<1>6. \A l \in 1 .. m : A[l] = Range(p[lo + l - 1])
  OBVIOUS
<1> HIDE DEF s, A
<1>7. \A l \in 1 .. m : IsFiniteSet(A[l]) /\ s[l] = Cardinality(A[l])
  BY <1>2, <1>4, <1>5, <1>6
<1>8. \A a, b \in lo .. hi : a # b => Range(p[a]) \cap Range(p[b]) = {}
  BY RowsOfBins
<1>9. \A j, k \in 1 .. m : j # k => A[j] \cap A[k] = {}
  <2> SUFFICES ASSUME NEW j \in 1 .. m, NEW k \in 1 .. m, j # k PROVE A[j] \cap A[k] = {}
    OBVIOUS
  <2>1. lo + j - 1 \in lo .. hi /\ lo + k - 1 \in lo .. hi /\ lo + j - 1 # lo + k - 1
    BY <1>2
  <2> QED BY <1>6, <1>8, <2>1
<1>10. IsFiniteSet(UNION {A[k] : k \in 1 .. m}) /\ SumOf(s) = Cardinality(UNION {A[k] : k \in 1 .. m})
  <2>1. m \in Nat
    BY <1>2
  <2>2. Len(s) = m
    BY <1>5
  <2>3. Counted(s, A, m)
    BY <1>7, <1>9, <2>2 DEF Counted
  <2> QED BY ONLY <2>1, <2>3, SumOfDisjoint
<1>11. UNION {A[k] : k \in 1 .. m} = BinRows(p, lo, hi)
  <2>1. ASSUME NEW b \in lo .. hi PROVE b - lo + 1 \in 1 .. m /\ A[b - lo + 1] = Range(p[b])
    <3>1. b - lo + 1 \in 1 .. m /\ lo + (b - lo + 1) - 1 = b
      BY <1>2 DEF m
    <3> QED BY <1>6, <3>1
  <2>2. \A l \in 1 .. m : lo + l - 1 \in lo .. hi /\ A[l] = Range(p[lo + l - 1])
    BY <1>2, <1>6
  <2> QED BY <2>1, <2>2 DEF BinRows
<1> QED BY <1>10, <1>11 DEF s, lists

\* The two readers of selection boxes.
WholeRead(lists, box) == decode_rids_to_selbox(TRUE, lists, box)
CheckedRead(lists, box) == decode_rids_to_selbox(FALSE, lists, box)

\* A region that lies in the box is read whole.
LEMMA ContainedRead ==
  ASSUME NEW p, NEW f, NEW x, NEW lo, NEW hi, NEW box, BoxRead(p, f, x, lo, hi, box), Contained(box)
  PROVE  LET read == WholeRead(SubSeq(x, lo, hi), box)
         IN /\ read.bits = Selected(box, BinRows(p, lo, hi))
            /\ read.count = Cardinality(read.bits)
<1> DEFINE m == hi - lo + 1
           lists == SubSeq(x, lo, hi)
           rr == BinRids(p, 0, lo, hi)
           rows == BinRows(p, lo, hi)
           X == BatchSet(lists, m)
           read == WholeRead(lists, box)
<1>1. /\ f \in {PFD, Expansion} /\ Holding(p, 0, f, x) /\ lo \in DOMAIN p /\ hi \in DOMAIN p
      /\ lo <= hi /\ Narrow(p, f, lo, hi) /\ IsBox(box)
  BY DEF BoxRead
<1>2. /\ m \in Nat \ {0} /\ lo \in Int /\ hi \in Int /\ ListsOf(f, lists, rr, m)
      /\ \A l \in 1 .. m : /\ lo + l - 1 \in lo .. hi /\ lists[l] = x[lo + l - 1]
                           /\ rr[l] = MovedBy(p[lo + l - 1], 0)
  BY <1>1, ListsRange
<1>3. DOMAIN lists = 1 .. m
  BY <1>2
<1> HIDE DEF lists, rr, m, rows, read
\* The batches of all lists hold the rows.
<1>4. /\ \A l \in 1 .. m : /\ lists[l].batches \in Seq(X)
                           /\ DOMAIN lists[l].batches = 1 .. BatchCount(Len(rr[l]))
      /\ \A b \in X : \E l \in 1 .. m : \E k \in 1 .. BatchCount(Len(rr[l])) : b = lists[l].batches[k]
      /\ \A l \in 1 .. m : \A k \in 1 .. BatchCount(Len(rr[l])) : lists[l].batches[k] \in X
  BY <1>2, ListsTyped
<1>5. \A l \in 1 .. m : rr[l] = p[lo + l - 1]
  <2>1. \A b \in lo .. hi : p[b] = MovedBy(p[b], 0)
    BY ListOfBin
  <2> QED BY <1>2, <2>1
<1> HIDE DEF X
<1>6. Range(BatchesOf(lists)) = X
  <2> DEFINE ss == [l \in DOMAIN lists |-> lists[l].batches]
  <2>1. Len(ss) = m /\ \A l \in 1 .. m : ss[l] = lists[l].batches
    BY <1>2, <1>3
  <2>2. BatchesOf(lists) = FlattenSeq(ss)
    BY DEF BatchesOf
  <2> HIDE DEF ss
  <2>3. \A l \in 1 .. m : ss[l] \in Seq(X)
    BY <1>4, <2>1
  <2>4. m \in Nat \ {0} /\ Len(ss) = m
    BY <1>2, <2>1
  <2>5. Range(FlattenSeq(ss)) = UNION {Range(ss[l]) : l \in 1 .. m}
    BY ONLY <2>3, <2>4, FlattenRange
  <2>6. UNION {Range(ss[l]) : l \in 1 .. m} = X
    BY <2>1 DEF X, BatchSet
  <2> QED BY <2>2, <2>5, <2>6
<1>7. UNION {Range(SumsOf(b)) : b \in X} = rows
  <2>1. ASSUME NEW b \in X PROVE Range(SumsOf(b)) \subseteq rows
    <3>1. PICK l \in 1 .. m : \E k \in 1 .. BatchCount(Len(rr[l])) : b = lists[l].batches[k]
      BY <1>4
    <3>2. PICK k \in 1 .. BatchCount(Len(rr[l])) : b = lists[l].batches[k]
      BY <3>1
    <3> DEFINE a == lo + l - 1
    <3>3. a \in lo .. hi /\ b = x[a].batches[k] /\ k \in 1 .. BatchCount(Len(p[a]))
      BY <1>2, <1>5, <3>2
    <3> HIDE DEF a
    <3>4. Range(SumsOf(b)) \subseteq Range(p[a])
      BY <3>3, BatchRows
    <3> QED BY <3>3, <3>4 DEF rows, BinRows
  <2>2. ASSUME NEW r \in rows PROVE \E b \in X : r \in Range(SumsOf(b))
    <3>1. PICK a \in lo .. hi : r \in Range(p[a])
      BY DEF rows, BinRows
    <3>2. PICK k \in 1 .. BatchCount(Len(p[a])) : r \in Range(SumsOf(x[a].batches[k]))
      BY <3>1, BatchRows
    <3> DEFINE l == a - lo + 1
    <3>3. l \in 1 .. m /\ lo + l - 1 = a
      BY <1>2 DEF m
    <3> HIDE DEF l
    <3>4. x[a].batches[k] = lists[l].batches[k] /\ k \in 1 .. BatchCount(Len(rr[l]))
      BY <1>2, <1>5, <3>3
    <3>5. lists[l].batches[k] \in X
      BY <1>4, <3>3, <3>4
    <3> QED BY <3>2, <3>4, <3>5
  <2> QED BY <2>1, <2>2
<1>8. read.bits = {RidInBox(r, box) : r \in rows}
  <2>1. read.bits = UNION {{RidInBox(r, box) : r \in Range(SumsOf(b))} : b \in X}
    BY <1>6 DEF read, WholeRead, decode_rids_to_selbox, batch_decode_within_selbox_without_checking
  <2> QED BY <1>7, <2>1
<1>9. read.count = Cardinality(rows) /\ IsFiniteSet(rows)
  <2>1. read.count = SumOf(ListCounts(lists))
    BY DEF read, WholeRead, decode_rids_to_selbox, ListCounts
  <2>2. IsFiniteSet(rows) /\ SumOf(ListCounts(lists)) = Cardinality(rows)
    BY RowsCounted DEF lists, rows
  <2> QED BY <2>1, <2>2
<1>10. rows \subseteq 0 .. RegionSize(box) - 1
  BY RowsOfBins DEF rows
<1>11. rows = {r \in rows : InBox(r, box)}
  BY <1>1, <1>10, ContainedRows
<1>12. Selected(box, rows) = {RidInBox(r, box) : r \in rows} /\ Cardinality(Selected(box, rows)) = Cardinality(rows)
  BY ONLY <1>1, <1>9, <1>10, <1>11, PlacesCount
<1> QED BY <1>8, <1>9, <1>12 DEF read, lists, rows


\* The batches of a list, read with checks.
PiecesRead(list, box) ==
  [k \in DOMAIN list.batches |-> batch_decode_within_selbox_with_checking(list.batches[k], box)]

\* What they count.
PieceCounts(read) == [k \in DOMAIN read |-> read[k].count]

\* What a batch that is read with checks gives.
LEMMA PieceRead ==
  ASSUME NEW p, NEW f, NEW x, NEW lo, NEW hi, NEW box, BoxRead(p, f, x, lo, hi, box),
         NEW b \in lo .. hi, NEW k \in 1 .. BatchCount(Len(p[b]))
  PROVE  LET read == PiecesRead(x[b], box)
             piece == Range(BatchRids(p[b], k))
             rows == RowsInBox(box, piece)
         IN /\ DOMAIN read = 1 .. BatchCount(Len(p[b]))
            /\ piece \subseteq Range(p[b])
            /\ read[k].bits \subseteq PlacesOfRows(box, rows)
            /\ read[k].ok = ~ Outside(box, piece)
            /\ IsFiniteSet(rows)
            /\ read[k].ok => read[k].bits = PlacesOfRows(box, rows) /\ read[k].count = Cardinality(rows)
<1> DEFINE rids == p[b]
           s == BatchRids(rids, k)
           n == Len(s)
           c == BatchCount(Len(rids))
<1>1. /\ Rising(rids) /\ Distinct(rids) /\ Len(rids) # 0
      /\ DOMAIN x[b].batches = 1 .. c /\ SumsOf(x[b].batches[k]) = s
  BY ListOfBin
<1>2. PiecesRead(x[b], box)[k] = RidsWithinBox(s, box) /\ DOMAIN PiecesRead(x[b], box) = 1 .. c
  BY <1>1 DEF PiecesRead, batch_decode_within_selbox_with_checking
<1>3. k \in 1 .. c
  OBVIOUS
<1> HIDE DEF rids
<1>4. Distinct(s) /\ n \in 1 .. BatchSize
  BY <1>1, <1>3, BatchPieces
<1>5. n \in Nat /\ DOMAIN s = 1 .. n
  BY <1>4, TypedRids
<1>6. \A i, j \in 1 .. n : s[i] = s[j] => i = j
  BY <1>1, <1>3, PiecesApart
<1>7. UNION {Range(BatchRids(rids, j)) : j \in 1 .. c} = Range(rids)
  BY <1>1, BatchesCover
<1>8. Range(s) \subseteq Range(rids)
  BY <1>3, <1>7
<1> DEFINE read == RidsWithinBox(s, box)
           rows == RowsInBox(box, Range(s))
<1> HIDE DEF s, n
<1>9. /\ read.bits \subseteq PlacesOfRows(box, rows)
      /\ read.ok = ~ Outside(box, Range(s))
      /\ IsFiniteSet(rows)
      /\ read.ok => read.bits = PlacesOfRows(box, rows) /\ read.count = Cardinality(rows)
  BY ONLY <1>5, <1>6, WithinBox
<1> QED BY <1>2, <1>8, <1>9 DEF s, rids

\* Whether the reader with checks gives up.
GivesUp(lo, hi, box, rows) ==
  lo < hi \/ Outside(box, rows)

\* When all batches are read, they are read exactly.
LEMMA PiecesExact ==
  ASSUME NEW p, NEW f, NEW x, NEW lo, NEW hi, NEW box, BoxRead(p, f, x, lo, hi, box),
         NEW b \in lo .. hi, ~ Outside(box, Range(p[b]))
  PROVE  LET read == PiecesRead(x[b], box)
             rows == RowsInBox(box, Range(p[b]))
         IN /\ \A k \in DOMAIN read : read[k].ok
            /\ IsFiniteSet(rows)
            /\ UNION {read[k].bits : k \in DOMAIN read} = PlacesOfRows(box, rows)
            /\ SumOf(PieceCounts(read)) = Cardinality(rows)
<1> DEFINE rids == p[b]
           c == BatchCount(Len(rids))
           read == PiecesRead(x[b], box)
           piece(k) == Range(BatchRids(rids, k))
           A == [k \in 1 .. c |-> RowsInBox(box, piece(k))]
           s == PieceCounts(read)
           rows == RowsInBox(box, Range(rids))
<1>1. Rising(rids) /\ Distinct(rids) /\ Len(rids) # 0 /\ c \in Nat \ {0}
  BY ListOfBin
<1>2. ASSUME NEW k \in 1 .. c
      PROVE  /\ DOMAIN read = 1 .. c /\ piece(k) \subseteq Range(rids) /\ read[k].ok
             /\ IsFiniteSet(A[k]) /\ read[k].bits = PlacesOfRows(box, A[k])
             /\ read[k].count = Cardinality(A[k])
  <2>1. /\ DOMAIN read = 1 .. c /\ piece(k) \subseteq Range(rids)
        /\ read[k].ok = ~ Outside(box, piece(k))
        /\ IsFiniteSet(RowsInBox(box, piece(k)))
        /\ read[k].ok => /\ read[k].bits = PlacesOfRows(box, RowsInBox(box, piece(k)))
                         /\ read[k].count = Cardinality(RowsInBox(box, piece(k)))
    BY PieceRead
  <2>2. A[k] = RowsInBox(box, piece(k))
    OBVIOUS
  <2> HIDE DEF A, read, piece
  <2>3. read[k].ok
    BY <2>1 DEF Outside
  <2> QED BY <2>1, <2>2, <2>3
<1>3. DOMAIN read = 1 .. c
  BY <1>1, <1>2
<1>4. UNION {piece(k) : k \in 1 .. c} = Range(rids)
  <2> HIDE DEF rids
  <2> QED BY <1>1, BatchesCover
<1>5. UNION {A[k] : k \in 1 .. c} = rows
  <2>1. \A k \in 1 .. c : A[k] = {r \in piece(k) : InBox(r, box)}
    BY DEF RowsInBox
  <2> HIDE DEF A, piece
  <2> QED BY <1>4, <2>1 DEF RowsInBox
<1>6. \A j, k \in 1 .. c : j # k => A[j] \cap A[k] = {}
  <2> SUFFICES ASSUME NEW j \in 1 .. c, NEW k \in 1 .. c, NEW r \in A[j], r \in A[k] PROVE j = k
    OBVIOUS
  <2>1. r \in piece(j) /\ r \in piece(k)
    BY DEF RowsInBox
  <2> HIDE DEF rids
  <2>2. ASSUME NEW i \in 1 .. c
        PROVE  DOMAIN BatchRids(rids, i) = 1 .. Len(BatchRids(rids, i))
    BY <1>1, BatchPieces, TypedRids
  <2>3. PICK g \in 1 .. Len(BatchRids(rids, j)) : r = BatchRids(rids, j)[g]
    BY <2>1, <2>2 DEF Range
  <2>4. PICK i \in 1 .. Len(BatchRids(rids, k)) : r = BatchRids(rids, k)[i]
    BY <2>1, <2>2 DEF Range
  <2> QED BY <1>1, <2>3, <2>4, PiecesApart
<1>7. DOMAIN s = 1 .. c /\ \A k \in 1 .. c : s[k] = Cardinality(A[k])
  BY <1>2, <1>3 DEF PieceCounts
<1>8. Len(s) = c
  BY <1>1, <1>7
<1> HIDE DEF A, s, read, piece, rows, c
<1>9. Counted(s, A, c)
  BY <1>2, <1>6, <1>7, <1>8 DEF Counted
<1>10. IsFiniteSet(rows) /\ SumOf(s) = Cardinality(rows)
  <2>1. c \in Nat
    BY <1>1
  <2>2. /\ IsFiniteSet(UNION {A[k] : k \in 1 .. c})
        /\ SumOf(s) = Cardinality(UNION {A[k] : k \in 1 .. c})
    BY ONLY <1>9, <2>1, SumOfDisjoint
  <2> QED BY <1>5, <2>2
<1>11. UNION {read[k].bits : k \in DOMAIN read} = PlacesOfRows(box, rows)
  <2>1. {read[k].bits : k \in DOMAIN read} = {PlacesOfRows(box, A[k]) : k \in 1 .. c}
    BY <1>2, <1>3
  <2>2. UNION {PlacesOfRows(box, A[k]) : k \in 1 .. c} = PlacesOfRows(box, UNION {A[k] : k \in 1 .. c})
    BY DEF PlacesOfRows
  <2> QED BY <1>5, <2>1, <2>2
<1> QED BY <1>2, <1>3, <1>10, <1>11 DEF read, rows, s

\* What the reader with checks returns.
LEMMA IntersectedRead ==
  ASSUME NEW p, NEW f, NEW x, NEW lo, NEW hi, NEW box, BoxRead(p, f, x, lo, hi, box)
  PROVE  LET read == CheckedRead(SubSeq(x, lo, hi), box)
             rows == BinRows(p, lo, hi)
         IN IF GivesUp(lo, hi, box, rows)
            THEN read.count = 0 /\ read.bits \subseteq Selected(box, rows)
            ELSE read.bits = Selected(box, rows) /\ read.count = Cardinality(read.bits)
<1> DEFINE m == hi - lo + 1
           lists == SubSeq(x, lo, hi)
           rows == BinRows(p, lo, hi)
           here == Range(p[lo])
           c == BatchCount(Len(p[lo]))
           parts == PiecesRead(x[lo], box)
           failed == {k \in DOMAIN parts : ~ parts[k].ok}
           done == {k \in DOMAIN parts : \A g \in failed : k <= g}
           read == CheckedRead(lists, box)
<1>1. /\ f \in {PFD, Expansion} /\ Holding(p, 0, f, x) /\ lo \in DOMAIN p /\ hi \in DOMAIN p
      /\ lo <= hi /\ Narrow(p, f, lo, hi) /\ IsBox(box)
  BY DEF BoxRead
<1>2. /\ m \in Nat \ {0} /\ lo \in Int /\ hi \in Int
      /\ \A l \in 1 .. m : lists[l] = x[lo + l - 1]
  BY <1>1, ListsRange
<1>3. Len(lists) = m /\ lists[1] = x[lo] /\ lo \in lo .. hi /\ (m = 1 <=> ~ (lo < hi))
  <2>1. lists[1] = x[lo + 1 - 1] /\ lo + 1 - 1 = lo
    BY <1>2
  <2>2. Len(lists) = m /\ lo \in lo .. hi /\ (m = 1 <=> ~ (lo < hi))
    BY <1>1, <1>2
  <2> QED BY <2>1, <2>2
<1>4. /\ read.count = IF failed = {} /\ m = 1
                      THEN SumOf(PieceCounts(parts)) ELSE 0
      /\ read.bits = UNION {parts[k].bits : k \in done}
  <2> HIDE DEF lists
  <2>1. read = UpToFailure(parts, m = 1)
    BY <1>3 DEF CheckedRead, decode_rids_to_selbox, PiecesRead
  <2> HIDE DEF parts, m, read
  <2> QED BY <2>1 DEF UpToFailure, PieceCounts
<1>5. rows \subseteq 0 .. RegionSize(box) - 1 /\ here \subseteq rows /\ (m = 1 => rows = here)
  <2>1. rows \subseteq 0 .. RegionSize(box) - 1
    BY RowsOfBins
  <2>2. here \subseteq rows
    BY <1>3 DEF BinRows
  <2>3. ASSUME m = 1 PROVE lo .. hi = {lo}
    BY <1>2, <2>3
  <2>4. m = 1 => rows = here
    BY <2>3 DEF BinRows
  <2> QED BY <2>1, <2>2, <2>4
<1>6. Selected(box, rows) = PlacesOfRows(box, RowsInBox(box, rows))
  BY <1>1, <1>5, SelectedPlaces DEF PlacesOfRows, RowsInBox
<1>7. ASSUME NEW k \in DOMAIN parts
      PROVE  /\ parts[k].bits \subseteq Selected(box, rows)
             /\ parts[k].ok = ~ Outside(box, Range(BatchRids(p[lo], k)))
  <2>1. DOMAIN parts = 1 .. c
    BY <1>3, ListOfBin DEF PiecesRead
  <2> DEFINE piece == Range(BatchRids(p[lo], k))
  <2>2. /\ piece \subseteq here /\ parts[k].bits \subseteq PlacesOfRows(box, RowsInBox(box, piece))
        /\ parts[k].ok = ~ Outside(box, piece)
    <3>1. lo \in lo .. hi /\ k \in 1 .. BatchCount(Len(p[lo])) /\ BoxRead(p, f, x, lo, hi, box)
      BY <1>3, <2>1
    <3> QED BY ONLY <3>1, PieceRead
  <2> HIDE DEF piece, parts, here, rows
  <2>3. PlacesOfRows(box, RowsInBox(box, piece)) \subseteq PlacesOfRows(box, RowsInBox(box, rows))
    BY <1>5, <2>2 DEF PlacesOfRows, RowsInBox
  <2> QED BY <1>6, <2>2, <2>3 DEF piece
<1>8. read.bits \subseteq Selected(box, rows)
  <2> HIDE DEF parts, rows, read
  <2> QED BY <1>4, <1>7
<1>9. CASE GivesUp(lo, hi, box, rows)
  <2>1. CASE lo < hi
    BY <1>3, <1>4, <1>8, <1>9, <2>1
  <2>2. CASE ~ (lo < hi)
    <3>1. Outside(box, here)
      BY <1>3, <1>5, <1>9, <2>2 DEF GivesUp
    <3>2. PICK r \in here : ~ InBox(r, box)
      BY <3>1 DEF Outside
    <3>3. DOMAIN parts = 1 .. c
      BY <1>3, ListOfBin DEF PiecesRead
    <3>4. PICK k \in 1 .. c : r \in Range(BatchRids(p[lo], k))
      <4> DEFINE rids == p[lo]
      <4>1. Distinct(rids) /\ Len(rids) # 0
        BY <1>3, ListOfBin
      <4> HIDE DEF rids
      <4>2. UNION {Range(BatchRids(rids, k)) : k \in 1 .. BatchCount(Len(rids))} = Range(rids)
        BY <4>1, BatchesCover
      <4> QED BY <4>2 DEF rids
    <3> HIDE DEF parts
    <3>5. ~ parts[k].ok
      BY <1>7, <3>1, <3>2, <3>3, <3>4 DEF Outside
    <3>6. failed # {}
      BY <3>3, <3>4, <3>5
    <3>7. read.count = 0
      BY <1>4, <3>6
    <3> QED BY <1>8, <1>9, <3>7
  <2> QED BY <2>1, <2>2
<1>10. CASE ~ GivesUp(lo, hi, box, rows)
  <2>1. m = 1 /\ rows = here /\ ~ Outside(box, here)
    BY <1>3, <1>5, <1>10 DEF GivesUp
  <2> DEFINE S == RowsInBox(box, here)
  <2>2. /\ \A k \in DOMAIN parts : parts[k].ok
        /\ IsFiniteSet(S)
        /\ UNION {parts[k].bits : k \in DOMAIN parts} = PlacesOfRows(box, S)
        /\ SumOf(PieceCounts(parts)) = Cardinality(S)
    <3>1. lo \in lo .. hi /\ BoxRead(p, f, x, lo, hi, box) /\ ~ Outside(box, Range(p[lo]))
      BY <1>3, <2>1
    <3> QED BY ONLY <3>1, PiecesExact
  <2> HIDE DEF parts, read, S, here, rows, m
  <2>3. failed = {} /\ done = DOMAIN parts
    BY <2>2
  <2> HIDE DEF done, failed
  <2>4. read.bits = PlacesOfRows(box, S) /\ read.count = Cardinality(S)
    BY <1>4, <2>1, <2>2, <2>3
  <2>5. S = {r \in rows : InBox(r, box)} /\ rows \subseteq 0 .. RegionSize(box) - 1
    BY <1>5, <2>1 DEF S, RowsInBox
  <2>6. Selected(box, rows) = {RidInBox(r, box) : r \in S} /\ Cardinality(Selected(box, rows)) = Cardinality(S)
    BY ONLY <1>1, <2>2, <2>5, PlacesCount
  <2>7. read.bits = Selected(box, rows) /\ read.count = Cardinality(read.bits)
    BY <2>4, <2>6 DEF PlacesOfRows
  <2> QED BY <1>10, <2>7 DEF read, rows
<1> QED BY <1>9, <1>10


\* The property of selection boxes, for an index and an answer.
BoxesKept(p, s, f, a) ==
  a.op \in {"contained", "intersected"} /\ Narrow(p, f, a.from, a.to) =>
    LET box == a.rids[1]
        rids == Range(FlattenSeq(BinRids(p, s, a.from, a.to)))
    IN IF a.op = "intersected" /\ GivesUp(a.from, a.to, box, rids)
       THEN a.count = 0 /\ a.bits \subseteq Selected(box, rids)
       ELSE a.bits = Selected(box, rids) /\ a.count = Cardinality(a.bits)

\* The property of the run, as a relation of its variables.
LEMMA BoxesKeptIs == SelectionBoxAnswers <=> BoxesKept(original, shift, form, answer)
BY DEF SelectionBoxAnswers, BoxesKept, NoneTooWide, TooWide, Narrow, Wide, MovedRids, Moved,
       BinRids, MovedBy, GivesUp, Outside

\* What a decoder of selection boxes answers.
LEMMA BoxAnswers ==
  ASSUME NEW contained \in BOOLEAN, NEW lo, NEW hi, NEW box, NEW op,
         op = IF contained THEN "contained" ELSE "intersected",
         NEW read, read = decode_rids_to_selbox(contained, Lists(lo, hi), box),
         ALDecompressRIDtoSelBox(contained, lo, hi, box)
  PROVE  /\ answer'.op = op /\ answer'.from = lo /\ answer'.to = hi
         /\ answer'.rids = <<box>> /\ answer'.bits = read.bits /\ answer'.count = read.count
         /\ form \in {PFD, Expansion} /\ shift = 0 /\ AllRids = 0 .. RegionSize(box) - 1
         /\ contained => Contained(box)
<1>1. answer' = [NoAnswer EXCEPT !.op = op, !.from = lo, !.to = hi, !.rids = <<box>>,
                   !.bits = read.bits, !.count = read.count]
  BY DEF ALDecompressRIDtoSelBox
<1>2. /\ form \in {PFD, Expansion} /\ shift = 0 /\ AllRids = 0 .. RegionSize(box) - 1
      /\ contained => Contained(box)
  BY DEF ALDecompressRIDtoSelBox
<1> QED BY <1>1, <1>2 DEF NoAnswer

\* A step answers with the places of the rows or keeps an answer of an index
\* that has not changed.
LEMMA BoxesKeptNext ==
  ASSUME IndexInv, BoxesKept(original, shift, form, answer), [Next]_vars
  PROVE  BoxesKept(original, shift, form, answer)'
<1>1. CASE Change
  BY <1>1, ChangesForget DEF BoxesKept
<1>2. CASE UNCHANGED vars
  BY <1>2 DEF vars, BoxesKept
<1>3. CASE Read
  <2>1. original' = original /\ shift' = shift /\ form' = form /\ index' = index
    BY <1>3, ReadsLeave
  <2> SUFFICES ASSUME answer'.op \in {"contained", "intersected"},
                      Narrow(original, form, answer'.from, answer'.to)
               PROVE  LET box == answer'.rids[1]
                          rids == Range(FlattenSeq(BinRids(original, shift, answer'.from, answer'.to)))
                      IN IF answer'.op = "intersected" /\ GivesUp(answer'.from, answer'.to, box, rids)
                         THEN answer'.count = 0 /\ answer'.bits \subseteq Selected(box, rids)
                         ELSE answer'.bits = Selected(box, rids)
                              /\ answer'.count = Cardinality(answer'.bits)
    BY <2>1 DEF BoxesKept
  <2>2. PICK lo, hi \in Bins :
          lo <= hi /\ \E contained \in BOOLEAN, box \in Boxes :
                        ALDecompressRIDtoSelBox(contained, lo, hi, box)
    BY <1>3, ReadAnswers
  <2>3. PICK contained \in BOOLEAN, box \in Boxes : ALDecompressRIDtoSelBox(contained, lo, hi, box)
    BY <2>2
  <2> DEFINE op == IF contained THEN "contained" ELSE "intersected"
             read == decode_rids_to_selbox(contained, Lists(lo, hi), box)
             rows == BinRows(original, lo, hi)
  <2>4. /\ answer'.op = op /\ answer'.from = lo /\ answer'.to = hi
        /\ answer'.rids[1] = box /\ answer'.bits = read.bits /\ answer'.count = read.count
        /\ form \in {PFD, Expansion} /\ shift = 0 /\ AllRids = 0 .. RegionSize(box) - 1
        /\ contained => Contained(box)
    <3>1. answer'.rids = <<box>> => answer'.rids[1] = box
      OBVIOUS
    <3> DEFINE dest == answer'.rids[1]
    <3> HIDE DEF op, read, dest
    <3> QED BY <2>3, <3>1, BoxAnswers DEF op, read, dest
  <2>5. BoxRead(original, form, index, lo, hi, box)
    <3>1. Holding(original, 0, form, index)
      <4>1. form \in CompressedForms
        BY <2>4, FormsDiffer
      <4>2. Holding(original, shift, form, index)
        BY <4>1, IndexHolds
      <4> QED BY <2>4, <4>2
    <3>2. IsBox(box)
      BY IndexAssumption
    <3>3. UNION {Range(original[b]) : b \in DOMAIN original} = 0 .. RegionSize(box) - 1
      BY <2>4 DEF AllRids, Bins
    <3>4. lo \in DOMAIN original /\ hi \in DOMAIN original /\ lo <= hi
          /\ Narrow(original, form, lo, hi)
      BY <2>2, <2>4 DEF Bins
    <3> QED BY <2>4, <3>1, <3>2, <3>3, <3>4 DEF BoxRead
  <2>6. Range(FlattenSeq(BinRids(original, shift, lo, hi))) = rows
    BY <2>4, <2>5, RowsOfBins
  <2> HIDE DEF rows
  <2>7. CASE contained
    <3>1. read = WholeRead(SubSeq(index, lo, hi), box)
      BY <2>7 DEF Lists, WholeRead
    <3>2. op = "contained"
      BY <2>7
    <3> HIDE DEF read, op
    <3>3. read.bits = Selected(box, rows) /\ read.count = Cardinality(read.bits)
      <4>1. Contained(box)
        BY <2>4, <2>7
      <4> DEFINE out == WholeRead(SubSeq(index, lo, hi), box)
      <4>2. /\ out.bits = Selected(box, BinRows(original, lo, hi))
            /\ out.count = Cardinality(out.bits)
        BY ONLY <2>5, <4>1, ContainedRead
      <4> QED BY <3>1, <4>2 DEF rows
    <3> QED BY <2>4, <2>6, <3>2, <3>3
  <2>8. CASE ~ contained
    <3>1. read = CheckedRead(SubSeq(index, lo, hi), box)
      BY <2>8 DEF Lists, CheckedRead
    <3>2. op = "intersected"
      BY <2>8
    <3> HIDE DEF read, op
    <3>3. IF GivesUp(lo, hi, box, rows)
          THEN read.count = 0 /\ read.bits \subseteq Selected(box, rows)
          ELSE read.bits = Selected(box, rows) /\ read.count = Cardinality(read.bits)
      <4> DEFINE out == CheckedRead(SubSeq(index, lo, hi), box)
                 here == BinRows(original, lo, hi)
      <4>1. IF GivesUp(lo, hi, box, here)
            THEN out.count = 0 /\ out.bits \subseteq Selected(box, here)
            ELSE out.bits = Selected(box, here) /\ out.count = Cardinality(out.bits)
        BY ONLY <2>5, IntersectedRead
      <4> QED BY <3>1, <4>1 DEF rows
    <3> QED BY <2>4, <2>6, <3>2, <3>3
  <2> QED BY <2>7, <2>8
<1> QED BY <1>1, <1>2, <1>3 DEF Next

\* ALDecompressRIDtoSelBox answers, for every range of bins and every selection
\* box, with the places in the box of exactly the rows of those bins, except
\* where it gives up: then it returns 0, and sets no other bit.
THEOREM SelectionBoxesAreRead == Spec => []SelectionBoxAnswers
<1>1. Init => BoxesKept(original, shift, form, answer)
  BY DEF Init, NoAnswer, BoxesKept
<1>2. IndexInv /\ BoxesKept(original, shift, form, answer) /\ [Next]_vars
        => BoxesKept(original, shift, form, answer)'
  BY BoxesKeptNext
<1> QED BY <1>1, <1>2, IndexInvariant, BoxesKeptIs, PTL DEF Spec

===============================================================================
