------------------------------- MODULE PFORBatch -------------------------------
(***************************************************************************)
(* One batch of a compressed RID list: up to BatchSize RIDs as a frame of  *)
(* reference and differences, packed at a fixed width with the larger      *)
(* differences kept apart as exceptions, or as runs of consecutive RIDs    *)
(* (src/ridcompress/patchedframeofreference.cpp).                          *)
(*                                                                         *)
(* A batch is its header and what follows the header: the bits that are 1  *)
(* of a stream of packed words with the exceptions at its end (body), or   *)
(* the numbers of ones and zeros of a batch of runs (ones, zeros).         *)
(***************************************************************************)
EXTENDS FixedLengthFunctions, SequencesExt

CONSTANTS
  ByteBits,    \* bits of a byte: 8
  WordBytes    \* sizeof(uint64_t): 8, the size of a word and of the header

ASSUME BatchAssumption ==
  /\ ByteBits \in Nat \ {0} /\ WordBytes \in Nat \ {0}
  /\ WordBits = WordBytes * ByteBits
  /\ RidBits = 4 * ByteBits   \* a RID is a uint32_t
  /\ RidBits <= 32            \* the generated functions go up to this width

\* 1 << n, the sum of a sequence, and the members of a set of positions in their
\* order, in forms that can be reasoned about.
Power[n \in 0 .. RidBits] == IF n = 0 THEN 1 ELSE 2 * Power[n - 1]
SumOf(s) ==
  LET sum[k \in 0 .. Len(s)] == IF k = 0 THEN 0 ELSE sum[k - 1] + s[k] IN sum[Len(s)]
Rank(ps, i) == Cardinality({h \in ps : h <= i})
Ordered(ps) == [k \in 1 .. Cardinality(ps) |-> CHOOSE i \in ps : Rank(ps, i) = k]

RidLimit == Power[RidBits]
BitsOf(n) == {j \in 0 .. RidBits - 1 : (n \div Power[j]) % 2 = 1}
NumberOf(bits) ==
  SumOf([j \in 1 .. RidBits |-> IF j - 1 \in bits THEN Power[j - 1] ELSE 0])

-------------------------------------------------------------------------------
(* Sizes in bytes.                                                         *)
RoundUp(bytes) == ((bytes + WordBytes - 1) \div WordBytes) * WordBytes
PFOR_FIXED_LENGTH_BUFFER_SIZE(w) == (w * BatchSize) \div ByteBits
kSufficientBufferCapacity == WordBytes + BatchSize * (RidBits \div ByteBits) * 2

required_buffer_size(w, exceptions, size) ==
  WordBytes + PFOR_FIXED_LENGTH_BUFFER_SIZE(w) + RoundUp(exceptions * size)

\* The size of a batch in which every difference is an exception.
AsExceptionsSize(n, size) == WordBytes + RoundUp(n * size)

\* Four bytes per exception are reserved for the zeros, whatever their size.
RunsSize(count) == RoundUp(WordBytes + 1 + (count - 1) * (4 + 1))

-------------------------------------------------------------------------------
(* The differences of a batch of RIDs: the first one and those past the    *)
(* end are 0, and they are computed modulo the size of a RID.              *)
Deltas(rids) ==
  [i \in Elements |->
     IF i \in 1 .. Len(rids) - 1 THEN (rids[i + 1] - rids[i]) % RidLimit ELSE 0]

\* get_exception_value_size of the type the encoder chooses for the largest.
ValueSize(deltas) ==
  CASE \A i \in Elements : deltas[i] < Power[ByteBits] -> 1
    [] \E i \in Elements : deltas[i] >= Power[2 * ByteBits] -> 4
    [] OTHER -> 2

ExceptionsAt(deltas, w) == {i \in Elements : deltas[i] >= Power[w]}

SizeAt(deltas, n, w) ==
  IF w = 0 THEN AsExceptionsSize(n, ValueSize(deltas))
  ELSE required_buffer_size(w, Cardinality(ExceptionsAt(deltas, w)), ValueSize(deltas))

\* The narrowest width with the smallest size; 0 stands for exceptions only.
optimal_param(deltas, n) ==
  Min({w \in 0 .. RidBits :
         \A v \in 0 .. RidBits : SizeAt(deltas, n, w) <= SizeAt(deltas, n, v)})

\* A wider width without exceptions is taken when it costs less than 1.6 times
\* the best size.
determine_b_to_expand(deltas, n) ==
  LET best == optimal_param(deltas, n)
      wider == {w \in best + 2 .. RidBits :
                  /\ ExceptionsAt(deltas, w) = {}
                  /\ 10 * SizeAt(deltas, n, w) < 16 * SizeAt(deltas, n, best)}
  IN IF wider = {} THEN best ELSE Min(wider)

-------------------------------------------------------------------------------
(* Exceptions are written backwards from the end of the batch.             *)
BodyBits(batch) == (batch.encoded_size - WordBytes) * ByteBits

encode_as_typed_exceptions(values, size, end) ==
  UNION {{end - k * size * ByteBits + j :
            j \in BitsOf(values[k]) \cap (0 .. size * ByteBits - 1)} : k \in DOMAIN values}

decode_as_typed_exceptions(batch, k) ==
  NumberOf({j \in 0 .. batch.exception_size * ByteBits - 1 :
              BodyBits(batch) - k * batch.exception_size * ByteBits + j \in batch.body})

\* The values of the differences at positions ps, in the order of positions.
ValuesAt(deltas, ps) ==
  LET places == Ordered(ps) IN [k \in DOMAIN places |-> deltas[places[k]]]

Packed(w, deltas) ==
  LET words == fixed_length_encode(w, [i \in Elements |-> BitsOf(deltas[i])])
  IN UNION {{Position(k, b) : b \in words[k]} : k \in Words(w)}

Words64(batch, w) ==
  [k \in Words(w) |-> {b \in 0 .. WordBits - 1 : Position(k, b) \in batch.body}]

-------------------------------------------------------------------------------
(* The header keeps the width minus one, in as many bits as the widths     *)
(* below RidBits need: 0 is read back as RidBits.                          *)
Header_write(w) == (w + RidBits - 1) % RidBits
Header_read(batch) == batch.fixed_length + 1

Batch(frame, n, w, first, size, bytes) ==
  [frame_of_reference |-> frame, significant |-> n, fixed_length |-> Header_write(w),
   first_exception |-> first, exception_size |-> size, encoded_size |-> bytes,
   body |-> {}, ones |-> <<>>, zeros |-> <<>>]

encode_param_new(deltas, n, w, frame) ==
  LET size == ValueSize(deltas)
      es == IF w = 0 THEN 0 .. n - 1 ELSE ExceptionsAt(deltas, w)
      first == IF w = 0 \/ es = {} THEN BatchSize ELSE Min(es)
      batch == Batch(frame, n, w, first, size, SizeAt(deltas, n, w))
      exceptions == encode_as_typed_exceptions(ValuesAt(deltas, es), size, BodyBits(batch))
      packed == IF w = 0 THEN {}
                ELSE Packed(w, [i \in Elements |-> IF i \in es THEN 0 ELSE deltas[i]])
  IN [batch EXCEPT !.body = packed \cup exceptions]

\* Every difference beyond 1 starts a new run; the RID it leads to is in it.
encode_on_b_equal_one(deltas, n, frame) ==
  LET es == {i \in Elements \ {0} : deltas[i] > 1}
      starts == Ordered(es \cup {0})
      count == Len(starts)
      batch == Batch(frame, n, 1, count, ValueSize(deltas), RunsSize(count))
  IN [batch EXCEPT
        !.ones = [k \in 1 .. count |-> IF k < count THEN starts[k + 1] - starts[k]
                                       ELSE (n - 1) - starts[k] + 1],
        !.zeros = [k \in 1 .. count - 1 |-> deltas[starts[k + 1]] - 1]]

encode(rids) ==
  LET ds == Deltas(rids)
  IN encode_param_new(ds, Len(rids), optimal_param(ds, Len(rids)), rids[1])

expand_encode(rids) ==
  LET ds == Deltas(rids)
  IN encode_param_new(ds, Len(rids), determine_b_to_expand(ds, Len(rids)), rids[1])

hybrid_encode(rids) ==
  LET ds == Deltas(rids)
  IN IF optimal_param(ds, Len(rids)) = 1
     THEN encode_on_b_equal_one(ds, Len(rids), rids[1])
     ELSE encode_param_new(ds, Len(rids), optimal_param(ds, Len(rids)), rids[1])

\* The choice of runs is made before the width is expanded.
expand_runlength_encode(rids) ==
  LET ds == Deltas(rids)
  IN IF optimal_param(ds, Len(rids)) = 1
     THEN encode_on_b_equal_one(ds, Len(rids), rids[1])
     ELSE encode_param_new(ds, Len(rids), determine_b_to_expand(ds, Len(rids)), rids[1])
===============================================================================
