---------------------------- MODULE FixedLengthCode ----------------------------
(***************************************************************************)
(* Fixed-length packing of one batch of RID differences: element i of      *)
(* width w takes the bits i * w up to i * w + w - 1 of a stream of words   *)
(* (src/ridcompress/gen_fixedlengthcode.cpp, where one unrolled function   *)
(* for every width writes a word, or reads an element, on each line).      *)
(*                                                                         *)
(* As in DatumBits an unsigned integer is the set of its bits that are 1.  *)
(***************************************************************************)
EXTENDS Integers

CONSTANTS
  BatchSize,   \* kBatchSize: 128
  WordBits,    \* bits of a word of the buffer: 64
  RidBits      \* bits of a RID or a difference, and the largest width: 32

ASSUME PackingAssumption ==
  /\ BatchSize \in Nat \ {0} /\ WordBits \in Nat \ {0} /\ RidBits \in Nat \ {0}
  /\ BatchSize % WordBits = 0   \* a packed batch ends with a word

Elements == 0 .. BatchSize - 1
Widths == 1 .. RidBits

\* The bits a value of width w may have, and the words of a packed batch.
BitsOfWidth(w) == 0 .. w - 1
Words(w) == 0 .. (BatchSize \div WordBits) * w - 1

\* Bit b of word k is bit p of the stream.
Position(k, b) == k * WordBits + b

\* Element i is or-ed into word k, shifted and not masked.
InWord(w, i, k) == i * w < (k + 1) * WordBits /\ k * WordBits < (i + 1) * w

Pack(w, data) ==
  [k \in Words(w) |->
     {b \in 0 .. WordBits - 1 :
        \E i \in Elements : InWord(w, i, k) /\ Position(k, b) - i * w \in data[i]}]

Unpack(w, buffer) ==
  [i \in Elements |->
     {j \in BitsOfWidth(w) :
        (i * w + j) % WordBits \in buffer[(i * w + j) \div WordBits]}]

\* The conjunction of all elements has no bit beyond the width.
Fits(w, data) == \A i \in Elements : data[i] \subseteq BitsOfWidth(w)
===============================================================================
