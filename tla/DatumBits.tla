------------------------------- MODULE DatumBits -------------------------------
(***************************************************************************)
(* How an element is cut into the high-order bits that choose its bin and  *)
(* the low-order bytes that are stored, and put together again             *)
(* (SPLIT_DATUM_BITS, SET_BUFFER_ELEMENT, GET_BUFFER_ELEMENT and           *)
(* REJOIN_DATUM_BITS of src/src/include/alacrity-util.h).                  *)
(*                                                                         *)
(* An unsigned integer is the set of its bit positions that are 1: "&" is  *)
(* intersection, "|" is union, a shift moves the positions.                *)
(***************************************************************************)
EXTENDS Integers

CONSTANTS
  ElementBits,   \* elementSize << 3
  SigBits,       \* significantBits
  WordBits,      \* bits of low_order_bytes_t, in which both macros compute
  ByteBits       \* bits of a byte

ASSUME BitsAssumption ==
  /\ ElementBits \in Nat /\ SigBits \in Nat /\ WordBits \in Nat
  /\ ByteBits \in Nat \ {0}
  /\ 0 < SigBits /\ SigBits < ElementBits /\ ElementBits <= WordBits

ElementValues == SUBSET (0 .. ElementBits - 1)

InsigBits == ElementBits - SigBits
InsigBytes == (InsigBits + ByteBits - 1) \div ByteBits

\* ~0ULL >> sigbits: reaches beyond the low-order bits of a narrow element.
LowMask == 0 .. WordBits - SigBits - 1

HighBits(x) == {i \in 0 .. SigBits - 1 : i + InsigBits \in x}
LowBits(x) == x \cap LowMask

\* Written to the data buffer as whole bytes, and read into a zeroed word.
StoredBits(low) == low \cap (0 .. InsigBytes * ByteBits - 1)

RejoinBits(high, low) ==
  LET shifted == {i \in InsigBits .. ElementBits - 1 : i - InsigBits \in high}
  IN shifted \cup (low \cap LowMask \cap (0 .. ElementBits - 1))
===============================================================================
