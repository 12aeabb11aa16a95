------------------------- MODULE FixedLengthFunctions --------------------------
(***************************************************************************)
(* The functions of src/ridcompress/gen_fixedlengthcode.cpp by name, each  *)
(* the packing of FixedLengthCode at one width, and the two functions that *)
(* look them up in tables.  Every generated function is a definition of    *)
(* its own here because the file holds a text of its own for each width.   *)
(***************************************************************************)
EXTENDS FixedLengthCode

fixed_length_encode_1(data) == Pack(1, data)
fixed_length_encode_2(data) == Pack(2, data)
fixed_length_encode_3(data) == Pack(3, data)
fixed_length_encode_4(data) == Pack(4, data)
fixed_length_encode_5(data) == Pack(5, data)
fixed_length_encode_6(data) == Pack(6, data)
fixed_length_encode_7(data) == Pack(7, data)
fixed_length_encode_8(data) == Pack(8, data)
fixed_length_encode_9(data) == Pack(9, data)
fixed_length_encode_10(data) == Pack(10, data)
fixed_length_encode_11(data) == Pack(11, data)
fixed_length_encode_12(data) == Pack(12, data)
fixed_length_encode_13(data) == Pack(13, data)
fixed_length_encode_14(data) == Pack(14, data)
fixed_length_encode_15(data) == Pack(15, data)
fixed_length_encode_16(data) == Pack(16, data)
fixed_length_encode_17(data) == Pack(17, data)
fixed_length_encode_18(data) == Pack(18, data)
fixed_length_encode_19(data) == Pack(19, data)
fixed_length_encode_20(data) == Pack(20, data)
fixed_length_encode_21(data) == Pack(21, data)
fixed_length_encode_22(data) == Pack(22, data)
fixed_length_encode_23(data) == Pack(23, data)
fixed_length_encode_24(data) == Pack(24, data)
fixed_length_encode_25(data) == Pack(25, data)
fixed_length_encode_26(data) == Pack(26, data)
fixed_length_encode_27(data) == Pack(27, data)
fixed_length_encode_28(data) == Pack(28, data)
fixed_length_encode_29(data) == Pack(29, data)
fixed_length_encode_30(data) == Pack(30, data)
fixed_length_encode_31(data) == Pack(31, data)
fixed_length_encode_32(data) == Pack(32, data)

fixed_length_decode_1(buffer) == Unpack(1, buffer)
fixed_length_decode_2(buffer) == Unpack(2, buffer)
fixed_length_decode_3(buffer) == Unpack(3, buffer)
fixed_length_decode_4(buffer) == Unpack(4, buffer)
fixed_length_decode_5(buffer) == Unpack(5, buffer)
fixed_length_decode_6(buffer) == Unpack(6, buffer)
fixed_length_decode_7(buffer) == Unpack(7, buffer)
fixed_length_decode_8(buffer) == Unpack(8, buffer)
fixed_length_decode_9(buffer) == Unpack(9, buffer)
fixed_length_decode_10(buffer) == Unpack(10, buffer)
fixed_length_decode_11(buffer) == Unpack(11, buffer)
fixed_length_decode_12(buffer) == Unpack(12, buffer)
fixed_length_decode_13(buffer) == Unpack(13, buffer)
fixed_length_decode_14(buffer) == Unpack(14, buffer)
fixed_length_decode_15(buffer) == Unpack(15, buffer)
fixed_length_decode_16(buffer) == Unpack(16, buffer)
fixed_length_decode_17(buffer) == Unpack(17, buffer)
fixed_length_decode_18(buffer) == Unpack(18, buffer)
fixed_length_decode_19(buffer) == Unpack(19, buffer)
fixed_length_decode_20(buffer) == Unpack(20, buffer)
fixed_length_decode_21(buffer) == Unpack(21, buffer)
fixed_length_decode_22(buffer) == Unpack(22, buffer)
fixed_length_decode_23(buffer) == Unpack(23, buffer)
fixed_length_decode_24(buffer) == Unpack(24, buffer)
fixed_length_decode_25(buffer) == Unpack(25, buffer)
fixed_length_decode_26(buffer) == Unpack(26, buffer)
fixed_length_decode_27(buffer) == Unpack(27, buffer)
fixed_length_decode_28(buffer) == Unpack(28, buffer)
fixed_length_decode_29(buffer) == Unpack(29, buffer)
fixed_length_decode_30(buffer) == Unpack(30, buffer)
fixed_length_decode_31(buffer) == Unpack(31, buffer)
fixed_length_decode_32(buffer) == Unpack(32, buffer)

-------------------------------------------------------------------------------
\* The tables fixed_length_encode_functions and fixed_length_decode_functions.
EncodeFunction(w, data) ==
  CASE w = 1 -> fixed_length_encode_1(data)
    [] w = 2 -> fixed_length_encode_2(data)
    [] w = 3 -> fixed_length_encode_3(data)
    [] w = 4 -> fixed_length_encode_4(data)
    [] w = 5 -> fixed_length_encode_5(data)
    [] w = 6 -> fixed_length_encode_6(data)
    [] w = 7 -> fixed_length_encode_7(data)
    [] w = 8 -> fixed_length_encode_8(data)
    [] w = 9 -> fixed_length_encode_9(data)
    [] w = 10 -> fixed_length_encode_10(data)
    [] w = 11 -> fixed_length_encode_11(data)
    [] w = 12 -> fixed_length_encode_12(data)
    [] w = 13 -> fixed_length_encode_13(data)
    [] w = 14 -> fixed_length_encode_14(data)
    [] w = 15 -> fixed_length_encode_15(data)
    [] w = 16 -> fixed_length_encode_16(data)
    [] w = 17 -> fixed_length_encode_17(data)
    [] w = 18 -> fixed_length_encode_18(data)
    [] w = 19 -> fixed_length_encode_19(data)
    [] w = 20 -> fixed_length_encode_20(data)
    [] w = 21 -> fixed_length_encode_21(data)
    [] w = 22 -> fixed_length_encode_22(data)
    [] w = 23 -> fixed_length_encode_23(data)
    [] w = 24 -> fixed_length_encode_24(data)
    [] w = 25 -> fixed_length_encode_25(data)
    [] w = 26 -> fixed_length_encode_26(data)
    [] w = 27 -> fixed_length_encode_27(data)
    [] w = 28 -> fixed_length_encode_28(data)
    [] w = 29 -> fixed_length_encode_29(data)
    [] w = 30 -> fixed_length_encode_30(data)
    [] w = 31 -> fixed_length_encode_31(data)
    [] w = 32 -> fixed_length_encode_32(data)

DecodeFunction(w, buffer) ==
  CASE w = 1 -> fixed_length_decode_1(buffer)
    [] w = 2 -> fixed_length_decode_2(buffer)
    [] w = 3 -> fixed_length_decode_3(buffer)
    [] w = 4 -> fixed_length_decode_4(buffer)
    [] w = 5 -> fixed_length_decode_5(buffer)
    [] w = 6 -> fixed_length_decode_6(buffer)
    [] w = 7 -> fixed_length_decode_7(buffer)
    [] w = 8 -> fixed_length_decode_8(buffer)
    [] w = 9 -> fixed_length_decode_9(buffer)
    [] w = 10 -> fixed_length_decode_10(buffer)
    [] w = 11 -> fixed_length_decode_11(buffer)
    [] w = 12 -> fixed_length_decode_12(buffer)
    [] w = 13 -> fixed_length_decode_13(buffer)
    [] w = 14 -> fixed_length_decode_14(buffer)
    [] w = 15 -> fixed_length_decode_15(buffer)
    [] w = 16 -> fixed_length_decode_16(buffer)
    [] w = 17 -> fixed_length_decode_17(buffer)
    [] w = 18 -> fixed_length_decode_18(buffer)
    [] w = 19 -> fixed_length_decode_19(buffer)
    [] w = 20 -> fixed_length_decode_20(buffer)
    [] w = 21 -> fixed_length_decode_21(buffer)
    [] w = 22 -> fixed_length_decode_22(buffer)
    [] w = 23 -> fixed_length_decode_23(buffer)
    [] w = 24 -> fixed_length_decode_24(buffer)
    [] w = 25 -> fixed_length_decode_25(buffer)
    [] w = 26 -> fixed_length_decode_26(buffer)
    [] w = 27 -> fixed_length_decode_27(buffer)
    [] w = 28 -> fixed_length_decode_28(buffer)
    [] w = 29 -> fixed_length_decode_29(buffer)
    [] w = 30 -> fixed_length_decode_30(buffer)
    [] w = 31 -> fixed_length_decode_31(buffer)
    [] w = 32 -> fixed_length_decode_32(buffer)

\* fixed_length_encode refuses a batch with a value too large for the width.
Refused == "refused"
fixed_length_encode(w, data) ==
  IF w \in Widths /\ Fits(w, data) THEN EncodeFunction(w, data) ELSE Refused

\* fixed_length_decode checks nothing.
fixed_length_decode(w, buffer) == DecodeFunction(w, buffer)
===============================================================================
