-------------------------------- MODULE MCCodec --------------------------------
(* ALCodec on elements that are cut and joined as DatumBits says.  In the  *)
(* instance elements have three bits, two of them significant, and bytes   *)
(* have two bits, so that the data buffer repeats a significant bit; words *)
(* are wider than elements.                                                *)
EXTENDS ALCodecProps, DatumBits, FiniteSetsExt

Number(bits) == MapThenSumSet(LAMBDA i : 2^i, bits)
BitsOf(n) == {i \in 0 .. WordBits - 1 : (n \div 2^i) % 2 = 1}

MCData == 0 .. 7
MCDataFew == {1, 4, 7}
MCHigh(d) == Number(HighBits(BitsOf(d)))
MCLow(d) == Number(StoredBits(LowBits(BitsOf(d))))
MCRejoin(high, low) == Number(RejoinBits(BitsOf(high), BitsOf(low)))
===============================================================================
