----------------------------- MODULE MCSerialization -----------------------------
(* Small partitions for TLC.                                               *)
EXTENDS SerializationProps

\* Numbers of different fields differ, so that none is right for another.
Part(starts, form, size, bits) ==
  LET n == Len(starts) - 1 IN
    [globalOffset |-> 70, partitionLength |-> starts[n + 1], significantBits |-> bits,
     elementSize |-> size, endianness |-> 60, datatype |-> 61,
     binValues |-> [b \in 1 .. n |-> 80 + b], binStartOffsets |-> starts,
     indexForm |-> form,
     indexBinStartOffsets |->
       IF form \in PForDeltaForms THEN [b \in 1 .. n + 1 |-> 3 * (b - 1)] ELSE <<>>]

Layouts == {<<0, 2>>, <<0, 1, 3>>, <<0, 2, 3, 5>>, <<0, 1, 2, 3, 4>>, <<0, 10, 11, 13>>, <<0, 20>>}

MCParts ==
  {Part(s, form, c[1], c[2]) :
     s \in Layouts, form \in IndexForms, c \in {<<8, 16>>, <<4, 16>>, <<8, 12>>}}
===============================================================================
