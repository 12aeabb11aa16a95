-------------------------------- MODULE MCStore --------------------------------
(* Small instances of ALStoreProps for TLC.                                *)
EXTENDS ALStoreProps

\* Stream sizes differ, so that no offset of one stream fits another.
Part(length, form, metaSize, data, index) ==
  [length |-> length, form |-> form, metaSize |-> metaSize,
   numBins |-> Len(data) - 1, dataStart |-> data, indexStart |-> index]

FullPart == Part(4, "InvertedIndex", 2, <<0, 1, 3>>, <<0, 2, 4>>)
ShortPart == Part(3, "InvertedIndex", 1, <<0, 2>>, <<0, 3>>)
CompressedPart == Part(4, "CompressedInvertedIndex", 3, <<0, 1, 2>>, <<0, 1, 1>>)
PlainPart == Part(4, "CompressionIndex", 1, <<0, 3>>, <<0, 1>>)

MCParts == {FullPart, ShortPart, CompressedPart, PlainPart}
MCPartsFew == {FullPart, ShortPart}

OneStyle == {{"ReadPartition"}, {"OpenPartition"}}
BothStyles == {{"ReadPartition", "OpenPartition"}}
===============================================================================
