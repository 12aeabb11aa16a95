------------------------------- MODULE IndexForms ------------------------------
(***************************************************************************)
(* The forms of an index (ALIndexForm of src/src/include/alacrity-types.h) *)
(* and, for the compressed forms, how the RIDs of a bin are compressed and *)
(* set in a bitmap.                                                        *)
(***************************************************************************)
EXTENDS RidLists

\* ALIndexForm without the compression index, which these functions refuse.
InvertedIndex == "inverted"
PFD == "compressed"        \* ALCompressedInvertedIndex
Hybrid == "hybrid"         \* ALCompressedHybridInvertedIndex
Skip == "skip"             \* ALCompressedSkipInvertedIndex
Mix == "mix"               \* ALCompressedMixInvertedIndex
Expansion == "expansion"   \* ALCompressedExpansionII
CompressedForms == {PFD, Hybrid, Mix, Expansion}
Forms == CompressedForms \cup {InvertedIndex, Skip}

Compress(newForm, rids) ==
  CASE newForm = PFD -> encode_rids(rids)
    [] newForm = Hybrid -> hybrid_encode_rids(rids)
    [] newForm = Expansion -> expand_encode_rids(rids)
    [] newForm = Mix -> exapnd_runlength_encode_rids(rids)

ListBits(form, list) ==
  CASE form = PFD -> decode_rids_set_bmap(<<list>>)
    [] form = Hybrid -> rle_decode_rids(<<list>>)
    [] form = Expansion -> expand_decode_rids(<<list>>)
    [] form = Mix -> expand_runlength_decode_rids(<<list>>)
===============================================================================
