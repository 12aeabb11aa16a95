-------------------------------- MODULE MCQuery --------------------------------
(* Partitions over sixteen elements: bins of the values -3 to 3, -0 and +0 *)
(* of two elements each.                                                   *)
EXTENDS UniQueryProps, BinnedTables

\* Elements 0 to 7 are 0 to 7 halves, 8 to 15 are -0 to -7 halves.
Mixed == Encode(<<3, 9, 0, 12, 1, 8, 2, 13>>)
Positive == Encode(<<5, 2, 4, 7, 3>>)
Negative == Encode(<<10, 15, 12, 11>>)
NoZero == Encode(<<2, 11, 3, 10, 3>>)
Zeros == Encode(<<8, 0, 9, 1>>)
Single == Encode(<<6, 7, 6>>)

MCStores == {<<p>> : p \in {Mixed, Positive, Negative, NoZero, Zeros, Single}}
            \cup {<<Positive, Mixed>>, <<Single, Negative>>}
MCStoreWithZeros == {<<Mixed>>}
MCStoreWithoutZeros == {<<NoZero>>}
===============================================================================
