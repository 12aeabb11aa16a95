---------------------------- MODULE MCPartitionIndex ---------------------------
(***************************************************************************)
(* Partitions for PartitionIndexProps: batches of 8 RIDs of 8 bits, bytes  *)
(* of 2 bits and words of 4.                                               *)
(***************************************************************************)
EXTENDS PartitionIndexProps

\* The rows 0 .. length - 1 in one bin for every given set and one for the rest.
Ascending(S, length) == SelectSeq([i \in 1 .. length |-> i - 1], LAMBDA r : r \in S)
Binned(length, sets) ==
  LET rest == (0 .. length - 1) \ UNION Range(sets)
      all == IF rest = {} THEN sets ELSE Append(sets, rest)
  IN [b \in DOMAIN all |-> Ascending(all[b], length)]

\* One gap of every length in a run of rows, at every place of a batch.
MCGaps == {Binned(24, <<(0 .. p - 1) \cup (p + gap .. 23)>>) :
             p \in 1 .. 8, gap \in {1, 3, 9}}

MCPartitions ==
  MCGaps \cup {Binned(24, s) :
     s \in {<<0 .. 23>>,
            <<(0 .. 6) \cup (9 .. 15)>>,
            <<{r \in 0 .. 23 : r % 2 = 0}>>,
            <<{r \in 0 .. 23 : r % 3 = 0}, {r \in 0 .. 23 : r % 3 = 1}>>,
            <<(1 .. 7) \cup {23}>>,
            <<{0, 3, 4, 9, 10, 17, 18, 19, 20, 21}, {5}>>}}
  \cup {Binned(5, <<0 .. 4>>)}
  \cup {Binned(70, <<(0 .. 5) \cup {26, 60, 61}, {7, 8, 9, 69}>>)}
  \cup {Binned(256, <<{0} \cup {128 + 16 * k : k \in 0 .. 7}>>)}

MCOffsets == {-3, 240}

Box(srcstart, srccount, deststart, destcount) ==
  [srcstart |-> srcstart, srccount |-> srccount,
   deststart |-> deststart, destcount |-> destcount]

MCBoxes ==
  {Box(<<10>>, <<24>>, <<5>>, <<40>>), Box(<<10>>, <<24>>, <<20>>, <<9>>),
   Box(<<2, 3>>, <<4, 6>>, <<1, 3>>, <<6, 9>>), Box(<<2, 3>>, <<4, 6>>, <<3, 5>>, <<4, 3>>),
   Box(<<2, 3>>, <<4, 6>>, <<6, 0>>, <<2, 2>>),
   Box(<<1, 1, 1>>, <<2, 3, 4>>, <<0, 1, 0>>, <<3, 4, 6>>),
   Box(<<1, 1, 1>>, <<2, 3, 4>>, <<1, 2, 1>>, <<2, 2, 4>>),
   Box(<<0, 1, 0, 2>>, <<2, 2, 2, 3>>, <<0, 0, 0, 1>>, <<2, 3, 3, 4>>),
   Box(<<0, 1, 0, 2>>, <<2, 2, 2, 3>>, <<1, 1, 0, 3>>, <<3, 1, 2, 4>>)}
===============================================================================
