------------------------------ MODULE MCMultiQuery -----------------------------
(* Tables of two variables in one or two partitions, in batches of 8 RIDs. *)
EXTENDS MultiQueryProps, BinnedTables

\* A partition of the store, from its values in the order of rows.
Stored(datatype, f, raw) ==
  LET p == Encode(raw)
  IN [datatype |-> datatype, form |-> f,
      index |-> [b \in 1 .. p.numBins |-> ListOf(f, RowsOfBin(p, b))],
      numBins |-> p.numBins, length |-> p.length, binValues |-> p.binValues,
      binStart |-> p.binStart, elems |-> p.elems, rids |-> p.rids]

\* Elements 0 to 7 are 0 to 7 halves, 8 to 15 are -0 to -7 halves.
A1 == <<0, 2, 4, 6, 1, 3, 5, 7, 9, 5>>
A2 == <<5, 3, 12, 2, 7, 1>>
B1 == <<14, 2, 3, 10, 6, 5, 4, 2, 7, 3>>
B2 == <<6, 6, 4, 7, 2, 3>>
Runs1 == <<4, 4, 5, 4, 5, 5, 4, 4, 4, 2, 7, 6>>
Runs2 == <<6, 6, 3, 2, 6, 7, 2, 2, 2, 2, 2, 3>>

Double(raws) == [n \in DOMAIN raws |-> Stored("double", Mix, raws[n])]

MCTables ==
  {<<Double(<<A1, A2>>), Double(<<B1, B2>>)>>,
   <<Double(<<Runs1, B2>>), Double(<<Runs2, A2>>)>>,
   <<<<Stored("float", Mix, A2)>>, Double(<<B2>>)>>,
   <<Double(<<B2>>), <<Stored("double", PFD, A2)>>>>,
   <<Double(<<B2>>), <<Stored("double", InvertedIndex, A2)>>>>,
   <<Double(<<B2>>), <<Stored("other", Mix, A2)>>>>}

Interval(lb, ub) == [lb |-> lb, ub |-> ub]
MCIntervals ==
  {<<Interval(a, b), Interval(c, d)>> :
     a, b \in Element, c \in {10, 3, 4}, d \in {5, 7}}

MCGarbage == {{}, 0 .. 3, {1, 4}}
===============================================================================
