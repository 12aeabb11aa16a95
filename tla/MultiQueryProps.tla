---------------------------- MODULE MultiQueryProps ----------------------------
(***************************************************************************)
(* What the multivariate query must count.                                 *)
(***************************************************************************)
EXTENDS MultiQuery

\* The rows of partition n (from 1) in which every variable is in its interval.
RowsIn(v, n) ==
  LET m == stores[v][n]
  IN {m.rids[k] : k \in {j \in DOMAIN m.elems : InRange(m.elems[j], queries[v])}}
Satisfied(n) == {r \in 0 .. stores[1][n].length - 1 : \A v \in Variables : r \in RowsIn(v, n)}

\* The bins whose values are compared with the interval.
CheckedBins(m, q) ==
  LET lo == StartBin(m, q)
      hi == EndBin(m, q)
  IN IF hi - lo > 2 THEN {lo, hi - 1} ELSE lo .. hi - 1

HasRuns(list) == \E k \in DOMAIN list.batches : list.batches[k].ones # <<>>

\* Expansion has given a batch of these rows the width of a RID.
TooWide(rids) ==
  \E k \in 1 .. BatchCount(Len(rids)) :
    determine_b_to_expand(Deltas(BatchRids(rids, k)), Len(BatchRids(rids, k))) = RidBits

\* A bound in a zero bin when there are two of them, which have one value.
ZeroBinBetween(m, q) ==
  /\ LowPoint(q) = 0 \/ UpPoint(q) = 0
  /\ {0, Sign} \subseteq {m.binValues[b] : b \in Bins(m)}

\* Partitions for which the tool's own limits make no difference: values of
\* double in the mix form, no batch of the width of a RID, no run in a bin that is
\* checked, and no zero bin left unchecked.
Plain(v, n) ==
  LET m == stores[v][n]
      q == queries[v]
  IN /\ m.datatype = "double" /\ m.form = Mix
     /\ ~ ZeroBinBetween(m, q) /\ \A b \in 1 .. m.numBins : ~ TooWide(RowsOfBin(m, b))
     /\ Touched(m, q) => \A b \in CheckedBins(m, q) : ~ HasRuns(m.index[b + 1])
AllPlain(n) == \A v \in Variables : Plain(v, n)

(***************************************************************************)
(* Whatever variables touch no bin in whatever partitions, all stores are  *)
(* at the same partition when the next one begins, a variable before its   *)
(* turn is one behind, and the engines hold the metadata of the partitions *)
(* passed and of no other: the loop asks only the first store for its end  *)
(* (multiquery.c:290).                                                     *)
(***************************************************************************)
InLockstep ==
  pc \in {"partitions", "variables", "done"} =>
    \A v \in Variables :
      /\ cur[v] = part + (IF pc = "variables" /\ v < i THEN 1 ELSE 0)
      /\ \A n \in DOMAIN metadatas[v] :
           metadatas[v][n] = IF n < cur[v] THEN stores[v][n + 1] ELSE None

(***************************************************************************)
(* When all variables are through, the bitmap that is counted has the bits *)
(* of exactly the rows in which every variable is in its interval, in the  *)
(* shorter last partition too; a partition that is not counted has none.   *)
(***************************************************************************)
RowsMatch ==
  pc = "variables" /\ i \notin Variables /\ AllPlain(part + 1) =>
    (IF touched THEN bitmap ELSE {}) = Satisfied(part + 1)

(***************************************************************************)
(* The total printed at the end is the number of such rows of the table.   *)
(***************************************************************************)
TotalCount ==
  pc = "done" /\ (\A n \in DOMAIN stores[1] : AllPlain(n)) =>
    total = SumOf([n \in DOMAIN stores[1] |-> Cardinality(Satisfied(n))])
===============================================================================
