---------------------------- MODULE MultiQueryProofs ---------------------------
(***************************************************************************)
(* The stores of a multivariate query stay in lockstep, and what it counts *)
(* are the rows that satisfy it, for tables of any number of variables,    *)
(* partitions, bins and rows.                                              *)
(***************************************************************************)
EXTENDS MultiQueryProps, BinRangeProofs, RidListProofs

\* Where the stores of table t are in partition p when variable j is in turn,
\* and what the engines hold of the partitions before c[v].
At(t, p, j) == [v \in DOMAIN t |-> IF v < j THEN p + 1 ELSE p]
Cached(t, c) ==
  [v \in DOMAIN t |->
     [n \in 0 .. Len(t[v]) - 1 |-> IF n < c[v] THEN t[v][n + 1] ELSE None]]

Going == {"partitions", "variables", "done"}

(***************************************************************************)
(* The inductive invariant.  That a partition remains while variables are  *)
(* opened is known of the first store only (AtEnd); the others are as long.*)
(***************************************************************************)
Turn ==
  pc = "variables" =>
    /\ i \in 1 .. Len(stores) + 1
    /\ part < Len(stores[1])
    /\ cur = At(stores, part, i)
Between == pc # "variables" => cur = At(stores, part, 1)
Lockstep ==
  /\ stores \in Tables
  /\ pc \in Going => /\ part \in Nat
                     /\ metadatas = Cached(stores, cur)
                     /\ Turn /\ Between
-------------------------------------------------------------------------------
(* Facts about At and Cached.                                              *)

LEMMA TableShape ==
  ASSUME NEW t \in Tables
  PROVE  /\ Len(t) \in Nat \ {0} /\ DOMAIN t = 1 .. Len(t)
         /\ \A v \in DOMAIN t : Len(t[v]) \in Nat \ {0} /\ Len(t[v]) = Len(t[1])
BY TableAssumption

\* The store in turn is at the partition and moves behind it.
LEMMA OneStoreAdvances ==
  ASSUME NEW t \in Tables, NEW p \in Nat, NEW j \in DOMAIN t
  PROVE  /\ At(t, p, j)[j] = p
         /\ [At(t, p, j) EXCEPT ![j] = p + 1] = At(t, p, j + 1)
<1>1. DOMAIN t \subseteq Int /\ j \in Int
  BY TableShape
<1>2. \A v \in DOMAIN t : v < j + 1 <=> v < j \/ v = j
  BY <1>1
<1>3. ~ (j < j)
  BY <1>1
<1> QED BY <1>2, <1>3 DEF At

\* When all stores have moved, the next partition begins.
LEMMA AllStoresAdvanced ==
  ASSUME NEW t \in Tables, NEW p \in Nat
  PROVE  At(t, p, Len(t) + 1) = At(t, p + 1, 1)
<1>1. \A v \in DOMAIN t : v < Len(t) + 1 /\ ~ (v < 1)
  BY TableShape
<1> QED BY <1>1 DEF At

\* The engine in turn has the metadata of one partition more.
LEMMA OneMoreCached ==
  ASSUME NEW t \in Tables, NEW p \in Nat, p < Len(t[1]), NEW j \in DOMAIN t
  PROVE  LET before == Cached(t, At(t, p, j))
         IN [before EXCEPT ![j][p] = IF @ = None THEN t[j][p + 1] ELSE @]
              = Cached(t, At(t, p, j + 1))
<1> DEFINE before == Cached(t, At(t, p, j))
           after == Cached(t, At(t, p, j + 1))
           new == [before EXCEPT ![j][p] = IF @ = None THEN t[j][p + 1] ELSE @]
<1>1. /\ At(t, p, j)[j] = p /\ At(t, p, j + 1)[j] = p + 1
      /\ \A v \in DOMAIN t \ {j} : At(t, p, j + 1)[v] = At(t, p, j)[v]
  <2>1. DOMAIN t \subseteq Int /\ j \in Int
    BY TableShape
  <2>2. j < j + 1 /\ ~ (j < j) /\ \A v \in DOMAIN t \ {j} : v < j + 1 <=> v < j
    BY <2>1
  <2> QED BY <2>2 DEF At
<1>2. before[j] = [n \in 0 .. Len(t[j]) - 1 |-> IF n < p THEN t[j][n + 1] ELSE None]
  BY <1>1 DEF Cached
<1>3. after[j] = [n \in 0 .. Len(t[j]) - 1 |-> IF n < p + 1 THEN t[j][n + 1] ELSE None]
  BY <1>1 DEF Cached
<1>4. p \in 0 .. Len(t[j]) - 1 /\ before[j][p] = None
  <2>1. Len(t[j]) \in Nat /\ Len(t[j]) = Len(t[1])
    BY TableShape
  <2>2. p \in 0 .. Len(t[j]) - 1
    BY <2>1
  <2> QED BY <2>2, <1>2
<1>5. new[j] = after[j]
  <2>1. new[j] = [before[j] EXCEPT ![p] = t[j][p + 1]]
    BY <1>4 DEF Cached
  <2>2. \A n \in 0 .. Len(t[j]) - 1 : n < p + 1 <=> n < p \/ n = p
    BY TableShape
  <2>3. \A n \in 0 .. Len(t[j]) - 1 : new[j][n] = after[j][n]
    BY <2>1, <2>2, <1>2, <1>3, <1>4
  <2> HIDE DEF new, after, before
  <2> QED BY <2>1, <2>3, <1>2, <1>3
<1>6. \A v \in DOMAIN t \ {j} : new[v] = after[v]
  <2> TAKE v \in DOMAIN t \ {j}
  <2>1. new[v] = before[v]
    BY DEF Cached
  <2>2. before[v] = after[v]
    BY <1>1 DEF Cached
  <2> QED BY <2>1, <2>2
<1>7. /\ new = [v \in DOMAIN t |-> new[v]]
      /\ after = [v \in DOMAIN t |-> after[v]]
  BY DEF Cached
<1>8. \A v \in DOMAIN t : new[v] = after[v]
  BY <1>5, <1>6
<1> HIDE DEF new, after
<1>9. new = after
  BY <1>7, <1>8
<1> QED BY <1>9 DEF new, after, before

\* At first all stores are at the first partition and nothing is cached.
LEMMA NothingCached ==
  ASSUME NEW t \in Tables
  PROVE  /\ [v \in DOMAIN t |-> 0] = At(t, 0, 1)
         /\ [v \in DOMAIN t |-> [n \in 0 .. Len(t[v]) - 1 |-> None]] = Cached(t, At(t, 0, 1))
<1>1. At(t, 0, 1) = [v \in DOMAIN t |-> 0]
  <2>1. \A v \in DOMAIN t : ~ (v < 1)
    BY TableShape
  <2> QED BY <2>1 DEF At
<1>2. \A v \in DOMAIN t : At(t, 0, 1)[v] = 0
  BY <1>1
<1>3. \A n \in Nat : ~ (n < 0)
  OBVIOUS
<1>4. \A v \in DOMAIN t : \A n \in 0 .. Len(t[v]) - 1 : ~ (n < At(t, 0, 1)[v])
  BY <1>2, <1>3, TableShape
<1> QED BY <1>1, <1>4 DEF Cached
-------------------------------------------------------------------------------
(* The invariant is inductive.                                             *)

LEMMA LockstepInit == Init => Lockstep
<1> SUFFICES ASSUME Init PROVE Lockstep
  OBVIOUS
<1>1. stores \in Tables /\ pc = "partitions" /\ part = 0
  BY DEF Init
<1>2. cur = At(stores, 0, 1)
  BY <1>1, NothingCached DEF Init, Variables
<1>3. metadatas = Cached(stores, cur)
  BY <1>1, <1>2, NothingCached DEF Init, Variables
<1> QED BY <1>1, <1>2, <1>3 DEF Lockstep, Turn, Between

\* Every action on a variable advances its store and caches its metadata.
LEMMA VariableAdvances ==
  ASSUME Lockstep, OpenVariable
  PROVE  /\ stores' \in Tables /\ part' \in Nat
         /\ i \in 1 .. Len(stores) /\ i + 1 \in 1 .. Len(stores') + 1
         /\ part' < Len(stores'[1])
         /\ cur' = At(stores', part', i + 1)
         /\ metadatas' = Cached(stores', cur')
<1>1. /\ pc = "variables" /\ i \in DOMAIN stores
      /\ stores' = stores /\ part' = part /\ stores \in Tables
  BY DEF OpenVariable, Variables, Lockstep
<1>2. /\ part \in Nat /\ part < Len(stores[1])
      /\ cur = At(stores, part, i) /\ metadatas = Cached(stores, cur)
  BY <1>1 DEF Lockstep, Turn, Going
<1>3. cur[i] = part
  BY <1>1, <1>2, OneStoreAdvances
<1>4. cur' = At(stores, part, i + 1)
  <2>1. cur' = [cur EXCEPT ![i] = cur[i] + 1]
    BY DEF OpenVariable, Advanced
  <2> QED BY <2>1, <1>1, <1>2, <1>3, OneStoreAdvances
<1>5. metadatas' = Cached(stores, At(stores, part, i + 1))
  <2>1. metadatas' = [metadatas EXCEPT ![i][part] = IF @ = None THEN stores[i][part + 1] ELSE @]
    BY <1>3 DEF OpenVariable, Meta
  <2> QED BY <2>1, <1>1, <1>2, OneMoreCached
<1>6. i \in 1 .. Len(stores) /\ i + 1 \in 1 .. Len(stores) + 1
  BY <1>1, TableShape
<1> QED BY <1>1, <1>2, <1>4, <1>5, <1>6

\* Every step keeps the stores together.
LEMMA LockstepNext ==
  ASSUME Lockstep, [Next]_vars
  PROVE  Lockstep'
<1>1. CASE NextPartition
  <2>1. /\ pc = "partitions" /\ pc' = "variables" /\ i' = 1 /\ cur[1] < Len(stores[1])
        /\ stores' = stores /\ cur' = cur /\ metadatas' = metadatas /\ part' = part
    <3>1. /\ pc = "partitions" /\ pc' = "variables" /\ i' = 1 /\ ~ (cur[1] >= Len(stores[1]))
          /\ stores' = stores /\ cur' = cur /\ metadatas' = metadatas /\ part' = part
      BY <1>1 DEF NextPartition, AtEnd
    <3>2. cur[1] \in Nat /\ Len(stores[1]) \in Nat
      BY <3>1, TableShape DEF Lockstep, Between, At, Going
    <3> QED BY <3>1, <3>2
  <2>2. /\ stores \in Tables /\ part \in Nat /\ metadatas = Cached(stores, cur)
        /\ cur = At(stores, part, 1)
    BY <2>1 DEF Lockstep, Between, Going
  <2>3. 1 \in DOMAIN stores /\ 1 \in 1 .. Len(stores) + 1
    BY <2>2, TableShape
  <2>4. cur[1] = part
    BY <2>2, <2>3, OneStoreAdvances
  <2> QED BY <2>1, <2>2, <2>3, <2>4 DEF Lockstep, Turn, Between
<1>2. CASE CountPartition
  <2>1. /\ pc = "variables" /\ pc' = "partitions" /\ i \notin DOMAIN stores
        /\ stores' = stores /\ cur' = cur /\ metadatas' = metadatas /\ part' = part + 1
    BY <1>2 DEF CountPartition, Variables
  <2>2. /\ stores \in Tables /\ part \in Nat /\ metadatas = Cached(stores, cur)
        /\ i \in 1 .. Len(stores) + 1 /\ cur = At(stores, part, i)
    BY <2>1 DEF Lockstep, Turn, Going
  <2>3. i = Len(stores) + 1
    BY <2>1, <2>2, TableShape
  <2>4. cur = At(stores, part + 1, 1) /\ part + 1 \in Nat
    BY <2>2, <2>3, AllStoresAdvanced
  <2> QED BY <2>1, <2>2, <2>4 DEF Lockstep, Turn, Between
<1>3. CASE Finish
  BY <1>3 DEF Finish, Lockstep, Turn, Between, Going
<1>4. CASE SkipVariable
  <2>1. OpenVariable /\ i' = i + 1 /\ pc = "variables" /\ pc' = "variables"
    BY <1>4 DEF SkipVariable, OpenVariable
  <2> QED BY <2>1, VariableAdvances DEF Lockstep, Turn, Between
<1>5. CASE UntouchedVariable
  <2>1. OpenVariable /\ i' = i + 1 /\ pc = "variables" /\ pc' = "variables"
    BY <1>5 DEF UntouchedVariable, OpenVariable
  <2> QED BY <2>1, VariableAdvances DEF Lockstep, Turn, Between
<1>6. CASE MixVariable
  <2>1. OpenVariable /\ i' = i + 1 /\ pc = "variables" /\ pc' = "variables"
    BY <1>6 DEF MixVariable, OpenVariable
  <2> QED BY <2>1, VariableAdvances DEF Lockstep, Turn, Between
<1>7. CASE OtherFormVariable
  <2>1. CASE i' = i + 1 /\ pc' = pc
    <3>1. OpenVariable /\ i' = i + 1 /\ pc = "variables" /\ pc' = "variables"
      BY <1>7, <2>1 DEF OtherFormVariable, OpenVariable
    <3> QED BY <3>1, VariableAdvances DEF Lockstep, Turn, Between
  <2>2. CASE pc' = "aborted"
    BY <1>7, <2>2, VariableAdvances DEF OtherFormVariable, Lockstep, Going
  <2> QED BY <1>7, <2>1, <2>2 DEF OtherFormVariable
<1>8. CASE Refuse
  BY <1>8, VariableAdvances DEF Refuse, Lockstep, Going
<1>9. CASE UNCHANGED vars
  BY <1>9 DEF vars, Lockstep, Turn, Between
<1> QED BY <1>1, <1>2, <1>3, <1>4, <1>5, <1>6, <1>7, <1>8, <1>9 DEF Next

\* The invariant says what InLockstep says.
LEMMA LockstepImplies == Lockstep => InLockstep
<1> SUFFICES ASSUME Lockstep, pc \in Going
             PROVE  \A v \in Variables :
                      /\ cur[v] = part + (IF pc = "variables" /\ v < i THEN 1 ELSE 0)
                      /\ \A n \in DOMAIN metadatas[v] :
                           metadatas[v][n] = IF n < cur[v] THEN stores[v][n + 1] ELSE None
  BY DEF InLockstep, Going
<1>1. stores \in Tables /\ part \in Nat /\ metadatas = Cached(stores, cur)
  BY DEF Lockstep
<1> TAKE v \in Variables
<1>2. cur[v] = part + (IF pc = "variables" /\ v < i THEN 1 ELSE 0)
  <2>1. CASE pc = "variables"
    BY <1>1, <2>1 DEF Lockstep, Turn, At, Variables
  <2>2. CASE pc # "variables"
    <3>1. ~ (v < 1)
      BY <1>1, TableShape DEF Variables
    <3> QED BY <1>1, <2>2, <3>1 DEF Lockstep, Between, At, Variables
  <2> QED BY <2>1, <2>2
<1>3. metadatas[v]
        = [n \in 0 .. Len(stores[v]) - 1 |-> IF n < cur[v] THEN stores[v][n + 1] ELSE None]
  BY <1>1 DEF Cached, Variables
<1> QED BY <1>2, <1>3

(***************************************************************************)
(* However many variables and partitions a table has and whatever          *)
(* variables touch no bin, the stores of multiquery.c are at one partition *)
(* whenever the next one begins.                                           *)
(***************************************************************************)
THEOREM StoresInLockstep == Spec => []InLockstep
<1>1. Init => Lockstep
  BY LockstepInit
<1>2. Lockstep /\ [Next]_vars => Lockstep'
  BY LockstepNext
<1>3. Lockstep => InLockstep
  BY LockstepImplies
<1> QED BY <1>1, <1>2, <1>3, PTL DEF Spec

-------------------------------------------------------------------------------
(* The bits of one variable in one partition.                              *)

\* A partition and an interval for which the limits of the tool make no
\* difference.
PlainPartition(m, q) ==
  /\ m.datatype = "double" /\ m.form = Mix
  /\ ~ ZeroBinBetween(m, q) /\ \A b \in 1 .. m.numBins : ~ TooWide(RowsOfBin(m, b))
  /\ Touched(m, q) => \A b \in CheckedBins(m, q) : ~ HasRuns(m.index[b + 1])

\* The rows whose values are in the interval.
RowsWithin(m, q) == {m.rids[k] : k \in {j \in DOMAIN m.elems : InRange(m.elems[j], q)}}

\* The rows of a bin are a list.
LEMMA RowsOfBinRise ==
  ASSUME NEW m, IsPartition(m), IsIndexed(m), NEW b \in 1 .. m.numBins
  PROVE  LET rows == RowsOfBin(m, b)
             n == m.binStart[b] - m.binStart[b - 1]
         IN /\ Rising(rows) /\ Distinct(rows) /\ Ascends(rows)
            /\ n \in Nat \ {0} /\ Len(rows) = n /\ DOMAIN rows = 1 .. n
            /\ \A k \in 1 .. n : rows[k] = m.rids[m.binStart[b - 1] + k - 1]
            /\ m.binStart[b - 1] \in Nat
            /\ m.binStart[b] \in Nat /\ m.binStart[b] <= m.length /\ m.length \in Nat
<1> DEFINE a == m.binStart[b - 1]
           e == m.binStart[b]
           n == e - a
           rows == RowsOfBin(m, b)
<1>1. /\ m.numBins \in Nat /\ m.length \in Nat
      /\ m.binStart \in [0 .. m.numBins -> 0 .. m.length]
      /\ \A c \in 0 .. m.numBins - 1 : m.binStart[c] < m.binStart[c + 1]
      /\ m.rids \in [0 .. m.length - 1 -> 0 .. m.length - 1]
  BY DEF IsPartition
<1>2. b - 1 \in 0 .. m.numBins - 1 /\ b - 1 \in 0 .. m.numBins /\ b \in 0 .. m.numBins /\ (b - 1) + 1 = b
  BY <1>1
<1>3. a \in 0 .. m.length /\ e \in 0 .. m.length /\ a < e
  BY <1>1, <1>2
<1>4. /\ m.length <= RidLimit /\ \A j \in a .. e - 2 : m.rids[j] < m.rids[j + 1]
  BY DEF IsIndexed
<1>5. RidLimit \in Nat
  BY Powers
<1>6. rows = [k \in 1 .. n |-> m.rids[a + k - 1]]
  BY DEF RowsOfBin
<1> HIDE DEF a, e, rows
<1>7. n \in Nat \ {0} /\ a \in Nat /\ e \in Nat /\ e <= m.length
  BY <1>1, <1>3
<1>8. Len(rows) = n /\ DOMAIN rows = 1 .. n /\ \A k \in 1 .. n : rows[k] = m.rids[a + k - 1]
  BY <1>6, <1>7
<1>9. \A k \in 1 .. n : a + k - 1 \in 0 .. m.length - 1
  BY <1>1, <1>3
<1>10. \A k \in 1 .. n : rows[k] \in 0 .. RidLimit - 1
  <2> TAKE k \in 1 .. n
  <2>1. rows[k] \in 0 .. m.length - 1
    BY <1>1, <1>8, <1>9
  <2> QED BY <1>1, <1>4, <1>5, <2>1
<1>11. rows \in Seq(0 .. RidLimit - 1)
  <2> DEFINE L == 0 .. RidLimit - 1
  <2>1. rows \in [1 .. n -> L] /\ n \in Nat
    BY <1>6, <1>7, <1>8, <1>10
  <2> HIDE DEF n, L
  <2>2. rows \in Seq(L)
    BY ONLY <2>1
  <2> QED BY <2>2 DEF L
<1>12. \A k \in 1 .. n - 1 : rows[k] < rows[k + 1] /\ rows[k] \in Int /\ rows[k + 1] \in Int
  <2> TAKE k \in 1 .. n - 1
  <2>1. a + k - 1 \in a .. e - 2 /\ (a + k - 1) + 1 = a + (k + 1) - 1 /\ k \in 1 .. n /\ k + 1 \in 1 .. n
    BY <1>3, <1>7
  <2>2. m.rids[a + k - 1] < m.rids[a + (k + 1) - 1]
    BY <1>4, <2>1
  <2>3. rows[k] \in Int /\ rows[k + 1] \in Int
    BY <1>5, <1>10, <2>1
  <2> QED BY <1>8, <2>1, <2>2, <2>3
<1> HIDE DEF n
<1>13. Rising(rows)
  BY <1>7, <1>8, <1>11, <1>12 DEF Rising
<1>14. Distinct(rows)
  BY <1>8, <1>11, <1>12 DEF Distinct
<1>15. Ascends(rows)
  BY <1>8, <1>12 DEF Ascends
<1> QED BY <1>1, <1>7, <1>8, <1>13, <1>14, <1>15 DEF a, e, n, rows

\* Bins lo .. hi - 1 of a partition without batches that are too wide.
BinsRead(m, lo, hi) ==
  /\ IsPartition(m) /\ IsIndexed(m) /\ m.form = Mix
  /\ \A b \in 1 .. m.numBins : ~ TooWide(RowsOfBin(m, b))
  /\ lo \in 0 .. m.numBins /\ hi \in 0 .. m.numBins /\ lo < hi

\* The lists of consecutive bins.
RowLists(m, lo, hi) == [l \in 1 .. hi - lo |-> RowsOfBin(m, lo + l)]

\* The lists of consecutive bins are those of their rows.
LEMMA BinsAreLists ==
  ASSUME NEW m, NEW lo, NEW hi, BinsRead(m, lo, hi)
  PROVE  LET w == hi - lo
             rr == RowLists(m, lo, hi)
             lists == BinsOf(m, lo, hi)
         IN /\ w \in Nat \ {0} /\ lo \in Int /\ hi \in Int /\ ListsOf(Mix, lists, rr, w)
            /\ \A l \in 1 .. w : /\ lo + l \in 1 .. m.numBins
                                 /\ lists[l] = m.index[lo + l] /\ rr[l] = RowsOfBin(m, lo + l)
                                 /\ m.index[lo + l] = Compress(Mix, RowsOfBin(m, lo + l))
<1> DEFINE w == hi - lo
           rr == RowLists(m, lo, hi)
           lists == BinsOf(m, lo, hi)
<1>1. /\ IsPartition(m) /\ IsIndexed(m) /\ m.form = Mix
      /\ \A b \in 1 .. m.numBins : ~ TooWide(RowsOfBin(m, b))
      /\ lo \in 0 .. m.numBins /\ hi \in 0 .. m.numBins /\ lo < hi
  BY DEF BinsRead
<1>2. m.numBins \in Nat
  BY <1>1 DEF IsPartition
<1>3. w \in Nat \ {0} /\ lo \in Int /\ hi \in Int /\ \A l \in 1 .. w : lo + l \in 1 .. m.numBins
  BY <1>1, <1>2
<1>4. \A b \in 1 .. m.numBins : m.index[b] = Compress(Mix, RowsOfBin(m, b))
  <2>1. Mix # InvertedIndex
    BY DEF Mix, InvertedIndex
  <2>2. m.index = [b \in 1 .. m.numBins |-> ListOf(Mix, RowsOfBin(m, b))]
    BY <1>1 DEF IsIndexed
  <2>3. \A b \in 1 .. m.numBins : ListOf(Mix, RowsOfBin(m, b)) = Compress(Mix, RowsOfBin(m, b))
    BY <2>1 DEF ListOf
  <2> QED BY <2>2, <2>3
<1>5. /\ \A l \in 1 .. w : lists[l] = m.index[lo + l] /\ rr[l] = RowsOfBin(m, lo + l)
      /\ Len(lists) = w /\ DOMAIN lists = 1 .. w
  BY <1>3 DEF BinsOf, RowLists
<1> HIDE DEF w, rr, lists
<1>6. ASSUME NEW l \in 1 .. w
      PROVE  Distinct(rr[l]) /\ Len(rr[l]) # 0 /\ lists[l] = Compress(Mix, rr[l]) /\ ~ Wide(rr[l])
  <2> DEFINE b == lo + l
  <2>1. b \in 1 .. m.numBins /\ rr[l] = RowsOfBin(m, b) /\ lists[l] = m.index[b]
    BY <1>3, <1>5
  <2> HIDE DEF b
  <2>2. Distinct(RowsOfBin(m, b))
    BY <1>1, <2>1, RowsOfBinRise
  <2>3. Len(RowsOfBin(m, b)) # 0
    BY <1>1, <2>1, RowsOfBinRise
  <2>4. ~ Wide(RowsOfBin(m, b))
    BY <1>1, <2>1 DEF Wide, TooWide
  <2> QED BY <1>4, <2>1, <2>2, <2>3, <2>4
<1>7. ListsOf(Mix, lists, rr, w)
  <2>1. Mix \in CompressedForms
    BY DEF CompressedForms
  <2> QED BY <1>5, <1>6, <2>1 DEF ListsOf
<1> QED BY <1>3, <1>4, <1>5, <1>7 DEF w, rr, lists

\* Without runs the lists of consecutive bins are decoded to the RIDs of their
\* elements, in the order of the elements.
LEMMA DecodedRows ==
  ASSUME NEW m, NEW lo, NEW hi, BinsRead(m, lo, hi),
         \A b \in lo .. hi - 1 : ~ HasRuns(m.index[b + 1]),
         NEW k \in m.binStart[lo] .. m.binStart[hi] - 1
  PROVE  adios_expand_runlength_decode_rid(BinsOf(m, lo, hi))[k - m.binStart[lo] + 1] = m.rids[k]
<1> DEFINE w == hi - lo
           rr == RowLists(m, lo, hi)
           lists == BinsOf(m, lo, hi)
           decoded == adios_expand_runlength_decode_rid(lists)
           start == m.binStart[lo]
           L == 0 .. RidLimit - 1
           p == [l \in 0 .. w |-> m.binStart[lo + l] - start]
<1>1. /\ w \in Nat \ {0} /\ lo \in Int /\ hi \in Int /\ ListsOf(Mix, lists, rr, w)
      /\ \A l \in 1 .. w : /\ lo + l \in 1 .. m.numBins
                           /\ lists[l] = m.index[lo + l] /\ rr[l] = RowsOfBin(m, lo + l)
  BY BinsAreLists
<1>2. /\ IsPartition(m) /\ IsIndexed(m)
      /\ lo \in 0 .. m.numBins /\ hi \in 0 .. m.numBins /\ lo < hi
  BY DEF BinsRead
<1>3. m.numBins \in Nat /\ \A c \in 0 .. m.numBins : m.binStart[c] \in Nat
  BY <1>2, StartsAreNatural
<1>4. rr = [l \in 1 .. w |-> rr[l]] /\ Len(rr) = w
  BY <1>1 DEF RowLists
<1>5. \A l \in 0 .. w : lo + l \in 0 .. m.numBins
  BY <1>1, <1>2, <1>3
<1> HIDE DEF w, rr, lists, decoded
<1>6. decoded = Joined(rr, w)
  <2>1. \A l \in 1 .. w : \A j \in DOMAIN lists[l].batches : lists[l].batches[j].ones = <<>>
    <3> TAKE l \in 1 .. w
    <3>1. lo + l - 1 \in lo .. hi - 1 /\ (lo + l - 1) + 1 = lo + l
      BY <1>1 DEF w
    <3>2. ~ HasRuns(m.index[(lo + l - 1) + 1])
      BY <3>1
    <3> QED BY <1>1, <3>1, <3>2 DEF HasRuns
  <2> QED BY <1>1, <2>1, MixListsRead DEF decoded
<1>7. decoded = FlattenSeq(rr)
  BY <1>4, <1>6 DEF Joined
<1>8. \A l \in 1 .. w : /\ rr[l] \in Seq(L) /\ Len(rr[l]) = m.binStart[lo + l] - m.binStart[lo + l - 1]
                        /\ \A j \in 1 .. Len(rr[l]) : rr[l][j] = m.rids[m.binStart[lo + l - 1] + j - 1]
  <2> SUFFICES ASSUME NEW l \in 1 .. w
               PROVE  /\ rr[l] \in Seq(L)
                      /\ Len(rr[l]) = m.binStart[lo + l] - m.binStart[lo + l - 1]
                      /\ \A j \in 1 .. Len(rr[l]) : rr[l][j] = m.rids[m.binStart[lo + l - 1] + j - 1]
    OBVIOUS
  <2> DEFINE b == lo + l
  <2>1. b \in 1 .. m.numBins /\ rr[l] = RowsOfBin(m, b)
    BY <1>1
  <2> HIDE DEF b
  <2>2. /\ Distinct(RowsOfBin(m, b)) /\ Len(RowsOfBin(m, b)) = m.binStart[b] - m.binStart[b - 1]
        /\ \A j \in 1 .. m.binStart[b] - m.binStart[b - 1] :
             RowsOfBin(m, b)[j] = m.rids[m.binStart[b - 1] + j - 1]
    BY <1>2, <2>1, RowsOfBinRise
  <2>3. rr[l] \in Seq(L)
    BY <2>1, <2>2 DEF Distinct
  <2>4. /\ Len(rr[l]) = m.binStart[b] - m.binStart[b - 1]
        /\ \A j \in 1 .. Len(rr[l]) : rr[l][j] = m.rids[m.binStart[b - 1] + j - 1]
    BY ONLY <2>1, <2>2
  <2> HIDE DEF L, p, start
  <2>5. /\ Len(rr[l]) = m.binStart[lo + l] - m.binStart[lo + l - 1]
        /\ \A j \in 1 .. Len(rr[l]) : rr[l][j] = m.rids[m.binStart[lo + l - 1] + j - 1]
    <3>1. b - 1 = lo + l - 1 /\ b = lo + l
      BY <1>1 DEF b
    <3> QED BY ONLY <2>4, <3>1
  <2> QED BY ONLY <2>3, <2>5
<1> USE DEF p
<1>9. Cuts(p, w, rr)
  <2>1. p[0] = 0
    BY <1>1, <1>2, <1>3, <1>5
  <2>2. \A l \in 0 .. w : p[l] \in Nat
    <3> TAKE l \in 0 .. w
    <3>1. m.binStart[lo] <= m.binStart[lo + l]
      <4>1. lo + l \in 0 .. m.numBins /\ lo <= lo + l
        BY <1>1, <1>5
      <4> DEFINE b == lo + l
      <4> HIDE DEF b
      <4>2. m.binStart[lo] <= m.binStart[b]
        BY <1>2, <4>1, StartsRise DEF b
      <4> QED BY <4>2 DEF b
    <3> QED BY <1>2, <1>3, <1>5, <3>1
  <2>3. \A l \in 1 .. w : p[l] = p[l - 1] + Len(rr[l])
    <3> TAKE l \in 1 .. w
    <3>1. l \in 0 .. w /\ l - 1 \in 0 .. w /\ lo + (l - 1) = lo + l - 1
      BY <1>1
    <3>2. m.binStart[lo + l] \in Int /\ m.binStart[lo + (l - 1)] \in Int /\ start \in Int
      BY <1>2, <1>3, <1>5, <3>1
    <3> HIDE DEF start
    <3> QED BY <1>8, <3>1, <3>2
  <2> QED BY <2>1, <2>2, <2>3 DEF Cuts
<1> HIDE DEF p, L
<1>10. Placed(decoded, p, w, rr)
  <2>1. w \in Nat \ {0} /\ Len(rr) = w /\ \A l \in 1 .. w : rr[l] \in Seq(L)
    BY <1>1, <1>4, <1>8
  <2>2. Placed(FlattenSeq(rr), p, w, rr)
    BY ONLY <1>9, <2>1, FlattenPlaces
  <2> QED BY <1>7, <2>2
\* The bin of the element.
<1>11. k \in 0 .. m.length - 1
  <2>1. m.binStart[hi] <= m.length /\ m.length \in Nat /\ m.binStart[hi] \in Nat /\ start \in Nat
    BY <1>2, <1>3 DEF IsPartition
  <2> QED BY <2>1
<1>12. PICK c \in Bins(m) : m.binStart[c] <= k /\ k < m.binStart[c + 1]
  BY <1>2, <1>11, BinOfElement
<1>13. lo <= c /\ c < hi
  <2>1. m.binStart[lo] <= k /\ k < m.binStart[hi]
    <3>1. m.binStart[lo] \in Nat /\ m.binStart[hi] \in Nat
      BY <1>2, <1>3
    <3> QED BY <3>1
  <2> QED BY <1>2, <1>11, <1>12, <2>1, ElementsOfBins
<1>14. c \in Int /\ c + 1 \in 0 .. m.numBins /\ c \in 0 .. m.numBins
  BY <1>3 DEF Bins
<1> DEFINE l == c - lo + 1
           j == k - m.binStart[c] + 1
<1>15. l \in 1 .. w /\ lo + l = c + 1 /\ lo + l - 1 = c /\ l - 1 \in 0 .. w /\ lo + (l - 1) = c
  BY <1>1, <1>13, <1>14 DEF w
<1>16. m.binStart[c] \in Nat /\ m.binStart[c + 1] \in Nat /\ k \in Int /\ start \in Nat
  BY <1>2, <1>3, <1>11, <1>14
<1> HIDE DEF l
<1>17. Len(rr[l]) = m.binStart[c + 1] - m.binStart[c] /\ p[l - 1] = m.binStart[c] - start
  BY <1>8, <1>15 DEF p
<1>18. j \in 1 .. Len(rr[l])
  BY <1>12, <1>16, <1>17
<1>19. decoded[p[l - 1] + j] = rr[l][j]
  BY <1>10, <1>15, <1>18 DEF Placed
<1>20. rr[l][j] = m.rids[m.binStart[c] + j - 1]
  BY <1>8, <1>15, <1>18
<1>21. p[l - 1] + j = k - start + 1 /\ m.binStart[c] + j - 1 = k
  BY <1>16, <1>17
<1> HIDE DEF j, start
<1> QED BY <1>19, <1>20, <1>21 DEF decoded, lists, start

\* Rows of the elements of bins lo .. hi - 1, all and those in the interval.
RowsBetween(m, lo, hi) == {m.rids[k] : k \in m.binStart[lo] .. m.binStart[hi] - 1}
FoundBetween(m, lo, hi, q) ==
  {m.rids[k] : k \in {j \in m.binStart[lo] .. m.binStart[hi] - 1 : InRange(m.elems[j], q)}}

\* The bitmap has a bit for every row.
HasBits(m) == \A k \in 0 .. m.length - 1 : m.rids[k] \in AllOnes

\* Places between bins are places of the partition.
LEMMA PlacesBetween ==
  ASSUME NEW m, IsPartition(m), NEW lo \in 0 .. m.numBins, NEW hi \in 0 .. m.numBins
  PROVE  /\ m.binStart[lo] \in Nat /\ m.binStart[hi] \in Nat /\ m.length \in Nat
         /\ m.binStart[lo] .. m.binStart[hi] - 1 \subseteq 0 .. m.length - 1
<1>1. m.binStart \in [0 .. m.numBins -> 0 .. m.length] /\ m.length \in Nat
  BY DEF IsPartition
<1>2. m.binStart[lo] \in 0 .. m.length /\ m.binStart[hi] \in 0 .. m.length
  BY <1>1
<1> QED BY <1>1, <1>2

\* The candidates that are found are rows of values in the interval.
LEMMA CandidateRows ==
  ASSUME NEW m, NEW lo, NEW hi, NEW q, BinsRead(m, lo, hi), m.datatype = "double", HasBits(m),
         \A b \in lo .. hi - 1 : ~ HasRuns(m.index[b + 1])
  PROVE  candidateCheck(m, lo, hi, q) = FoundBetween(m, lo, hi, q)
<1> DEFINE decoded == adios_expand_runlength_decode_rid(BinsOf(m, lo, hi))
           first == m.binStart[lo]
           all == first .. m.binStart[hi] - 1
           found == {k \in all : InRange(m.elems[k], q)}
<1>1. candidateCheck(m, lo, hi, q) = {decoded[k - first + 1] : k \in found} \cap AllOnes
  BY DEF candidateCheck, setBitsinBitMap
<1>2. \A k \in all : decoded[k - first + 1] = m.rids[k]
  BY DecodedRows
<1>3. \A k \in all : m.rids[k] \in AllOnes
  <2>1. IsPartition(m) /\ lo \in 0 .. m.numBins /\ hi \in 0 .. m.numBins
    BY DEF BinsRead
  <2>2. all \subseteq 0 .. m.length - 1
    BY <2>1, PlacesBetween
  <2> HIDE DEF all
  <2> QED BY <2>2 DEF HasBits
<1>4. FoundBetween(m, lo, hi, q) = {m.rids[k] : k \in found}
  BY DEF FoundBetween
<1> HIDE DEF decoded, first, all
<1> QED BY <1>1, <1>2, <1>3, <1>4

\* The bits of consecutive bins are their rows.
LEMMA BitsOfBins ==
  ASSUME NEW m, NEW lo, NEW hi, BinsRead(m, lo, hi)
  PROVE  UNION {ListBits(Mix, list) : list \in Range(BinsOf(m, lo, hi))} = RowsBetween(m, lo, hi)
<1> DEFINE w == hi - lo
           lists == BinsOf(m, lo, hi)
           start(c) == m.binStart[c]
<1>1. /\ w \in Nat \ {0} /\ lo \in Int /\ hi \in Int /\ DOMAIN lists = 1 .. w
      /\ \A l \in 1 .. w : lo + l \in 1 .. m.numBins /\ lists[l] = Compress(Mix, RowsOfBin(m, lo + l))
  BY BinsAreLists DEF ListsOf
<1>2. /\ IsPartition(m) /\ IsIndexed(m) /\ \A b \in 1 .. m.numBins : ~ TooWide(RowsOfBin(m, b))
      /\ lo \in 0 .. m.numBins /\ hi \in 0 .. m.numBins /\ lo < hi
  BY DEF BinsRead
<1>3. m.numBins \in Nat /\ \A c \in 0 .. m.numBins : m.binStart[c] \in Nat
  BY <1>2, StartsAreNatural
<1>4. ASSUME NEW b \in 1 .. m.numBins
      PROVE  ListBits(Mix, Compress(Mix, RowsOfBin(m, b))) = RowsBetween(m, b - 1, b)
  <2> DEFINE rows == RowsOfBin(m, b)
             n == m.binStart[b] - m.binStart[b - 1]
  <2>1. /\ Distinct(rows) /\ Len(rows) # 0 /\ Ascends(rows)
        /\ DOMAIN rows = 1 .. n /\ n \in Nat \ {0}
        /\ \A k \in 1 .. n : rows[k] = m.rids[m.binStart[b - 1] + k - 1]
    BY <1>2, RowsOfBinRise
  <2>2. ~ Wide(rows)
    BY <1>2 DEF Wide, TooWide
  <2>3. m.binStart[b] \in Nat /\ m.binStart[b - 1] \in Nat
    BY <1>3
  <2> HIDE DEF rows
  <2>4. ListBits(Mix, Compress(Mix, rows)) = Range(rows)
    <3>1. Mix \in CompressedForms
      BY DEF CompressedForms
    <3> QED BY <2>1, <2>2, <3>1, ListBitsAreRids
  <2>5. Range(rows) = {rows[k] : k \in 1 .. n}
    BY <2>1 DEF Range
  <2>6. {rows[k] : k \in 1 .. n} = RowsBetween(m, b - 1, b)
    <3> DEFINE a == m.binStart[b - 1]
               e == m.binStart[b]
    <3>1. \A k \in 1 .. n : a + k - 1 \in a .. e - 1 /\ rows[k] = m.rids[a + k - 1]
      BY <2>1, <2>3
    <3>2. \A k \in a .. e - 1 : k - a + 1 \in 1 .. n /\ a + (k - a + 1) - 1 = k
      BY <2>3
    <3> HIDE DEF a, e, n
    <3>3. \A k \in a .. e - 1 : m.rids[k] = rows[k - a + 1]
      BY <3>1, <3>2
    <3>4. {rows[k] : k \in 1 .. n} = {m.rids[k] : k \in a .. e - 1}
      BY <3>1, <3>2, <3>3
    <3> QED BY <3>4 DEF RowsBetween, a, e
  <2> QED BY <2>4, <2>5, <2>6 DEF rows
<1>5. {ListBits(Mix, list) : list \in Range(lists)}
        = {RowsBetween(m, lo + l - 1, lo + l) : l \in 1 .. w}
  <2>1. Range(lists) = {lists[l] : l \in 1 .. w}
    BY <1>1 DEF Range
  <2>2. \A l \in 1 .. w : ListBits(Mix, lists[l]) = RowsBetween(m, lo + l - 1, lo + l)
    <3> TAKE l \in 1 .. w
    <3> DEFINE b == lo + l
    <3>1. b \in 1 .. m.numBins /\ lists[l] = Compress(Mix, RowsOfBin(m, b)) /\ b - 1 = lo + l - 1
      BY <1>1
    <3> HIDE DEF b
    <3>2. ListBits(Mix, lists[l]) = RowsBetween(m, lo + l - 1, b)
      BY <1>4, <3>1
    <3> QED BY <3>2 DEF b
  <2> HIDE DEF lists
  <2> QED BY <2>1, <2>2
<1> HIDE DEF w, lists
<1>6. ASSUME NEW k \in m.binStart[lo] .. m.binStart[hi] - 1
      PROVE  \E l \in 1 .. w : k \in m.binStart[lo + l - 1] .. m.binStart[lo + l] - 1
  <2>1. k \in 0 .. m.length - 1 /\ m.binStart[lo] <= k /\ k < m.binStart[hi]
    <3>1. m.binStart[lo] .. m.binStart[hi] - 1 \subseteq 0 .. m.length - 1
      BY <1>2, PlacesBetween
    <3> QED BY <1>2, <1>3, <3>1
  <2>2. PICK c \in Bins(m) : m.binStart[c] <= k /\ k < m.binStart[c + 1]
    BY <1>2, <2>1, BinOfElement
  <2>3. lo <= c /\ c < hi
    BY <1>2, <2>1, <2>2, ElementsOfBins
  <2>4. c \in Int /\ c + 1 \in 0 .. m.numBins /\ c \in 0 .. m.numBins
    BY <1>3 DEF Bins
  <2> DEFINE l == c - lo + 1
  <2>5. l \in 1 .. w /\ lo + l = c + 1 /\ lo + l - 1 = c
    BY <1>1, <2>3, <2>4 DEF w
  <2>6. m.binStart[c] \in Int /\ m.binStart[c + 1] \in Int /\ k \in Int
    BY <1>3, <2>1, <2>4
  <2> HIDE DEF l
  <2>7. k \in m.binStart[lo + l - 1] .. m.binStart[lo + l] - 1
    BY <2>2, <2>5, <2>6
  <2> QED BY <2>5, <2>7
<1>7. ASSUME NEW l \in 1 .. w, NEW k \in m.binStart[lo + l - 1] .. m.binStart[lo + l] - 1
      PROVE  k \in m.binStart[lo] .. m.binStart[hi] - 1
  <2> DEFINE a == lo + l - 1
             e == lo + l
  <2>1. a \in 0 .. m.numBins /\ e \in 0 .. m.numBins /\ lo <= a /\ e <= hi
    BY <1>1, <1>2, <1>3 DEF w
  <2> HIDE DEF a, e
  <2>2. m.binStart[lo] <= m.binStart[a] /\ m.binStart[e] <= m.binStart[hi]
    BY <1>2, <2>1, StartsRise
  <2>3. /\ m.binStart[lo] \in Nat /\ m.binStart[a] \in Nat /\ m.binStart[e] \in Nat
        /\ m.binStart[hi] \in Nat
    BY <1>2, <1>3, <2>1
  <2>4. k \in m.binStart[a] .. m.binStart[e] - 1
    BY DEF a, e
  <2> QED BY <2>2, <2>3, <2>4
<1>8. UNION {RowsBetween(m, lo + l - 1, lo + l) : l \in 1 .. w} = RowsBetween(m, lo, hi)
  BY <1>6, <1>7 DEF RowsBetween
<1> QED BY <1>5, <1>8 DEF lists

\* A partition and an interval that the tool takes as they are.
Taken(m, q) ==
  /\ IsPartition(m) /\ IsIndexed(m) /\ Interval(q)
  /\ PlainPartition(m, q) /\ HasBits(m)

\* Rows of values in the interval are among those of the bins that are touched.
LEMMA RowsOfTouchedBins ==
  ASSUME NEW m, IsPartition(m), NEW q, Interval(q), Touched(m, q)
  PROVE  RowsWithin(m, q) = FoundBetween(m, StartBin(m, q), EndBin(m, q), q)
<1> DEFINE lo == StartBin(m, q)
           hi == EndBin(m, q)
           S == {j \in DOMAIN m.elems : InRange(m.elems[j], q)}
           T == {j \in m.binStart[lo] .. m.binStart[hi] - 1 : InRange(m.elems[j], q)}
<1>1. m.numBins \in Nat /\ lo \in Bins(m) /\ hi \in lo + 1 .. m.numBins
  BY TouchedBins, StartsAreNatural
<1>2. lo \in 0 .. m.numBins /\ hi \in 0 .. m.numBins
  BY <1>1 DEF Bins
<1>3. /\ m.binStart[lo] \in Nat /\ m.binStart[hi] \in Nat /\ m.length \in Nat
      /\ m.binStart[lo] .. m.binStart[hi] - 1 \subseteq 0 .. m.length - 1
  BY <1>2, PlacesBetween
<1>4. DOMAIN m.elems = 0 .. m.length - 1
  BY DEF IsPartition
<1>5. \A k \in 0 .. m.length - 1 :
        InRange(m.elems[k], q) => m.binStart[lo] <= k /\ k < m.binStart[hi]
  BY RangeHoldsInterval
<1>6. S = T
  BY <1>3, <1>4, <1>5
<1>7. RowsWithin(m, q) = {m.rids[k] : k \in S} /\ FoundBetween(m, lo, hi, q) = {m.rids[k] : k \in T}
  BY DEF RowsWithin, FoundBetween
<1> HIDE DEF S, T, lo, hi
<1> QED BY <1>6, <1>7 DEF lo, hi

\* A range that is not touched has no value of the interval.
LEMMA NoRowsUntouched ==
  ASSUME NEW m, IsPartition(m), NEW q, Interval(q), ~ Touched(m, q)
  PROVE  RowsWithin(m, q) = {}
<1>1. DOMAIN m.elems = 0 .. m.length - 1
  BY DEF IsPartition
<1>2. \A k \in 0 .. m.length - 1 : ~ InRange(m.elems[k], q)
  BY RangeHoldsInterval
<1>3. {j \in DOMAIN m.elems : InRange(m.elems[j], q)} = {}
  BY <1>1, <1>2
<1> QED BY <1>3 DEF RowsWithin

\* Values of the bins between the first and the last are in the interval.
LEMMA RowsInside ==
  ASSUME NEW m, NEW q, Taken(m, q), Touched(m, q),
         EndBin(m, q) - StartBin(m, q) > 2
  PROVE  LET lo == StartBin(m, q)
             hi == EndBin(m, q)
         IN FoundBetween(m, lo, hi, q) = FoundBetween(m, lo, lo + 1, q)
              \cup RowsBetween(m, lo + 1, hi - 1) \cup FoundBetween(m, hi - 1, hi, q)
<1> DEFINE lo == StartBin(m, q)
           hi == EndBin(m, q)
           In(k) == InRange(m.elems[k], q)
           a == m.binStart[lo]
           b == m.binStart[lo + 1]
           c == m.binStart[hi - 1]
           d == m.binStart[hi]
<1>1. IsPartition(m) /\ Interval(q) /\ ~ BoundInZeroBin(m, q)
  BY DEF Taken, PlainPartition, ZeroBinBetween, BoundInZeroBin
<1>2. m.numBins \in Nat /\ lo \in Bins(m) /\ hi \in lo + 1 .. m.numBins
  BY <1>1, TouchedBins, StartsAreNatural
<1>3. /\ lo \in 0 .. m.numBins /\ lo + 1 \in 0 .. m.numBins /\ hi - 1 \in 0 .. m.numBins
      /\ hi \in 0 .. m.numBins /\ lo <= lo + 1 /\ lo + 1 <= hi - 1 /\ hi - 1 <= hi
  BY <1>2 DEF Bins
<1>4. a <= b /\ b <= c /\ c <= d
  <2>1. a <= b
    BY ONLY <1>1, <1>3, StartsRise
  <2>2. b <= c
    BY ONLY <1>1, <1>3, StartsRise
  <2>3. c <= d
    BY ONLY <1>1, <1>3, StartsRise
  <2> QED BY <2>1, <2>2, <2>3
<1>5. a \in Nat /\ b \in Nat /\ c \in Nat /\ d \in Nat /\ b .. c - 1 \subseteq 0 .. m.length - 1
  <2>1. a \in Nat /\ b \in Nat
    BY ONLY <1>1, <1>3, PlacesBetween
  <2>2. c \in Nat /\ d \in Nat
    BY ONLY <1>1, <1>3, PlacesBetween
  <2>3. b .. c - 1 \subseteq 0 .. m.length - 1
    BY ONLY <1>1, <1>3, PlacesBetween
  <2> QED BY <2>1, <2>2, <2>3
<1>6. \A k \in b .. c - 1 : In(k)
  <2> TAKE k \in b .. c - 1
  <2>1. k \in 0 .. m.length - 1 /\ b <= k /\ k < c
    BY <1>5
  <2> QED BY ONLY <1>1, <2>1, Touched(m, q), InnerBinsInInterval
<1>7. /\ FoundBetween(m, lo, hi, q) = {m.rids[k] : k \in {j \in a .. d - 1 : In(j)}}
      /\ FoundBetween(m, lo, lo + 1, q) = {m.rids[k] : k \in {j \in a .. b - 1 : In(j)}}
      /\ FoundBetween(m, hi - 1, hi, q) = {m.rids[k] : k \in {j \in c .. d - 1 : In(j)}}
      /\ RowsBetween(m, lo + 1, hi - 1) = {m.rids[k] : k \in b .. c - 1}
  BY DEF FoundBetween, RowsBetween
<1> HIDE DEF In, a, b, c, d, lo, hi
<1>8. {j \in a .. d - 1 : In(j)}
        = {j \in a .. b - 1 : In(j)} \cup (b .. c - 1) \cup {j \in c .. d - 1 : In(j)}
  BY <1>4, <1>5, <1>6
<1>9. FoundBetween(m, lo, hi, q) = FoundBetween(m, lo, lo + 1, q)
              \cup RowsBetween(m, lo + 1, hi - 1) \cup FoundBetween(m, hi - 1, hi, q)
  <2> DEFINE A == {j \in a .. d - 1 : In(j)}
             B == {j \in a .. b - 1 : In(j)}
             C == b .. c - 1
             D == {j \in c .. d - 1 : In(j)}
  <2>1. A = B \cup C \cup D
    BY <1>8
  <2> HIDE DEF A, B, C, D
  <2>2. {m.rids[k] : k \in A}
          = {m.rids[k] : k \in B} \cup {m.rids[k] : k \in C} \cup {m.rids[k] : k \in D}
    BY <2>1
  <2> QED BY <1>7, <2>2 DEF A, B, C, D
<1> QED BY <1>9 DEF lo, hi

(***************************************************************************)
(* The bits of a variable in a partition are the rows whose values are in  *)
(* its interval: those of the bins that are checked come from the          *)
(* candidates found, those of the bins between from the lists of the bins. *)
(***************************************************************************)
LEMMA BitsOfVariable ==
  ASSUME NEW m, NEW q, Taken(m, q), Touched(m, q)
  PROVE  VariableBits(m, q) = RowsWithin(m, q)
<1> DEFINE lo == StartBin(m, q)
           hi == EndBin(m, q)
<1>1. /\ IsPartition(m) /\ IsIndexed(m) /\ Interval(q) /\ HasBits(m)
      /\ m.datatype = "double" /\ m.form = Mix
      /\ \A b \in 1 .. m.numBins : ~ TooWide(RowsOfBin(m, b))
      /\ \A b \in CheckedBins(m, q) : ~ HasRuns(m.index[b + 1])
  BY DEF Taken, PlainPartition
<1>2. m.numBins \in Nat /\ lo \in Bins(m) /\ hi \in lo + 1 .. m.numBins
  BY <1>1, TouchedBins, StartsAreNatural
<1>3. lo \in 0 .. m.numBins /\ hi \in 0 .. m.numBins /\ lo < hi /\ lo \in Int /\ hi \in Int
  BY <1>2 DEF Bins
<1>4. RowsWithin(m, q) = FoundBetween(m, lo, hi, q)
  BY ONLY <1>1, Touched(m, q), RowsOfTouchedBins
<1>5. CASE hi - lo > 2
  <2>1. /\ lo + 1 \in 0 .. m.numBins /\ hi - 1 \in 0 .. m.numBins
        /\ lo < lo + 1 /\ lo + 1 < hi - 1 /\ hi - 1 < hi
        /\ lo .. (lo + 1) - 1 = {lo} /\ hi - 1 .. hi - 1 = {hi - 1}
    BY <1>2, <1>3, <1>5 DEF Bins
  <2>2. CheckedBins(m, q) = {lo, hi - 1}
    BY <1>5 DEF CheckedBins
  <2>3. BinsRead(m, lo, lo + 1) /\ BinsRead(m, lo + 1, hi - 1) /\ BinsRead(m, hi - 1, hi)
    BY ONLY <1>1, <1>3, <2>1 DEF BinsRead
  <2>4. candidateCheck(m, lo, lo + 1, q) = FoundBetween(m, lo, lo + 1, q)
    <3>1. \A b \in lo .. (lo + 1) - 1 : ~ HasRuns(m.index[b + 1])
      BY <1>1, <2>1, <2>2
    <3> QED BY ONLY <1>1, <2>3, <3>1, CandidateRows
  <2>5. candidateCheck(m, hi - 1, hi, q) = FoundBetween(m, hi - 1, hi, q)
    <3>1. \A b \in hi - 1 .. hi - 1 : ~ HasRuns(m.index[b + 1])
      BY <1>1, <2>1, <2>2
    <3> QED BY ONLY <1>1, <2>3, <3>1, CandidateRows
  <2>6. InnerBins(m, lo, hi) = RowsBetween(m, lo + 1, hi - 1)
    <3>1. InnerBins(m, lo, hi)
            = UNION {ListBits(Mix, list) : list \in Range(BinsOf(m, lo + 1, hi - 1))}
      BY <1>1 DEF InnerBins
    <3>2. UNION {ListBits(Mix, list) : list \in Range(BinsOf(m, lo + 1, hi - 1))}
            = RowsBetween(m, lo + 1, hi - 1)
      BY ONLY <2>3, BitsOfBins
    <3> QED BY ONLY <3>1, <3>2
  <2>7. VariableBits(m, q) = candidateCheck(m, lo, lo + 1, q) \cup InnerBins(m, lo, hi)
            \cup candidateCheck(m, hi - 1, hi, q)
    BY <1>5 DEF VariableBits
  <2>8. FoundBetween(m, lo, hi, q) = FoundBetween(m, lo, lo + 1, q)
              \cup RowsBetween(m, lo + 1, hi - 1) \cup FoundBetween(m, hi - 1, hi, q)
    BY ONLY Taken(m, q), Touched(m, q), <1>5, RowsInside
  <2> HIDE DEF lo, hi
  <2> QED BY ONLY <1>4, <2>4, <2>5, <2>6, <2>7, <2>8
<1>6. CASE ~ (hi - lo > 2)
  <2>1. CheckedBins(m, q) = lo .. hi - 1
    BY <1>6 DEF CheckedBins
  <2>2. BinsRead(m, lo, hi)
    BY ONLY <1>1, <1>3 DEF BinsRead
  <2>3. candidateCheck(m, lo, hi, q) = FoundBetween(m, lo, hi, q)
    <3>1. \A b \in lo .. hi - 1 : ~ HasRuns(m.index[b + 1])
      BY <1>1, <2>1
    <3> QED BY ONLY <1>1, <2>2, <3>1, CandidateRows
  <2>4. VariableBits(m, q) = candidateCheck(m, lo, hi, q)
    BY <1>6 DEF VariableBits
  <2> QED BY ONLY <1>4, <2>3, <2>4
<1> QED BY <1>5, <1>6

-------------------------------------------------------------------------------
(* The rows of a partition that the variables before the one in turn leave. *)

RowsOf(t, qs, v, n) == RowsWithin(t[v][n], qs[v])
PlainAt(t, qs, v, n) == PlainPartition(t[v][n], qs[v])

\* The bits of a bitmap of table t.
BitsFor(t) == 0 .. BITNSLOTS64(t[1][1].length) * WordBits - 1

\* Of partition n, the bits that the variables before j leave, that these
\* variables have plain partitions, and that one of them has no row.
InTurn(t, qs, n, j) == {r \in BitsFor(t) : \A v \in 1 .. j - 1 : r \in RowsOf(t, qs, v, n)}
PlainBefore(t, qs, n, j) == \A v \in 1 .. j - 1 : PlainAt(t, qs, v, n)
EmptyBefore(t, qs, n, j) == \E v \in 1 .. j - 1 : RowsOf(t, qs, v, n) = {}

\* The rows that satisfy the query, and how many there are in p partitions.
InAll(t, qs, n) ==
  {r \in 0 .. t[1][n].length - 1 : \A v \in DOMAIN t : r \in RowsOf(t, qs, v, n)}
PlainInAll(t, qs, n) == \A v \in DOMAIN t : PlainAt(t, qs, v, n)
CountOf(t, qs, p) == SumOf([n \in 1 .. p |-> Cardinality(InAll(t, qs, n))])

\* The words of a bitmap have a bit for every row.
LEMMA EnoughWords ==
  ASSUME NEW b \in Nat
  PROVE  BITNSLOTS64(b) * WordBits \in Nat /\ b <= BITNSLOTS64(b) * WordBits
<1> DEFINE x == b + WordBits - 1
           q == x \div WordBits
           r == x % WordBits
           y == q * WordBits
<1>1. WordBits \in Nat \ {0} /\ x \in Nat
  BY BatchShape
<1>2. q \in Nat /\ r \in 0 .. WordBits - 1 /\ x = q * WordBits + r
  <2> HIDE DEF x
  <2> QED BY ONLY <1>1, Divided DEF q, r
<1>3. y \in Nat
  <2> HIDE DEF q
  <2> QED BY <1>1, <1>2
<1>4. b + WordBits - 1 = y + r
  BY <1>2
<1>5. BITNSLOTS64(b) * WordBits = y
  BY DEF BITNSLOTS64
<1> HIDE DEF y, r
<1>6. b <= y
  BY <1>1, <1>2, <1>3, <1>4
<1> QED BY <1>3, <1>5, <1>6

\* The partitions of a table and what is known of their lengths.
LEMMA PartitionOf ==
  ASSUME NEW t \in Tables, NEW v \in DOMAIN t, NEW n \in 1 .. Len(t[1])
  PROVE  /\ IsPartition(t[v][n]) /\ IsIndexed(t[v][n])
         /\ t[v][n].length \in Nat /\ t[v][n].length = t[1][n].length
         /\ 0 .. t[v][n].length - 1 \subseteq BitsFor(t)
<1>1. /\ Len(t) \in Nat \ {0} /\ DOMAIN t = 1 .. Len(t)
      /\ DOMAIN t[v] = 1 .. Len(t[v]) /\ Len(t[v]) = Len(t[1])
      /\ Len(t[1]) \in Nat \ {0} /\ DOMAIN t[1] = 1 .. Len(t[1])
  BY TableAssumption
<1>2. 1 \in DOMAIN t /\ n \in DOMAIN t[v] /\ 1 \in DOMAIN t[v] /\ 1 \in DOMAIN t[1]
  BY <1>1
<1>3. /\ IsPartition(t[v][n]) /\ IsIndexed(t[v][n])
      /\ t[v][n].length = t[1][n].length /\ t[v][n].length <= t[v][1].length
      /\ t[v][1].length = t[1][1].length /\ IsPartition(t[1][1])
  BY <1>2, PartitionAssumption
<1>4. t[v][n].length \in Nat /\ t[1][1].length \in Nat
  BY <1>3 DEF IsPartition
<1> DEFINE y == BITNSLOTS64(t[1][1].length) * WordBits
<1>5. y \in Nat /\ t[1][1].length <= y
  BY <1>4, EnoughWords
<1>6. BitsFor(t) = 0 .. y - 1
  BY DEF BitsFor
<1> HIDE DEF y
<1>7. 0 .. t[v][n].length - 1 \subseteq BitsFor(t)
  BY <1>3, <1>4, <1>5, <1>6
<1> QED BY <1>3, <1>4, <1>7

\* The bounds of an interval are elements.
LEMMA IntervalOf ==
  ASSUME NEW t \in Tables, NEW qs \in Intervals, NEW v \in DOMAIN t
  PROVE  Interval(qs[v])
BY TableAssumption DEF Interval

\* Rows are rows of the application, which have bits.
LEMMA RowsAreBits ==
  ASSUME NEW t \in Tables, NEW qs, NEW v \in DOMAIN t, NEW n \in 1 .. Len(t[1])
  PROVE  RowsOf(t, qs, v, n) \subseteq 0 .. t[1][n].length - 1
<1> DEFINE m == t[v][n]
<1>1. IsPartition(m) /\ m.length = t[1][n].length
  BY PartitionOf
<1> HIDE DEF m
<1>2. m.rids \in [0 .. m.length - 1 -> 0 .. m.length - 1] /\ DOMAIN m.elems = 0 .. m.length - 1
  BY <1>1 DEF IsPartition
<1>3. RowsWithin(m, qs[v]) \subseteq 0 .. m.length - 1
  BY <1>2 DEF RowsWithin
<1> QED BY <1>1, <1>3 DEF RowsOf, m

\* One variable more.
LEMMA OneMoreVariable ==
  ASSUME NEW t \in Tables, NEW qs, NEW n, NEW j \in DOMAIN t
  PROVE  /\ PlainBefore(t, qs, n, j + 1) <=> PlainBefore(t, qs, n, j) /\ PlainAt(t, qs, j, n)
         /\ EmptyBefore(t, qs, n, j + 1) <=> EmptyBefore(t, qs, n, j) \/ RowsOf(t, qs, j, n) = {}
         /\ InTurn(t, qs, n, j + 1) = InTurn(t, qs, n, j) \cap RowsOf(t, qs, j, n)
<1>1. j \in Nat \ {0}
  BY TableShape
<1>2. 1 .. (j + 1) - 1 = (1 .. j - 1) \cup {j}
  BY <1>1
<1> QED BY <1>2 DEF PlainBefore, EmptyBefore, InTurn

\* Before the first variable, and after the last.
LEMMA BeforeTheFirst ==
  ASSUME NEW t, NEW qs, NEW n
  PROVE  InTurn(t, qs, n, 1) = BitsFor(t)
<1>1. 1 .. 1 - 1 = {}
  OBVIOUS
<1> QED BY <1>1 DEF InTurn

\* After the last variable, what is left are the rows that satisfy the query.
LEMMA AfterTheLast ==
  ASSUME NEW t \in Tables, NEW qs, NEW n \in 1 .. Len(t[1])
  PROVE  /\ InTurn(t, qs, n, Len(t) + 1) = InAll(t, qs, n)
         /\ PlainBefore(t, qs, n, Len(t) + 1) <=> PlainInAll(t, qs, n)
         /\ EmptyBefore(t, qs, n, Len(t) + 1) => InAll(t, qs, n) = {}
<1>1. Len(t) \in Nat \ {0} /\ DOMAIN t = 1 .. Len(t)
  BY TableShape
<1>2. 1 .. (Len(t) + 1) - 1 = DOMAIN t /\ 1 \in DOMAIN t
  BY <1>1
<1>3. RowsOf(t, qs, 1, n) \subseteq 0 .. t[1][n].length - 1
  BY <1>2, RowsAreBits
<1>4. 0 .. t[1][n].length - 1 \subseteq BitsFor(t)
  BY <1>2, PartitionOf
<1>5. InTurn(t, qs, n, Len(t) + 1) = InAll(t, qs, n)
  BY <1>2, <1>3, <1>4 DEF InTurn, InAll
<1>6. PlainBefore(t, qs, n, Len(t) + 1) <=> PlainInAll(t, qs, n)
  BY <1>2 DEF PlainBefore, PlainInAll
<1>7. EmptyBefore(t, qs, n, Len(t) + 1) => InAll(t, qs, n) = {}
  BY <1>2 DEF EmptyBefore, InAll
<1> QED BY <1>5, <1>6, <1>7

\* The rows of a partition that satisfy the query are finitely many.
LEMMA CountIsNatural ==
  ASSUME NEW t \in Tables, NEW qs, NEW n \in 1 .. Len(t[1])
  PROVE  Cardinality(InAll(t, qs, n)) \in Int
<1>1. 1 \in DOMAIN t
  BY TableShape
<1>2. t[1][n].length \in Nat
  BY <1>1, PartitionOf
<1> DEFINE last == t[1][n].length - 1
           all == 0 .. last
<1>3. IsFiniteSet(all)
  <2>1. 0 \in Int /\ last \in Int
    BY <1>2
  <2> HIDE DEF last
  <2> QED BY <2>1, FS_Interval
<1>4. InAll(t, qs, n) \subseteq all
  BY DEF InAll
<1> HIDE DEF all
<1>5. IsFiniteSet(InAll(t, qs, n))
  BY <1>3, <1>4, FS_Subset
<1>6. Cardinality(InAll(t, qs, n)) \in Nat
  BY <1>5, FS_CardinalityType
<1> QED BY <1>6

\* One partition more.
LEMMA OneMoreCounted ==
  ASSUME NEW t \in Tables, NEW qs, NEW p \in Nat, p < Len(t[1])
  PROVE  CountOf(t, qs, p + 1) = CountOf(t, qs, p) + Cardinality(InAll(t, qs, p + 1))
<1> DEFINE C(n) == Cardinality(InAll(t, qs, n))
           s == [n \in 1 .. p + 1 |-> C(n)]
           u == [n \in 1 .. p |-> C(n)]
<1>1. Len(t[1]) \in Nat /\ \A n \in 1 .. p + 1 : n \in 1 .. Len(t[1])
  <2>1. 1 \in DOMAIN t /\ Len(t[1]) \in Nat
    BY TableShape
  <2> QED BY <2>1
<1>2. \A n \in 1 .. p + 1 : C(n) \in Int
  BY <1>1, CountIsNatural
<1> HIDE DEF C
<1>3. /\ p + 1 \in Nat /\ Len(s) = p + 1 /\ Len(u) = p
      /\ \A n \in 1 .. p + 1 : s[n] = C(n) /\ s[n] \in Int
      /\ \A n \in 1 .. p : u[n] = C(n)
  BY <1>2
<1> HIDE DEF s, u
<1>4. PICK f : IsSum(f, p + 1, s)
  BY <1>3, PartialSums
<1> DEFINE g == [k \in 0 .. p |-> f[k]]
<1>5. f \in [0 .. p + 1 -> Int] /\ f[0] = 0 /\ \A k \in 1 .. p + 1 : f[k] = f[k - 1] + s[k]
  BY <1>4 DEF IsSum
<1>6. IsSum(g, p, u)
  <2>1. g \in [0 .. p -> Int] /\ g[0] = 0
    BY <1>5
  <2>2. \A k \in 1 .. p : g[k] = g[k - 1] + u[k]
    <3> TAKE k \in 1 .. p
    <3>1. k \in 1 .. p + 1 /\ k \in 0 .. p /\ k - 1 \in 0 .. p
      OBVIOUS
    <3>2. s[k] = u[k] /\ g[k] = f[k] /\ g[k - 1] = f[k - 1]
      BY <1>3, <3>1
    <3> QED BY <1>5, <3>1, <3>2
  <2> HIDE DEF g
  <2> QED BY <2>1, <2>2 DEF IsSum
<1>7. g[p] = f[p] /\ f[p + 1] = f[p] + s[p + 1] /\ s[p + 1] = C(p + 1)
  <2>1. p \in 0 .. p /\ p + 1 \in 1 .. p + 1 /\ (p + 1) - 1 = p
    OBVIOUS
  <2> QED BY <1>3, <1>5, <2>1
<1> HIDE DEF g
<1>8. SumOf(s) = f[p + 1]
  BY <1>3, <1>4, SumIs
<1>9. SumOf(u) = g[p]
  BY <1>3, <1>6, SumIs
<1>10. CountOf(t, qs, p + 1) = SumOf(s) /\ CountOf(t, qs, p) = SumOf(u)
  BY DEF CountOf, s, u, C
<1> QED BY <1>7, <1>8, <1>9, <1>10 DEF C

\* No partition, no row.
LEMMA NothingCounted ==
  ASSUME NEW t, NEW qs
  PROVE  CountOf(t, qs, 0) = 0
<1> DEFINE s == [n \in 1 .. 0 |-> Cardinality(InAll(t, qs, n))]
           f == [k \in 0 .. 0 |-> 0]
<1>1. Len(s) = 0 /\ 0 \in Nat
  OBVIOUS
<1>2. f \in [0 .. 0 -> Int] /\ f[0] = 0 /\ 1 .. 0 = {}
  OBVIOUS
<1> HIDE DEF s, f
<1>3. IsSum(f, 0, s)
  BY <1>2 DEF IsSum
<1>4. SumOf(s) = f[0]
  BY <1>1, <1>3, SumIs
<1> QED BY <1>2, <1>4 DEF CountOf, s

(***************************************************************************)
(* The inductive invariant of the rows.  While the variables before the    *)
(* one in turn had plain partitions, the bitmap has the rows that they all *)
(* leave, or one of them has no row at all; the total is that of the       *)
(* partitions counted so far.                                              *)
(***************************************************************************)
Matched ==
  pc = "variables" /\ PlainBefore(stores, queries, part + 1, i) =>
    /\ touched => bitmap = InTurn(stores, queries, part + 1, i)
    /\ ~ touched => EmptyBefore(stores, queries, part + 1, i)
Totalled ==
  pc \in Going =>
    /\ pc = "done" => part = Len(stores[1])
    /\ part <= Len(stores[1])
    /\ (\A n \in 1 .. part : PlainInAll(stores, queries, n)) =>
         total = CountOf(stores, queries, part)
Counted == queries \in Intervals /\ Matched /\ Totalled

\* The definitions of the proof are those of the properties.
LEMMA SameRows ==
  /\ \A v, n : Plain(v, n) <=> PlainAt(stores, queries, v, n)
  /\ \A n : AllPlain(n) <=> PlainInAll(stores, queries, n)
  /\ \A n : Satisfied(n) = InAll(stores, queries, n)
  /\ AllOnes = BitsFor(stores)
<1>1. \A v, n : Plain(v, n) <=> PlainAt(stores, queries, v, n)
  BY DEF Plain, PlainAt, PlainPartition
<1>2. \A v, n : RowsIn(v, n) = RowsOf(stores, queries, v, n)
  BY DEF RowsIn, RowsOf, RowsWithin
<1>3. \A n : AllPlain(n) <=> PlainInAll(stores, queries, n)
  BY <1>1 DEF AllPlain, PlainInAll, Variables
<1>4. \A n : Satisfied(n) = InAll(stores, queries, n)
  BY <1>2 DEF Satisfied, InAll, Variables
<1>5. AllOnes = BitsFor(stores)
  BY DEF AllOnes, BitsFor, psize
<1> QED BY <1>1, <1>3, <1>4, <1>5

\* The partition that is opened is the one in turn, of a plain one all is read.
LEMMA OpenedPartition ==
  ASSUME Lockstep, Counted, OpenVariable
  PROVE  /\ Meta = stores[i][part + 1] /\ i \in DOMAIN stores /\ stores \in Tables
         /\ part \in Nat /\ part + 1 \in 1 .. Len(stores[1])
         /\ IsPartition(Meta) /\ Interval(queries[i])
         /\ PlainAt(stores, queries, i, part + 1) => Taken(Meta, queries[i])
<1>1. /\ pc = "variables" /\ i \in DOMAIN stores /\ stores \in Tables
      /\ queries \in Intervals
  BY DEF OpenVariable, Variables, Lockstep, Counted
<1>2. part \in Nat /\ part < Len(stores[1]) /\ cur = At(stores, part, i)
  BY <1>1 DEF Lockstep, Turn, Going
<1>3. cur[i] = part
  BY <1>1, <1>2, OneStoreAdvances
<1>4. part + 1 \in 1 .. Len(stores[1])
  <2>1. Len(stores[1]) \in Nat
    BY <1>1, TableShape
  <2> QED BY <1>2, <2>1
<1>5. Meta = stores[i][part + 1]
  BY <1>3 DEF Meta
<1>6. /\ IsPartition(Meta) /\ IsIndexed(Meta) /\ Meta.length \in Nat
      /\ 0 .. Meta.length - 1 \subseteq BitsFor(stores)
  BY <1>1, <1>4, <1>5, PartitionOf
<1>7. Interval(queries[i])
  BY <1>1, IntervalOf
<1> DEFINE m == Meta
<1>8. HasBits(m)
  <2>1. m.rids \in [0 .. m.length - 1 -> 0 .. m.length - 1]
    BY <1>6 DEF IsPartition
  <2>2. \A k \in 0 .. m.length - 1 : m.rids[k] \in BitsFor(stores)
    <3> HIDE DEF m
    <3>1. 0 .. m.length - 1 \subseteq BitsFor(stores)
      BY <1>6 DEF m
    <3> QED BY <2>1, <3>1
  <2> QED BY <2>2, SameRows DEF HasBits
<1>9. PlainAt(stores, queries, i, part + 1) => PlainPartition(m, queries[i])
  BY <1>5 DEF PlainAt
<1> QED BY <1>1, <1>2, <1>4, <1>5, <1>6, <1>7, <1>8, <1>9 DEF Taken

\* No partition has been counted at first.
LEMMA CountedInit == Init => Counted
<1> SUFFICES ASSUME Init PROVE Counted
  OBVIOUS
<1>1. /\ stores \in Tables /\ queries \in Intervals /\ pc = "partitions" /\ part = 0
      /\ total = 0
  BY DEF Init
<1>2. Matched
  BY <1>1 DEF Matched
<1>3. total = CountOf(stores, queries, part)
  BY <1>1, NothingCounted
<1>4. 0 <= Len(stores[1])
  <2>1. Len(stores[1]) \in Nat
    BY <1>1, TableShape
  <2> QED BY <2>1
<1> QED BY <1>1, <1>2, <1>3, <1>4 DEF Counted, Totalled

\* Whatever happens to a variable, the total stays.
LEMMA VariableKeepsTotal ==
  ASSUME Counted, OpenVariable, pc' = "variables"
  PROVE  queries' \in Intervals /\ Totalled'
<1>1. /\ pc = "variables" /\ stores' = stores /\ queries' = queries /\ part' = part
      /\ total' = total
  BY DEF OpenVariable
<1>2. /\ part <= Len(stores[1])
      /\ (\A n \in 1 .. part : PlainInAll(stores, queries, n)) =>
           total = CountOf(stores, queries, part)
      /\ queries \in Intervals
  BY <1>1 DEF Counted, Totalled, Going
<1> QED BY <1>1, <1>2 DEF Totalled

\* The variable in turn leaves the rows it has in the partition.
LEMMA VariableMatches ==
  ASSUME Lockstep, Counted, OpenVariable, i' = i + 1, pc' = "variables",
         SkipVariable \/ UntouchedVariable \/ MixVariable \/ OtherFormVariable
  PROVE  Matched'
<1>1. /\ Meta = stores[i][part + 1] /\ i \in DOMAIN stores /\ stores \in Tables
      /\ IsPartition(Meta) /\ Interval(queries[i])
      /\ PlainAt(stores, queries, i, part + 1) => Taken(Meta, queries[i])
  BY OpenedPartition
<1>2. stores' = stores /\ queries' = queries /\ part' = part /\ pc = "variables"
  BY DEF OpenVariable
<1> DEFINE n == part + 1
<1>3. /\ PlainBefore(stores, queries, n, i + 1)
           <=> PlainBefore(stores, queries, n, i) /\ PlainAt(stores, queries, i, n)
      /\ EmptyBefore(stores, queries, n, i + 1)
           <=> EmptyBefore(stores, queries, n, i) \/ RowsOf(stores, queries, i, n) = {}
      /\ InTurn(stores, queries, n, i + 1)
           = InTurn(stores, queries, n, i) \cap RowsOf(stores, queries, i, n)
  BY <1>1, OneMoreVariable
<1>4. PlainBefore(stores, queries, n, i) =>
        /\ touched => bitmap = InTurn(stores, queries, n, i)
        /\ ~ touched => EmptyBefore(stores, queries, n, i)
  BY <1>2 DEF Counted, Matched
<1>5. RowsOf(stores, queries, i, n) = RowsWithin(Meta, queries[i])
  BY <1>1 DEF RowsOf
<1> HIDE DEF n
<1>6. ASSUME PlainBefore(stores, queries, n, i + 1)
      PROVE  /\ touched' => bitmap' = InTurn(stores, queries, n, i + 1)
             /\ ~ touched' => EmptyBefore(stores, queries, n, i + 1)
  <2>1. PlainBefore(stores, queries, n, i) /\ PlainAt(stores, queries, i, n)
    BY <1>3, <1>6
  <2>2. Taken(Meta, queries[i])
    BY <1>1, <2>1 DEF n
  <2>3. CASE SkipVariable
    <3>1. ~ touched /\ (touched' <=> touched)
      BY <2>3 DEF SkipVariable
    <3> QED BY <3>1, <2>1, <1>3, <1>4
  <2>4. CASE UntouchedVariable
    <3>1. ~ touched' /\ ~ Touched(Meta, queries[i])
      BY <2>4 DEF UntouchedVariable, TouchedNow
    <3>2. RowsWithin(Meta, queries[i]) = {}
      BY <1>1, <3>1, NoRowsUntouched
    <3> QED BY <3>1, <3>2, <1>3, <1>5
  <2>5. CASE MixVariable
    <3>1. /\ touched /\ (touched' <=> touched) /\ Touched(Meta, queries[i])
          /\ bitmap' = bitmap \cap VariableBits(Meta, queries[i])
      BY <2>5 DEF MixVariable, Works, TouchedNow
    <3>2. VariableBits(Meta, queries[i]) = RowsWithin(Meta, queries[i])
      BY ONLY <2>2, <3>1, BitsOfVariable
    <3>3. bitmap' = InTurn(stores, queries, n, i + 1)
      BY <3>1, <3>2, <2>1, <1>3, <1>4, <1>5
    <3> QED BY <3>1, <3>3
  <2>6. CASE OtherFormVariable
    <3>1. Meta.form # Mix
      BY <2>6 DEF OtherFormVariable
    <3> QED BY <3>1, <2>2 DEF Taken, PlainPartition
  <2> QED BY <2>3, <2>4, <2>5, <2>6
<1> QED BY <1>2, <1>6 DEF Matched, n

\* A partition that all variables are through adds its rows to the total.
LEMMA PartitionCounted ==
  ASSUME Lockstep, Counted, pc = "variables", i \notin Variables
  PROVE  /\ stores \in Tables /\ part \in Nat /\ part + 1 \in 1 .. Len(stores[1])
         /\ PlainInAll(stores, queries, part + 1) =>
              /\ touched => bitmap = InAll(stores, queries, part + 1)
              /\ ~ touched => InAll(stores, queries, part + 1) = {}
<1>1. /\ stores \in Tables /\ part \in Nat /\ i \in 1 .. Len(stores) + 1
      /\ part < Len(stores[1])
  BY DEF Lockstep, Turn, Going
<1>2. i = Len(stores) + 1
  BY <1>1, TableShape DEF Variables
<1> DEFINE n == part + 1
<1>3. n \in 1 .. Len(stores[1])
  <2>1. Len(stores[1]) \in Nat
    BY <1>1, TableShape
  <2> QED BY <1>1, <2>1
<1>4. PlainBefore(stores, queries, n, i) =>
        /\ touched => bitmap = InTurn(stores, queries, n, i)
        /\ ~ touched => EmptyBefore(stores, queries, n, i)
  BY DEF Counted, Matched
<1> HIDE DEF n
<1>5. /\ InTurn(stores, queries, n, i) = InAll(stores, queries, n)
      /\ PlainBefore(stores, queries, n, i) <=> PlainInAll(stores, queries, n)
      /\ EmptyBefore(stores, queries, n, i) => InAll(stores, queries, n) = {}
  BY <1>1, <1>2, <1>3, AfterTheLast
<1>6. PlainInAll(stores, queries, n) =>
        /\ touched => bitmap = InAll(stores, queries, n)
        /\ ~ touched => InAll(stores, queries, n) = {}
  BY <1>4, <1>5
<1> QED BY <1>1, <1>3, <1>6 DEF n

\* Every step keeps the invariant of the rows.
LEMMA CountedNext ==
  ASSUME Lockstep, Counted, [Next]_vars
  PROVE  Counted'
<1> DEFINE All(p) == \A n \in 1 .. p : PlainInAll(stores, queries, n)
<1>1. CASE NextPartition
  <2>1. /\ pc = "partitions" /\ pc' = "variables" /\ i' = 1 /\ touched' /\ bitmap' = AllOnes
        /\ stores' = stores /\ queries' = queries /\ part' = part /\ total' = total
    BY <1>1 DEF NextPartition, ResetBitmap
  <2>2. Matched'
    <3>1. bitmap' = InTurn(stores, queries, part + 1, 1)
      BY <2>1, SameRows, BeforeTheFirst
    <3> QED BY <2>1, <3>1 DEF Matched
  <2>3. Totalled'
    BY <2>1 DEF Counted, Totalled, Going
  <2> QED BY <2>1, <2>2, <2>3 DEF Counted
<1>2. CASE CountPartition
  <2>1. /\ pc = "variables" /\ i \notin Variables /\ pc' = "partitions"
        /\ total' = total + Count /\ part' = part + 1
        /\ stores' = stores /\ queries' = queries
    BY <1>2 DEF CountPartition
  <2>2. /\ stores \in Tables /\ part \in Nat /\ part + 1 \in 1 .. Len(stores[1])
        /\ PlainInAll(stores, queries, part + 1) =>
             /\ touched => bitmap = InAll(stores, queries, part + 1)
             /\ ~ touched => InAll(stores, queries, part + 1) = {}
    BY ONLY Lockstep, Counted, <2>1, PartitionCounted
  <2>3. All(part) => total = CountOf(stores, queries, part)
    BY <2>1 DEF Counted, Totalled, Going
  <2>4. All(part + 1) => All(part) /\ PlainInAll(stores, queries, part + 1)
    <3>1. 1 .. part \subseteq 1 .. part + 1 /\ part + 1 \in 1 .. part + 1
      BY <2>2
    <3> QED BY <3>1
  <2>5. PlainInAll(stores, queries, part + 1) => Count = Cardinality(InAll(stores, queries, part + 1))
    <3>1. Cardinality({}) = 0
      BY FS_EmptySet
    <3> QED BY <3>1, <2>2 DEF Count
  <2>6. part + 1 <= Len(stores[1]) /\ part < Len(stores[1])
    <3>1. 1 \in DOMAIN stores /\ Len(stores[1]) \in Nat
      BY <2>2, TableShape
    <3> QED BY <3>1, <2>2
  <2>7. CountOf(stores, queries, part + 1)
          = CountOf(stores, queries, part) + Cardinality(InAll(stores, queries, part + 1))
    BY <2>2, <2>6, OneMoreCounted
  <2>8. All(part + 1) => total + Count = CountOf(stores, queries, part + 1)
    BY ONLY <2>3, <2>4, <2>5, <2>7
  <2>9. Totalled'
    BY <2>1, <2>6, <2>8 DEF Totalled
  <2>10. Matched'
    BY <2>1 DEF Matched
  <2> QED BY <2>1, <2>9, <2>10 DEF Counted
<1>3. CASE Finish
  <2>1. /\ pc = "partitions" /\ pc' = "done" /\ cur[1] >= Len(stores[1])
        /\ stores' = stores /\ queries' = queries /\ part' = part /\ total' = total
    BY <1>3 DEF Finish, AtEnd
  <2>2. /\ stores \in Tables /\ part \in Nat /\ cur = At(stores, part, 1)
        /\ part <= Len(stores[1])
        /\ (All(part) => total = CountOf(stores, queries, part))
    BY <2>1 DEF Lockstep, Between, Counted, Totalled, Going
  <2>3. 1 \in DOMAIN stores /\ Len(stores[1]) \in Nat
    BY <2>2, TableShape
  <2>4. cur[1] = part
    BY <2>2, <2>3, OneStoreAdvances
  <2>5. part = Len(stores[1])
    BY <2>1, <2>2, <2>3, <2>4
  <2>6. Totalled'
    BY <2>1, <2>2, <2>5 DEF Totalled
  <2>7. Matched'
    BY <2>1 DEF Matched
  <2> QED BY <2>1, <2>6, <2>7 DEF Counted
<1>4. CASE SkipVariable
  <2>1. OpenVariable /\ i' = i + 1 /\ pc' = "variables"
    BY <1>4 DEF SkipVariable, OpenVariable
  <2> QED BY <1>4, <2>1, VariableKeepsTotal, VariableMatches DEF Counted
<1>5. CASE UntouchedVariable
  <2>1. OpenVariable /\ i' = i + 1 /\ pc' = "variables"
    BY <1>5 DEF UntouchedVariable, OpenVariable
  <2> QED BY <1>5, <2>1, VariableKeepsTotal, VariableMatches DEF Counted
<1>6. CASE MixVariable
  <2>1. OpenVariable /\ i' = i + 1 /\ pc' = "variables"
    BY <1>6 DEF MixVariable, OpenVariable
  <2> QED BY <1>6, <2>1, VariableKeepsTotal, VariableMatches DEF Counted
<1>7. CASE OtherFormVariable
  <2>1. CASE i' = i + 1 /\ pc' = pc
    <3>1. OpenVariable /\ i' = i + 1 /\ pc' = "variables"
      BY <1>7, <2>1 DEF OtherFormVariable, OpenVariable
    <3> QED BY <1>7, <3>1, VariableKeepsTotal, VariableMatches DEF Counted
  <2>2. CASE pc' = "aborted"
    <3>1. queries' = queries
      BY <1>7 DEF OtherFormVariable, OpenVariable
    <3> QED BY <2>2, <3>1 DEF Counted, Matched, Totalled, Going
  <2> QED BY <1>7, <2>1, <2>2 DEF OtherFormVariable
<1>8. CASE Refuse
  <2>1. pc' = "refused" /\ queries' = queries
    BY <1>8 DEF Refuse, OpenVariable
  <2> QED BY <2>1 DEF Counted, Matched, Totalled, Going
<1>9. CASE UNCHANGED vars
  BY <1>9 DEF vars, Counted, Matched, Totalled
<1> QED BY <1>1, <1>2, <1>3, <1>4, <1>5, <1>6, <1>7, <1>8, <1>9 DEF Next

\* The bitmap that is counted has the rows that satisfy the query.
LEMMA CountedImpliesRows ==
  ASSUME Lockstep, Counted
  PROVE  RowsMatch
<1> SUFFICES ASSUME pc = "variables", i \notin Variables, AllPlain(part + 1)
             PROVE  (IF touched THEN bitmap ELSE {}) = Satisfied(part + 1)
  BY DEF RowsMatch
<1>1. PlainInAll(stores, queries, part + 1) =>
        /\ touched => bitmap = InAll(stores, queries, part + 1)
        /\ ~ touched => InAll(stores, queries, part + 1) = {}
  BY PartitionCounted
<1>2. PlainInAll(stores, queries, part + 1) /\ Satisfied(part + 1) = InAll(stores, queries, part + 1)
  BY SameRows
<1> QED BY <1>1, <1>2

\* At the end all partitions have been counted.
LEMMA CountedImpliesTotal ==
  ASSUME Lockstep, Counted
  PROVE  TotalCount
<1> SUFFICES ASSUME pc = "done", \A n \in DOMAIN stores[1] : AllPlain(n)
             PROVE  total = SumOf([n \in DOMAIN stores[1] |-> Cardinality(Satisfied(n))])
  BY DEF TotalCount
<1>1. /\ stores \in Tables /\ part = Len(stores[1])
      /\ (\A n \in 1 .. part : PlainInAll(stores, queries, n)) =>
           total = CountOf(stores, queries, part)
  BY DEF Lockstep, Counted, Totalled, Going
<1>2. DOMAIN stores[1] = 1 .. part
  BY <1>1, TableAssumption
<1>3. \A n : Satisfied(n) = InAll(stores, queries, n)
  BY SameRows
<1>4. \A n \in 1 .. part : PlainInAll(stores, queries, n)
  BY <1>2, SameRows
<1>5. [n \in DOMAIN stores[1] |-> Cardinality(Satisfied(n))]
        = [n \in 1 .. part |-> Cardinality(InAll(stores, queries, n))]
  BY <1>2, <1>3
<1> QED BY <1>1, <1>4, <1>5 DEF CountOf

(***************************************************************************)
(* For every table, of any number of variables, partitions and rows, and   *)
(* all intervals: what multiquery.c counts for a partition is the rows in  *)
(* which every variable is in its interval, where the tool's limits make   *)
(* no difference.                                                          *)
(***************************************************************************)
THEOREM RowsAreMatched == Spec => []RowsMatch
<1>1. Init => Lockstep /\ Counted
  BY LockstepInit, CountedInit
<1>2. Lockstep /\ Counted /\ [Next]_vars => (Lockstep /\ Counted)'
  BY LockstepNext, CountedNext
<1>3. Lockstep /\ Counted => RowsMatch
  BY CountedImpliesRows
<1> QED BY <1>1, <1>2, <1>3, PTL DEF Spec

(***************************************************************************)
(* The total that multiquery.c prints is the number of these rows in all   *)
(* partitions of the table.                                                *)
(***************************************************************************)
THEOREM TotalIsCounted == Spec => []TotalCount
<1>1. Init => Lockstep /\ Counted
  BY LockstepInit, CountedInit
<1>2. Lockstep /\ Counted /\ [Next]_vars => (Lockstep /\ Counted)'
  BY LockstepNext, CountedNext
<1>3. Lockstep /\ Counted => TotalCount
  BY CountedImpliesTotal
<1> QED BY <1>1, <1>2, <1>3, PTL DEF Spec
===============================================================================
