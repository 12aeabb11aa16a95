------------------------------ MODULE ALCodecProofs -----------------------------
(***************************************************************************)
(* The encoder's layout and buffers are right for every input, and the     *)
(* decoder inverts the encoder.                                            *)
(***************************************************************************)
EXTENDS ALCodecProps, DatumBits, FiniteSetTheorems, TLAPS

-------------------------------------------------------------------------------
(* Rows and their bin values, of an input x.                               *)

Hi(x, r) == High(x[r + 1])

\* Of the first n rows, those with bin value v, and how many they are.
RowsOf(x, v, n) == {r \in 0 .. n - 1 : Hi(x, r) = v}
Frequency(x, v, n) == Cardinality(RowsOf(x, v, n))

\* The bin values of the first n rows.
ValuesOf(x, n) == {v \in BinValues : RowsOf(x, v, n) # {}}

\* A row has a bin value, and its low part joins to the value it had.
LEMMA RowHasValue ==
  ASSUME NEW x \in Seq(Data), NEW r \in 0 .. Len(x) - 1
  PROVE  /\ Hi(x, r) \in BinValues /\ x[r + 1] \in Data
         /\ Rejoin(Hi(x, r), Low(x[r + 1])) = x[r + 1]
<1>1. Len(x) \in Nat /\ r + 1 \in 1 .. Len(x)
  OBVIOUS
<1>2. x[r + 1] \in Data
  BY <1>1
<1> QED BY <1>2, CodecAssumption DEF Hi, BinValues

\* There are finitely many bin values.
LEMMA BinValuesFinite == IsFiniteSet(BinValues) /\ Sign \in Nat \ {0}
  BY CodecAssumption, FS_Interval DEF BinValues

\* The first n rows hold a value finitely often.
LEMMA RowsFinite ==
  ASSUME NEW x, NEW v, NEW n \in Nat
  PROVE  /\ IsFiniteSet(RowsOf(x, v, n)) /\ Frequency(x, v, n) \in 0 .. n
         /\ Frequency(x, v, n) = 0 <=> RowsOf(x, v, n) = {}
<1>1. IsFiniteSet(0 .. n - 1) /\ Cardinality(0 .. n - 1) = n
  BY FS_Interval
<1>2. RowsOf(x, v, n) \in SUBSET (0 .. n - 1)
  BY DEF RowsOf
<1>3. IsFiniteSet(RowsOf(x, v, n)) /\ Cardinality(RowsOf(x, v, n)) <= n
  BY <1>1, <1>2, FS_Subset
<1>4. Cardinality(RowsOf(x, v, n)) \in Nat
  BY <1>3, FS_CardinalityType
<1>5. Cardinality(RowsOf(x, v, n)) = 0 <=> RowsOf(x, v, n) = {}
  BY <1>3, FS_EmptySet
<1> QED BY <1>3, <1>4, <1>5 DEF Frequency

\* One row more.
LEMMA NextRow ==
  ASSUME NEW x, NEW v, NEW n \in Nat
  PROVE  /\ RowsOf(x, v, n + 1) = IF Hi(x, n) = v THEN RowsOf(x, v, n) \cup {n}
                                  ELSE RowsOf(x, v, n)
         /\ Frequency(x, v, n + 1) = Frequency(x, v, n) + (IF Hi(x, n) = v THEN 1 ELSE 0)
<1>1. 0 .. (n + 1) - 1 = (0 .. n - 1) \cup {n} /\ n \notin 0 .. n - 1
  OBVIOUS
<1>2. RowsOf(x, v, n + 1) = IF Hi(x, n) = v THEN RowsOf(x, v, n) \cup {n}
                            ELSE RowsOf(x, v, n)
  BY <1>1 DEF RowsOf
<1>3. IsFiniteSet(RowsOf(x, v, n)) /\ n \notin RowsOf(x, v, n)
  <2>1. n \notin RowsOf(x, v, n)
    BY <1>1 DEF RowsOf
  <2> QED BY <2>1, RowsFinite
<1>4. Cardinality(RowsOf(x, v, n) \cup {n}) = Cardinality(RowsOf(x, v, n)) + 1
  BY <1>3, FS_AddElement
<1>5. Frequency(x, v, n) \in Nat
  BY RowsFinite
<1> QED BY <1>2, <1>4, <1>5 DEF Frequency

\* A row comes after the rows of its bin value before it.
LEMMA RowsBefore ==
  ASSUME NEW x, NEW v, NEW n \in Nat, NEW r \in RowsOf(x, v, n)
  PROVE  Frequency(x, v, r) < Frequency(x, v, n)
<1>1. r \in Nat /\ r + 1 \in Nat /\ r + 1 <= n /\ Hi(x, r) = v
  BY DEF RowsOf
<1>2. RowsOf(x, v, r + 1) \in SUBSET RowsOf(x, v, n)
  BY <1>1 DEF RowsOf
<1>3. Frequency(x, v, r + 1) <= Frequency(x, v, n)
  BY <1>2, RowsFinite, FS_Subset DEF Frequency
<1>4. Frequency(x, v, r + 1) = Frequency(x, v, r) + 1
  BY <1>1, NextRow
<1> QED BY <1>1, <1>3, <1>4, RowsFinite

\* No row holds a value before the first is counted.
LEMMA NoRows ==
  ASSUME NEW x, NEW v
  PROVE  RowsOf(x, v, 0) = {} /\ Frequency(x, v, 0) = 0
<1>1. RowsOf(x, v, 0) = {}
  BY DEF RowsOf
<1> QED BY <1>1, FS_EmptySet DEF Frequency

-------------------------------------------------------------------------------
(* The first scan: the table counts, and the number of bins is the number  *)
(* of values met.                                                          *)

Counted(x, n, t, k) ==
  /\ t = [v \in BinValues |-> Frequency(x, v, n)]
  /\ k = Cardinality(ValuesOf(x, n)) /\ k \in 0 .. n

\* The table of counts is right at first.
LEMMA NothingCounted ==
  ASSUME NEW x PROVE Counted(x, 0, [v \in BinValues |-> 0], 0)
<1>1. ValuesOf(x, 0) = {}
  BY NoRows DEF ValuesOf
<1> QED BY <1>1, NoRows, FS_EmptySet DEF Counted

\* Counting a row keeps the table of counts right.
LEMMA RowCounted ==
  ASSUME NEW x \in Seq(Data), NEW n \in 0 .. Len(x) - 1, NEW t, NEW k, Counted(x, n, t, k),
         NEW tt, tt = [t EXCEPT ![Hi(x, n)] = @ + 1]
  PROVE  Counted(x, n + 1, tt, IF tt[Hi(x, n)] = 1 THEN k + 1 ELSE k)
<1> DEFINE h == Hi(x, n)
<1>1. n \in Nat /\ h \in BinValues
  BY RowHasValue
<1>2. tt = [v \in BinValues |-> Frequency(x, v, n + 1)]
  <2>1. \A v \in BinValues : Frequency(x, v, n) \in Nat
    BY <1>1, RowsFinite
  <2>2. \A v \in BinValues :
          Frequency(x, v, n + 1) = IF v = h THEN Frequency(x, v, n) + 1 ELSE Frequency(x, v, n)
    <3> SUFFICES ASSUME NEW v \in BinValues
                 PROVE  Frequency(x, v, n + 1)
                          = IF v = h THEN Frequency(x, v, n) + 1 ELSE Frequency(x, v, n)
      OBVIOUS
    <3>1. Frequency(x, v, n + 1) = Frequency(x, v, n) + (IF h = v THEN 1 ELSE 0)
      BY <1>1, NextRow
    <3> QED BY <2>1, <3>1
  <2>3. tt = [v \in BinValues |-> IF v = h THEN Frequency(x, v, n) + 1 ELSE Frequency(x, v, n)]
    BY <1>1 DEF Counted
  <2> QED BY <2>2, <2>3
<1>3. tt[h] = Frequency(x, h, n) + 1 /\ Frequency(x, h, n) \in Nat
  <2>1. Frequency(x, h, n + 1) = Frequency(x, h, n) + 1
    BY <1>1, NextRow
  <2> QED BY <1>1, <1>2, <2>1, RowsFinite
<1>4. ValuesOf(x, n + 1) = ValuesOf(x, n) \cup {h}
  <2>1. ASSUME NEW v
        PROVE  RowsOf(x, v, n + 1) # {} <=> (RowsOf(x, v, n) # {} \/ v = h)
    <3>1. Frequency(x, v, n + 1) = Frequency(x, v, n) + (IF h = v THEN 1 ELSE 0)
      BY <1>1, NextRow
    <3>2. /\ Frequency(x, v, n) \in Nat
          /\ Frequency(x, v, n) = 0 <=> RowsOf(x, v, n) = {}
          /\ Frequency(x, v, n + 1) = 0 <=> RowsOf(x, v, n + 1) = {}
      BY <1>1, RowsFinite
    <3> QED BY <3>1, <3>2
  <2> QED BY <1>1, <2>1 DEF ValuesOf
<1>5. h \in ValuesOf(x, n) <=> tt[h] # 1
  BY <1>1, <1>3, RowsFinite DEF ValuesOf
<1>6. IsFiniteSet(ValuesOf(x, n))
  BY BinValuesFinite, FS_Subset DEF ValuesOf
<1>7. Cardinality(ValuesOf(x, n + 1)) = IF tt[h] = 1 THEN k + 1 ELSE k
  BY <1>4, <1>5, <1>6, FS_AddElement DEF Counted
<1> QED BY <1>1, <1>2, <1>7 DEF Counted
-------------------------------------------------------------------------------
(* The order of the bins, and the layout while the scan is at value s of   *)
(* that order.                                                             *)

Rank(v) == IF v < Sign THEN v + Sign ELSE 2 * Sign - 1 - v

\* Rank and OrderedValue are inverse, and ranks are in the order of bins.
LEMMA RankAndOrder ==
  /\ \A s \in 0 .. 2 * Sign - 1 : OrderedValue(s) \in BinValues /\ Rank(OrderedValue(s)) = s
  /\ \A v \in BinValues : /\ Rank(v) \in 0 .. 2 * Sign - 1 /\ OrderedValue(Rank(v)) = v
                          /\ Key(v) = Rank(v) - Sign
BY CodecAssumption DEF Rank, OrderedValue, BinValues, Key

Values(x) == ValuesOf(x, Len(x))
Rows(x) == 0 .. Len(x) - 1

\* What the scan has passed: bin values, and rows with them.
PassedValues(x, s) == {v \in Values(x) : Rank(v) < s}
PassedRows(x, s) == {r \in Rows(x) : Rank(Hi(x, r)) < s}

LayoutTypes(x, t, k, bv, bs) ==
  /\ k = Cardinality(Values(x)) /\ k \in 0 .. Len(x)
  /\ t \in [BinValues -> 0 .. Len(x)]
  /\ bv \in [0 .. k - 1 -> BinValues \cup {Undef}]
  /\ bs \in [0 .. k -> (0 .. Len(x)) \cup {Undef}]

LayoutSoFar(x, s, t, k, cb, ce, bv, bs) ==
  /\ LayoutTypes(x, t, k, bv, bs)
  /\ cb = Cardinality(PassedValues(x, s)) /\ cb \in 0 .. k
  /\ ce = Cardinality(PassedRows(x, s)) /\ ce \in 0 .. Len(x)
  /\ \A b \in 0 .. cb - 1 : bv[b] \in PassedValues(x, s)
  /\ \A b, c \in 0 .. cb - 1 : b < c => Rank(bv[b]) < Rank(bv[c])
  /\ bs[0] = 0 /\ bs[cb] = ce /\ \A b \in 0 .. cb : bs[b] \in 0 .. Len(x)
  /\ \A b, c \in 0 .. cb : b < c => bs[b] < bs[c]
  /\ \A b \in 0 .. cb - 1 : bs[b + 1] = bs[b] + Frequency(x, bv[b], Len(x))
  /\ \A v \in BinValues : IF v \in PassedValues(x, s)
                            THEN t[v] \in 0 .. cb - 1 /\ bv[t[v]] = v
                            ELSE t[v] = Frequency(x, v, Len(x))

\* The values passed, and their rows, are finitely many.
LEMMA PassedFinite ==
  ASSUME NEW x \in Seq(Data), NEW s \in Nat
  PROVE  /\ IsFiniteSet(PassedValues(x, s)) /\ PassedValues(x, s) \subseteq BinValues
         /\ IsFiniteSet(PassedRows(x, s)) /\ IsFiniteSet(Values(x))
         /\ IsFiniteSet(Rows(x)) /\ Cardinality(Rows(x)) = Len(x)
<1>1. Values(x) \subseteq BinValues /\ PassedValues(x, s) \subseteq Values(x)
  BY DEF Values, ValuesOf, PassedValues
<1>2. IsFiniteSet(Rows(x)) /\ Cardinality(Rows(x)) = Len(x)
  <2>1. Len(x) \in Nat
    OBVIOUS
  <2>2. IsFiniteSet(0 .. Len(x) - 1)
        /\ Cardinality(0 .. Len(x) - 1) = IF 0 > Len(x) - 1 THEN 0 ELSE Len(x) - 1 - 0 + 1
    BY <2>1, FS_Interval
  <2> QED BY <2>1, <2>2 DEF Rows
<1>3. PassedRows(x, s) \subseteq Rows(x)
  BY DEF PassedRows
<1>4. IsFiniteSet(PassedRows(x, s))
  BY <1>2, <1>3, FS_Subset
<1>5. IsFiniteSet(Values(x)) /\ IsFiniteSet(PassedValues(x, s))
  BY <1>1, BinValuesFinite, FS_Subset
<1> QED BY <1>1, <1>2, <1>4, <1>5

\* The layout of no value is right.
LEMMA LayoutBegins ==
  ASSUME NEW x \in Seq(Data), NEW t, NEW k, Counted(x, Len(x), t, k),
         NEW bv, bv = Fresh(0 .. k - 1),
         NEW bs, bs = [Fresh(0 .. k) EXCEPT ![0] = 0]
  PROVE  LayoutSoFar(x, 0, t, k, 0, 0, bv, bs)
<1>1. Len(x) \in Nat /\ k \in 0 .. Len(x)
  BY DEF Counted
<1>2. PassedValues(x, 0) = {} /\ PassedRows(x, 0) = {}
  <2>1. \A v \in BinValues : ~ (Rank(v) < 0)
    BY RankAndOrder
  <2>2. \A r \in Rows(x) : Hi(x, r) \in BinValues
    BY RowHasValue DEF Rows
  <2> QED BY <2>1, <2>2 DEF PassedValues, PassedRows, Values, ValuesOf
<1>3. LayoutTypes(x, t, k, bv, bs)
  <2>1. \A v \in BinValues : Frequency(x, v, Len(x)) \in 0 .. Len(x)
    BY <1>1, RowsFinite
  <2>2. t \in [BinValues -> 0 .. Len(x)]
    BY <2>1 DEF Counted
  <2> QED BY <1>1, <2>2 DEF LayoutTypes, Counted, Values, Fresh
<1>4. bs[0] = 0
  BY <1>1 DEF Fresh
<1>5. Cardinality(PassedValues(x, 0)) = 0 /\ Cardinality(PassedRows(x, 0)) = 0
  BY <1>2, FS_EmptySet
<1>6. \A v \in BinValues : t[v] = Frequency(x, v, Len(x))
  BY DEF Counted
<1> QED BY <1>1, <1>2, <1>3, <1>4, <1>5, <1>6 DEF LayoutSoFar

\* The value the scan has come to.
LEMMA NextValue ==
  ASSUME NEW x \in Seq(Data), NEW s \in 0 .. 2 * Sign - 1, NEW v, v = OrderedValue(s)
  PROVE  /\ v \in BinValues /\ v \notin PassedValues(x, s)
         /\ v \in Values(x) <=> Frequency(x, v, Len(x)) # 0
         /\ v \in Values(x) => PassedValues(x, s + 1) = PassedValues(x, s) \cup {v}
         /\ v \notin Values(x) => PassedValues(x, s + 1) = PassedValues(x, s)
         /\ PassedRows(x, s + 1) = PassedRows(x, s) \cup RowsOf(x, v, Len(x))
         /\ PassedRows(x, s) \cap RowsOf(x, v, Len(x)) = {}
<1>1. v \in BinValues /\ Rank(v) = s
  BY RankAndOrder
<1>2. \A w \in BinValues : Rank(w) = s => w = v
  BY RankAndOrder
<1>3. v \notin PassedValues(x, s)
  BY <1>1 DEF PassedValues
<1>4. v \in Values(x) <=> Frequency(x, v, Len(x)) # 0
  BY <1>1, RowsFinite DEF Values, ValuesOf
<1>5. \A w \in BinValues : Rank(w) < s + 1 <=> (Rank(w) < s \/ w = v)
  BY <1>1, <1>2, RankAndOrder
<1>6. Values(x) \subseteq BinValues
  BY DEF Values, ValuesOf
<1>7. /\ v \in Values(x) => PassedValues(x, s + 1) = PassedValues(x, s) \cup {v}
      /\ v \notin Values(x) => PassedValues(x, s + 1) = PassedValues(x, s)
  <2>1. \A w : w \in PassedValues(x, s + 1)
                 <=> w \in PassedValues(x, s) \/ (w = v /\ v \in Values(x))
    BY <1>5, <1>6 DEF PassedValues
  <2> QED BY <2>1
<1>8. \A r \in Rows(x) : Hi(x, r) \in BinValues
  BY RowHasValue DEF Rows
<1>9. PassedRows(x, s + 1) = PassedRows(x, s) \cup RowsOf(x, v, Len(x))
  BY <1>5, <1>8 DEF PassedRows, RowsOf, Rows
<1>10. PassedRows(x, s) \cap RowsOf(x, v, Len(x)) = {}
  BY <1>1 DEF PassedRows, RowsOf
<1> QED BY <1>1, <1>3, <1>4, <1>7, <1>9, <1>10

\* A value without rows has no bin.
LEMMA ValueSkipped ==
  ASSUME NEW x \in Seq(Data), NEW s \in 0 .. 2 * Sign - 1, NEW t, NEW k, NEW cb, NEW ce,
         NEW bv, NEW bs, LayoutSoFar(x, s, t, k, cb, ce, bv, bs), t[OrderedValue(s)] = 0
  PROVE  LayoutSoFar(x, s + 1, t, k, cb, ce, bv, bs)
<1> DEFINE v == OrderedValue(s)
<1>1. v \in BinValues /\ v \notin PassedValues(x, s)
  BY NextValue
<1>2. Frequency(x, v, Len(x)) = 0
  BY <1>1 DEF LayoutSoFar
<1>3. v \notin Values(x) /\ RowsOf(x, v, Len(x)) = {}
  <2>1. Len(x) \in Nat
    OBVIOUS
  <2>2. RowsOf(x, v, Len(x)) = {}
    BY <1>2, <2>1, RowsFinite
  <2> QED BY <2>2 DEF Values, ValuesOf
<1>4. PassedValues(x, s + 1) = PassedValues(x, s)
  BY <1>3, NextValue
<1>5. PassedRows(x, s + 1) = PassedRows(x, s)
  <2>1. PassedRows(x, s + 1) = PassedRows(x, s) \cup RowsOf(x, v, Len(x))
    BY NextValue
  <2> QED BY <1>3, <2>1
<1> QED BY <1>4, <1>5 DEF LayoutSoFar

\* A value with rows gets the next bin, which is as long as it has rows.
LEMMA ValueLaidOut ==
  ASSUME NEW x \in Seq(Data), NEW s \in 0 .. 2 * Sign - 1, NEW t, NEW k, NEW cb, NEW ce,
         NEW bv, NEW bs, LayoutSoFar(x, s, t, k, cb, ce, bv, bs),
         NEW v, v = OrderedValue(s), t[v] # 0,
         NEW tt, tt = [t EXCEPT ![v] = cb],
         NEW cce, cce = ce + t[v],
         NEW bbv, bbv = [bv EXCEPT ![cb] = v],
         NEW bbs, bbs = [bs EXCEPT ![cb + 1] = cce]
  PROVE  LayoutSoFar(x, s + 1, tt, k, cb + 1, cce, bbv, bbs)
<1>1. /\ v \in BinValues /\ v \notin PassedValues(x, s)
      /\ PassedRows(x, s + 1) = PassedRows(x, s) \cup RowsOf(x, v, Len(x))
      /\ PassedRows(x, s) \cap RowsOf(x, v, Len(x)) = {}
      /\ Rank(v) = s /\ Len(x) \in Nat
  BY NextValue, RankAndOrder
<1>2. t[v] = Frequency(x, v, Len(x)) /\ t[v] \in 1 .. Len(x)
  <2>1. t[v] = Frequency(x, v, Len(x))
    BY <1>1 DEF LayoutSoFar
  <2> QED BY <1>1, <2>1, RowsFinite
<1>3. v \in Values(x) /\ PassedValues(x, s + 1) = PassedValues(x, s) \cup {v}
  BY <1>2, NextValue
<1>4. /\ LayoutTypes(x, t, k, bv, bs) /\ cb \in 0 .. k /\ ce \in 0 .. Len(x)
      /\ k \in 0 .. Len(x)
  BY DEF LayoutSoFar, LayoutTypes
<1>5. cb + 1 = Cardinality(PassedValues(x, s + 1)) /\ cb + 1 \in 0 .. k
  <2>1. IsFiniteSet(PassedValues(x, s)) /\ IsFiniteSet(Values(x))
    BY PassedFinite
  <2>2. Cardinality(PassedValues(x, s) \cup {v}) = Cardinality(PassedValues(x, s)) + 1
    BY <1>1, <2>1, FS_AddElement
  <2>3. PassedValues(x, s + 1) \in SUBSET Values(x)
    BY DEF PassedValues
  <2>4. Cardinality(PassedValues(x, s + 1)) <= Cardinality(Values(x))
    BY <2>1, <2>3, FS_Subset
  <2>5. cb = Cardinality(PassedValues(x, s)) /\ k = Cardinality(Values(x))
    BY DEF LayoutSoFar, LayoutTypes
  <2>6. Cardinality(PassedValues(x, s + 1)) = cb + 1
    BY <1>3, <2>2, <2>5
  <2> QED BY <1>4, <2>4, <2>5, <2>6
<1>6. cce = Cardinality(PassedRows(x, s + 1)) /\ cce \in 0 .. Len(x) /\ ce < cce
  <2>1. /\ IsFiniteSet(PassedRows(x, s)) /\ IsFiniteSet(Rows(x))
        /\ Cardinality(Rows(x)) = Len(x)
    BY PassedFinite
  <2>2. IsFiniteSet(RowsOf(x, v, Len(x)))
    BY <1>1, RowsFinite
  <2>3. Cardinality(PassedRows(x, s) \cup RowsOf(x, v, Len(x)))
          = Cardinality(PassedRows(x, s)) + Cardinality(RowsOf(x, v, Len(x))) - Cardinality({})
    BY <1>1, <2>1, <2>2, FS_Union
  <2>4. PassedRows(x, s + 1) \in SUBSET Rows(x)
    BY DEF PassedRows
  <2>5. Cardinality(PassedRows(x, s + 1)) <= Len(x)
    BY <2>1, <2>4, FS_Subset
  <2>6. ce = Cardinality(PassedRows(x, s)) /\ t[v] = Cardinality(RowsOf(x, v, Len(x)))
    BY <1>2 DEF LayoutSoFar, Frequency
  <2>7. Cardinality(PassedRows(x, s + 1)) = ce + t[v] - 0
    BY <1>1, <2>3, <2>6, FS_EmptySet
  <2> QED BY <1>2, <1>4, <2>5, <2>7
<1>7. LayoutTypes(x, tt, k, bbv, bbs)
  BY <1>1, <1>4, <1>5, <1>6 DEF LayoutTypes
<1>8. /\ bbv[cb] = v /\ \A b \in 0 .. cb - 1 : bbv[b] = bv[b]
      /\ bbs[cb + 1] = cce /\ \A b \in 0 .. cb : bbs[b] = bs[b]
      /\ tt[v] = cb /\ \A w \in BinValues : w # v => tt[w] = t[w]
  BY <1>1, <1>4, <1>5 DEF LayoutTypes
<1>9. \A b \in 0 .. cb : bbv[b] \in PassedValues(x, s + 1)
  BY <1>3, <1>4, <1>8 DEF LayoutSoFar
<1>10. \A b, c \in 0 .. cb : b < c => Rank(bbv[b]) < Rank(bbv[c])
  <2>1. \A b \in 0 .. cb - 1 : Rank(bv[b]) < s
    BY DEF LayoutSoFar, PassedValues
  <2>2. \A b, c \in 0 .. cb - 1 : b < c => Rank(bv[b]) < Rank(bv[c])
    BY DEF LayoutSoFar
  <2> QED BY <1>1, <1>4, <1>8, <2>1, <2>2
<1>11. /\ bs[0] = 0 /\ bs[cb] = ce /\ \A b \in 0 .. cb : bs[b] \in 0 .. Len(x)
       /\ \A b, c \in 0 .. cb : b < c => bs[b] < bs[c]
       /\ \A b \in 0 .. cb - 1 : bs[b + 1] = bs[b] + Frequency(x, bv[b], Len(x))
  BY DEF LayoutSoFar
<1>12. bbs[0] = 0 /\ \A b \in 0 .. cb + 1 : bbs[b] \in 0 .. Len(x)
  BY <1>4, <1>6, <1>8, <1>11
<1>13. \A b, c \in 0 .. cb + 1 : b < c => bbs[b] < bbs[c]
  <2> SUFFICES ASSUME NEW b \in 0 .. cb + 1, NEW c \in 0 .. cb + 1, b < c
               PROVE  bbs[b] < bbs[c]
    OBVIOUS
  <2>1. b \in 0 .. cb /\ cb \in Nat /\ ce \in Nat
    BY <1>4
  <2>2. bbs[b] = bs[b] /\ bs[b] \in Nat
    BY <1>8, <1>11, <2>1
  <2>3. CASE c = cb + 1
    <3>1. bs[b] <= ce
      <4>1. CASE b = cb
        BY <1>11, <2>1, <4>1
      <4>2. CASE b # cb
        <5>1. b < cb /\ cb \in 0 .. cb
          BY <2>1, <4>2
        <5>2. bs[b] < bs[cb]
          BY <1>11, <2>1, <5>1
        <5> QED BY <1>11, <2>1, <2>2, <5>2
      <4> QED BY <4>1, <4>2
    <3>2. bbs[c] = cce
      BY <1>8, <2>3
    <3> QED BY <1>6, <2>1, <2>2, <3>1, <3>2
  <2>4. CASE c # cb + 1
    <3>1. c \in 0 .. cb
      BY <2>1, <2>4
    <3>2. bs[b] < bs[c] /\ bbs[c] = bs[c]
      BY <1>8, <1>11, <2>1, <3>1
    <3> QED BY <2>2, <3>2
  <2> QED BY <2>3, <2>4
<1>14. \A b \in 0 .. cb : bbs[b + 1] = bbs[b] + Frequency(x, bbv[b], Len(x))
  <2> SUFFICES ASSUME NEW b \in 0 .. cb
               PROVE  bbs[b + 1] = bbs[b] + Frequency(x, bbv[b], Len(x))
    OBVIOUS
  <2>1. CASE b = cb
    BY <1>2, <1>4, <1>8, <1>11, <2>1
  <2>2. CASE b # cb
    <3>1. b \in 0 .. cb - 1 /\ b + 1 \in 0 .. cb
      BY <1>4, <2>2
    <3>2. bbs[b + 1] = bs[b + 1] /\ bbs[b] = bs[b] /\ bbv[b] = bv[b]
      BY <1>8, <3>1
    <3> QED BY <1>11, <3>1, <3>2
  <2> QED BY <2>1, <2>2
<1>15. \A w \in BinValues : IF w \in PassedValues(x, s + 1)
                              THEN tt[w] \in 0 .. cb /\ bbv[tt[w]] = w
                              ELSE tt[w] = Frequency(x, w, Len(x))
  <2> SUFFICES ASSUME NEW w \in BinValues
               PROVE  IF w \in PassedValues(x, s + 1)
                        THEN tt[w] \in 0 .. cb /\ bbv[tt[w]] = w
                        ELSE tt[w] = Frequency(x, w, Len(x))
    OBVIOUS
  <2>1. IF w \in PassedValues(x, s) THEN t[w] \in 0 .. cb - 1 /\ bv[t[w]] = w
        ELSE t[w] = Frequency(x, w, Len(x))
    BY DEF LayoutSoFar
  <2>2. CASE w = v
    BY <1>3, <1>4, <1>8, <2>2
  <2>3. CASE w # v
    BY <1>3, <1>4, <1>8, <2>1, <2>3
  <2> QED BY <2>2, <2>3
<1>16. (cb + 1) - 1 = cb
  BY <1>4
<1> QED BY <1>5, <1>6, <1>7, <1>8, <1>9, <1>10, <1>12, <1>13, <1>14, <1>15, <1>16
        DEF LayoutSoFar

-------------------------------------------------------------------------------
(* The finished layout, and the slots it gives to the rows.                *)

LayoutDone(x, t, k, bv, bs) ==
  /\ k \in 0 .. Len(x)
  /\ t \in [BinValues -> 0 .. Len(x)]
  /\ bv \in [0 .. k - 1 -> BinValues]
  /\ bs \in [0 .. k -> 0 .. Len(x)]
  /\ \A v \in Values(x) : t[v] \in 0 .. k - 1 /\ bv[t[v]] = v
  /\ \A b \in 0 .. k - 1 : bv[b] \in Values(x) /\ t[bv[b]] = b
  /\ \A b, c \in 0 .. k - 1 : b < c => Rank(bv[b]) < Rank(bv[c])
  /\ bs[0] = 0 /\ bs[k] = Len(x)
  /\ \A b, c \in 0 .. k : b < c => bs[b] < bs[c]
  /\ \A b \in 0 .. k - 1 : bs[b + 1] = bs[b] + Frequency(x, bv[b], Len(x))

\* When all values are passed, the bins have all rows.
LEMMA LayoutEnds ==
  ASSUME NEW x \in Seq(Data), NEW t, NEW k, NEW cb, NEW ce, NEW bv, NEW bs,
         LayoutSoFar(x, 2 * Sign, t, k, cb, ce, bv, bs)
  PROVE  LayoutDone(x, t, k, bv, bs) /\ cb = k /\ ce = Len(x)
<1>1. PassedValues(x, 2 * Sign) = Values(x) /\ PassedRows(x, 2 * Sign) = Rows(x)
  <2>1. \A v \in BinValues : Rank(v) < 2 * Sign
    BY RankAndOrder, CodecAssumption
  <2>2. \A r \in Rows(x) : Hi(x, r) \in BinValues
    BY RowHasValue DEF Rows
  <2> QED BY <2>1, <2>2 DEF PassedValues, PassedRows, Values, ValuesOf
<1>2. 2 * Sign \in Nat /\ Len(x) \in Nat
  BY CodecAssumption
<1>3. Cardinality(Rows(x)) = Len(x)
  BY <1>2, PassedFinite
<1>4. cb = k /\ ce = Len(x) /\ k \in 0 .. Len(x)
  BY <1>1, <1>3 DEF LayoutSoFar, LayoutTypes
<1>5. LayoutTypes(x, t, k, bv, bs) /\ Values(x) \subseteq BinValues
  BY DEF LayoutSoFar, Values, ValuesOf
<1>6. \A b \in 0 .. k - 1 : bv[b] \in Values(x)
  BY <1>1, <1>4 DEF LayoutSoFar
<1>7. \A b, c \in 0 .. k - 1 : b < c => Rank(bv[b]) < Rank(bv[c])
  BY <1>4 DEF LayoutSoFar
<1>8. \A v \in Values(x) : t[v] \in 0 .. k - 1 /\ bv[t[v]] = v
  BY <1>1, <1>4, <1>5 DEF LayoutSoFar
<1>9. \A b \in 0 .. k - 1 : t[bv[b]] = b
  <2> SUFFICES ASSUME NEW b \in 0 .. k - 1 PROVE t[bv[b]] = b
    OBVIOUS
  <2>1. bv[b] \in BinValues /\ Rank(bv[b]) \in Int
    BY <1>5, <1>6, RankAndOrder
  <2>2. t[bv[b]] \in 0 .. k - 1 /\ bv[t[bv[b]]] = bv[b]
    BY <1>6, <1>8
  <2> QED BY <1>4, <1>7, <2>1, <2>2
<1>10. /\ bs[0] = 0 /\ bs[k] = Len(x) /\ \A b \in 0 .. k : bs[b] \in 0 .. Len(x)
       /\ \A b, c \in 0 .. k : b < c => bs[b] < bs[c]
       /\ \A b \in 0 .. k - 1 : bs[b + 1] = bs[b] + Frequency(x, bv[b], Len(x))
  BY <1>4 DEF LayoutSoFar
<1>11. bv \in [0 .. k - 1 -> BinValues] /\ bs \in [0 .. k -> 0 .. Len(x)]
  BY <1>5, <1>6, <1>10 DEF LayoutTypes
<1>12. t \in [BinValues -> 0 .. Len(x)]
  BY <1>5 DEF LayoutTypes
<1> QED BY <1>4, <1>6, <1>7, <1>8, <1>9, <1>10, <1>11, <1>12 DEF LayoutDone

\* Where row r goes: behind the earlier rows of its bin.
BinOf(x, t, r) == t[Hi(x, r)]
Slot(x, t, bs, r) == bs[BinOf(x, t, r)] + Frequency(x, Hi(x, r), r)

\* The bin of a row is one of its value.
LEMMA RowHasBin ==
  ASSUME NEW x \in Seq(Data), NEW t, NEW k, NEW bv, NEW bs, LayoutDone(x, t, k, bv, bs),
         NEW r \in 0 .. Len(x) - 1
  PROVE  /\ BinOf(x, t, r) \in 0 .. k - 1 /\ bv[BinOf(x, t, r)] = Hi(x, r)
         /\ r \in RowsOf(x, Hi(x, r), Len(x)) /\ Hi(x, r) \in Values(x)
<1>1. r \in RowsOf(x, Hi(x, r), Len(x)) /\ Hi(x, r) \in BinValues
  BY RowHasValue DEF RowsOf
<1>2. Hi(x, r) \in Values(x)
  BY <1>1 DEF Values, ValuesOf
<1> QED BY <1>1, <1>2 DEF LayoutDone, BinOf

\* The place of a row is in its bin.
LEMMA SlotInBin ==
  ASSUME NEW x \in Seq(Data), NEW t, NEW k, NEW bv, NEW bs, LayoutDone(x, t, k, bv, bs),
         NEW r \in 0 .. Len(x) - 1
  PROVE  /\ Slot(x, t, bs, r) \in bs[BinOf(x, t, r)] .. bs[BinOf(x, t, r) + 1] - 1
         /\ Slot(x, t, bs, r) \in 0 .. Len(x) - 1
<1> DEFINE h == Hi(x, r)
           b == BinOf(x, t, r)
<1>1. b \in 0 .. k - 1 /\ bv[b] = h /\ r \in RowsOf(x, h, Len(x)) /\ Len(x) \in Nat
      /\ r \in Nat
  BY RowHasBin
<1>2. k \in Nat /\ b + 1 \in 0 .. k /\ b \in 0 .. k
  BY <1>1 DEF LayoutDone
<1>3. bs[b] \in 0 .. Len(x) /\ bs[b + 1] \in 0 .. Len(x)
      /\ bs[b + 1] = bs[b] + Frequency(x, h, Len(x))
  BY <1>1, <1>2 DEF LayoutDone
<1>4. Frequency(x, h, r) \in Nat /\ Frequency(x, h, Len(x)) \in Nat
      /\ Frequency(x, h, r) < Frequency(x, h, Len(x))
  BY <1>1, RowsFinite, RowsBefore
<1>5. Slot(x, t, bs, r) = bs[b] + Frequency(x, h, r)
  BY DEF Slot
<1>6. /\ Slot(x, t, bs, r) \in bs[b] .. bs[b + 1] - 1
      /\ Slot(x, t, bs, r) \in 0 .. Len(x) - 1
  <2> HIDE DEF b, h
  <2> QED BY <1>1, <1>3, <1>4, <1>5
<1> QED BY <1>6

\* A bin ends before a later one begins.
LEMMA BinsApart ==
  ASSUME NEW x \in Seq(Data), NEW t, NEW k, NEW bv, NEW bs, LayoutDone(x, t, k, bv, bs),
         NEW b \in 0 .. k - 1, NEW c \in 0 .. k - 1, b < c
  PROVE  /\ bs[b] \in Nat /\ bs[b + 1] \in Nat /\ bs[c] \in Nat /\ bs[c + 1] \in Nat
         /\ bs[b + 1] <= bs[c]
<1>1. k \in Nat /\ b \in 0 .. k /\ b + 1 \in 0 .. k /\ c \in 0 .. k /\ c + 1 \in 0 .. k
      /\ (b + 1 = c \/ b + 1 < c)
  BY DEF LayoutDone
<1>2. \A d \in 0 .. k : bs[d] \in Nat
  BY DEF LayoutDone
<1>3. \A d, e \in 0 .. k : d < e => bs[d] < bs[e]
  BY DEF LayoutDone
<1> QED BY <1>1, <1>2, <1>3

\* A slot of a bin is a slot of no other; rows of one bin have slots in their order.
LEMMA SlotsInOrder ==
  ASSUME NEW x \in Seq(Data), NEW t, NEW k, NEW bv, NEW bs, LayoutDone(x, t, k, bv, bs),
         NEW q \in 0 .. Len(x) - 1, NEW r \in 0 .. Len(x) - 1
  PROVE  /\ q < r /\ Hi(x, q) = Hi(x, r) => Slot(x, t, bs, q) < Slot(x, t, bs, r)
         /\ Hi(x, q) # Hi(x, r) => Slot(x, t, bs, q) # Slot(x, t, bs, r)
<1> DEFINE b == BinOf(x, t, q)
           c == BinOf(x, t, r)
<1>1. b \in 0 .. k - 1 /\ bv[b] = Hi(x, q)
  BY RowHasBin
<1>2. c \in 0 .. k - 1 /\ bv[c] = Hi(x, r)
  BY RowHasBin
<1>3. Slot(x, t, bs, q) \in bs[b] .. bs[b + 1] - 1
  BY SlotInBin
<1>4. Slot(x, t, bs, r) \in bs[c] .. bs[c + 1] - 1
  BY SlotInBin
<1>5. ASSUME q < r, Hi(x, q) = Hi(x, r)
      PROVE  Slot(x, t, bs, q) < Slot(x, t, bs, r)
  <2>1. b = c
    BY <1>5 DEF BinOf
  <2>2. q \in RowsOf(x, Hi(x, r), r) /\ q \in Nat /\ r \in Nat
    BY <1>5 DEF RowsOf
  <2>3. Frequency(x, Hi(x, r), q) < Frequency(x, Hi(x, r), r)
    BY <2>2, RowsBefore
  <2>4. Frequency(x, Hi(x, r), q) \in Nat /\ Frequency(x, Hi(x, r), r) \in Nat
    BY <2>2, RowsFinite
  <2>5. b \in 0 .. k /\ bs[b] \in Nat
    BY <1>1 DEF LayoutDone
  <2>6. /\ Slot(x, t, bs, q) = bs[b] + Frequency(x, Hi(x, r), q)
        /\ Slot(x, t, bs, r) = bs[b] + Frequency(x, Hi(x, r), r)
    BY <1>5, <2>1 DEF Slot
  <2> HIDE DEF b
  <2> QED BY <2>3, <2>4, <2>5, <2>6
<1>6. ASSUME Hi(x, q) # Hi(x, r)
      PROVE  Slot(x, t, bs, q) # Slot(x, t, bs, r)
  <2>1. b # c
    BY <1>1, <1>2, <1>6
  <2>2. k \in Nat
    BY DEF LayoutDone
  <2>3. CASE b < c
    <3>1. /\ bs[b] \in Nat /\ bs[b + 1] \in Nat /\ bs[c] \in Nat /\ bs[c + 1] \in Nat
          /\ bs[b + 1] <= bs[c]
      BY <1>1, <1>2, <2>3, BinsApart
    <3> HIDE DEF b, c
    <3> QED BY <1>3, <1>4, <3>1
  <2>4. CASE c < b
    <3>1. /\ bs[b] \in Nat /\ bs[b + 1] \in Nat /\ bs[c] \in Nat /\ bs[c + 1] \in Nat
          /\ bs[c + 1] <= bs[b]
      BY <1>1, <1>2, <2>4, BinsApart
    <3> HIDE DEF b, c
    <3> QED BY <1>3, <1>4, <3>1
  <2> HIDE DEF b, c
  <2> QED BY <1>1, <1>2, <2>1, <2>2, <2>3, <2>4
<1> QED BY <1>5, <1>6

-------------------------------------------------------------------------------
(* The second scan: the buffers when n rows are in their slots.            *)

Stored == {Low(d) : d \in Data}

Filled(x, n, f, t, k, bv, bs, cur, da, ix) ==
  /\ n \in 0 .. Len(x)
  /\ cur \in [0 .. k - 1 -> 0 .. Len(x)]
  /\ da \in [0 .. Len(x) - 1 -> Stored \cup {Undef}]
  /\ ix \in [0 .. Len(x) - 1 -> 0 .. Len(x) - 1 \cup {Undef}]
  /\ \A b \in 0 .. k - 1 : cur[b] = bs[b] + Frequency(x, bv[b], n)
  /\ \A r \in 0 .. n - 1 : da[Slot(x, t, bs, r)] = Low(x[r + 1])
  /\ \A r \in 0 .. n - 1 :
       IF f = "InvertedIndex" THEN ix[Slot(x, t, bs, r)] = r ELSE ix[r] = BinOf(x, t, r)
  /\ \A b \in 0 .. k - 1 : \A p \in bs[b] .. cur[b] - 1 :
       \E r \in RowsOf(x, bv[b], n) : Slot(x, t, bs, r) = p

\* The buffers are right before the first row.
LEMMA NothingFilled ==
  ASSUME NEW x \in Seq(Data), NEW f, NEW t, NEW k, NEW bv, NEW bs, LayoutDone(x, t, k, bv, bs),
         NEW cur, cur = [b \in 0 .. k - 1 |-> bs[b]],
         NEW da, da = Fresh(0 .. Len(x) - 1), NEW ix, ix = Fresh(0 .. Len(x) - 1)
  PROVE  Filled(x, 0, f, t, k, bv, bs, cur, da, ix)
<1>1. k \in Nat /\ Len(x) \in Nat /\ \A b \in 0 .. k - 1 : bs[b] \in 0 .. Len(x)
  BY DEF LayoutDone
<1>2. \A b \in 0 .. k - 1 : cur[b] = bs[b] + Frequency(x, bv[b], 0)
  BY <1>1, NoRows
<1>3. cur \in [0 .. k - 1 -> 0 .. Len(x)] /\ \A b \in 0 .. k - 1 : bs[b] .. cur[b] - 1 = {}
  BY <1>1
<1>4. /\ da \in [0 .. Len(x) - 1 -> Stored \cup {Undef}]
      /\ ix \in [0 .. Len(x) - 1 -> 0 .. Len(x) - 1 \cup {Undef}]
  BY DEF Fresh
<1> QED BY <1>1, <1>2, <1>3, <1>4 DEF Filled

\* A row fills the next place of its bin.
LEMMA RowFilled ==
  ASSUME NEW x \in Seq(Data), NEW f, NEW t, NEW k, NEW bv, NEW bs, LayoutDone(x, t, k, bv, bs),
         NEW n \in 0 .. Len(x) - 1, NEW cur, NEW da, NEW ix,
         Filled(x, n, f, t, k, bv, bs, cur, da, ix),
         NEW b, b = t[High(x[n + 1])], NEW off, off = cur[b],
         NEW ccur, ccur = [cur EXCEPT ![b] = @ + 1],
         NEW dda, dda = [da EXCEPT ![off] = Low(x[n + 1])],
         NEW iix, iix = IF f = "InvertedIndex" THEN [ix EXCEPT ![off] = n]
                        ELSE [ix EXCEPT ![n] = b]
  PROVE  Filled(x, n + 1, f, t, k, bv, bs, ccur, dda, iix)
<1> DEFINE h == Hi(x, n)
           P(r) == Slot(x, t, bs, r)
<1>1. /\ b = BinOf(x, t, n) /\ b \in 0 .. k - 1 /\ bv[b] = h /\ n \in Nat /\ Len(x) \in Nat
      /\ n + 1 \in 0 .. Len(x)
  BY RowHasBin DEF BinOf, Hi
<1>2. k \in 0 .. Len(x) /\ \A c \in 0 .. k - 1 : bs[c] \in Nat
  BY DEF LayoutDone
<1>3. off = P(n) /\ off \in 0 .. Len(x) - 1
  BY <1>1, SlotInBin DEF Filled, Slot
<1>4. /\ cur \in [0 .. k - 1 -> 0 .. Len(x)]
      /\ da \in [0 .. Len(x) - 1 -> Stored \cup {Undef}]
      /\ ix \in [0 .. Len(x) - 1 -> 0 .. Len(x) - 1 \cup {Undef}]
  BY DEF Filled
<1>5. ccur \in [0 .. k - 1 -> 0 .. Len(x)]
  BY <1>1, <1>3, <1>4
<1>6. dda \in [0 .. Len(x) - 1 -> Stored \cup {Undef}]
  <2>1. Low(x[n + 1]) \in Stored
    BY RowHasValue DEF Stored
  <2> QED BY <1>3, <1>4, <2>1
<1>7. iix \in [0 .. Len(x) - 1 -> 0 .. Len(x) - 1 \cup {Undef}]
  <2>1. n \in 0 .. Len(x) - 1 \cup {Undef} /\ b \in 0 .. Len(x) - 1 \cup {Undef}
    BY <1>1, <1>2
  <2>2. CASE f = "InvertedIndex"
    <3>1. iix = [ix EXCEPT ![off] = n]
      BY <2>2
    <3> QED BY <1>3, <1>4, <2>1, <3>1
  <2>3. CASE f # "InvertedIndex"
    <3>1. iix = [ix EXCEPT ![n] = b]
      BY <2>3
    <3> QED BY <1>4, <2>1, <3>1
  <2> QED BY <2>2, <2>3
<1>8. \A c \in 0 .. k - 1 : ccur[c] = bs[c] + Frequency(x, bv[c], n + 1)
  <2> SUFFICES ASSUME NEW c \in 0 .. k - 1
               PROVE  ccur[c] = bs[c] + Frequency(x, bv[c], n + 1)
    OBVIOUS
  <2>1. cur[c] = bs[c] + Frequency(x, bv[c], n) /\ bs[c] \in Nat
        /\ Frequency(x, bv[c], n) \in Nat
    BY <1>1, <1>2, RowsFinite DEF Filled
  <2>2. Frequency(x, bv[c], n + 1) = Frequency(x, bv[c], n) + (IF h = bv[c] THEN 1 ELSE 0)
    BY <1>1, NextRow
  <2>3. ccur[c] = IF c = b THEN cur[c] + 1 ELSE cur[c]
    BY <1>1, <1>4
  <2>4. h = bv[c] <=> c = b
    <3>1. \A d \in 0 .. k - 1 : bv[c] = bv[d] => c = d
      BY DEF LayoutDone
    <3>2. bv[b] = h /\ b \in 0 .. k - 1
      BY <1>1
    <3> HIDE DEF h
    <3> QED BY <3>1, <3>2
  <2> QED BY <2>1, <2>2, <2>3, <2>4
<1>9. \A r \in 0 .. n - 1 : P(r) # P(n) /\ P(r) \in 0 .. Len(x) - 1
  <2> SUFFICES ASSUME NEW r \in 0 .. n - 1
               PROVE  P(r) # P(n) /\ P(r) \in 0 .. Len(x) - 1
    OBVIOUS
  <2>1. r \in 0 .. Len(x) - 1 /\ r < n
    BY <1>1
  <2>2. P(r) \in 0 .. Len(x) - 1
    BY <2>1, SlotInBin
  <2>3. /\ Hi(x, r) = Hi(x, n) => P(r) < P(n)
        /\ Hi(x, r) # Hi(x, n) => P(r) # P(n)
    BY <2>1, SlotsInOrder
  <2> HIDE DEF P
  <2> QED BY <1>3, <2>2, <2>3
<1>10. \A r \in 0 .. n : r = n \/ r \in 0 .. n - 1
  BY <1>1
<1>11. \A r \in 0 .. n : dda[P(r)] = Low(x[r + 1])
  <2>1. \A r \in 0 .. n - 1 : da[P(r)] = Low(x[r + 1])
    BY DEF Filled
  <2> HIDE DEF P
  <2> QED BY <1>3, <1>4, <1>9, <1>10, <2>1
<1>12. \A r \in 0 .. n : IF f = "InvertedIndex" THEN iix[P(r)] = r ELSE iix[r] = BinOf(x, t, r)
  <2>1. \A r \in 0 .. n - 1 :
          IF f = "InvertedIndex" THEN ix[P(r)] = r ELSE ix[r] = BinOf(x, t, r)
    BY DEF Filled
  <2> HIDE DEF P
  <2> QED BY <1>1, <1>3, <1>4, <1>9, <1>10, <2>1
<1>13. \A c \in 0 .. k - 1 : \A p \in bs[c] .. ccur[c] - 1 :
         \E r \in RowsOf(x, bv[c], n + 1) : P(r) = p
  <2> SUFFICES ASSUME NEW c \in 0 .. k - 1, NEW p \in bs[c] .. ccur[c] - 1
               PROVE  \E r \in RowsOf(x, bv[c], n + 1) : P(r) = p
    OBVIOUS
  <2>1. \A r \in RowsOf(x, bv[c], n) : r \in RowsOf(x, bv[c], n + 1)
    BY <1>1 DEF RowsOf
  <2>2. CASE p \in bs[c] .. cur[c] - 1
    BY <2>1, <2>2 DEF Filled
  <2>3. CASE p \notin bs[c] .. cur[c] - 1
    <3>1. bs[c] \in Nat /\ cur[c] \in Nat /\ ccur[c] = IF c = b THEN cur[c] + 1 ELSE cur[c]
      BY <1>1, <1>2, <1>4
    <3>2. c = b /\ p = off
      BY <2>3, <3>1
    <3>3. n \in RowsOf(x, bv[c], n + 1)
      BY <1>1, <3>2 DEF RowsOf
    <3> QED BY <1>3, <3>2, <3>3
  <2> QED BY <2>2, <2>3
<1>14. (n + 1) - 1 = n
  BY <1>1
<1> QED BY <1>1, <1>5, <1>6, <1>7, <1>8, <1>11, <1>12, <1>13, <1>14 DEF Filled

-------------------------------------------------------------------------------
(* Decoding, when the elements in the slots before p are in their places.  *)

Decoded(x, b, p, o, t, k, bs) ==
  /\ b \in 0 .. k /\ p \in bs[b] .. Len(x) /\ (b < k => p <= bs[b + 1])
  /\ o \in [0 .. Len(x) - 1 -> Data \cup {Undef}]
  /\ \A r \in 0 .. Len(x) - 1 : Slot(x, t, bs, r) < p => o[r] = x[r + 1]

(* The inductive invariant: what each loop has done so far.                *)
CountInv ==
  pc = "count" =>
    /\ Counted(raw, pos, table, numBins)
    /\ step = 0 /\ curBin = 0 /\ curEnd = 0

LayoutInv ==
  pc = "layout" =>
    LayoutSoFar(raw, step, table, numBins, curBin, curEnd, binValues, binStart)

EncodeInv ==
  /\ pc \in {"fill", "refused", "decode", "done"} =>
       /\ LayoutDone(raw, table, numBins, binValues, binStart)
       /\ curBin = numBins /\ curEnd = Count
  /\ pc \in {"fill", "decode", "done"} =>
       Filled(raw, IF pc = "fill" THEN pos ELSE Count, form, table, numBins, binValues, binStart,
              cursor, data, index)

DecodeInv ==
  /\ pc = "decode" => /\ form = "InvertedIndex"
                      /\ Decoded(raw, bin, pos, out, table, numBins, binStart)
  /\ pc = "done" =>
       /\ out \in [Elements -> Data \cup {Undef}]
       /\ form = "InvertedIndex" => outCount = Count /\ \A r \in Elements : out[r] = Datum(r)

BasicInv ==
  /\ raw \in Seq(Data)
  /\ form \in {"InvertedIndex", "CompressionIndex", "CompressedInvertedIndex"}
  /\ pc \in {"count", "layout", "fill", "refused", "decode", "done"}
  /\ pos \in 0 .. Count /\ step \in 0 .. 2 * Sign /\ bin \in 0 .. numBins
  /\ outCount \in {0, Count}

CodecInv == BasicInv /\ CountInv /\ LayoutInv /\ EncodeInv /\ DecodeInv

\* The invariant holds at first, and below that every action keeps it.
LEMMA CodecInit == Init => CodecInv
<1> SUFFICES ASSUME Init PROVE CodecInv
  OBVIOUS
<1>1. raw \in Seq(Data) /\ Count \in Nat
  BY DEF Init, Count
<1>2. Counted(raw, 0, table, 0)
  BY NothingCounted DEF Init
<1>3. BasicInv
  BY <1>1, CodecAssumption DEF Init, BasicInv
<1>4. CountInv
  BY <1>2 DEF Init, CountInv
<1> QED BY <1>3, <1>4 DEF Init, CodecInv, LayoutInv, EncodeInv, DecodeInv

LEMMA CountElementStep == CodecInv /\ CountElement => CodecInv'
<1> SUFFICES ASSUME CodecInv, CountElement PROVE CodecInv'
  OBVIOUS
<1>1. /\ pc = "count" /\ pc' = pc /\ pos < Count /\ pos' = pos + 1
      /\ raw' = raw /\ form' = form /\ step' = step /\ curBin' = curBin /\ curEnd' = curEnd
      /\ bin' = bin /\ outCount' = outCount /\ out' = out
  BY DEF CountElement, scan, output
<1>2. raw \in Seq(Data) /\ Count = Len(raw) /\ Count \in Nat /\ pos \in 0 .. Len(raw) - 1
  BY <1>1 DEF CodecInv, BasicInv, Count
<1>3. Counted(raw, pos, table, numBins)
  BY <1>1 DEF CodecInv, CountInv
<1>4. /\ table' = [table EXCEPT ![Hi(raw, pos)] = @ + 1]
      /\ numBins' = IF table'[Hi(raw, pos)] = 1 THEN numBins + 1 ELSE numBins
  BY DEF CountElement, Hi, Datum
<1>5. Counted(raw, pos + 1, table', numBins')
  BY <1>2, <1>3, <1>4, RowCounted
<1>6. BasicInv'
  <2>1. bin \in 0 .. numBins /\ numBins \in Nat
    BY <1>3 DEF CodecInv, BasicInv, Counted
  <2>2. bin \in 0 .. numBins'
    BY <1>4, <2>1
  <2>3. pos + 1 \in 0 .. Count
    BY <1>2
  <2> QED BY <1>1, <2>2, <2>3 DEF CodecInv, BasicInv, Count
<1>7. CountInv'
  BY <1>1, <1>5 DEF CodecInv, CountInv
<1>8. LayoutInv' /\ EncodeInv' /\ DecodeInv'
  BY <1>1 DEF LayoutInv, EncodeInv, DecodeInv
<1> QED BY <1>6, <1>7, <1>8 DEF CodecInv

LEMMA AllocateLayoutStep == CodecInv /\ AllocateLayout => CodecInv'
<1> SUFFICES ASSUME CodecInv, AllocateLayout PROVE CodecInv'
  OBVIOUS
<1>1. /\ pc = "count" /\ pc' = "layout" /\ pos = Count /\ pos' = pos
      /\ raw' = raw /\ form' = form /\ table' = table /\ numBins' = numBins
      /\ step' = 0 /\ curBin' = 0 /\ curEnd' = 0
      /\ bin' = bin /\ outCount' = outCount /\ out' = out
      /\ binValues' = Fresh(0 .. numBins - 1)
      /\ binStart' = [Fresh(0 .. numBins) EXCEPT ![0] = 0]
  BY DEF AllocateLayout, output, FirstOffset
<1>2. raw \in Seq(Data) /\ Counted(raw, Len(raw), table, numBins)
  BY <1>1 DEF CodecInv, BasicInv, CountInv, Count
<1>3. LayoutSoFar(raw, 0, table, numBins, 0, 0, binValues', binStart')
  BY <1>1, <1>2, LayoutBegins
<1>4. BasicInv'
  BY <1>1, CodecAssumption DEF CodecInv, BasicInv, Count
<1>5. LayoutInv'
  BY <1>1, <1>3 DEF LayoutInv
<1>6. CountInv' /\ EncodeInv' /\ DecodeInv'
  BY <1>1 DEF CountInv, EncodeInv, DecodeInv
<1> QED BY <1>4, <1>5, <1>6 DEF CodecInv

LEMMA SkipValueStep == CodecInv /\ SkipValue => CodecInv'
<1> SUFFICES ASSUME CodecInv, SkipValue PROVE CodecInv'
  OBVIOUS
<1>1. /\ pc = "layout" /\ pc' = pc /\ pos' = pos /\ step' = step + 1
      /\ raw' = raw /\ form' = form /\ table' = table /\ numBins' = numBins
      /\ curBin' = curBin /\ curEnd' = curEnd
      /\ bin' = bin /\ outCount' = outCount /\ out' = out
      /\ binValues' = binValues /\ binStart' = binStart
  BY DEF SkipValue, output, layout
<1>2. raw \in Seq(Data) /\ step \in 0 .. 2 * Sign - 1 /\ table[OrderedValue(step)] = 0
  BY CodecAssumption DEF SkipValue, CodecInv, BasicInv
<1>3. LayoutSoFar(raw, step, table, numBins, curBin, curEnd, binValues, binStart)
  BY <1>1 DEF CodecInv, LayoutInv
<1>4. LayoutSoFar(raw, step + 1, table, numBins, curBin, curEnd, binValues, binStart)
  BY <1>2, <1>3, ValueSkipped
<1>5. BasicInv'
  BY <1>1, <1>2, CodecAssumption DEF CodecInv, BasicInv, Count
<1>6. LayoutInv'
  BY <1>1, <1>4 DEF LayoutInv
<1>7. CountInv' /\ EncodeInv' /\ DecodeInv'
  BY <1>1 DEF CountInv, EncodeInv, DecodeInv
<1> QED BY <1>5, <1>6, <1>7 DEF CodecInv

LEMMA LayoutValueStep == CodecInv /\ LayoutValue => CodecInv'
<1> SUFFICES ASSUME CodecInv, LayoutValue PROVE CodecInv'
  OBVIOUS
<1> DEFINE v == OrderedValue(step)
<1>1. /\ pc = "layout" /\ pc' = pc /\ pos' = pos /\ step' = step + 1
      /\ raw' = raw /\ form' = form /\ numBins' = numBins
      /\ curBin' = curBin + 1 /\ curEnd' = curEnd + table[v]
      /\ bin' = bin /\ outCount' = outCount /\ out' = out
      /\ binValues' = [binValues EXCEPT ![curBin] = v]
      /\ binStart' = [binStart EXCEPT ![curBin + 1] = curEnd']
      /\ table' = [table EXCEPT ![v] = curBin]
  BY DEF LayoutValue, output, TableWithBin
<1>2. raw \in Seq(Data) /\ step \in 0 .. 2 * Sign - 1 /\ table[v] # 0
  BY CodecAssumption DEF LayoutValue, CodecInv, BasicInv
<1>3. LayoutSoFar(raw, step, table, numBins, curBin, curEnd, binValues, binStart)
  BY <1>1 DEF CodecInv, LayoutInv
<1>4. LayoutSoFar(raw, step + 1, table', numBins, curBin + 1, curEnd', binValues', binStart')
  BY <1>1, <1>2, <1>3, ValueLaidOut
<1>5. BasicInv'
  BY <1>1, <1>2, CodecAssumption DEF CodecInv, BasicInv, Count
<1>6. LayoutInv'
  BY <1>1, <1>4 DEF LayoutInv
<1>7. CountInv' /\ EncodeInv' /\ DecodeInv'
  BY <1>1 DEF CountInv, EncodeInv, DecodeInv
<1> QED BY <1>5, <1>6, <1>7 DEF CodecInv

LEMMA AllocateBuffersStep == CodecInv /\ AllocateBuffers => CodecInv'
<1> SUFFICES ASSUME CodecInv, AllocateBuffers PROVE CodecInv'
  OBVIOUS
<1>1. /\ pc = "layout" /\ pc' \in {"fill", "refused"} /\ pos' = 0 /\ step = 2 * Sign
      /\ raw' = raw /\ form' = form /\ table' = table /\ numBins' = numBins
      /\ step' = step /\ curBin' = curBin /\ curEnd' = curEnd
      /\ bin' = bin /\ outCount' = outCount /\ out' = out
      /\ binValues' = binValues /\ binStart' = binStart
  BY DEF AllocateBuffers, output, layout, scan
<1>2. raw \in Seq(Data) /\ Count = Len(raw) /\ Count \in Nat
  BY DEF CodecInv, BasicInv, Count
<1>3. /\ LayoutDone(raw, table, numBins, binValues, binStart)
      /\ curBin = numBins /\ curEnd = Count
  BY <1>1, <1>2, LayoutEnds DEF CodecInv, LayoutInv
<1>4. pc' = "fill" => Filled(raw, 0, form, table, numBins, binValues, binStart,
                             cursor', data', index')
  <2> SUFFICES ASSUME pc' = "fill"
               PROVE  Filled(raw, 0, form, table, numBins, binValues, binStart,
                             cursor', data', index')
    OBVIOUS
  <2>1. /\ data' = Fresh(0 .. Len(raw) - 1) /\ index' = Fresh(0 .. Len(raw) - 1)
        /\ cursor' = [b \in 0 .. numBins - 1 |-> binStart[b]]
    BY DEF AllocateBuffers, OffsetsOfStarts, Elements, Count
  <2> QED BY <1>2, <1>3, <2>1, NothingFilled
<1>5. BasicInv'
  BY <1>1, <1>2, CodecAssumption DEF CodecInv, BasicInv, Count
<1>6. EncodeInv'
  BY <1>1, <1>3, <1>4 DEF EncodeInv, Count
<1>7. CountInv' /\ LayoutInv' /\ DecodeInv'
  BY <1>1 DEF CountInv, LayoutInv, DecodeInv
<1> QED BY <1>5, <1>6, <1>7 DEF CodecInv

LEMMA FillElementStep == CodecInv /\ FillElement => CodecInv'
<1> SUFFICES ASSUME CodecInv, FillElement PROVE CodecInv'
  OBVIOUS
<1>1. /\ pc = "fill" /\ pc' = pc /\ pos < Count /\ pos' = pos + 1
      /\ raw' = raw /\ form' = form /\ table' = table /\ numBins' = numBins
      /\ step' = step /\ curBin' = curBin /\ curEnd' = curEnd
      /\ bin' = bin /\ outCount' = outCount /\ out' = out
      /\ binValues' = binValues /\ binStart' = binStart
  BY DEF FillElement, output, layout, scan
<1>2. raw \in Seq(Data) /\ Count = Len(raw) /\ Count \in Nat /\ pos \in 0 .. Len(raw) - 1
  BY <1>1 DEF CodecInv, BasicInv, Count
<1>3. /\ LayoutDone(raw, table, numBins, binValues, binStart)
      /\ curBin = numBins /\ curEnd = Count
      /\ Filled(raw, pos, form, table, numBins, binValues, binStart, cursor, data, index)
  BY <1>1 DEF CodecInv, EncodeInv
<1>4. PICK b : b = table[High(raw[pos + 1])]
  OBVIOUS
<1>5. PICK off : off = cursor[b]
  OBVIOUS
<1>6. /\ cursor' = [cursor EXCEPT ![b] = @ + 1]
      /\ data' = [data EXCEPT ![off] = Low(raw[pos + 1])]
      /\ index' = IF form = "InvertedIndex" THEN [index EXCEPT ![off] = pos]
                  ELSE [index EXCEPT ![pos] = b]
  BY <1>4, <1>5 DEF FillElement, CursorPast, Datum
<1>7. Filled(raw, pos + 1, form, table, numBins, binValues, binStart, cursor', data', index')
  BY <1>2, <1>3, <1>4, <1>5, <1>6, RowFilled
<1>8. BasicInv'
  BY <1>1, <1>2 DEF CodecInv, BasicInv, Count
<1>9. EncodeInv'
  BY <1>1, <1>3, <1>7 DEF EncodeInv, Count
<1>10. CountInv' /\ LayoutInv' /\ DecodeInv'
  BY <1>1 DEF CountInv, LayoutInv, DecodeInv
<1> QED BY <1>8, <1>9, <1>10 DEF CodecInv

LEMMA StartDecodeStep == CodecInv /\ StartDecode => CodecInv'
<1> SUFFICES ASSUME CodecInv, StartDecode PROVE CodecInv'
  OBVIOUS
<1>1. /\ pc = "fill" /\ pos = Count /\ pos' = 0 /\ bin' = 0
      /\ pc' = IF form = "InvertedIndex" THEN "decode" ELSE "done"
      /\ out' = Fresh(0 .. Len(raw) - 1)
      /\ raw' = raw /\ form' = form /\ table' = table /\ numBins' = numBins
      /\ step' = step /\ curBin' = curBin /\ curEnd' = curEnd /\ outCount' = outCount
      /\ binValues' = binValues /\ binStart' = binStart
      /\ cursor' = cursor /\ data' = data /\ index' = index
  BY DEF StartDecode, Encoded, layout, scan, buffers, Elements, Count
<1>2. raw \in Seq(Data) /\ Count = Len(raw) /\ Count \in Nat
  BY DEF CodecInv, BasicInv, Count
<1>3. /\ LayoutDone(raw, table, numBins, binValues, binStart)
      /\ curBin = numBins /\ curEnd = Count
      /\ Filled(raw, Count, form, table, numBins, binValues, binStart, cursor, data, index)
  BY <1>1 DEF CodecInv, EncodeInv
<1>4. /\ numBins \in Nat /\ binStart[0] = 0 /\ binStart[numBins] = Len(raw)
      /\ (0 < numBins => binStart[1] \in Nat)
  BY <1>3 DEF LayoutDone
<1>5. out' \in [0 .. Len(raw) - 1 -> Data \cup {Undef}]
  BY <1>1 DEF Fresh
<1>6. Decoded(raw, 0, 0, out', table, numBins, binStart)
  <2>1. \A r \in 0 .. Len(raw) - 1 : ~ (Slot(raw, table, binStart, r) < 0)
    BY <1>2, <1>3, SlotInBin
  <2> QED BY <1>2, <1>4, <1>5, <2>1 DEF Decoded
<1>7. BasicInv'
  BY <1>1, <1>2, <1>4 DEF CodecInv, BasicInv, Count
<1>8. EncodeInv'
  BY <1>1, <1>3 DEF EncodeInv, Count
<1>9. DecodeInv'
  BY <1>1, <1>5, <1>6 DEF DecodeInv, Elements, Count
<1>10. CountInv' /\ LayoutInv'
  BY <1>1 DEF CountInv, LayoutInv
<1> QED BY <1>7, <1>8, <1>9, <1>10 DEF CodecInv

\* What every step of the decoder finds, and leaves as it is.
LEMMA WhileDecoding ==
  ASSUME CodecInv, pc = "decode"
  PROVE  /\ raw \in Seq(Data) /\ Count = Len(raw) /\ Count \in Nat /\ form = "InvertedIndex"
         /\ LayoutDone(raw, table, numBins, binValues, binStart)
         /\ curBin = numBins /\ curEnd = Count
         /\ Filled(raw, Len(raw), form, table, numBins, binValues, binStart,
                   cursor, data, index)
         /\ Decoded(raw, bin, pos, out, table, numBins, binStart)
         /\ numBins \in Nat /\ binStart[numBins] = Len(raw)
         /\ \A b \in 0 .. numBins : binStart[b] \in 0 .. Len(raw)
<1>1. raw \in Seq(Data) /\ Count = Len(raw) /\ Count \in Nat
  BY DEF CodecInv, BasicInv, Count
<1>2. LayoutDone(raw, table, numBins, binValues, binStart)
  BY DEF CodecInv, EncodeInv
<1> QED BY <1>1, <1>2 DEF CodecInv, EncodeInv, DecodeInv, LayoutDone

\* When every row is in its slot, each slot has its row.
LEMMA SlotsTaken ==
  ASSUME LayoutDone(raw, table, numBins, binValues, binStart),
         Filled(raw, Len(raw), form, table, numBins, binValues, binStart, cursor, data, index)
  PROVE  \A b \in 0 .. numBins - 1 : \A p \in binStart[b] .. binStart[b + 1] - 1 :
           \E r \in RowsOf(raw, binValues[b], Len(raw)) : Slot(raw, table, binStart, r) = p
<1>1. \A b \in 0 .. numBins - 1 : cursor[b] = binStart[b + 1]
  BY DEF LayoutDone, Filled
<1> QED BY <1>1 DEF Filled

LEMMA DecodeElementStep == CodecInv /\ DecodeElement => CodecInv'
<1> SUFFICES ASSUME CodecInv, DecodeElement PROVE CodecInv'
  OBVIOUS
<1>1. /\ pc = "decode" /\ pc' = pc /\ bin < numBins /\ pos < binStart[bin + 1]
      /\ pos' = pos + 1 /\ bin' = bin /\ outCount' = outCount
      /\ out' = [out EXCEPT ![index[pos]] = Rejoin(binValues[bin], data[pos])]
      /\ raw' = raw /\ form' = form /\ table' = table /\ numBins' = numBins
      /\ step' = step /\ curBin' = curBin /\ curEnd' = curEnd
      /\ binValues' = binValues /\ binStart' = binStart
      /\ cursor' = cursor /\ data' = data /\ index' = index
  BY DEF DecodeElement, layout, scan, buffers, Place
<1> DEFINE P(r) == Slot(raw, table, binStart, r)
<1>2. /\ raw \in Seq(Data) /\ Count = Len(raw) /\ Count \in Nat /\ form = "InvertedIndex"
      /\ LayoutDone(raw, table, numBins, binValues, binStart)
      /\ curBin = numBins /\ curEnd = Count
      /\ Filled(raw, Len(raw), form, table, numBins, binValues, binStart, cursor, data, index)
      /\ Decoded(raw, bin, pos, out, table, numBins, binStart)
      /\ numBins \in Nat /\ \A b \in 0 .. numBins : binStart[b] \in 0 .. Len(raw)
  BY <1>1, WhileDecoding
<1>3. /\ bin \in 0 .. numBins - 1 /\ bin \in 0 .. numBins /\ bin + 1 \in 0 .. numBins
      /\ pos \in binStart[bin] .. binStart[bin + 1] - 1 /\ pos \in 0 .. Len(raw) - 1
  BY <1>1, <1>2 DEF Decoded
<1>4. PICK r \in RowsOf(raw, binValues[bin], Len(raw)) : P(r) = pos
  <2>1. \E r \in RowsOf(raw, binValues[bin], Len(raw)) : Slot(raw, table, binStart, r) = pos
    BY <1>2, <1>3, SlotsTaken
  <2> QED BY <2>1
<1>5. r \in 0 .. Len(raw) - 1 /\ Hi(raw, r) = binValues[bin]
  BY DEF RowsOf
<1>6. index[pos] = r /\ data[pos] = Low(raw[r + 1])
  BY <1>2, <1>4, <1>5 DEF Filled
<1>7. out' = [out EXCEPT ![r] = raw[r + 1]] /\ raw[r + 1] \in Data
  BY <1>1, <1>2, <1>5, <1>6, RowHasValue
<1>8. out \in [0 .. Len(raw) - 1 -> Data \cup {Undef}]
      /\ \A q \in 0 .. Len(raw) - 1 : P(q) < pos => out[q] = raw[q + 1]
  BY <1>2 DEF Decoded
<1>9. \A q \in 0 .. Len(raw) - 1 : P(q) < pos + 1 => out'[q] = raw[q + 1]
  <2> SUFFICES ASSUME NEW q \in 0 .. Len(raw) - 1, P(q) < pos + 1
               PROVE  out'[q] = raw[q + 1]
    OBVIOUS
  <2>1. P(q) \in 0 .. Len(raw) - 1
    BY <1>2, SlotInBin
  <2>2. q # r => P(q) # P(r)
    <3>1. /\ q < r /\ Hi(raw, q) = Hi(raw, r) => P(q) < P(r)
          /\ r < q /\ Hi(raw, r) = Hi(raw, q) => P(r) < P(q)
          /\ Hi(raw, q) # Hi(raw, r) => P(q) # P(r)
      BY <1>2, <1>5, SlotsInOrder
    <3> HIDE DEF P
    <3> QED BY <1>3, <1>4, <1>5, <2>1, <3>1
  <2> HIDE DEF P
  <2> QED BY <1>3, <1>4, <1>5, <1>7, <1>8, <2>1, <2>2
<1>10. Decoded(raw, bin, pos + 1, out', table, numBins, binStart)
  <2>1. out' \in [0 .. Len(raw) - 1 -> Data \cup {Undef}]
    BY <1>5, <1>7, <1>8
  <2>2. pos + 1 \in binStart[bin] .. Len(raw) /\ pos + 1 <= binStart[bin + 1]
    BY <1>2, <1>3
  <2> QED BY <1>3, <1>9, <2>1, <2>2 DEF Decoded
<1>11. BasicInv'
  BY <1>1, <1>2, <1>3 DEF CodecInv, BasicInv, Count
<1>12. EncodeInv'
  BY <1>1, <1>2 DEF EncodeInv, Count
<1>13. DecodeInv'
  BY <1>1, <1>2, <1>10 DEF DecodeInv
<1>14. CountInv' /\ LayoutInv'
  BY <1>1 DEF CountInv, LayoutInv
<1> QED BY <1>11, <1>12, <1>13, <1>14 DEF CodecInv

LEMMA NextBinStep == CodecInv /\ NextBin => CodecInv'
<1> SUFFICES ASSUME CodecInv, NextBin PROVE CodecInv'
  OBVIOUS
<1>1. /\ pc = "decode" /\ pc' = pc /\ bin < numBins /\ pos >= binStart[bin + 1]
      /\ pos' = pos /\ bin' = bin + 1 /\ out' = out /\ outCount' = outCount
      /\ raw' = raw /\ form' = form /\ table' = table /\ numBins' = numBins
      /\ step' = step /\ curBin' = curBin /\ curEnd' = curEnd
      /\ binValues' = binValues /\ binStart' = binStart
      /\ cursor' = cursor /\ data' = data /\ index' = index
  BY DEF NextBin, layout, scan, buffers, BinEnds
<1>2. /\ raw \in Seq(Data) /\ Count = Len(raw) /\ Count \in Nat /\ form = "InvertedIndex"
      /\ LayoutDone(raw, table, numBins, binValues, binStart)
      /\ curBin = numBins /\ curEnd = Count
      /\ Filled(raw, Len(raw), form, table, numBins, binValues, binStart, cursor, data, index)
      /\ Decoded(raw, bin, pos, out, table, numBins, binStart)
      /\ numBins \in Nat /\ \A b \in 0 .. numBins : binStart[b] \in 0 .. Len(raw)
  BY <1>1, WhileDecoding
<1>3. bin \in 0 .. numBins - 1 /\ bin + 1 \in 0 .. numBins /\ pos = binStart[bin + 1]
  BY <1>1, <1>2 DEF Decoded
<1>4. bin + 1 < numBins => pos <= binStart[(bin + 1) + 1]
  <2> SUFFICES ASSUME bin + 1 < numBins PROVE pos <= binStart[(bin + 1) + 1]
    OBVIOUS
  <2>1. (bin + 1) + 1 \in 0 .. numBins /\ bin + 1 < (bin + 1) + 1
    BY <1>2, <1>3
  <2>2. binStart[bin + 1] < binStart[(bin + 1) + 1]
    BY <1>2, <1>3, <2>1 DEF LayoutDone
  <2> QED BY <1>2, <1>3, <2>1, <2>2
<1>5. Decoded(raw, bin + 1, pos, out, table, numBins, binStart)
  <2>1. pos \in binStart[bin + 1] .. Len(raw)
    BY <1>2, <1>3
  <2> QED BY <1>2, <1>3, <1>4, <2>1 DEF Decoded
<1>6. BasicInv'
  BY <1>1, <1>3 DEF CodecInv, BasicInv, Count
<1>7. EncodeInv'
  BY <1>1, <1>2 DEF EncodeInv, Count
<1>8. DecodeInv'
  BY <1>1, <1>2, <1>5 DEF DecodeInv
<1>9. CountInv' /\ LayoutInv'
  BY <1>1 DEF CountInv, LayoutInv
<1> QED BY <1>6, <1>7, <1>8, <1>9 DEF CodecInv

LEMMA FinishDecodeStep == CodecInv /\ FinishDecode => CodecInv'
<1> SUFFICES ASSUME CodecInv, FinishDecode PROVE CodecInv'
  OBVIOUS
<1>1. /\ pc = "decode" /\ pc' = "done" /\ bin = numBins /\ outCount' = Count
      /\ pos' = pos /\ bin' = bin /\ out' = out
      /\ raw' = raw /\ form' = form /\ table' = table /\ numBins' = numBins
      /\ step' = step /\ curBin' = curBin /\ curEnd' = curEnd
      /\ binValues' = binValues /\ binStart' = binStart
      /\ cursor' = cursor /\ data' = data /\ index' = index
  BY DEF FinishDecode, layout, scan, buffers
<1>2. /\ raw \in Seq(Data) /\ Count = Len(raw) /\ Count \in Nat /\ form = "InvertedIndex"
      /\ LayoutDone(raw, table, numBins, binValues, binStart)
      /\ curBin = numBins /\ curEnd = Count
      /\ Filled(raw, Len(raw), form, table, numBins, binValues, binStart, cursor, data, index)
      /\ Decoded(raw, bin, pos, out, table, numBins, binStart)
      /\ binStart[numBins] = Len(raw)
  BY <1>1, WhileDecoding
<1>3. pos = Len(raw) /\ out \in [0 .. Len(raw) - 1 -> Data \cup {Undef}]
  BY <1>1, <1>2 DEF Decoded
<1>4. \A r \in 0 .. Len(raw) - 1 : out[r] = raw[r + 1]
  <2> SUFFICES ASSUME NEW r \in 0 .. Len(raw) - 1 PROVE out[r] = raw[r + 1]
    OBVIOUS
  <2>1. Slot(raw, table, binStart, r) \in 0 .. Len(raw) - 1
    BY <1>2, SlotInBin
  <2> QED BY <1>2, <1>3, <2>1 DEF Decoded
<1>5. BasicInv'
  BY <1>1 DEF CodecInv, BasicInv, Count
<1>6. EncodeInv'
  BY <1>1, <1>2 DEF EncodeInv, Count
<1>7. DecodeInv'
  BY <1>1, <1>2, <1>3, <1>4 DEF DecodeInv, Elements, Datum, Count
<1>8. CountInv' /\ LayoutInv'
  BY <1>1 DEF CountInv, LayoutInv
<1> QED BY <1>5, <1>6, <1>7, <1>8 DEF CodecInv

\* Every step keeps the invariant.
LEMMA CodecNext == CodecInv /\ [Next]_vars => CodecInv'
<1> SUFFICES ASSUME CodecInv, [Next]_vars PROVE CodecInv'
  OBVIOUS
<1>1. CASE UNCHANGED vars
  BY <1>1 DEF vars, layout, scan, buffers, output, CodecInv, BasicInv, CountInv, LayoutInv,
              EncodeInv, DecodeInv, Count, Elements, Datum
<1>2. CASE Next
  BY <1>2, CountElementStep, AllocateLayoutStep, SkipValueStep, LayoutValueStep,
     AllocateBuffersStep, FillElementStep, StartDecodeStep, DecodeElementStep, NextBinStep,
     FinishDecodeStep DEF Next
<1> QED BY <1>1, <1>2

\* The invariant holds in every state.
LEMMA CodecInvariant == Spec => []CodecInv
BY CodecInit, CodecNext, PTL DEF Spec

-------------------------------------------------------------------------------
(* Every variable keeps its type and every array its extent.               *)
THEOREM CodecTypeCorrect == Spec => []TypeOK
<1>1. CodecInv => TypeOK
  <2> SUFFICES ASSUME CodecInv PROVE TypeOK
    OBVIOUS
  <2>1. BasicInv /\ Count = Len(raw) /\ Count \in Nat
    BY DEF CodecInv, BasicInv, Count
  <2>2. /\ table \in [BinValues -> 0 .. Count]
        /\ numBins \in 0 .. Count /\ curBin \in 0 .. numBins /\ curEnd \in 0 .. Count
        /\ pc # "count" => /\ binValues \in [Bins -> BinValues \cup {Undef}]
                           /\ binStart \in [0 .. numBins -> (0 .. Count) \cup {Undef}]
    <3>1. CASE pc = "count"
      <4>1. Counted(raw, pos, table, numBins) /\ curBin = 0 /\ curEnd = 0
            /\ pos \in 0 .. Count
        BY <3>1 DEF CodecInv, CountInv, BasicInv
      <4>2. \A v \in BinValues : Frequency(raw, v, pos) \in 0 .. Count
        BY <2>1, <4>1, RowsFinite
      <4> QED BY <2>1, <3>1, <4>1, <4>2 DEF Counted
    <3>2. CASE pc = "layout"
      <4>1. LayoutSoFar(raw, step, table, numBins, curBin, curEnd, binValues, binStart)
        BY <3>2 DEF CodecInv, LayoutInv
      <4> QED BY <2>1, <4>1 DEF LayoutSoFar, LayoutTypes, Bins
    <3>3. CASE pc \in {"fill", "refused", "decode", "done"}
      <4>1. /\ LayoutDone(raw, table, numBins, binValues, binStart)
            /\ curBin = numBins /\ curEnd = Count
        BY <3>3 DEF CodecInv, EncodeInv
      <4> QED BY <2>1, <4>1 DEF LayoutDone, Bins
    <3> QED BY <2>1, <3>1, <3>2, <3>3 DEF BasicInv
  <2>3. pc \in {"fill", "decode", "done"} =>
          /\ cursor \in [Bins -> 0 .. Count]
          /\ data \in [Elements -> {Low(d) : d \in Data} \cup {Undef}]
          /\ index \in [Elements -> Elements \cup {Undef}]
    <3> SUFFICES ASSUME pc \in {"fill", "decode", "done"}
                 PROVE  /\ cursor \in [Bins -> 0 .. Count]
                        /\ data \in [Elements -> {Low(d) : d \in Data} \cup {Undef}]
                        /\ index \in [Elements -> Elements \cup {Undef}]
      OBVIOUS
    <3>1. PICK n : Filled(raw, n, form, table, numBins, binValues, binStart,
                          cursor, data, index)
      BY DEF CodecInv, EncodeInv
    <3> QED BY <2>1, <3>1 DEF Filled, Bins, Elements, Stored
  <2>4. pc \in {"decode", "done"} => out \in [Elements -> Data \cup {Undef}]
    BY <2>1 DEF CodecInv, DecodeInv, Decoded, Elements
  <2> QED BY <2>1, <2>2, <2>3, <2>4 DEF TypeOK, BasicInv
<1> QED BY <1>1, CodecInvariant, PTL

\* The rows of a bin value, as the properties say them.
LEMMA OccursIsRows ==
  ASSUME raw \in Seq(Data)
  PROVE  /\ Count = Len(raw) /\ Count \in Nat /\ Elements = 0 .. Len(raw) - 1
         /\ \A v : Occurs(v) = RowsOf(raw, v, Len(raw))
         /\ Present = Values(raw)
BY DEF Count, Elements, Occurs, RowsOf, Datum, Hi, Present, Values, ValuesOf

(* While the count table becomes the lookup table in place, no entry is    *)
(* read as what it no longer is (determineBinLayout).                      *)
THEOREM TableIsReadRight == Spec => []TableChangesInPlace
<1>1. CodecInv => TableChangesInPlace
  <2> SUFFICES ASSUME CodecInv, pc = "layout", NEW s \in 0 .. 2 * Sign - 1,
                      NEW v, v = OrderedValue(s)
               PROVE  IF s < step /\ v \in Present
                        THEN table[v] < curBin /\ binValues[table[v]] = v
                        ELSE table[v] = Cardinality(Occurs(v))
    BY DEF TableChangesInPlace
  <2>1. raw \in Seq(Data)
    BY DEF CodecInv, BasicInv
  <2>2. LayoutSoFar(raw, step, table, numBins, curBin, curEnd, binValues, binStart)
    BY DEF CodecInv, LayoutInv
  <2>3. v \in BinValues /\ Rank(v) = s
    BY RankAndOrder
  <2>4. v \in PassedValues(raw, step) <=> s < step /\ v \in Present
    BY <2>1, <2>3, OccursIsRows DEF PassedValues
  <2>5. Cardinality(Occurs(v)) = Frequency(raw, v, Len(raw))
    BY <2>1, OccursIsRows DEF Frequency
  <2>6. IF v \in PassedValues(raw, step)
          THEN table[v] \in 0 .. curBin - 1 /\ binValues[table[v]] = v
          ELSE table[v] = Frequency(raw, v, Len(raw))
    BY <2>2, <2>3 DEF LayoutSoFar
  <2>7. curBin \in Nat
    BY <2>2 DEF LayoutSoFar
  <2> QED BY <2>4, <2>5, <2>6, <2>7
<1> QED BY <1>1, CodecInvariant, PTL

(* The finished layout has the values that occur, in signed order, each as *)
(* long as it is frequent (determineBinLayout).                            *)
THEOREM LayoutIsRight == Spec => []LayoutMatchesInput
<1>1. CodecInv => LayoutMatchesInput
  <2> SUFFICES ASSUME CodecInv, LaidOut
               PROVE  /\ {binValues[b] : b \in Bins} = Present
                      /\ \A b, c \in Bins : b < c => Key(binValues[b]) < Key(binValues[c])
                      /\ binStart[0] = 0 /\ binStart[numBins] = Count
                      /\ \A b \in Bins : binStart[b + 1] - binStart[b]
                                           = Cardinality(Occurs(binValues[b]))
    BY DEF LayoutMatchesInput
  <2>1. raw \in Seq(Data)
    BY DEF CodecInv, BasicInv
  <2>2. LayoutDone(raw, table, numBins, binValues, binStart)
    BY <2>1, LayoutEnds DEF LaidOut, CodecInv, LayoutInv, EncodeInv
  <2>3. Bins = 0 .. numBins - 1 /\ numBins \in Nat
    BY <2>2 DEF Bins, LayoutDone
  <2>4. {binValues[b] : b \in Bins} = Present
    BY <2>1, <2>2, <2>3, OccursIsRows DEF LayoutDone
  <2>5. \A b, c \in Bins : b < c => Key(binValues[b]) < Key(binValues[c])
    <3>1. \A b \in Bins : binValues[b] \in BinValues
      BY <2>2, <2>3 DEF LayoutDone
    <3>2. \A b, c \in Bins : b < c => Rank(binValues[b]) < Rank(binValues[c])
      BY <2>2, <2>3 DEF LayoutDone
    <3>3. \A v \in BinValues : Key(v) = Rank(v) - Sign /\ Rank(v) \in Int
      BY RankAndOrder
    <3> QED BY <3>1, <3>2, <3>3, CodecAssumption
  <2>6. binStart[0] = 0 /\ binStart[numBins] = Count
    BY <2>1, <2>2, OccursIsRows DEF LayoutDone
  <2>7. ASSUME NEW b \in Bins
        PROVE  binStart[b + 1] - binStart[b] = Cardinality(Occurs(binValues[b]))
    <3>1. binStart[b + 1] = binStart[b] + Frequency(raw, binValues[b], Len(raw))
          /\ binStart[b] \in Nat
      BY <2>2, <2>3 DEF LayoutDone
    <3>2. Frequency(raw, binValues[b], Len(raw)) \in Nat
      BY <2>1, RowsFinite
    <3>3. Cardinality(Occurs(binValues[b])) = Frequency(raw, binValues[b], Len(raw))
      BY <2>1, OccursIsRows DEF Frequency
    <3> QED BY <3>1, <3>2, <3>3
  <2> QED BY <2>4, <2>5, <2>6, <2>7
<1> QED BY <1>1, CodecInvariant, PTL

\* What an encoded partition is.
LEMMA WhenEncoded ==
  ASSUME CodecInv, Encoded
  PROVE  /\ raw \in Seq(Data) /\ Count = Len(raw)
         /\ LayoutDone(raw, table, numBins, binValues, binStart)
         /\ Filled(raw, Len(raw), form, table, numBins, binValues, binStart,
                   cursor, data, index)
BY DEF CodecInv, BasicInv, EncodeInv, Encoded, Count

(* Each bin of an encoded partition lists exactly its rows, ascending, with *)
(* their own low-order bytes (encodeWithInvertedIndex).                    *)
THEOREM BinsHaveTheirRows == Spec => []BinsListTheirRows
<1>1. CodecInv => BinsListTheirRows
  <2> SUFFICES ASSUME CodecInv, Encoded, form = "InvertedIndex", NEW b \in Bins
               PROVE  LET range == binStart[b] .. binStart[b + 1] - 1 IN
                        /\ {index[p] : p \in range} = Occurs(binValues[b])
                        /\ \A p, q \in range : p < q => index[p] < index[q]
                        /\ \A p \in range : data[p] = Low(Datum(index[p]))
    BY DEF BinsListTheirRows
  <2> DEFINE range == binStart[b] .. binStart[b + 1] - 1
             mine == RowsOf(raw, binValues[b], Len(raw))
  <2>1. /\ raw \in Seq(Data) /\ b \in 0 .. numBins - 1 /\ Len(raw) \in Nat
        /\ LayoutDone(raw, table, numBins, binValues, binStart)
        /\ Filled(raw, Len(raw), form, table, numBins, binValues, binStart,
                  cursor, data, index)
        /\ Occurs(binValues[b]) = mine
    BY WhenEncoded, OccursIsRows DEF Bins
  <2>2. \A r \in mine : r \in 0 .. Len(raw) - 1 /\ Hi(raw, r) = binValues[b]
    BY DEF RowsOf
  <2>3. \A r \in mine : index[Slot(raw, table, binStart, r)] = r
                        /\ data[Slot(raw, table, binStart, r)] = Low(raw[r + 1])
    BY <2>1, <2>2 DEF Filled
  <2>4. \A p \in range : \E r \in mine : Slot(raw, table, binStart, r) = p
    BY <2>1, SlotsTaken
  <2>5. \A r \in mine : Slot(raw, table, binStart, r) \in range
    <3> SUFFICES ASSUME NEW r \in mine PROVE Slot(raw, table, binStart, r) \in range
      OBVIOUS
    <3>1. BinOf(raw, table, r) = b
      BY <2>1, <2>2 DEF LayoutDone, BinOf
    <3>2. Slot(raw, table, binStart, r)
            \in binStart[BinOf(raw, table, r)] .. binStart[BinOf(raw, table, r) + 1] - 1
      BY <2>1, <2>2, SlotInBin
    <3> QED BY <3>1, <3>2
  <2>6. {index[p] : p \in range} = mine
    <3> HIDE DEF range, mine
    <3> QED BY <2>3, <2>4, <2>5
  <2>7. ASSUME NEW p \in range, NEW q \in range, p < q
        PROVE  index[p] < index[q]
    <3>1. PICK r \in mine : Slot(raw, table, binStart, r) = p
      BY <2>4
    <3>2. PICK s \in mine : Slot(raw, table, binStart, s) = q
      BY <2>4
    <3>3. index[p] = r /\ index[q] = s /\ r \in 0 .. Len(raw) - 1 /\ s \in 0 .. Len(raw) - 1
          /\ Hi(raw, r) = Hi(raw, s)
      BY <2>2, <2>3, <3>1, <3>2
    <3>4. s < r => Slot(raw, table, binStart, s) < Slot(raw, table, binStart, r)
      BY <2>1, <3>3, SlotsInOrder
    <3>5. p \in Int /\ q \in Int
      OBVIOUS
    <3> HIDE DEF range, mine
    <3> QED BY <2>1, <2>7, <3>1, <3>2, <3>3, <3>4, <3>5
  <2>8. \A p \in range : data[p] = Low(Datum(index[p]))
    <3> HIDE DEF range, mine
    <3> QED BY <2>3, <2>4 DEF Datum
  <2> QED BY <2>1, <2>6, <2>7, <2>8
<1> QED BY <1>1, CodecInvariant, PTL

(* A compression index, which holds no positions, determines every element *)
(* (encodeWithCompressionIndex).                                           *)
THEOREM CompressionIndexDetermines == Spec => []CompressionIndexSuffices
<1>1. CodecInv => CompressionIndexSuffices
  <2> SUFFICES ASSUME CodecInv, Encoded, form = "CompressionIndex", NEW r \in Elements
               PROVE  RowFromCompressionIndex(r) = Datum(r)
    BY DEF CompressionIndexSuffices
  <2> DEFINE b == index[r]
             h == Hi(raw, r)
  <2>1. /\ raw \in Seq(Data) /\ r \in 0 .. Len(raw) - 1
        /\ LayoutDone(raw, table, numBins, binValues, binStart)
        /\ Filled(raw, Len(raw), form, table, numBins, binValues, binStart,
                  cursor, data, index)
    BY WhenEncoded, OccursIsRows
  <2>2. \A q \in 0 .. Len(raw) - 1 : index[q] = BinOf(raw, table, q)
    BY <2>1 DEF Filled
  <2>3. b = BinOf(raw, table, r) /\ binValues[b] = h
    BY <2>1, <2>2, RowHasBin
  <2>4. {q \in 0 .. r - 1 : index[q] = b} = RowsOf(raw, h, r)
    <3>1. \A q \in 0 .. r - 1 : q \in 0 .. Len(raw) - 1
      BY <2>1
    <3>2. \A q \in 0 .. r - 1 : binValues[index[q]] = Hi(raw, q)
      BY <2>1, <2>2, <3>1, RowHasBin
    <3>3. \A q \in 0 .. r - 1 : index[q] = b <=> Hi(raw, q) = h
      BY <2>2, <2>3, <3>1, <3>2 DEF BinOf
    <3> QED BY <3>3 DEF RowsOf
  <2>5. RowFromCompressionIndex(r)
          = Rejoin(binValues[b], data[binStart[b] + Cardinality(RowsOf(raw, h, r))])
    BY <2>4 DEF RowFromCompressionIndex
  <2>6. binStart[b] + Cardinality(RowsOf(raw, h, r)) = Slot(raw, table, binStart, r)
    BY <2>3 DEF Slot, Frequency
  <2>7. data[Slot(raw, table, binStart, r)] = Low(raw[r + 1])
    BY <2>1 DEF Filled
  <2>8. Rejoin(h, Low(raw[r + 1])) = raw[r + 1]
    BY <2>1, RowHasValue
  <2> QED BY <2>3, <2>5, <2>6, <2>7, <2>8 DEF Datum
<1> QED BY <1>1, CodecInvariant, PTL

(* Decoding what was encoded with an inverted index gives every element    *)
(* back in its place (ALEncode, ALDecodeWithInvertedIndex).                *)
THEOREM DecodingInvertsEncoding == Spec => []RoundTrip
<1>1. CodecInv => RoundTrip
  BY DEF CodecInv, DecodeInv, RoundTrip
<1> QED BY <1>1, CodecInvariant, PTL

-------------------------------------------------------------------------------
(* Cutting and joining an element.                                         *)

(* The bytes stored for an element hold all its low-order bits.            *)
LEMMA BytesHoldBits == InsigBits \in Nat \ {0} /\ InsigBits <= InsigBytes * ByteBits
<1>1. InsigBits \in Nat \ {0}
  BY BitsAssumption DEF InsigBits
<1>2. \A n \in Nat, b \in Nat \ {0} : n <= ((n + b - 1) \div b) * b
  <2> SUFFICES ASSUME NEW n \in Nat, NEW b \in Nat \ {0}
               PROVE  n <= ((n + b - 1) \div b) * b
    OBVIOUS
  <2>1. PICK m \in Nat : m = n + b - 1
    OBVIOUS
  <2>2. m = b * (m \div b) + (m % b) /\ m % b \in 0 .. b - 1 /\ m \div b \in Nat
    BY SMTT(30)
  <2>3. PICK q \in Nat : q = m \div b
    BY <2>2
  <2>4. b * q = q * b /\ b * q \in Nat
    BY <2>3
  <2>5. n <= q * b
    BY <2>1, <2>2, <2>3, <2>4
  <2> QED BY <2>1, <2>3, <2>5
<1> QED BY <1>1, <1>2, BitsAssumption DEF InsigBytes

(* The high-order bits are a number of SigBits bits: a bin value.          *)
THEOREM HighInRange == \A x : HighBits(x) \in SUBSET (0 .. SigBits - 1)
  BY DEF HighBits

(* Whatever the element, joining its high-order bits and what the data     *)
(* buffer keeps of its low-order bits gives the element again: the masks   *)
(* drop no bit, and a bit that is kept in both parts, because the bytes    *)
(* or the mask reach into the significant bits, is the same bit in both    *)
(* (SPLIT_DATUM_BITS and REJOIN_DATUM_BITS).                               *)
THEOREM RejoinSplit ==
  \A x \in ElementValues : RejoinBits(HighBits(x), StoredBits(LowBits(x))) = x
<1> SUFFICES ASSUME NEW x \in ElementValues
             PROVE  RejoinBits(HighBits(x), StoredBits(LowBits(x))) = x
  OBVIOUS
<1> DEFINE y == RejoinBits(HighBits(x), StoredBits(LowBits(x)))
<1>1. x \subseteq 0 .. ElementBits - 1
  BY DEF ElementValues
<1>2. ASSUME NEW i \in x, i < InsigBits PROVE i \in y
  <2>1. i \in 0 .. ElementBits - 1
    BY <1>1
  <2>2. i \in LowMask
    BY <2>1, <1>2, BitsAssumption DEF LowMask, InsigBits
  <2>3. i \in 0 .. InsigBytes * ByteBits - 1
    <3>1. i \in Nat /\ i < InsigBits /\ InsigBits \in Nat
      BY <2>1, <1>2, BytesHoldBits, BitsAssumption
    <3>2. InsigBytes * ByteBits \in Int /\ InsigBits <= InsigBytes * ByteBits
      BY BytesHoldBits, BitsAssumption DEF InsigBytes, InsigBits
    <3> QED BY <3>1, <3>2
  <2> QED BY <2>1, <2>2, <2>3 DEF RejoinBits, StoredBits, LowBits
<1>3. ASSUME NEW i \in x, ~ (i < InsigBits) PROVE i \in y
  <2>1. i \in InsigBits .. ElementBits - 1 /\ i \in Nat
    BY <1>1, <1>3, BitsAssumption DEF InsigBits
  <2>2. i - InsigBits \in 0 .. SigBits - 1 /\ (i - InsigBits) + InsigBits = i
    BY <2>1, BitsAssumption DEF InsigBits
  <2>3. i - InsigBits \in HighBits(x)
    BY <2>2, <1>3 DEF HighBits
  <2> QED BY <2>1, <2>3 DEF RejoinBits
<1>4. ASSUME NEW i \in y PROVE i \in x
  <2>1. CASE i \in InsigBits .. ElementBits - 1 /\ i - InsigBits \in HighBits(x)
    <3>1. (i - InsigBits) + InsigBits = i
      BY <2>1, BitsAssumption DEF InsigBits
    <3> QED BY <2>1, <3>1 DEF HighBits
  <2>2. CASE i \in StoredBits(LowBits(x))
    BY <2>2 DEF StoredBits, LowBits
  <2> QED BY <1>4, <2>1, <2>2 DEF RejoinBits
<1> QED BY <1>2, <1>3, <1>4
===============================================================================
