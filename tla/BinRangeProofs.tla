----------------------------- MODULE BinRangeProofs ----------------------------
(***************************************************************************)
(* The range of bins is right for every partition and every interval: it   *)
(* misses no element, and its inner bins need no check but for a zero bin. *)
(***************************************************************************)
EXTENDS BinRange, FiniteSetsExt, WellFoundedInduction, TLAPS

-------------------------------------------------------------------------------
(* Facts about natural numbers.                                            *)

\* Multiplication keeps a distance of one.
LEMMA MultipleApart ==
  ASSUME NEW w \in Nat, NEW x \in Int, NEW y \in Int, x < y
  PROVE  x * w + w <= y * w
<1>1. PICK d \in Nat : y = x + 1 + d
  <2>1. y - x - 1 \in Nat /\ y = x + 1 + (y - x - 1)
    OBVIOUS
  <2> QED BY <2>1
<1>2. y * w = x * w + w + d * w
  BY <1>1
<1>3. d * w \in Nat /\ x * w \in Int
  OBVIOUS
<1> QED BY <1>2, <1>3

\* A number is its quotient and its remainder.
LEMMA DividedNatural ==
  ASSUME NEW n \in Nat, NEW d \in Nat \ {0}
  PROVE  /\ n \div d \in Nat /\ n % d \in 0 .. d - 1
         /\ n = (n \div d) * d + (n % d)
  OBVIOUS

\* Division rounds in the same direction everywhere.
LEMMA DivisionIsMonotone ==
  ASSUME NEW x \in Nat, NEW y \in Nat, x <= y, NEW d \in Nat \ {0}
  PROVE  x \div d <= y \div d
<1> DEFINE qx == x \div d
           qy == y \div d
<1>1. qx \in Nat /\ x % d \in 0 .. d - 1 /\ x = qx * d + (x % d)
  BY DividedNatural
<1>2. qy \in Nat /\ y % d \in 0 .. d - 1 /\ y = qy * d + (y % d)
  BY DividedNatural
<1>3. qx * d \in Nat /\ qy * d \in Nat
  BY <1>1, <1>2
<1>4. qy < qx => qy * d + d <= qx * d
  BY <1>1, <1>2, MultipleApart
<1> HIDE DEF qx, qy
<1>5. ~ (qy < qx)
  BY <1>1, <1>2, <1>3, <1>4
<1>6. qx <= qy
  BY <1>5, <1>1, <1>2
<1> QED BY <1>6 DEF qx, qy

\* A set of natural numbers with a member has a smallest one.
LEMMA LeastNatural ==
  ASSUME NEW S \in SUBSET Nat, S # {}
  PROVE  \E n \in S : \A k \in S : n <= k
<1>1. \E n \in S : \A k \in S : ~ (k < n)
  <2>1. PICK n \in S : \A k \in S : ~ (<<k, n>> \in OpToRel(<, Nat))
    BY NatLessThanWellFounded, WFMin
  <2>2. \A k \in S : k < n => <<k, n>> \in OpToRel(<, Nat)
    BY DEF OpToRel
  <2> QED BY <2>1, <2>2, Zenon
<1> QED BY <1>1

\* Min is the least member of a set of naturals.
LEMMA MinOfNaturals ==
  ASSUME NEW S \in SUBSET Nat, S # {}
  PROVE  Min(S) \in S /\ \A k \in S : Min(S) <= k
BY LeastNatural DEF Min
-------------------------------------------------------------------------------
(* Bins and intervals.                                                     *)

\* The value of an element rounded toward zero, in units of Lows.
Rounded(e) == TwosComplement(High(e))

Highs == 0 .. 2 * Sign - 1

\* The high part of an element tells its sign.
LEMMA HighOfElement ==
  ASSUME NEW e \in Element
  PROVE  /\ e \in Nat /\ High(e) \in Nat /\ Sign * Lows \in Nat
         /\ High(e) < Sign <=> e < Sign * Lows
<1> DEFINE h == e \div Lows
           SL == Sign * Lows
<1>1. Lows \in Nat \ {0} /\ Sign \in Nat \ {0} /\ SL \in Nat /\ e \in Nat
  BY RangeAssumption DEF Element
<1>2. h \in Nat /\ e % Lows \in 0 .. Lows - 1 /\ e = h * Lows + (e % Lows)
  BY <1>1, DividedNatural
<1>3. h * Lows \in Nat
  BY <1>1, <1>2
<1>4. h < Sign => h * Lows + Lows <= SL
  BY <1>1, <1>2, MultipleApart
<1>5. Sign < h => SL + Lows <= h * Lows
  BY <1>1, <1>2, MultipleApart
<1>6. Sign = h => SL = h * Lows
  OBVIOUS
<1> HIDE DEF h, SL
<1>7. h < Sign <=> e < SL
  BY <1>1, <1>2, <1>3, <1>4, <1>5, <1>6
<1> QED BY <1>1, <1>2, <1>7 DEF High, h, SL

\* Rounding toward zero keeps the order of values.
LEMMA RoundingIsMonotone ==
  ASSUME NEW e \in Element, NEW f \in Element, Value(e) <= Value(f)
  PROVE  Rounded(e) <= Rounded(f)
<1> DEFINE SL == Sign * Lows
<1>1. /\ e \in Nat /\ High(e) \in Nat /\ SL \in Nat /\ (High(e) < Sign <=> e < SL)
      /\ f \in Nat /\ High(f) \in Nat /\ (High(f) < Sign <=> f < SL)
  BY HighOfElement
<1>2. Sign \in Nat \ {0} /\ Lows \in Nat \ {0}
  BY RangeAssumption
<1>3. e <= f => High(e) <= High(f)
  BY <1>1, <1>2, DivisionIsMonotone DEF High
<1>4. f <= e => High(f) <= High(e)
  BY <1>1, <1>2, DivisionIsMonotone DEF High
<1>5. Value(e) = (IF High(e) < Sign THEN e ELSE SL - e)
      /\ Value(f) = (IF High(f) < Sign THEN f ELSE SL - f)
  BY DEF Value
<1>6. Rounded(e) = (IF High(e) < Sign THEN High(e) ELSE Sign - High(e))
      /\ Rounded(f) = (IF High(f) < Sign THEN High(f) ELSE Sign - High(f))
  BY DEF Rounded, TwosComplement
<1>7. CASE High(e) < Sign /\ High(f) < Sign
  BY <1>7, <1>1, <1>3, <1>5, <1>6
<1>8. CASE ~ (High(e) < Sign) /\ ~ (High(f) < Sign)
  <2> HIDE DEF SL
  <2>1. f <= e
    BY <1>8, <1>1, <1>5
  <2> QED BY <2>1, <1>8, <1>1, <1>2, <1>4, <1>6
<1>9. CASE ~ (High(e) < Sign) /\ High(f) < Sign
  BY <1>9, <1>1, <1>2, <1>6
<1>10. CASE High(e) < Sign /\ ~ (High(f) < Sign)
  <2>1. SL <= f
    BY <1>10, <1>1
  <2>2. e = 0 /\ f = SL
    <3> HIDE DEF SL
    <3> QED BY <2>1, <1>10, <1>1, <1>5
  <2>3. High(e) = 0
    BY <2>2, <1>2 DEF High
  <2>4. High(f) = Sign
    <3> DEFINE q == f \div Lows
    <3>1. q \in Nat /\ f % Lows \in 0 .. Lows - 1 /\ f = q * Lows + (f % Lows)
      BY <1>1, <1>2, DividedNatural
    <3>2. q * Lows \in Nat
      BY <3>1, <1>2
    <3> HIDE DEF q
    <3>3. Sign < q => SL + Lows <= q * Lows
      BY <3>1, <1>2, MultipleApart
    <3>4. ~ (Sign < q)
      <4> HIDE DEF SL
      <4> QED BY <3>1, <3>2, <3>3, <2>2, <1>1, <1>2
    <3> QED BY <3>4, <3>1, <1>10, <1>1, <1>2 DEF High, q
  <2> QED BY <2>3, <2>4, <1>2, <1>6
<1> QED BY <1>7, <1>8, <1>9, <1>10

\* The order of bins is the order of their rounded values, which are equal only
\* for the two zero bins.
LEMMA OrderOfBins ==
  ASSUME NEW h \in Highs, NEW g \in Highs, Key(h) < Key(g)
  PROVE  /\ TwosComplement(h) \in Int /\ TwosComplement(g) \in Int
         /\ TwosComplement(h) <= TwosComplement(g)
         /\ TwosComplement(h) = TwosComplement(g) =>
              h = Sign /\ g = 0 /\ TwosComplement(h) = 0
BY RangeAssumption DEF Highs, Key, TwosComplement
-------------------------------------------------------------------------------
(* The layout of a partition.                                              *)

LEMMA StartsAreNatural ==
  ASSUME NEW m, IsPartition(m)
  PROVE  m.numBins \in Nat /\ \A c \in 0 .. m.numBins : m.binStart[c] \in Nat
<1>1. m.length \in Nat /\ m.numBins \in Nat
  BY DEF IsPartition
<1>2. m.binStart \in [0 .. m.numBins -> 0 .. m.length]
  BY DEF IsPartition
<1>3. 0 .. m.length \subseteq Nat
  BY <1>1
<1>4. \A c \in 0 .. m.numBins : m.binStart[c] \in 0 .. m.length
  BY <1>2
<1> QED BY <1>1, <1>3, <1>4

\* A later bin starts no earlier.
LEMMA StartsRise ==
  ASSUME NEW m, IsPartition(m),
         NEW a \in 0 .. m.numBins, NEW b \in 0 .. m.numBins, a <= b
  PROVE  m.binStart[a] <= m.binStart[b]
<1>1. /\ m.numBins \in Nat /\ m.length \in Nat
      /\ m.binStart \in [0 .. m.numBins -> 0 .. m.length]
      /\ \A c \in 0 .. m.numBins - 1 : m.binStart[c] < m.binStart[c + 1]
  BY DEF IsPartition
<1> DEFINE S == {c \in a .. m.numBins : m.binStart[c] < m.binStart[a]}
<1>2. S = {}
  <2> SUFFICES ASSUME S # {} PROVE FALSE
    OBVIOUS
  <2>1. S \in SUBSET Nat
    BY <1>1
  <2>2. PICK c \in S : \A d \in S : c <= d
    BY <2>1, LeastNatural
  <2>3. c \in a + 1 .. m.numBins /\ c - 1 \in a .. m.numBins /\ c - 1 \notin S
    BY <2>2, <1>1
  <2>4. m.binStart[c - 1] < m.binStart[c]
    <3>1. c - 1 \in 0 .. m.numBins - 1 /\ (c - 1) + 1 = c
      BY <2>3, <1>1
    <3> QED BY <3>1, <1>1
  <2>5. m.binStart[c] \in Nat /\ m.binStart[c - 1] \in Nat /\ m.binStart[a] \in Nat
    <3>1. c \in 0 .. m.numBins /\ c - 1 \in 0 .. m.numBins
      BY <2>3, <1>1
    <3>2. \A d \in 0 .. m.numBins : m.binStart[d] \in Nat
      BY StartsAreNatural
    <3> QED BY <3>1, <3>2
  <2> QED BY <2>2, <2>3, <2>4, <2>5
<1>3. m.binStart[a] \in Nat /\ m.binStart[b] \in Nat
  BY <1>1
<1>4. b \in a .. m.numBins
  BY <1>1
<1> QED BY <1>2, <1>3, <1>4

\* Every element lies in a bin.
LEMMA BinOfElement ==
  ASSUME NEW m, IsPartition(m), NEW k \in 0 .. m.length - 1
  PROVE  \E b \in Bins(m) : m.binStart[b] <= k /\ k < m.binStart[b + 1]
<1>1. /\ m.numBins \in Nat /\ m.length \in Nat
      /\ m.binStart \in [0 .. m.numBins -> 0 .. m.length]
      /\ m.binStart[0] = 0 /\ m.binStart[m.numBins] = m.length
  BY DEF IsPartition
<1> DEFINE S == {c \in 0 .. m.numBins : k < m.binStart[c]}
<1>2. S \in SUBSET Nat /\ m.numBins \in S
  BY <1>1
<1>3. PICK c \in S : \A d \in S : c <= d
  BY <1>2, LeastNatural
<1>4. c # 0
  BY <1>1
<1>5. c - 1 \in 0 .. m.numBins - 1 /\ (c - 1) + 1 = c
  BY <1>1, <1>4
<1>6. c - 1 \notin S /\ m.binStart[c - 1] \in Nat
  BY <1>3, <1>5, <1>1
<1>7. m.binStart[c - 1] <= k
  BY <1>6, <1>5, <1>1
<1> QED BY <1>5, <1>7 DEF Bins

\* What IsPartition says of the bin of an element.
LEMMA PointOfBin ==
  ASSUME NEW m, IsPartition(m), NEW b \in Bins(m)
  PROVE  /\ m.binValues[b] \in Highs /\ Point(m, b) \in Int
         /\ \A k \in 0 .. m.length - 1 :
              m.binStart[b] <= k /\ k < m.binStart[b + 1] =>
                /\ Rounded(m.elems[k]) = Point(m, b) /\ m.elems[k] \in Element
                /\ High(m.elems[k]) = m.binValues[b]
<1>1. /\ m.numBins \in Nat /\ m.length \in Nat
      /\ m.binValues \in [0 .. m.numBins - 1 -> 0 .. 2 * Sign - 1]
      /\ m.binStart \in [0 .. m.numBins -> 0 .. m.length]
      /\ m.elems \in [0 .. m.length - 1 -> Element]
      /\ \A k \in m.binStart[b] .. m.binStart[b + 1] - 1 : High(m.elems[k]) = m.binValues[b]
  BY DEF IsPartition, Bins
<1>2. b \in 0 .. m.numBins /\ b + 1 \in 0 .. m.numBins
  BY <1>1 DEF Bins
<1>3. m.binStart[b] \in Nat /\ m.binStart[b + 1] \in Nat
  BY <1>1, <1>2
<1>4. m.binValues[b] \in Highs
  BY <1>1 DEF Bins, Highs
<1>5. Point(m, b) \in Int
  BY <1>4, RangeAssumption DEF Point, TwosComplement, Highs
<1>6. ASSUME NEW k \in 0 .. m.length - 1, m.binStart[b] <= k, k < m.binStart[b + 1]
      PROVE  /\ Rounded(m.elems[k]) = Point(m, b) /\ m.elems[k] \in Element
             /\ High(m.elems[k]) = m.binValues[b]
  <2>1. k \in m.binStart[b] .. m.binStart[b + 1] - 1
    BY <1>3, <1>6
  <2> QED BY <2>1, <1>1 DEF Rounded, Point
<1> QED BY <1>4, <1>5, <1>6

\* The values of bins rise, but for the two zero bins, which have one value.
LEMMA PointsRise ==
  ASSUME NEW m, IsPartition(m), NEW b \in Bins(m), NEW c \in Bins(m), b < c
  PROVE  /\ Point(m, b) <= Point(m, c)
         /\ Point(m, b) = Point(m, c) =>
              m.binValues[b] = Sign /\ m.binValues[c] = 0 /\ Point(m, b) = 0
<1>1. Key(m.binValues[b]) < Key(m.binValues[c])
  BY DEF IsPartition, Bins
<1>2. m.binValues[b] \in Highs /\ m.binValues[c] \in Highs
  BY PointOfBin
<1> QED BY <1>1, <1>2, OrderOfBins DEF Point
-------------------------------------------------------------------------------
(* The range.                                                              *)

Interval(q) == q.lb \in Element /\ q.ub \in Element

\* StartBin and EndBin are what they are called, where they exist.
LEMMA Ranges ==
  ASSUME NEW m, IsPartition(m), NEW q, Interval(q)
  PROVE  /\ m.numBins \in Nat
         /\ LowPoint(q) \in Int /\ UpPoint(q) \in Int
         /\ AtOrAboveLow(m, q) # {} =>
              /\ StartBin(m, q) \in AtOrAboveLow(m, q)
              /\ \A b \in AtOrAboveLow(m, q) : StartBin(m, q) <= b
              /\ StartBin(m, q) \in Bins(m)
         /\ AtOrAboveLow(m, q) # {} /\ AboveUp(m, q) # {} =>
              EndBin(m, q) \in AboveUp(m, q) /\ EndBin(m, q) \in Bins(m)
         /\ AboveUp(m, q) = {} => EndBin(m, q) = m.numBins
<1>1. m.numBins \in Nat
  BY DEF IsPartition
<1>2. LowPoint(q) \in Int /\ UpPoint(q) \in Int
  BY HighOfElement, RangeAssumption DEF Interval, LowPoint, UpPoint, TwosComplement
<1>3. ASSUME AtOrAboveLow(m, q) # {}
      PROVE  /\ StartBin(m, q) \in AtOrAboveLow(m, q)
             /\ \A b \in AtOrAboveLow(m, q) : StartBin(m, q) <= b
             /\ StartBin(m, q) \in Bins(m)
  <2>1. AtOrAboveLow(m, q) \in SUBSET Nat
    BY <1>1 DEF AtOrAboveLow, Bins
  <2>2. /\ StartBin(m, q) \in AtOrAboveLow(m, q)
        /\ \A b \in AtOrAboveLow(m, q) : StartBin(m, q) <= b
    BY <2>1, <1>3, MinOfNaturals DEF StartBin
  <2> QED BY <2>2 DEF AtOrAboveLow
<1>4. ASSUME AtOrAboveLow(m, q) # {}, AboveUp(m, q) # {}
      PROVE  EndBin(m, q) \in AboveUp(m, q) /\ EndBin(m, q) \in Bins(m)
  <2>1. AboveUp(m, q) \in SUBSET Bins(m)
    BY <1>1, <1>3, <1>4 DEF AboveUp, Bins
  <2>2. Bins(m) \in SUBSET Nat
    BY <1>1 DEF Bins
  <2> QED BY <2>1, <2>2, <1>4, MinOfNaturals DEF EndBin
<1> QED BY <1>1, <1>2, <1>3, <1>4 DEF EndBin

\* A range that is touched is not empty, and EndBin is the end of its bins.
LEMMA TouchedBins ==
  ASSUME NEW m, IsPartition(m), NEW q, Interval(q), Touched(m, q)
  PROVE  /\ StartBin(m, q) \in AtOrAboveLow(m, q) /\ StartBin(m, q) \in Bins(m)
         /\ EndBin(m, q) \in StartBin(m, q) + 1 .. m.numBins
         /\ \A c \in Bins(m) : StartBin(m, q) <= c /\ c < EndBin(m, q) =>
              ~ (Point(m, c) > UpPoint(q))
<1> DEFINE s == StartBin(m, q)
<1>1. m.numBins \in Nat /\ s \in AtOrAboveLow(m, q) /\ s \in Bins(m) /\ s # EndBin(m, q)
  BY Ranges DEF Touched
<1>2. CASE AboveUp(m, q) = {}
  <2>1. EndBin(m, q) = m.numBins
    BY <1>2, Ranges
  <2>2. \A c \in Bins(m) : s <= c => c \in s .. m.numBins - 1
    BY <1>1 DEF Bins
  <2>3. \A c \in Bins(m) : s <= c => ~ (Point(m, c) > UpPoint(q))
    BY <2>2, <1>2 DEF AboveUp
  <2>4. EndBin(m, q) \in s + 1 .. m.numBins
    BY <2>1, <1>1 DEF Bins
  <2> QED BY <1>1, <2>3, <2>4
<1>3. CASE AboveUp(m, q) # {}
  <2>1. EndBin(m, q) \in AboveUp(m, q) /\ EndBin(m, q) \in Bins(m)
    BY <1>3, Ranges DEF Touched
  <2>2. AboveUp(m, q) \in SUBSET Nat
    BY <1>1 DEF AboveUp, Bins
  <2>3. \A c \in AboveUp(m, q) : EndBin(m, q) <= c
    BY <1>3, <2>2, MinOfNaturals DEF EndBin
  <2>4. EndBin(m, q) \in s .. m.numBins - 1
    BY <2>1 DEF AboveUp
  <2>5. EndBin(m, q) \in s + 1 .. m.numBins
    BY <2>4, <1>1 DEF Bins
  <2>6. \A c \in Bins(m) : s <= c /\ c < EndBin(m, q) => c \in s .. m.numBins - 1 /\ c \notin AboveUp(m, q)
    BY <2>3, <2>4, <1>1 DEF Bins
  <2> QED BY <1>1, <2>5, <2>6 DEF AboveUp
<1> QED BY <1>2, <1>3

(***************************************************************************)
(* The bins touched are exactly those whose value, rounded toward zero,    *)
(* lies between the rounded bounds (findBinRange1C).                       *)
(***************************************************************************)
THEOREM BinsOfRange ==
  ASSUME NEW m, IsPartition(m), NEW q, Interval(q), NEW b \in Bins(m)
  PROVE  Touched(m, q) /\ StartBin(m, q) <= b /\ b < EndBin(m, q)
           <=> LowPoint(q) <= Point(m, b) /\ Point(m, b) <= UpPoint(q)
<1>1. /\ m.numBins \in Nat /\ LowPoint(q) \in Int /\ UpPoint(q) \in Int
      /\ \A x \in Bins(m) : Point(m, x) \in Int
      /\ \A x, y \in Bins(m) : x < y => Point(m, x) <= Point(m, y)
  BY Ranges, PointOfBin, PointsRise
<1>2. ASSUME Touched(m, q), StartBin(m, q) <= b, b < EndBin(m, q)
      PROVE  LowPoint(q) <= Point(m, b) /\ Point(m, b) <= UpPoint(q)
  <2>1. /\ StartBin(m, q) \in AtOrAboveLow(m, q) /\ StartBin(m, q) \in Bins(m)
        /\ ~ (Point(m, b) > UpPoint(q))
    BY <1>2, TouchedBins
  <2>2. Point(m, StartBin(m, q)) >= LowPoint(q)
    BY <2>1 DEF AtOrAboveLow
  <2>3. Point(m, StartBin(m, q)) <= Point(m, b)
    BY <1>1, <1>2, <2>1 DEF Bins
  <2> QED BY <1>1, <2>1, <2>2, <2>3
<1>3. ASSUME LowPoint(q) <= Point(m, b), Point(m, b) <= UpPoint(q)
      PROVE  Touched(m, q) /\ StartBin(m, q) <= b /\ b < EndBin(m, q)
  <2>1. b \in AtOrAboveLow(m, q)
    BY <1>1, <1>3 DEF AtOrAboveLow
  <2>2. StartBin(m, q) \in Bins(m) /\ StartBin(m, q) <= b
    BY <2>1, Ranges
  <2>3. b < EndBin(m, q) /\ EndBin(m, q) \in 0 .. m.numBins
    <3>1. CASE AboveUp(m, q) = {}
      BY <3>1, <1>1, Ranges DEF Bins
    <3>2. CASE AboveUp(m, q) # {}
      <4>1. EndBin(m, q) \in AboveUp(m, q) /\ EndBin(m, q) \in Bins(m)
        BY <3>2, <2>1, Ranges
      <4>2. Point(m, EndBin(m, q)) > UpPoint(q)
        BY <4>1 DEF AboveUp
      <4>3. ~ (EndBin(m, q) <= b)
        <5> SUFFICES ASSUME EndBin(m, q) <= b PROVE FALSE
          OBVIOUS
        <5>1. Point(m, EndBin(m, q)) <= Point(m, b)
          BY <4>1, <1>1 DEF Bins
        <5> QED BY <5>1, <4>1, <4>2, <1>1, <1>3
      <4> QED BY <4>1, <4>3, <1>1 DEF Bins
    <3> QED BY <3>1, <3>2
  <2>4. Point(m, StartBin(m, q)) <= UpPoint(q)
    <3>1. Point(m, StartBin(m, q)) <= Point(m, b)
      BY <1>1, <2>2 DEF Bins
    <3> QED BY <3>1, <1>1, <1>3, <2>2
  <2>5. StartBin(m, q) # EndBin(m, q)
    BY <1>1, <2>2, <2>3 DEF Bins
  <2>6. Point(m, EndBin(m, q) - 1) >= LowPoint(q)
    <3>1. EndBin(m, q) - 1 \in Bins(m) /\ b <= EndBin(m, q) - 1
      BY <1>1, <2>3 DEF Bins
    <3>2. Point(m, b) <= Point(m, EndBin(m, q) - 1)
      BY <3>1, <1>1 DEF Bins
    <3> QED BY <3>1, <3>2, <1>1, <1>3
  <2>7. Touched(m, q)
    BY <2>1, <2>4, <2>5, <2>6 DEF Touched
  <2> QED BY <2>2, <2>3, <2>7
<1> QED BY <1>2, <1>3

\* The elements of the bins of a range, of one bin for instance, are those from
\* the start of the first bin to the start of the bin after the last.
LEMMA ElementsOfBins ==
  ASSUME NEW m, IsPartition(m), NEW x \in 0 .. m.numBins, NEW y \in 0 .. m.numBins,
         NEW b \in Bins(m), NEW k \in 0 .. m.length - 1,
         m.binStart[b] <= k, k < m.binStart[b + 1]
  PROVE  m.binStart[x] <= k /\ k < m.binStart[y] <=> x <= b /\ b < y
<1>1. /\ m.numBins \in Nat /\ \A c \in 0 .. m.numBins : m.binStart[c] \in Nat
  BY StartsAreNatural
<1>2. m.length \in Nat /\ k \in Nat
  BY DEF IsPartition
<1>3. b \in 0 .. m.numBins /\ b + 1 \in 0 .. m.numBins
  BY <1>1 DEF Bins
<1>4. /\ m.binStart[b] \in Nat /\ m.binStart[b + 1] \in Nat
      /\ m.binStart[x] \in Nat /\ m.binStart[y] \in Nat
  BY <1>1, <1>3
<1>5. x <= b => m.binStart[x] <= m.binStart[b]
  BY <1>3, StartsRise
<1>6. b + 1 <= x => m.binStart[b + 1] <= m.binStart[x]
  BY <1>3, StartsRise
<1>7. y <= b => m.binStart[y] <= m.binStart[b]
  BY <1>3, StartsRise
<1>8. b + 1 <= y => m.binStart[b + 1] <= m.binStart[y]
  BY <1>3, StartsRise
<1>9. m.binStart[x] <= k <=> x <= b
  BY <1>1, <1>2, <1>3, <1>4, <1>5, <1>6
<1>10. k < m.binStart[y] <=> b < y
  BY <1>1, <1>2, <1>3, <1>4, <1>7, <1>8
<1> QED BY <1>9, <1>10

(***************************************************************************)
(* The range of bins is never too small: whatever the partition and the    *)
(* interval, an element of the interval lies in a bin that is touched, so  *)
(* rounding the bounds toward zero and comparing two zero bins loses none  *)
(* (findbinrange.templates.cc:64, "it ends up working").                   *)
(***************************************************************************)
THEOREM RangeHoldsInterval ==
  ASSUME NEW m, IsPartition(m), NEW q, Interval(q),
         NEW k \in 0 .. m.length - 1, InRange(m.elems[k], q)
  PROVE  /\ Touched(m, q)
         /\ m.binStart[StartBin(m, q)] <= k
         /\ k < m.binStart[EndBin(m, q)]
<1>1. PICK b \in Bins(m) : m.binStart[b] <= k /\ k < m.binStart[b + 1]
  BY BinOfElement
<1>2. /\ Rounded(m.elems[k]) = Point(m, b) /\ m.elems[k] \in Element
  BY <1>1, PointOfBin
<1>3. LowPoint(q) <= Point(m, b) /\ Point(m, b) <= UpPoint(q)
  <2>1. Value(q.lb) <= Value(m.elems[k]) /\ Value(m.elems[k]) <= Value(q.ub)
    <3>1. \A e \in Element : Value(e) \in Int
      BY HighOfElement, RangeAssumption DEF Value
    <3> QED BY <3>1, <1>2 DEF InRange, Interval
  <2>2. Rounded(q.lb) <= Rounded(m.elems[k]) /\ Rounded(m.elems[k]) <= Rounded(q.ub)
    BY <2>1, <1>2, RoundingIsMonotone DEF Interval
  <2> QED BY <2>2, <1>2 DEF Rounded, LowPoint, UpPoint
<1>4. Touched(m, q) /\ StartBin(m, q) <= b /\ b < EndBin(m, q)
  BY <1>3, BinsOfRange
<1>5. StartBin(m, q) \in 0 .. m.numBins /\ EndBin(m, q) \in 0 .. m.numBins
  BY <1>4, TouchedBins, StartsAreNatural DEF Bins
<1> QED BY <1>1, <1>4, <1>5, ElementsOfBins

\* A bound lies in a zero bin when there are two of them.
BoundInZeroBin(m, q) ==
  /\ LowPoint(q) = 0 \/ UpPoint(q) = 0
  /\ {0, Sign} \subseteq {m.binValues[b] : b \in Bins(m)}

(***************************************************************************)
(* Checking the first and the last bin of a range is enough, but for a     *)
(* zero bin: an element of the bins between is in the interval, unless it  *)
(* is in a zero bin, both zero bins exist and a bound lies in one of them  *)
(* (trimQueryResults and doMultiQueryValueConstraint leave these bins      *)
(* unchecked).                                                             *)
(***************************************************************************)
THEOREM InnerBinsInInterval ==
  ASSUME NEW m, IsPartition(m), NEW q, Interval(q), Touched(m, q),
         NEW k \in 0 .. m.length - 1,
         m.binStart[StartBin(m, q) + 1] <= k, k < m.binStart[EndBin(m, q) - 1]
  PROVE  \/ InRange(m.elems[k], q)
         \/ BoundInZeroBin(m, q) /\ High(m.elems[k]) \in {0, Sign}
<1> DEFINE s == StartBin(m, q)
           t == EndBin(m, q) - 1
<1> SUFFICES ASSUME ~ (BoundInZeroBin(m, q) /\ High(m.elems[k]) \in {0, Sign})
             PROVE  InRange(m.elems[k], q)
  OBVIOUS
<1>1. PICK b \in Bins(m) : m.binStart[b] <= k /\ k < m.binStart[b + 1]
  BY BinOfElement
<1>2. /\ Point(m, b) \in Int /\ Rounded(m.elems[k]) = Point(m, b)
      /\ m.elems[k] \in Element /\ High(m.elems[k]) = m.binValues[b]
  BY <1>1, PointOfBin
<1>3. /\ m.numBins \in Nat /\ LowPoint(q) \in Int /\ UpPoint(q) \in Int
      /\ s \in AtOrAboveLow(m, q) /\ s \in Bins(m)
  BY Ranges DEF Touched
<1>4. t \in Bins(m) /\ s <= t /\ Point(m, t) <= UpPoint(q)
  <2>1. t \in Bins(m) /\ s <= t /\ t < EndBin(m, q)
    BY <1>3, TouchedBins DEF Bins
  <2> QED BY <2>1, <1>3, TouchedBins, PointOfBin
<1>5. LowPoint(q) <= Point(m, s)
  BY <1>3, PointOfBin DEF AtOrAboveLow
<1>6. s < b /\ b < t
  <2>1. s + 1 \in 0 .. m.numBins /\ t \in 0 .. m.numBins
    BY <1>3, <1>4 DEF Bins
  <2>2. s + 1 <= b /\ b < t
    BY <2>1, <1>1, ElementsOfBins
  <2> QED BY <2>2, <1>1, <1>3 DEF Bins
<1> HIDE DEF s, t
<1>7. Point(m, s) \in Int /\ Point(m, t) \in Int
  BY <1>3, <1>4, PointOfBin
<1>8. LowPoint(q) < Point(m, b)
  <2>1. Point(m, s) <= Point(m, b)
    BY <1>1, <1>3, <1>6, PointsRise
  <2>2. CASE Point(m, s) = Point(m, b)
    <3>1. m.binValues[s] = Sign /\ m.binValues[b] = 0 /\ Point(m, s) = 0
      BY <2>2, <1>1, <1>3, <1>6, PointsRise
    <3>2. {0, Sign} \subseteq {m.binValues[c] : c \in Bins(m)}
      BY <3>1, <1>1, <1>3
    <3>3. LowPoint(q) # 0
      BY <3>1, <3>2, <1>2 DEF BoundInZeroBin
    <3> QED BY <3>1, <3>3, <2>2, <1>2, <1>3, <1>5, <1>7
  <2>3. CASE Point(m, s) # Point(m, b)
    BY <2>1, <2>3, <1>2, <1>3, <1>5, <1>7
  <2> QED BY <2>2, <2>3
<1>9. Point(m, b) < UpPoint(q)
  <2>1. Point(m, b) <= Point(m, t)
    BY <1>1, <1>4, <1>6, PointsRise
  <2>2. CASE Point(m, b) = Point(m, t)
    <3>1. m.binValues[b] = Sign /\ m.binValues[t] = 0 /\ Point(m, b) = 0
      BY <2>2, <1>1, <1>4, <1>6, PointsRise
    <3>2. {0, Sign} \subseteq {m.binValues[c] : c \in Bins(m)}
      BY <3>1, <1>1, <1>4
    <3>3. UpPoint(q) # 0
      BY <3>1, <3>2, <1>2 DEF BoundInZeroBin
    <3> QED BY <3>1, <3>3, <2>2, <1>2, <1>3, <1>4, <1>7
  <2>3. CASE Point(m, b) # Point(m, t)
    BY <2>1, <2>3, <1>2, <1>3, <1>4, <1>7
  <2> QED BY <2>2, <2>3
<1>10. Rounded(q.lb) < Rounded(m.elems[k]) /\ Rounded(m.elems[k]) < Rounded(q.ub)
  BY <1>2, <1>8, <1>9 DEF Rounded, LowPoint, UpPoint
<1>11. /\ Rounded(q.lb) \in Int /\ Rounded(q.ub) \in Int
       /\ Rounded(m.elems[k]) \in Int
  BY <1>2, <1>3 DEF Rounded, LowPoint, UpPoint
<1>12. \A e \in Element : Value(e) \in Int
  BY HighOfElement, RangeAssumption DEF Value
<1>13. ~ (Value(m.elems[k]) <= Value(q.lb))
  BY <1>10, <1>11, <1>2, RoundingIsMonotone DEF Interval
<1>14. ~ (Value(q.ub) <= Value(m.elems[k]))
  BY <1>10, <1>11, <1>2, RoundingIsMonotone DEF Interval
<1> QED BY <1>12, <1>13, <1>14, <1>2 DEF InRange, Interval
===============================================================================
