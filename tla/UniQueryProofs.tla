----------------------------- MODULE UniQueryProofs ----------------------------
(***************************************************************************)
(* The answers of the univariate query engine are right for every store,   *)
(* every interval and every sequence of queries.                           *)
(***************************************************************************)
EXTENDS UniQueryProps, BinRangeProofs

-------------------------------------------------------------------------------
(* The trimming loops, as functions of what they work on.                  *)

\* Elements of the buffers and of the partition: p is the partition, s the first
\* of its elements in the buffers, f the end of the first bin, b the start of
\* the last (or the end, if the first is the last), e the end.
Shape(p, s, f, b, e) ==
  /\ s \in Nat /\ f \in Nat /\ b \in Nat /\ e \in Nat /\ f <= b /\ b <= e
  /\ \A x, y \in 0 .. e - 1 : x # y => p.rids[s + x] # p.rids[s + y]

Distinct(r, S) == \A x, y \in S : x # y => r[x] # r[y]

\* Place j of the buffers has a row and its value, which is in the interval.
Kept(p, q, s, d, r, j, k) ==
  r[j] = p.rids[s + k] /\ d[j] = p.elems[s + k] /\ InRange(p.elems[s + k], q)

\* While the first bin is trimmed: io is the next place to look at, h the first
\* that is kept.
FirstOK(p, q, s, f, b, e, g, d, r, io, h) ==
  /\ io \in -1 .. f - 1 /\ h \in io + 1 .. f
  /\ d = [k \in 0 .. e - 1 |-> d[k]] /\ r = [k \in 0 .. e - 1 |-> r[k]]
  /\ \A k \in 0 .. e - 1 : k <= io \/ f <= k => r[k] = p.rids[s + k]
  /\ \A k \in 0 .. e - 1 : k <= io \/ b <= k \/ (~ g /\ f <= k) => d[k] = p.elems[s + k]
  /\ \A k \in io + 1 .. f - 1 : InRange(p.elems[s + k], q) =>
       \E j \in h .. f - 1 : Kept(p, q, s, d, r, j, k)
  /\ \A j \in h .. f - 1 : \E k \in io + 1 .. f - 1 : Kept(p, q, s, d, r, j, k)
  /\ Distinct(r, h .. f - 1)

\* While the last bin is trimmed: t is the place after the last that is kept.
LastOK(p, q, s, f, b, e, g, d, r, io, h, t) ==
  /\ io \in b .. e /\ t \in b .. io /\ h \in 0 .. f
  /\ d = [k \in 0 .. e - 1 |-> d[k]] /\ r = [k \in 0 .. e - 1 |-> r[k]]
  /\ \A k \in f .. e - 1 : k < b \/ io <= k => r[k] = p.rids[s + k]
  /\ \A k \in f .. e - 1 : (k < b /\ ~ g) \/ io <= k => d[k] = p.elems[s + k]
  /\ \A k \in 0 .. f - 1 : InRange(p.elems[s + k], q) =>
       \E j \in h .. f - 1 : Kept(p, q, s, d, r, j, k)
  /\ \A j \in h .. f - 1 : \E k \in 0 .. f - 1 : Kept(p, q, s, d, r, j, k)
  /\ \A k \in b .. io - 1 : InRange(p.elems[s + k], q) =>
       \E j \in b .. t - 1 : Kept(p, q, s, d, r, j, k)
  /\ \A j \in b .. t - 1 : \E k \in b .. io - 1 : Kept(p, q, s, d, r, j, k)
  /\ Distinct(r, h .. f - 1) /\ Distinct(r, b .. t - 1)

\* A value of the first bin that is not in the interval is passed over.
LEMMA FirstDropped ==
  ASSUME NEW p, NEW q, NEW s, NEW f, NEW b, NEW e, NEW g, Shape(p, s, f, b, e),
         NEW d, NEW r, NEW io, NEW h, FirstOK(p, q, s, f, b, e, g, d, r, io, h),
         io >= 0, ~ InRange(d[io], q)
  PROVE  FirstOK(p, q, s, f, b, e, g, d, r, io - 1, h)
<1>1. /\ io \in 0 .. f - 1 /\ h \in io + 1 .. f /\ f \in Nat /\ e \in Nat /\ f <= e
      /\ io \in 0 .. e - 1
  BY DEF FirstOK, Shape
<1>2. d[io] = p.elems[s + io]
  BY <1>1 DEF FirstOK
<1>3. io - 1 \in -1 .. f - 1 /\ h \in (io - 1) + 1 .. f
  BY <1>1
<1>4. \A k \in 0 .. e - 1 : k <= io - 1 => k <= io
  BY <1>1
<1>5. \A k \in (io - 1) + 1 .. f - 1 : k = io \/ k \in io + 1 .. f - 1
  BY <1>1
<1>6. io + 1 .. f - 1 \subseteq (io - 1) + 1 .. f - 1
  BY <1>1
<1>7. \A k \in (io - 1) + 1 .. f - 1 : InRange(p.elems[s + k], q) =>
        \E j \in h .. f - 1 : Kept(p, q, s, d, r, j, k)
  BY <1>2, <1>5 DEF FirstOK
<1>8. \A j \in h .. f - 1 : \E k \in (io - 1) + 1 .. f - 1 : Kept(p, q, s, d, r, j, k)
  BY <1>6 DEF FirstOK
<1> QED BY <1>3, <1>4, <1>7, <1>8 DEF FirstOK

\* A value of the first bin that is in the interval is moved up.
LEMMA FirstKept ==
  ASSUME NEW p, NEW q, NEW s, NEW f, NEW b, NEW e, NEW g, Shape(p, s, f, b, e),
         NEW d, NEW r, NEW io, NEW h, FirstOK(p, q, s, f, b, e, g, d, r, io, h),
         io >= 0, InRange(d[io], q)
  PROVE  FirstOK(p, q, s, f, b, e, g, [d EXCEPT ![h - 1] = d[io]], [r EXCEPT ![h - 1] = r[io]],
                 io - 1, h - 1)
<1> DEFINE d2 == [d EXCEPT ![h - 1] = d[io]]
           r2 == [r EXCEPT ![h - 1] = r[io]]
<1>1. /\ io \in 0 .. f - 1 /\ h \in io + 1 .. f /\ f \in Nat /\ e \in Nat /\ b \in Nat
      /\ f <= b /\ b <= e /\ io \in 0 .. e - 1
  BY DEF FirstOK, Shape
<1>2. d[io] = p.elems[s + io] /\ r[io] = p.rids[s + io]
  BY <1>1 DEF FirstOK
<1>3. /\ d = [k \in 0 .. e - 1 |-> d[k]] /\ r = [k \in 0 .. e - 1 |-> r[k]]
  BY DEF FirstOK
<1>4. /\ io - 1 \in -1 .. f - 1 /\ h - 1 \in (io - 1) + 1 .. f
      /\ h - 1 \in 0 .. e - 1 /\ h - 1 \in h - 1 .. f - 1 /\ io \in (io - 1) + 1 .. f - 1
  BY <1>1
<1>5. /\ d2 = [k \in 0 .. e - 1 |-> d2[k]] /\ r2 = [k \in 0 .. e - 1 |-> r2[k]]
      /\ d2[h - 1] = d[io] /\ r2[h - 1] = r[io]
      /\ \A k \in 0 .. e - 1 : k # h - 1 => d2[k] = d[k] /\ r2[k] = r[k]
  BY <1>3, <1>4
<1> HIDE DEF d2, r2
<1>6. \A k \in 0 .. e - 1 : k <= io - 1 \/ f <= k => r2[k] = p.rids[s + k]
  <2>1. \A k \in 0 .. e - 1 : k <= io - 1 \/ f <= k => k # h - 1 /\ (k <= io \/ f <= k)
    BY <1>1
  <2> QED BY <2>1, <1>5 DEF FirstOK
<1>7. \A k \in 0 .. e - 1 : k <= io - 1 \/ b <= k \/ (~ g /\ f <= k) => d2[k] = p.elems[s + k]
  <2>1. \A k \in 0 .. e - 1 : k <= io - 1 \/ b <= k \/ f <= k => k # h - 1
    BY <1>1
  <2>2. \A k \in 0 .. e - 1 : k <= io - 1 => k <= io
    BY <1>1
  <2> QED BY <2>1, <2>2, <1>5 DEF FirstOK
<1>8. Kept(p, q, s, d2, r2, h - 1, io)
  BY <1>2, <1>5 DEF Kept
<1>9. \A j \in h .. f - 1 : \A k : Kept(p, q, s, d, r, j, k) => Kept(p, q, s, d2, r2, j, k)
  <2>1. \A j \in h .. f - 1 : j \in 0 .. e - 1 /\ j # h - 1
    BY <1>1
  <2> QED BY <2>1, <1>5 DEF Kept
<1>10. /\ \A k \in (io - 1) + 1 .. f - 1 : k = io \/ k \in io + 1 .. f - 1
       /\ io + 1 .. f - 1 \subseteq (io - 1) + 1 .. f - 1
       /\ \A j \in h - 1 .. f - 1 : j = h - 1 \/ j \in h .. f - 1
       /\ h .. f - 1 \subseteq h - 1 .. f - 1
  BY <1>1
<1>11. \A k \in (io - 1) + 1 .. f - 1 : InRange(p.elems[s + k], q) =>
         \E j \in h - 1 .. f - 1 : Kept(p, q, s, d2, r2, j, k)
  <2> TAKE k \in (io - 1) + 1 .. f - 1
  <2> HAVE InRange(p.elems[s + k], q)
  <2>1. CASE k = io
    BY <2>1, <1>4, <1>8
  <2>2. CASE k \in io + 1 .. f - 1
    <3>1. PICK j \in h .. f - 1 : Kept(p, q, s, d, r, j, k)
      BY <2>2 DEF FirstOK
    <3> QED BY <3>1, <1>9, <1>10
  <2> QED BY <2>1, <2>2, <1>10
<1>12. \A j \in h - 1 .. f - 1 : \E k \in (io - 1) + 1 .. f - 1 : Kept(p, q, s, d2, r2, j, k)
  <2> TAKE j \in h - 1 .. f - 1
  <2>1. CASE j = h - 1
    BY <2>1, <1>4, <1>8
  <2>2. CASE j \in h .. f - 1
    <3>1. PICK k \in io + 1 .. f - 1 : Kept(p, q, s, d, r, j, k)
      BY <2>2 DEF FirstOK
    <3> QED BY <3>1, <2>2, <1>9, <1>10
  <2> QED BY <2>1, <2>2, <1>10
<1>13. Distinct(r2, h - 1 .. f - 1)
  <2>1. \A j \in h .. f - 1 : j \in 0 .. e - 1 /\ j # h - 1
    BY <1>1
  <2>2. \A j \in h .. f - 1 : r2[j] # r2[h - 1]
    <3> TAKE j \in h .. f - 1
    <3>1. PICK k \in io + 1 .. f - 1 : r[j] = p.rids[s + k]
      BY DEF FirstOK, Kept
    <3>2. k \in 0 .. e - 1 /\ k # io
      BY <1>1
    <3> QED BY <3>1, <3>2, <2>1, <1>1, <1>2, <1>5 DEF Shape
  <2>3. \A x, y \in h .. f - 1 : x # y => r2[x] # r2[y]
    BY <2>1, <1>5 DEF FirstOK, Distinct
  <2> QED BY <2>2, <2>3, <1>10 DEF Distinct
<1>14. FirstOK(p, q, s, f, b, e, g, d2, r2, io - 1, h - 1)
  BY <1>4, <1>5, <1>6, <1>7, <1>11, <1>12, <1>13 DEF FirstOK
<1> QED BY <1>14 DEF d2, r2

\* After the first bin the loop over the last one begins.
LEMMA FirstDone ==
  ASSUME NEW p, NEW q, NEW s, NEW f, NEW b, NEW e, NEW g, Shape(p, s, f, b, e),
         NEW d, NEW r, NEW io, NEW h, FirstOK(p, q, s, f, b, e, g, d, r, io, h), io < 0
  PROVE  LastOK(p, q, s, f, b, e, g, d, r, b, h, b)
<1>1. /\ f \in Nat /\ e \in Nat /\ b \in Nat /\ f <= b /\ b <= e
      /\ io = -1 /\ h \in 0 .. f
  BY DEF FirstOK, Shape
<1>2. b \in b .. e /\ b .. b - 1 = {} /\ io + 1 .. f - 1 = 0 .. f - 1
  BY <1>1
<1>3. /\ \A k \in f .. e - 1 : k \in 0 .. e - 1 /\ f <= k
      /\ \A k \in b .. e - 1 : k \in 0 .. e - 1 /\ b <= k
  BY <1>1
<1>4. b \in b .. b
  BY <1>1
<1>5. \A k \in f .. e - 1 : (k < b /\ ~ g) \/ b <= k => d[k] = p.elems[s + k]
  BY <1>3 DEF FirstOK
<1>6. Distinct(r, b .. b - 1)
  BY <1>2 DEF Distinct
<1> QED BY <1>1, <1>2, <1>3, <1>4, <1>5, <1>6 DEF FirstOK, LastOK

\* A value of the last bin that is not in the interval is passed over.
LEMMA LastDropped ==
  ASSUME NEW p, NEW q, NEW s, NEW f, NEW b, NEW e, NEW g, Shape(p, s, f, b, e),
         NEW d, NEW r, NEW io, NEW h, NEW t,
         LastOK(p, q, s, f, b, e, g, d, r, io, h, t),
         io < e, ~ InRange(d[io], q)
  PROVE  LastOK(p, q, s, f, b, e, g, d, r, io + 1, h, t)
<1>1. /\ io \in b .. e - 1 /\ t \in b .. io /\ h \in 0 .. f
      /\ f \in Nat /\ e \in Nat /\ b \in Nat /\ f <= b /\ b <= e
      /\ io \in f .. e - 1 /\ io <= io
  BY DEF LastOK, Shape
<1>2. d[io] = p.elems[s + io]
  BY <1>1 DEF LastOK
<1>3. io + 1 \in b .. e /\ t \in b .. io + 1
  BY <1>1
<1>4. \A k \in f .. e - 1 : io + 1 <= k => io <= k
  BY <1>1
<1>5. b .. io - 1 \subseteq b .. (io + 1) - 1
  BY <1>1
<1>6. \A k \in b .. (io + 1) - 1 : k = io \/ k \in b .. io - 1
  BY <1>1
<1>7. \A k \in b .. (io + 1) - 1 : InRange(p.elems[s + k], q) =>
        \E j \in b .. t - 1 : Kept(p, q, s, d, r, j, k)
  BY <1>2, <1>6 DEF LastOK
<1>8. \A j \in b .. t - 1 : \E k \in b .. (io + 1) - 1 : Kept(p, q, s, d, r, j, k)
  BY <1>5 DEF LastOK
<1> QED BY <1>1, <1>3, <1>4, <1>5, <1>7, <1>8 DEF LastOK

\* A value of the last bin that is in the interval is moved down.
LEMMA LastKept ==
  ASSUME NEW p, NEW q, NEW s, NEW f, NEW b, NEW e, NEW g, Shape(p, s, f, b, e),
         NEW d, NEW r, NEW io, NEW h, NEW t,
         LastOK(p, q, s, f, b, e, g, d, r, io, h, t),
         io < e, InRange(d[io], q)
  PROVE  LastOK(p, q, s, f, b, e, g, [d EXCEPT ![t] = d[io]], [r EXCEPT ![t] = r[io]],
                io + 1, h, t + 1)
<1> DEFINE d2 == [d EXCEPT ![t] = d[io]]
           r2 == [r EXCEPT ![t] = r[io]]
<1>1. /\ io \in b .. e - 1 /\ t \in b .. io /\ h \in 0 .. f
      /\ f \in Nat /\ e \in Nat /\ b \in Nat /\ f <= b /\ b <= e
      /\ io \in f .. e - 1 /\ io <= io
  BY DEF LastOK, Shape
<1>2. d[io] = p.elems[s + io] /\ r[io] = p.rids[s + io]
  BY <1>1 DEF LastOK
<1>3. d = [k \in 0 .. e - 1 |-> d[k]] /\ r = [k \in 0 .. e - 1 |-> r[k]]
  BY DEF LastOK
<1>4. /\ io + 1 \in b .. e /\ t + 1 \in b .. io + 1 /\ t \in 0 .. e - 1
      /\ t \in b .. (t + 1) - 1 /\ io \in b .. (io + 1) - 1
  BY <1>1
<1>5. /\ d2 = [k \in 0 .. e - 1 |-> d2[k]] /\ r2 = [k \in 0 .. e - 1 |-> r2[k]]
      /\ d2[t] = d[io] /\ r2[t] = r[io]
      /\ \A k \in 0 .. e - 1 : k # t => d2[k] = d[k] /\ r2[k] = r[k]
  BY <1>3, <1>4
<1> HIDE DEF d2, r2
<1>6. \A k \in f .. e - 1 : k < b \/ io + 1 <= k => r2[k] = p.rids[s + k]
  <2>1. \A k \in f .. e - 1 : k < b \/ io + 1 <= k =>
          k \in 0 .. e - 1 /\ k # t /\ (k < b \/ io <= k)
    BY <1>1
  <2> QED BY <2>1, <1>5 DEF LastOK
<1>7. \A k \in f .. e - 1 : (k < b /\ ~ g) \/ io + 1 <= k => d2[k] = p.elems[s + k]
  <2>1. \A k \in f .. e - 1 : k < b \/ io + 1 <= k =>
          k \in 0 .. e - 1 /\ k # t /\ (k < b \/ io <= k)
    BY <1>1
  <2>2. \A k \in f .. e - 1 : io + 1 <= k => io <= k
    BY <1>1
  <2> QED BY <2>1, <2>2, <1>5 DEF LastOK
<1>8. Kept(p, q, s, d2, r2, t, io)
  BY <1>2, <1>5 DEF Kept
<1>9. \A j \in h .. f - 1 : \A k : Kept(p, q, s, d, r, j, k) => Kept(p, q, s, d2, r2, j, k)
  <2>1. \A j \in h .. f - 1 : j \in 0 .. e - 1 /\ j # t
    BY <1>1
  <2> QED BY <2>1, <1>5 DEF Kept
<1>10. \A j \in b .. t - 1 : \A k : Kept(p, q, s, d, r, j, k) => Kept(p, q, s, d2, r2, j, k)
  <2>1. \A j \in b .. t - 1 : j \in 0 .. e - 1 /\ j # t
    BY <1>1
  <2> QED BY <2>1, <1>5 DEF Kept
<1>11. /\ \A k \in b .. (io + 1) - 1 : k = io \/ k \in b .. io - 1
       /\ b .. io - 1 \subseteq b .. (io + 1) - 1
       /\ \A j \in b .. (t + 1) - 1 : j = t \/ j \in b .. t - 1
       /\ b .. t - 1 \subseteq b .. (t + 1) - 1
  BY <1>1
<1>12. \A k \in 0 .. f - 1 : InRange(p.elems[s + k], q) =>
         \E j \in h .. f - 1 : Kept(p, q, s, d2, r2, j, k)
  BY <1>9 DEF LastOK
<1>13. \A j \in h .. f - 1 : \E k \in 0 .. f - 1 : Kept(p, q, s, d2, r2, j, k)
  BY <1>9 DEF LastOK
<1>14. \A k \in b .. (io + 1) - 1 : InRange(p.elems[s + k], q) =>
         \E j \in b .. (t + 1) - 1 : Kept(p, q, s, d2, r2, j, k)
  <2> TAKE k \in b .. (io + 1) - 1
  <2> HAVE InRange(p.elems[s + k], q)
  <2>1. CASE k = io
    BY <2>1, <1>4, <1>8
  <2>2. CASE k \in b .. io - 1
    <3>1. PICK j \in b .. t - 1 : Kept(p, q, s, d, r, j, k)
      BY <2>2 DEF LastOK
    <3> QED BY <3>1, <1>10, <1>11
  <2> QED BY <2>1, <2>2, <1>11
<1>15. \A j \in b .. (t + 1) - 1 : \E k \in b .. (io + 1) - 1 : Kept(p, q, s, d2, r2, j, k)
  <2> TAKE j \in b .. (t + 1) - 1
  <2>1. CASE j = t
    BY <2>1, <1>4, <1>8
  <2>2. CASE j \in b .. t - 1
    <3>1. PICK k \in b .. io - 1 : Kept(p, q, s, d, r, j, k)
      BY <2>2 DEF LastOK
    <3> QED BY <3>1, <2>2, <1>10, <1>11
  <2> QED BY <2>1, <2>2, <1>11
<1>16. Distinct(r2, h .. f - 1)
  <2>1. \A j \in h .. f - 1 : j \in 0 .. e - 1 /\ j # t
    BY <1>1
  <2> QED BY <2>1, <1>5 DEF LastOK, Distinct
<1>17. Distinct(r2, b .. (t + 1) - 1)
  <2>1. \A j \in b .. t - 1 : j \in 0 .. e - 1 /\ j # t
    BY <1>1
  <2>2. \A j \in b .. t - 1 : r2[j] # r2[t]
    <3> TAKE j \in b .. t - 1
    <3>1. PICK k \in b .. io - 1 : r[j] = p.rids[s + k]
      BY DEF LastOK, Kept
    <3>2. k \in 0 .. e - 1 /\ io \in 0 .. e - 1 /\ k # io
      BY <1>1
    <3> QED BY <3>1, <3>2, <2>1, <1>2, <1>5 DEF Shape
  <2>3. \A x, y \in b .. t - 1 : x # y => r2[x] # r2[y]
    BY <2>1, <1>5 DEF LastOK, Distinct
  <2> QED BY <2>2, <2>3, <1>11 DEF Distinct
<1>18. LastOK(p, q, s, f, b, e, g, d2, r2, io + 1, h, t + 1)
  BY <1>1, <1>4, <1>5, <1>6, <1>7, <1>12, <1>13, <1>14, <1>15, <1>16, <1>17 DEF LastOK
<1> QED BY <1>18 DEF d2, r2

\* What lies between the trimmed ends.
LEMMA LastDone ==
  ASSUME NEW p, NEW q, NEW s, NEW f, NEW b, NEW e, NEW g, Shape(p, s, f, b, e),
         NEW d, NEW r, NEW io, NEW h, NEW t,
         LastOK(p, q, s, f, b, e, g, d, r, io, h, t), io >= e
  PROVE  /\ h \in Nat /\ t \in Nat /\ h <= t /\ t <= e
         /\ \A k \in 0 .. e - 1 : InRange(p.elems[s + k], q) =>
              \E j \in h .. t - 1 : r[j] = p.rids[s + k]
         /\ \A j \in h .. t - 1 : \E k \in 0 .. e - 1 :
              /\ r[j] = p.rids[s + k]
              /\ ~ g => d[j] = p.elems[s + k]
              /\ InRange(p.elems[s + k], q) \/ k \in f .. b - 1
         /\ Distinct(r, h .. t - 1)
<1>1. /\ io = e /\ t \in b .. e /\ h \in 0 .. f
      /\ f \in Nat /\ e \in Nat /\ b \in Nat /\ f <= b /\ b <= e
  BY DEF LastOK, Shape
<1>2. \A k \in 0 .. e - 1 : k \in 0 .. f - 1 \/ k \in f .. b - 1 \/ k \in b .. e - 1
  BY <1>1
<1>3. /\ h .. f - 1 \subseteq h .. t - 1 /\ f .. b - 1 \subseteq h .. t - 1
      /\ b .. t - 1 \subseteq h .. t - 1
      /\ \A j \in h .. t - 1 : j \in h .. f - 1 \/ j \in f .. b - 1 \/ j \in b .. t - 1
      /\ 0 .. f - 1 \subseteq 0 .. e - 1 /\ f .. b - 1 \subseteq 0 .. e - 1
      /\ b .. e - 1 \subseteq 0 .. e - 1
  BY <1>1
<1>4. \A k \in f .. b - 1 : k \in f .. e - 1 /\ k < b
  BY <1>1
<1>5. \A k \in f .. b - 1 : r[k] = p.rids[s + k] /\ (~ g => d[k] = p.elems[s + k])
  BY <1>4 DEF LastOK
<1>6. ASSUME NEW k \in 0 .. e - 1, InRange(p.elems[s + k], q)
      PROVE  \E j \in h .. t - 1 : r[j] = p.rids[s + k]
  <2>1. CASE k \in 0 .. f - 1
    <3>1. PICK j \in h .. f - 1 : Kept(p, q, s, d, r, j, k)
      BY <2>1, <1>6 DEF LastOK
    <3> QED BY <3>1, <1>3 DEF Kept
  <2>2. CASE k \in f .. b - 1
    BY <2>2, <1>3, <1>5
  <2>3. CASE k \in b .. e - 1
    <3>1. PICK j \in b .. t - 1 : Kept(p, q, s, d, r, j, k)
      BY <2>3, <1>1, <1>6 DEF LastOK
    <3> QED BY <3>1, <1>3 DEF Kept
  <2> QED BY <2>1, <2>2, <2>3, <1>2
<1>7. ASSUME NEW j \in h .. t - 1
      PROVE  \E k \in 0 .. e - 1 :
               /\ r[j] = p.rids[s + k]
               /\ ~ g => d[j] = p.elems[s + k]
               /\ InRange(p.elems[s + k], q) \/ k \in f .. b - 1
  <2>1. CASE j \in h .. f - 1
    <3>1. PICK k \in 0 .. f - 1 : Kept(p, q, s, d, r, j, k)
      BY <2>1 DEF LastOK
    <3> QED BY <3>1, <1>3 DEF Kept
  <2>2. CASE j \in f .. b - 1
    BY <2>2, <1>3, <1>5
  <2>3. CASE j \in b .. t - 1
    <3>1. PICK k \in b .. e - 1 : Kept(p, q, s, d, r, j, k)
      BY <2>3, <1>1 DEF LastOK
    <3> QED BY <3>1, <1>3 DEF Kept
  <2> QED BY <2>1, <2>2, <2>3, <1>3
<1>8. h \in Nat /\ t \in Nat /\ h <= t /\ t <= e
  BY <1>1
\* Rows of different bins, or places of the middle, are of different elements.
<1>9. ASSUME NEW x \in h .. t - 1, NEW y \in h .. t - 1, x # y
      PROVE  r[x] # r[y]
  <2> DEFINE From(j, k) ==
               \/ j \in h .. f - 1 /\ k \in 0 .. f - 1
               \/ j \in f .. b - 1 /\ k = j
               \/ j \in b .. t - 1 /\ k \in b .. e - 1
  <2>1. \A j \in h .. t - 1 : \E k \in 0 .. e - 1 : From(j, k) /\ r[j] = p.rids[s + k]
    <3> TAKE j \in h .. t - 1
    <3>1. CASE j \in h .. f - 1
      BY <3>1, <1>3 DEF LastOK, Kept
    <3>2. CASE j \in f .. b - 1
      BY <3>2, <1>3, <1>5
    <3>3. CASE j \in b .. t - 1
      BY <3>3, <1>1, <1>3 DEF LastOK, Kept
    <3> QED BY <3>1, <3>2, <3>3, <1>3
  <2>2. PICK k \in 0 .. e - 1 : From(x, k) /\ r[x] = p.rids[s + k]
    BY <1>9, <2>1
  <2>3. PICK l \in 0 .. e - 1 : From(y, l) /\ r[y] = p.rids[s + l]
    BY <1>9, <2>1
  <2>4. CASE x \in h .. f - 1 /\ y \in h .. f - 1
    BY <2>4, <1>9 DEF LastOK, Distinct
  <2>5. CASE x \in b .. t - 1 /\ y \in b .. t - 1
    BY <2>5, <1>9 DEF LastOK, Distinct
  <2>6. CASE k # l
    BY <2>6, <2>2, <2>3 DEF Shape
  <2>7. k = l => (x \in h .. f - 1 /\ y \in h .. f - 1) \/ (x \in b .. t - 1 /\ y \in b .. t - 1)
    BY <2>2, <2>3, <1>9, <1>1
  <2> QED BY <2>4, <2>5, <2>6, <2>7
<1> QED BY <1>6, <1>7, <1>8, <1>9 DEF Distinct
-------------------------------------------------------------------------------
(* The range of bins of a query, in places of the buffers.                 *)

Base(m, q) == m.binStart[StartBin(m, q)]
FirstEnd(m, q) == m.binStart[StartBin(m, q) + 1] - Base(m, q)
LastStart(m, q) == m.binStart[EndBin(m, q) - 1] - Base(m, q)
End(m, q) == m.binStart[EndBin(m, q)] - Base(m, q)
LastFrom(m, q) ==
  IF EndBin(m, q) - StartBin(m, q) > 1 THEN LastStart(m, q) ELSE End(m, q)

\* The bins of a range lie one after another in the buffers.
LEMMA RangeShape ==
  ASSUME NEW m, IsPartition(m), NEW q, Interval(q), Touched(m, q)
  PROVE  /\ Shape(m, Base(m, q), FirstEnd(m, q), LastFrom(m, q), End(m, q))
         /\ \A k \in 0 .. End(m, q) - 1 : Base(m, q) + k \in 0 .. m.length - 1
         /\ \A k \in FirstEnd(m, q) .. LastFrom(m, q) - 1 :
              /\ m.binStart[StartBin(m, q) + 1] <= Base(m, q) + k
              /\ Base(m, q) + k < m.binStart[EndBin(m, q) - 1]
         /\ FirstEnd(m, q) > 0
<1> DEFINE lo == StartBin(m, q)
           hi == EndBin(m, q)
<1>1. m.numBins \in Nat /\ m.length \in Nat /\ lo \in 0 .. m.numBins - 1 /\ hi \in lo + 1 .. m.numBins
  BY TouchedBins DEF IsPartition, Bins
<1>2. /\ m.binStart \in [0 .. m.numBins -> 0 .. m.length]
      /\ \A b \in 0 .. m.numBins - 1 : m.binStart[b] < m.binStart[b + 1]
      /\ \A j, k \in 0 .. m.length - 1 : j # k => m.rids[j] # m.rids[k]
  BY DEF IsPartition
<1>11. /\ Base(m, q) = m.binStart[lo]
       /\ FirstEnd(m, q) = m.binStart[lo + 1] - m.binStart[lo]
       /\ End(m, q) = m.binStart[hi] - m.binStart[lo]
       /\ hi - lo > 1 => LastFrom(m, q) = m.binStart[hi - 1] - m.binStart[lo]
       /\ ~ (hi - lo > 1) => LastFrom(m, q) = m.binStart[hi] - m.binStart[lo]
  BY DEF Base, FirstEnd, LastStart, End, LastFrom
<1> HIDE DEF lo, hi
<1>3. /\ lo \in 0 .. m.numBins /\ lo + 1 \in 0 .. m.numBins
      /\ hi - 1 \in 0 .. m.numBins /\ hi \in 0 .. m.numBins
      /\ lo + 1 <= hi /\ hi - 1 <= hi /\ (hi - lo > 1 => lo + 1 <= hi - 1)
      /\ (~ (hi - lo > 1) => lo + 1 = hi)
  BY <1>1
<1>4. /\ m.binStart[lo] \in 0 .. m.length /\ m.binStart[lo + 1] \in 0 .. m.length
      /\ m.binStart[hi - 1] \in 0 .. m.length /\ m.binStart[hi] \in 0 .. m.length
  BY <1>2, <1>3
<1>5. m.binStart[lo] < m.binStart[lo + 1]
  BY <1>1, <1>2
<1>6. /\ m.binStart[lo + 1] <= m.binStart[hi]
      /\ m.binStart[hi - 1] <= m.binStart[hi]
      /\ hi - lo > 1 => m.binStart[lo + 1] <= m.binStart[hi - 1]
  BY <1>3, StartsRise
<1>7. \A k \in 0 .. End(m, q) - 1 : Base(m, q) + k \in 0 .. m.length - 1
  BY <1>1, <1>4, <1>11
<1>8. /\ Base(m, q) \in Nat /\ FirstEnd(m, q) \in Nat /\ LastFrom(m, q) \in Nat
      /\ End(m, q) \in Nat /\ FirstEnd(m, q) <= LastFrom(m, q)
      /\ LastFrom(m, q) <= End(m, q) /\ FirstEnd(m, q) > 0
  <2>1. CASE hi - lo > 1
    BY <2>1, <1>4, <1>5, <1>6, <1>11
  <2>2. CASE ~ (hi - lo > 1)
    BY <2>2, <1>4, <1>5, <1>6, <1>11
  <2> QED BY <2>1, <2>2
<1>9. ASSUME NEW x \in 0 .. End(m, q) - 1, NEW y \in 0 .. End(m, q) - 1, x # y
      PROVE  m.rids[Base(m, q) + x] # m.rids[Base(m, q) + y]
  <2>1. Base(m, q) + x # Base(m, q) + y
    BY <1>8, <1>9
  <2> QED BY <2>1, <1>2, <1>7
<1>10. ASSUME NEW k \in FirstEnd(m, q) .. LastFrom(m, q) - 1
       PROVE  m.binStart[lo + 1] <= Base(m, q) + k /\ Base(m, q) + k < m.binStart[hi - 1]
  <2>1. CASE hi - lo > 1
    BY <2>1, <1>4, <1>11
  <2>2. CASE ~ (hi - lo > 1)
    BY <2>2, <1>3, <1>4, <1>11
  <2> QED BY <2>1, <2>2
<1> QED BY <1>7, <1>8, <1>9, <1>10 DEF Shape, lo, hi

\* What is read from the partition satisfies the first loop.
LEMMA ReadOK ==
  ASSUME NEW m, IsPartition(m), NEW q, Interval(q), Touched(m, q), NEW g, NEW d, NEW r,
         r = [k \in 0 .. End(m, q) - 1 |-> m.rids[Base(m, q) + k]],
         d = [k \in 0 .. End(m, q) - 1 |->
                IF g /\ FirstEnd(m, q) <= k /\ k < LastStart(m, q) THEN Undef
                ELSE m.elems[Base(m, q) + k]]
  PROVE  FirstOK(m, q, Base(m, q), FirstEnd(m, q), LastFrom(m, q), End(m, q), g, d, r,
                 FirstEnd(m, q) - 1, FirstEnd(m, q))
<1> DEFINE f == FirstEnd(m, q)
           b == LastFrom(m, q)
           e == End(m, q)
<1>1. f \in Nat /\ b \in Nat /\ e \in Nat /\ f <= b /\ b <= e /\ f > 0
  BY RangeShape DEF Shape
<1>2. LastStart(m, q) <= b
  <2>1. LastStart(m, q) <= End(m, q)
    <3>1. /\ EndBin(m, q) - 1 \in 0 .. m.numBins /\ EndBin(m, q) \in 0 .. m.numBins
          /\ StartBin(m, q) \in 0 .. m.numBins
          /\ EndBin(m, q) - 1 <= EndBin(m, q)
      BY TouchedBins, StartsAreNatural DEF Bins
    <3>2. m.binStart[EndBin(m, q) - 1] <= m.binStart[EndBin(m, q)]
      BY <3>1, StartsRise
    <3>3. /\ m.binStart[EndBin(m, q) - 1] \in Nat /\ m.binStart[EndBin(m, q)] \in Nat
          /\ m.binStart[StartBin(m, q)] \in Nat
      BY <3>1, StartsAreNatural
    <3> QED BY <3>2, <3>3 DEF LastStart, End, Base
  <2>2. CASE EndBin(m, q) - StartBin(m, q) > 1
    BY <2>2, <1>1 DEF LastFrom
  <2>3. CASE ~ (EndBin(m, q) - StartBin(m, q) > 1)
    BY <2>1, <2>3 DEF LastFrom
  <2> QED BY <2>2, <2>3
<1>3. LastStart(m, q) \in Int
  <2>1. EndBin(m, q) - 1 \in 0 .. m.numBins /\ StartBin(m, q) \in 0 .. m.numBins
    BY TouchedBins, StartsAreNatural DEF Bins
  <2> QED BY <2>1, StartsAreNatural DEF LastStart, Base
<1> HIDE DEF f, b, e
<1>4. /\ f - 1 \in -1 .. f - 1 /\ f \in (f - 1) + 1 .. f
      /\ (f - 1) + 1 .. f - 1 = {} /\ f .. f - 1 = {}
  BY <1>1
<1>5. \A k \in 0 .. e - 1 : r[k] = m.rids[Base(m, q) + k]
  BY DEF e
<1>6. \A k \in 0 .. e - 1 : k <= f - 1 \/ b <= k \/ (~ g /\ f <= k) =>
        ~ (g /\ f <= k /\ k < LastStart(m, q))
  BY <1>1, <1>2, <1>3
<1>7. \A k \in 0 .. e - 1 : k <= f - 1 \/ b <= k \/ (~ g /\ f <= k) =>
        d[k] = m.elems[Base(m, q) + k]
  BY <1>6 DEF e, f
<1>8. /\ d = [k \in 0 .. e - 1 |-> d[k]] /\ r = [k \in 0 .. e - 1 |-> r[k]]
  BY DEF e
<1>9. Distinct(r, f .. f - 1)
  BY <1>4 DEF Distinct
<1>10. FirstOK(m, q, Base(m, q), f, b, e, g, d, r, f - 1, f)
  BY <1>4, <1>5, <1>7, <1>8, <1>9 DEF FirstOK
<1> QED BY <1>10 DEF f, b, e
-------------------------------------------------------------------------------
(* Answers.  a are the rows and d the values returned for partition p.     *)

Complete(p, q, a) ==
  \A k \in 0 .. p.length - 1 : InRange(p.elems[k], q) => \E j \in DOMAIN a : a[j] = p.rids[k]
Allowed(p, q, k) ==
  \/ q.type = "RegionIndexOnly" \/ InRange(p.elems[k], q)
  \/ BoundInZeroBin(p, q) /\ High(p.elems[k]) \in {0, Sign}
FromPartition(p, q, a, d) ==
  \A j \in DOMAIN a : \E k \in 0 .. p.length - 1 :
    /\ a[j] = p.rids[k] /\ Allowed(p, q, k)
    /\ q.type = "ValueRetrieval" => d[j] = p.elems[k]
WholeBins(p, q, a) ==
  \A k \in 0 .. p.length - 1 :
    (\E j \in DOMAIN a : a[j] = p.rids[k])
      <=> LowPoint(q) <= Rounded(p.elems[k]) /\ Rounded(p.elems[k]) <= UpPoint(q)

Right(p, q, a, d) ==
  /\ IsPartition(p) /\ q \in Queries
  /\ Complete(p, q, a) /\ FromPartition(p, q, a, d) /\ Distinct(a, DOMAIN a)
  /\ q.type = "ValueRetrieval" => DOMAIN d = DOMAIN a
  /\ q.type = "RegionIndexOnly" => WholeBins(p, q, a)

\* The bounds of a query are elements.
LEMMA QueryInterval == ASSUME NEW q \in Queries PROVE Interval(q)
BY DEF Queries, Interval

\* The bin of an element tells whether it is in a whole-bin answer.
LEMMA RoundedInRange ==
  ASSUME NEW m, IsPartition(m), NEW q, Interval(q), NEW k \in 0 .. m.length - 1
  PROVE  LowPoint(q) <= Rounded(m.elems[k]) /\ Rounded(m.elems[k]) <= UpPoint(q)
           <=> /\ Touched(m, q)
               /\ m.binStart[StartBin(m, q)] <= k /\ k < m.binStart[EndBin(m, q)]
<1>1. PICK b \in Bins(m) : m.binStart[b] <= k /\ k < m.binStart[b + 1]
  BY BinOfElement
<1>2. Rounded(m.elems[k]) = Point(m, b)
  BY <1>1, PointOfBin
<1>3. Touched(m, q) => /\ StartBin(m, q) \in 0 .. m.numBins
                       /\ EndBin(m, q) \in 0 .. m.numBins
  BY TouchedBins, StartsAreNatural DEF Bins
<1>4. Touched(m, q) =>
        (m.binStart[StartBin(m, q)] <= k /\ k < m.binStart[EndBin(m, q)]
           <=> StartBin(m, q) <= b /\ b < EndBin(m, q))
  BY <1>1, <1>3, ElementsOfBins
<1> QED BY <1>2, <1>4, BinsOfRange

\* An empty answer is right where no bin is touched.
LEMMA NothingTouched ==
  ASSUME NEW p, IsPartition(p), NEW q \in Queries, ~ Touched(p, q)
  PROVE  Right(p, q, <<>>, <<>>)
<1>1. DOMAIN <<>> = {}
  OBVIOUS
<1>2. Complete(p, q, <<>>)
  BY QueryInterval, RangeHoldsInterval DEF Complete
<1>3. WholeBins(p, q, <<>>)
  BY <1>1, QueryInterval, RoundedInRange DEF WholeBins
<1> QED BY <1>1, <1>2, <1>3 DEF Right, FromPartition, Distinct

\* An element of the range is at its place of the buffers.
LEMMA PlaceOfElement ==
  ASSUME NEW m, IsPartition(m), NEW q, Interval(q), Touched(m, q),
         NEW k \in 0 .. m.length - 1,
         m.binStart[StartBin(m, q)] <= k, k < m.binStart[EndBin(m, q)]
  PROVE  k - Base(m, q) \in 0 .. End(m, q) - 1 /\ Base(m, q) + (k - Base(m, q)) = k
<1>1. StartBin(m, q) \in 0 .. m.numBins /\ EndBin(m, q) \in 0 .. m.numBins
  BY TouchedBins, StartsAreNatural DEF Bins
<1>2. m.binStart[StartBin(m, q)] \in Nat /\ m.binStart[EndBin(m, q)] \in Nat /\ m.length \in Nat
  BY <1>1, StartsAreNatural DEF IsPartition
<1> QED BY <1>2 DEF Base, End

\* The RIDs of whole bins are a right answer to a region query.
LEMMA WholeBinsReturned ==
  ASSUME NEW p, IsPartition(p), NEW q \in Queries, Touched(p, q),
         q.type = "RegionIndexOnly", NEW a,
         a = [k \in 0 .. End(p, q) - 1 |-> p.rids[Base(p, q) + k]]
  PROVE  Right(p, q, a, <<>>)
<1>1. Interval(q)
  BY QueryInterval
<1>2. /\ \A k \in 0 .. End(p, q) - 1 : Base(p, q) + k \in 0 .. p.length - 1
      /\ \A x, y \in 0 .. End(p, q) - 1 : x # y => p.rids[Base(p, q) + x] # p.rids[Base(p, q) + y]
  BY <1>1, RangeShape DEF Shape
<1>3. DOMAIN a = 0 .. End(p, q) - 1 /\ \A k \in 0 .. End(p, q) - 1 : a[k] = p.rids[Base(p, q) + k]
  OBVIOUS
<1>4. ASSUME NEW k \in 0 .. p.length - 1,
             p.binStart[StartBin(p, q)] <= k, k < p.binStart[EndBin(p, q)]
      PROVE  \E j \in DOMAIN a : a[j] = p.rids[k]
  BY <1>1, <1>3, <1>4, PlaceOfElement
<1>5. Complete(p, q, a)
  BY <1>1, <1>4, RangeHoldsInterval DEF Complete
<1>6. FromPartition(p, q, a, <<>>)
  BY <1>2, <1>3 DEF FromPartition, Allowed
<1>7. Distinct(a, DOMAIN a)
  BY <1>2, <1>3 DEF Distinct
<1>8. WholeBins(p, q, a)
  <2> SUFFICES ASSUME NEW k \in 0 .. p.length - 1
               PROVE  (\E j \in DOMAIN a : a[j] = p.rids[k])
                        <=> LowPoint(q) <= Rounded(p.elems[k]) /\ Rounded(p.elems[k]) <= UpPoint(q)
    BY DEF WholeBins
  <2>1. ASSUME NEW j \in DOMAIN a, a[j] = p.rids[k]
        PROVE  p.binStart[StartBin(p, q)] <= k /\ k < p.binStart[EndBin(p, q)]
    <3>1. Base(p, q) + j \in 0 .. p.length - 1 /\ p.rids[Base(p, q) + j] = p.rids[k]
      BY <2>1, <1>2, <1>3
    <3>2. Base(p, q) + j = k
      BY <3>1 DEF IsPartition
    <3>3. StartBin(p, q) \in 0 .. p.numBins /\ EndBin(p, q) \in 0 .. p.numBins
      BY <1>1, TouchedBins, StartsAreNatural DEF Bins
    <3>4. p.binStart[StartBin(p, q)] \in Nat /\ p.binStart[EndBin(p, q)] \in Nat
      BY <3>3, StartsAreNatural
    <3> QED BY <3>2, <3>4, <2>1, <1>3 DEF Base, End
  <2> QED BY <2>1, <1>1, <1>4, RoundedInRange
<1> QED BY <1>5, <1>6, <1>7, <1>8 DEF Right

\* y is what lies in x from place h up to t.
Between(x, y, h, t) ==
  DOMAIN y = 0 .. t - h - 1 /\ \A k \in 0 .. t - h - 1 : y[k] = x[h + k]

\* What the two loops leave between the heads and tails is a right answer.
LEMMA TrimmedReturned ==
  ASSUME NEW p, IsPartition(p), NEW q \in Queries, Touched(p, q),
         q.type # "RegionIndexOnly",
         NEW g, q.type = "ValueRetrieval" => ~ g,
         NEW d, NEW r, NEW io, NEW h, NEW t,
         LastOK(p, q, Base(p, q), FirstEnd(p, q), LastFrom(p, q), End(p, q), g, d, r, io, h, t),
         io >= End(p, q),
         NEW a, Between(r, a, h, t),
         NEW v, q.type = "ValueRetrieval" => Between(d, v, h, t)
  PROVE  Right(p, q, a, v)
<1> DEFINE s == Base(p, q)
           e == End(p, q)
<1>1. Interval(q)
  BY QueryInterval
<1>2. Shape(p, s, FirstEnd(p, q), LastFrom(p, q), e)
  BY <1>1, RangeShape
<1>3. \A k \in 0 .. e - 1 : s + k \in 0 .. p.length - 1
  BY <1>1, RangeShape
<1>4. \A k \in FirstEnd(p, q) .. LastFrom(p, q) - 1 :
        /\ p.binStart[StartBin(p, q) + 1] <= s + k
        /\ s + k < p.binStart[EndBin(p, q) - 1]
  BY <1>1, RangeShape
<1>5. /\ h \in Nat /\ t \in Nat /\ h <= t /\ t <= e
      /\ \A k \in 0 .. e - 1 : InRange(p.elems[s + k], q) =>
           \E j \in h .. t - 1 : r[j] = p.rids[s + k]
      /\ \A j \in h .. t - 1 : \E k \in 0 .. e - 1 :
           /\ r[j] = p.rids[s + k]
           /\ ~ g => d[j] = p.elems[s + k]
           /\ InRange(p.elems[s + k], q) \/ k \in FirstEnd(p, q) .. LastFrom(p, q) - 1
      /\ Distinct(r, h .. t - 1)
  <2>1. LastOK(p, q, s, FirstEnd(p, q), LastFrom(p, q), e, g, d, r, io, h, t) /\ io >= e
    OBVIOUS
  <2> DEFINE f == FirstEnd(p, q)
             b == LastFrom(p, q)
  <2>2. Shape(p, s, f, b, e) /\ LastOK(p, q, s, f, b, e, g, d, r, io, h, t) /\ io >= e
    BY <1>2, <2>1
  <2> HIDE DEF s, e, f, b
  <2>3. /\ h \in Nat /\ t \in Nat /\ h <= t /\ t <= e
        /\ \A k \in 0 .. e - 1 : InRange(p.elems[s + k], q) =>
             \E j \in h .. t - 1 : r[j] = p.rids[s + k]
        /\ \A j \in h .. t - 1 : \E k \in 0 .. e - 1 :
             /\ r[j] = p.rids[s + k]
             /\ ~ g => d[j] = p.elems[s + k]
             /\ InRange(p.elems[s + k], q) \/ k \in f .. b - 1
        /\ Distinct(r, h .. t - 1)
    BY ONLY <2>2, LastDone
  <2> QED BY <2>3 DEF f, b
<1> HIDE DEF s, e
<1>6. /\ DOMAIN a = 0 .. t - h - 1
      /\ \A j \in 0 .. t - h - 1 : a[j] = r[h + j] /\ h + j \in h .. t - 1
      /\ \A j \in h .. t - 1 : j - h \in 0 .. t - h - 1 /\ a[j - h] = r[j]
  <2>1. h \in Nat /\ t \in Nat
    BY <1>5
  <2>2. \A j \in 0 .. t - h - 1 : h + j \in h .. t - 1
    BY <2>1
  <2>6. DOMAIN a = 0 .. t - h - 1 /\ \A j \in 0 .. t - h - 1 : a[j] = r[h + j]
    BY DEF Between
  <2>3. \A j \in h .. t - 1 : j - h \in 0 .. t - h - 1 /\ h + (j - h) = j
    BY <2>1
  <2>4. \A j \in h .. t - 1 : a[j - h] = r[h + (j - h)]
    BY <2>3, <2>6
  <2>5. \A j \in h .. t - 1 : a[j - h] = r[j]
    BY <2>3, <2>4
  <2> QED BY <2>2, <2>3, <2>5, <2>6
<1>7. Complete(p, q, a)
  <2> SUFFICES ASSUME NEW k \in 0 .. p.length - 1, InRange(p.elems[k], q)
               PROVE  \E j \in DOMAIN a : a[j] = p.rids[k]
    BY DEF Complete
  <2>1. k - s \in 0 .. e - 1 /\ s + (k - s) = k
    <3>1. p.binStart[StartBin(p, q)] <= k /\ k < p.binStart[EndBin(p, q)]
      BY <1>1, RangeHoldsInterval
    <3>2. k - Base(p, q) \in 0 .. End(p, q) - 1 /\ Base(p, q) + (k - Base(p, q)) = k
      BY <3>1, <1>1, PlaceOfElement
    <3> QED BY <3>2 DEF s, e
  <2>2. PICK j \in h .. t - 1 : r[j] = p.rids[k]
    BY <2>1, <1>5
  <2>3. j - h \in DOMAIN a /\ a[j - h] = p.rids[k]
    BY <2>2, <1>6
  <2> QED BY <2>3
<1>8. ASSUME NEW j \in DOMAIN a
      PROVE  \E k \in 0 .. p.length - 1 :
               /\ a[j] = p.rids[k] /\ Allowed(p, q, k)
               /\ q.type = "ValueRetrieval" => v[j] = p.elems[k]
  <2>1. j \in 0 .. t - h - 1 /\ h + j \in h .. t - 1 /\ a[j] = r[h + j]
    BY <1>6
  <2>2. PICK k \in 0 .. e - 1 :
           /\ r[h + j] = p.rids[s + k]
           /\ ~ g => d[h + j] = p.elems[s + k]
           /\ InRange(p.elems[s + k], q) \/ k \in FirstEnd(p, q) .. LastFrom(p, q) - 1
    BY <2>1, <1>5
  <2>3. s + k \in 0 .. p.length - 1
    BY <1>3
  <2>4. Allowed(p, q, s + k)
    <3>1. CASE InRange(p.elems[s + k], q)
      BY <3>1 DEF Allowed
    <3>2. CASE k \in FirstEnd(p, q) .. LastFrom(p, q) - 1
      BY <3>2, <2>3, <1>1, <1>4, InnerBinsInInterval DEF Allowed
    <3> QED BY <2>2, <3>1, <3>2
  <2>5. q.type = "ValueRetrieval" => v[j] = p.elems[s + k]
    BY <2>1, <2>2 DEF Between
  <2> QED BY <2>1, <2>2, <2>3, <2>4, <2>5
<1>9. Distinct(a, DOMAIN a)
  <2> SUFFICES ASSUME NEW x \in DOMAIN a, NEW y \in DOMAIN a, x # y
               PROVE  a[x] # a[y]
    BY DEF Distinct
  <2>1. h + x # h + y /\ h + x \in h .. t - 1 /\ h + y \in h .. t - 1
    <3>1. x \in 0 .. t - h - 1 /\ y \in 0 .. t - h - 1
      BY <1>6
    <3>2. h + x # h + y
      BY <3>1, <1>5
    <3> QED BY <3>1, <3>2, <1>6
  <2>2. r[h + x] # r[h + y]
    BY <2>1, <1>5 DEF Distinct
  <2> QED BY <2>2, <1>6
<1>10. FromPartition(p, q, a, v)
  BY <1>8 DEF FromPartition
<1>11. q.type = "ValueRetrieval" => DOMAIN v = DOMAIN a
  BY DEF Between
<1> QED BY <1>7, <1>9, <1>10, <1>11 DEF Right
-------------------------------------------------------------------------------
(* The loops on the buffers of a query.                                    *)

Gap(m, q) == q.type = "RegionCandidateCheck" /\ EndBin(m, q) - StartBin(m, q) > 2
First(m, q, d, r, io, h) ==
  FirstOK(m, q, Base(m, q), FirstEnd(m, q), LastFrom(m, q), End(m, q), Gap(m, q), d, r, io, h)
Last(m, q, d, r, io, h, t) ==
  LastOK(m, q, Base(m, q), FirstEnd(m, q), LastFrom(m, q), End(m, q), Gap(m, q), d, r, io, h, t)

\* A step of the loop over the first bin keeps what it has established.
LEMMA FirstStep ==
  ASSUME NEW m, IsPartition(m), NEW q, Interval(q), Touched(m, q),
         NEW d, NEW r, NEW io, NEW h, First(m, q, d, r, io, h), io >= 0,
         NEW d2, NEW r2, NEW io2, NEW h2, io2 = io - 1,
         \/ /\ InRange(d[io], q)
            /\ h2 = h - 1 /\ d2 = [d EXCEPT ![h2] = d[io]] /\ r2 = [r EXCEPT ![h2] = r[io]]
         \/ ~ InRange(d[io], q) /\ h2 = h /\ d2 = d /\ r2 = r
  PROVE  First(m, q, d2, r2, io2, h2)
<1>1. Shape(m, Base(m, q), FirstEnd(m, q), LastFrom(m, q), End(m, q))
  BY RangeShape
<1>2. CASE InRange(d[io], q)
  <2>1. h2 = h - 1 /\ d2 = [d EXCEPT ![h - 1] = d[io]] /\ r2 = [r EXCEPT ![h - 1] = r[io]]
    BY <1>2
  <2> QED BY <2>1, <1>1, <1>2, FirstKept DEF First
<1>3. CASE ~ InRange(d[io], q)
  BY <1>1, <1>3, FirstDropped DEF First
<1> QED BY <1>2, <1>3

\* A step of the loop over the last bin keeps what it has established.
LEMMA LastStep ==
  ASSUME NEW m, IsPartition(m), NEW q, Interval(q), Touched(m, q),
         NEW d, NEW r, NEW io, NEW h, NEW t, Last(m, q, d, r, io, h, t), io < End(m, q),
         NEW d2, NEW r2, NEW io2, NEW t2, io2 = io + 1,
         \/ /\ InRange(d[io], q)
            /\ t2 = t + 1 /\ d2 = [d EXCEPT ![t] = d[io]] /\ r2 = [r EXCEPT ![t] = r[io]]
         \/ ~ InRange(d[io], q) /\ t2 = t /\ d2 = d /\ r2 = r
  PROVE  Last(m, q, d2, r2, io2, h, t2)
<1>1. Shape(m, Base(m, q), FirstEnd(m, q), LastFrom(m, q), End(m, q))
  BY RangeShape
<1>2. CASE InRange(d[io], q)
  BY <1>1, <1>2, LastKept DEF Last
<1>3. CASE ~ InRange(d[io], q)
  BY <1>1, <1>3, LastDropped DEF Last
<1> QED BY <1>2, <1>3

\* What is handed over after the loops is a right answer.
LEMMA Packaged ==
  ASSUME NEW m, IsPartition(m), NEW q \in Queries, Touched(m, q),
         q.type # "RegionIndexOnly",
         NEW d, NEW r, NEW io, NEW h, NEW t, Last(m, q, d, r, io, h, t), io >= End(m, q),
         NEW a, Between(r, a, h, t),
         NEW v, q.type = "ValueRetrieval" => Between(d, v, h, t)
  PROVE  Right(m, q, a, v)
<1> DEFINE g == Gap(m, q)
<1>1. q.type = "ValueRetrieval" => ~ g
  BY DEF Gap
<1>2. LastOK(m, q, Base(m, q), FirstEnd(m, q), LastFrom(m, q), End(m, q), g, d, r, io, h, t)
  BY DEF Last
<1> HIDE DEF g
<1> QED BY <1>1, <1>2, TrimmedReturned

\* The bounds of both loops are in order.
LEMMA LoopBounds ==
  ASSUME NEW m, IsPartition(m), NEW q, Interval(q), Touched(m, q)
  PROVE  /\ StartBin(m, q) \in Nat /\ EndBin(m, q) \in Nat /\ m.numBins \in Nat
         /\ StartBin(m, q) < EndBin(m, q) /\ EndBin(m, q) <= m.numBins
         /\ FirstEnd(m, q) \in Nat /\ LastFrom(m, q) \in Nat /\ End(m, q) \in Nat
         /\ FirstEnd(m, q) <= LastFrom(m, q) /\ LastFrom(m, q) <= End(m, q)
<1>1. StartBin(m, q) \in Bins(m) /\ EndBin(m, q) \in StartBin(m, q) + 1 .. m.numBins
  BY TouchedBins
<1>2. m.numBins \in Nat
  BY DEF IsPartition
<1> QED BY <1>1, <1>2, RangeShape DEF Bins, Shape
-------------------------------------------------------------------------------
(* The inductive invariant.                                                *)

Loops == {"trimFirst", "trimLast"}

CacheOK(c, s) ==
  /\ c = [n \in 0 .. Len(s) - 1 |-> c[n]]
  /\ \A n \in 0 .. Len(s) - 1 : c[n] \in {None, s[n + 1]}

EngineInv ==
  /\ store \in Stores /\ cur \in 0 .. Len(store)
  /\ metadatas # NotLoaded => CacheOK(metadatas, store)
  /\ query # None => query \in Queries
  /\ pc \in {"idle", "loop", "find"} \cup Loops
  /\ pc # "idle" => query \in Queries
  /\ pc \in {"idle", "loop"} => meta = None
  /\ pc \in {"find"} \cup Loops => cur < Len(store) /\ meta = store[cur + 1]

TrimInv ==
  /\ pc \in Loops =>
       /\ Touched(meta, query) /\ query.type # "RegionIndexOnly"
       /\ range = <<StartBin(meta, query), EndBin(meta, query)>>
  /\ pc = "trimFirst" => First(meta, query, data, rids, inputOff, head)
  /\ pc = "trimLast" => Last(meta, query, data, rids, inputOff, head, tail)

AnswerInv ==
  answer = EmptyAnswer \/ Right(answer.part, answer.query, answer.rids, answer.data)

Inv == EngineInv /\ TrimInv /\ AnswerInv

\* The stores hold partitions.
LEMMA CurrentPartition ==
  ASSUME NEW s \in Stores
  PROVE  Len(s) \in Nat /\ \A c \in 0 .. Len(s) - 1 : IsPartition(s[c + 1])
<1>1. s \in Seq({s[i] : i \in DOMAIN s}) /\ \A i \in DOMAIN s : IsPartition(s[i])
  BY QueryAssumption
<1>2. Len(s) \in Nat /\ DOMAIN s = 1 .. Len(s)
  BY <1>1
<1> QED BY <1>1, <1>2

\* While a query is at work, its metadata is that of the current partition.
LEMMA AtWork ==
  ASSUME Inv, pc \in {"find"} \cup Loops
  PROVE  /\ cur \in 0 .. Len(store) - 1 /\ cur + 1 \in 0 .. Len(store)
         /\ meta = store[cur + 1] /\ IsPartition(meta)
         /\ query \in Queries /\ Interval(query)
<1>1. Len(store) \in Nat /\ cur \in 0 .. Len(store) /\ cur < Len(store)
  BY CurrentPartition DEF Inv, EngineInv
<1>2. cur \in 0 .. Len(store) - 1 /\ cur + 1 \in 0 .. Len(store)
  BY <1>1
<1>3. query \in Queries /\ meta = store[cur + 1] /\ store \in Stores
  BY DEF Inv, EngineInv, Loops
<1> QED BY <1>2, <1>3, CurrentPartition, QueryInterval

\* The offsets of the code are the places of the buffers.
LEMMA Offsets ==
  ASSUME range = <<StartBin(meta, query), EndBin(meta, query)>>
  PROVE  /\ FirstBinEnd(range) = FirstEnd(meta, query)
         /\ LastBinStart(range) = LastStart(meta, query)
         /\ LastBinEnd(range) = End(meta, query)
         /\ LastIsDistinct <=> EndBin(meta, query) - StartBin(meta, query) > 1
BY DEF FirstBinEnd, LastBinStart, LastBinEnd, Offset, FirstEnd, LastStart, End, Base,
       LastIsDistinct

\* Returning a right answer keeps the invariant.
LEMMA Returned ==
  ASSUME Inv, pc \in {"find"} \cup Loops, NEW a, NEW d,
         Right(store[cur + 1], query, a, d), Return(a, d)
  PROVE  Inv'
<1>1. cur' \in 0 .. Len(store)
  BY AtWork DEF Return, ClosedAt
<1>2. EngineInv'
  BY <1>1, AtWork DEF Return, Inv, EngineInv, Loops
<1>3. TrimInv'
  BY DEF Return, TrimInv, Loops
<1>4. AnswerInv'
  BY DEF Return, AnswerInv
<1> QED BY <1>2, <1>3, <1>4 DEF Inv

\* The invariant holds at first.
LEMMA InvInit == ASSUME Init PROVE Inv
<1>1. Len(store) \in Nat
  BY CurrentPartition DEF Init
<1>2. EngineInv
  BY <1>1 DEF Init, EngineInv, Loops
<1> QED BY <1>2 DEF Init, Inv, TrimInv, AnswerInv, Loops

\* An empty cache has the metadata of no other partition.
LEMMA EmptyCacheOK == CacheOK(EmptyCache, store)
BY DEF CacheOK, EmptyCache

\* Every step keeps the invariant.
LEMMA InvNext == ASSUME Inv, [Next]_vars PROVE Inv'
<1>1. CASE UNCHANGED vars
  BY <1>1 DEF vars, trimming, Inv, EngineInv, TrimInv, AnswerInv, Loops
<1>2. ASSUME NEW preload \in BOOLEAN, EngineInit(preload)
      PROVE  Inv'
  <2>1. EngineInv'
    BY <1>2, EmptyCacheOK DEF EngineInit, Inv, EngineInv, Loops
  <2> QED BY <1>2, <2>1 DEF EngineInit, Inv, TrimInv, AnswerInv, trimming, Loops
<1>3. CASE Reopen
  <2>1. Len(store) \in Nat
    BY CurrentPartition DEF Inv, EngineInv
  <2>2. EngineInv'
    BY <1>3, <2>1 DEF Reopen, Inv, EngineInv, Loops
  <2> QED BY <1>3, <2>2 DEF Reopen, Inv, TrimInv, AnswerInv, trimming, Loops
<1>4. ASSUME NEW q \in Queries, StartQuery(q)
      PROVE  Inv'
  <2>1. EngineInv'
    BY <1>4 DEF StartQuery, Inv, EngineInv, Loops
  <2> QED BY <1>4, <2>1 DEF StartQuery, Inv, TrimInv, AnswerInv, trimming, Loops
<1>5. CASE DestroyQuery \/ NextAtEnd
  <2>1. EngineInv'
    BY <1>5 DEF DestroyQuery, NextAtEnd, Inv, EngineInv, Loops
  <2> QED BY <1>5, <2>1 DEF DestroyQuery, NextAtEnd, Inv, TrimInv, AnswerInv, trimming, Loops
<1>6. CASE NextOpen
  <2>1. /\ Len(store) \in Nat /\ cur \in 0 .. Len(store) /\ ~ (cur >= Len(store))
        /\ store \in Stores
    BY <1>6, CurrentPartition DEF NextOpen, AtEnd, Inv, EngineInv
  <2>2. cur \in 0 .. Len(store) - 1 /\ cur < Len(store)
    BY <2>1
  <2>3. CacheOK(ReadyCache, store)
    BY EmptyCacheOK DEF ReadyCache, Inv, EngineInv
  <2>4. CacheOK(metadatas', store) /\ metadatas'[cur] = store[cur + 1]
    <3>1. CASE ReadyCache[cur] = None
      <4>1. metadatas' = [ReadyCache EXCEPT ![cur] = store[cur + 1]]
        BY <1>6, <3>1 DEF NextOpen, Slot
      <4> QED BY <4>1, <2>2, <2>3 DEF CacheOK
    <3>2. CASE ReadyCache[cur] # None
      <4>1. metadatas' = ReadyCache
        BY <1>6, <3>2 DEF NextOpen, Slot
      <4> QED BY <4>1, <3>2, <2>2, <2>3 DEF CacheOK
    <3> QED BY <3>1, <3>2
  <2>5. meta' = store[cur + 1]
    BY <1>6, <2>4 DEF NextOpen, Slot
  <2>6. EngineInv'
    BY <1>6, <2>1, <2>2, <2>4, <2>5 DEF NextOpen, Inv, EngineInv, Loops
  <2> QED BY <1>6, <2>6 DEF NextOpen, Inv, TrimInv, AnswerInv, trimming, Loops
<1>7. CASE NoBinTouched
  BY <1>7, AtWork, NothingTouched, Returned DEF NoBinTouched
<1>8. CASE IndexOnly
  <2> DEFINE a == ReadBins(store[cur + 1].rids, StartBin(meta, query), EndBin(meta, query))
  <2>1. /\ pc = "find" /\ Touched(meta, query) /\ query.type = "RegionIndexOnly"
        /\ Return(a, <<>>)
    BY <1>8 DEF IndexOnly
  <2>2. a = [k \in 0 .. End(meta, query) - 1 |-> meta.rids[Base(meta, query) + k]]
    BY <2>1, AtWork DEF ReadBins, End, Base
  <2> HIDE DEF a
  <2>3. Right(meta, query, a, <<>>)
    BY <2>1, <2>2, AtWork, WholeBinsReturned
  <2> QED BY <2>1, <2>3, AtWork, Returned
<1>9. CASE ReadRange
  <2> DEFINE lo == StartBin(meta, query)
             hi == EndBin(meta, query)
             r == <<lo, hi>>
             all == ReadBins(store[cur + 1].elems, lo, hi)
  <2>1. /\ pc = "find" /\ Touched(meta, query) /\ query.type # "RegionIndexOnly"
        /\ range' = r /\ rids' = ReadBins(store[cur + 1].rids, lo, hi)
        /\ data' = [k \in DOMAIN all |->
                      IF Gap(meta, query) /\ FirstBinEnd(r) <= k /\ k < LastBinStart(r)
                        THEN Undef ELSE all[k]]
        /\ inputOff' = FirstBinEnd(r) - 1 /\ head' = FirstBinEnd(r)
        /\ pc' = "trimFirst"
        /\ UNCHANGED <<store, cur, metadatas, query, meta, answer>>
    BY <1>9 DEF ReadRange, Gap
  <2>2. /\ FirstBinEnd(r) = FirstEnd(meta, query) /\ LastBinStart(r) = LastStart(meta, query)
    BY DEF FirstBinEnd, LastBinStart, Offset, FirstEnd, LastStart, Base
  <2>3. /\ all = [k \in 0 .. End(meta, query) - 1 |-> meta.elems[Base(meta, query) + k]]
        /\ rids' = [k \in 0 .. End(meta, query) - 1 |-> meta.rids[Base(meta, query) + k]]
    BY <2>1, AtWork DEF ReadBins, End, Base
  <2>4. data' = [k \in 0 .. End(meta, query) - 1 |->
                   IF Gap(meta, query) /\ FirstEnd(meta, query) <= k /\ k < LastStart(meta, query)
                     THEN Undef ELSE meta.elems[Base(meta, query) + k]]
    BY <2>1, <2>2, <2>3
  <2>5. inputOff' = FirstEnd(meta, query) - 1 /\ head' = FirstEnd(meta, query)
    BY <2>1, <2>2
  <2>6. First(meta, query, data', rids', FirstEnd(meta, query) - 1, FirstEnd(meta, query))
    BY <2>1, <2>3, <2>4, AtWork, ReadOK DEF First
  <2>7. EngineInv'
    BY <2>1, AtWork DEF Inv, EngineInv, Loops
  <2>8. TrimInv'
    BY <2>1, <2>5, <2>6 DEF TrimInv, Loops
  <2>9. AnswerInv'
    BY <2>1 DEF Inv, AnswerInv
  <2> QED BY <2>7, <2>8, <2>9 DEF Inv
<1>10. CASE TrimFirst
  <2>1. /\ pc = "trimFirst" /\ inputOff >= 0 /\ inputOff' = inputOff - 1
        /\ \/ /\ InRange(data[inputOff], query)
              /\ head' = head - 1 /\ data' = [data EXCEPT ![head'] = data[inputOff]]
              /\ rids' = [rids EXCEPT ![head'] = rids[inputOff]]
           \/ ~ InRange(data[inputOff], query) /\ head' = head /\ data' = data /\ rids' = rids
        /\ UNCHANGED <<store, cur, metadatas, query, pc, meta, range, tail, answer>>
    BY <1>10 DEF TrimFirst, RowMoved
  <2>2. IsPartition(meta) /\ Interval(query)
    BY <2>1, AtWork DEF Loops
  <2>3. First(meta, query, data, rids, inputOff, head) /\ Touched(meta, query)
    BY <2>1 DEF Inv, TrimInv, Loops
  <2>4. First(meta, query, data', rids', inputOff', head')
    BY <2>1, <2>2, <2>3, FirstStep
  <2>5. EngineInv'
    BY <2>1 DEF Inv, EngineInv, Loops
  <2>6. TrimInv'
    BY <2>1, <2>4 DEF Inv, TrimInv, Loops
  <2>7. AnswerInv'
    BY <2>1 DEF Inv, AnswerInv
  <2> QED BY <2>5, <2>6, <2>7 DEF Inv
<1>11. CASE FirstTrimmed
  <2>1. /\ pc = "trimFirst" /\ inputOff < 0 /\ pc' = "trimLast"
        /\ UNCHANGED <<store, cur, metadatas, query, meta, range, data, rids, head, answer>>
    BY <1>11 DEF FirstTrimmed
  <2>2. IsPartition(meta) /\ Interval(query)
    BY <2>1, AtWork DEF Loops
  <2>3. /\ First(meta, query, data, rids, inputOff, head) /\ Touched(meta, query)
        /\ range = <<StartBin(meta, query), EndBin(meta, query)>>
    BY <2>1 DEF Inv, TrimInv, Loops
  <2>4. inputOff' = LastFrom(meta, query) /\ tail' = LastFrom(meta, query)
    BY <1>11, <2>3, Offsets DEF FirstTrimmed, LastFrom
  <2>5. Last(meta, query, data, rids, LastFrom(meta, query), head, LastFrom(meta, query))
    BY <2>1, <2>2, <2>3, RangeShape, FirstDone DEF First, Last
  <2>6. EngineInv'
    BY <2>1 DEF Inv, EngineInv, Loops
  <2>7. TrimInv'
    BY <2>1, <2>4, <2>5 DEF Inv, TrimInv, Loops
  <2>8. AnswerInv'
    BY <2>1 DEF Inv, AnswerInv
  <2> QED BY <2>6, <2>7, <2>8 DEF Inv
<1>12. CASE TrimLast
  <2>1. /\ pc = "trimLast" /\ inputOff < LastBinEnd(range) /\ inputOff' = inputOff + 1
        /\ \/ /\ InRange(data[inputOff], query)
              /\ tail' = tail + 1 /\ data' = [data EXCEPT ![tail] = data[inputOff]]
              /\ rids' = [rids EXCEPT ![tail] = rids[inputOff]]
           \/ ~ InRange(data[inputOff], query) /\ tail' = tail /\ data' = data /\ rids' = rids
        /\ UNCHANGED <<store, cur, metadatas, query, pc, meta, range, head, answer>>
    BY <1>12 DEF TrimLast, RowMoved
  <2>2. IsPartition(meta) /\ Interval(query)
    BY <2>1, AtWork DEF Loops
  <2>3. /\ Last(meta, query, data, rids, inputOff, head, tail) /\ Touched(meta, query)
        /\ range = <<StartBin(meta, query), EndBin(meta, query)>>
    BY <2>1 DEF Inv, TrimInv, Loops
  <2>4. inputOff < End(meta, query)
    BY <2>1, <2>3, Offsets
  <2>5. Last(meta, query, data', rids', inputOff', head, tail')
    BY <2>1, <2>2, <2>3, <2>4, LastStep
  <2>6. EngineInv'
    BY <2>1 DEF Inv, EngineInv, Loops
  <2>7. TrimInv'
    BY <2>1, <2>5 DEF Inv, TrimInv, Loops
  <2>8. AnswerInv'
    BY <2>1 DEF Inv, AnswerInv
  <2> QED BY <2>6, <2>7, <2>8 DEF Inv
<1>13. CASE PackageResult
  <2> DEFINE a == [k \in 0 .. tail - head - 1 |-> rids[head + k]]
             v == IF query.type = "ValueRetrieval"
                    THEN [k \in 0 .. tail - head - 1 |-> data[head + k]] ELSE <<>>
  <2>1. pc = "trimLast" /\ inputOff >= LastBinEnd(range) /\ Return(a, v)
    BY <1>13 DEF PackageResult
  <2>2. /\ Last(meta, query, data, rids, inputOff, head, tail) /\ Touched(meta, query)
        /\ range = <<StartBin(meta, query), EndBin(meta, query)>>
        /\ query.type # "RegionIndexOnly"
    BY <2>1 DEF Inv, TrimInv, Loops
  <2>3. inputOff >= End(meta, query)
    BY <2>1, <2>2, Offsets
  <2>4. /\ IsPartition(meta) /\ query \in Queries /\ meta = store[cur + 1]
    BY <2>1, AtWork DEF Loops
  <2>6. /\ Between(rids, a, head, tail)
        /\ query.type = "ValueRetrieval" => Between(data, v, head, tail)
    BY DEF Between
  <2> HIDE DEF a, v
  <2>8. Right(meta, query, a, v)
    BY ONLY <2>2, <2>3, <2>4, <2>6, Packaged
  <2> QED BY <2>1, <2>4, <2>8, Returned DEF Loops
<1> QED
  BY <1>1, <1>2, <1>3, <1>4, <1>5, <1>6, <1>7, <1>8, <1>9, <1>10, <1>11, <1>12, <1>13 DEF Next

\* The invariant holds in every state.
LEMMA Invariance == Spec => []Inv
BY InvInit, InvNext, PTL DEF Spec
-------------------------------------------------------------------------------
(***************************************************************************)
(* Types; the trimming loops stay inside the buffers that were read        *)
(* (uniquery.c, trimbins.templates.cc).                                    *)
(***************************************************************************)
THEOREM TypeCorrect == Spec => []TypeOK
<1>1. ASSUME Inv PROVE TypeOK
  <2>1. /\ store \in Stores /\ cur \in 0 .. Len(store)
        /\ metadatas # NotLoaded => DOMAIN metadatas = 0 .. Len(store) - 1
        /\ query # None => query \in Queries
        /\ pc \in {"idle", "loop", "find", "trimFirst", "trimLast"}
        /\ pc \in {"find", "trimFirst", "trimLast"} => cur < Len(store)
    BY <1>1 DEF Inv, EngineInv, CacheOK, Loops
  <2>2. ASSUME pc \in Loops
        PROVE  /\ 0 <= range[1] /\ range[1] < range[2] /\ range[2] <= meta.numBins
               /\ DOMAIN data = 0 .. LastBinEnd(range) - 1 /\ DOMAIN rids = DOMAIN data
               /\ head \in 0 .. FirstBinEnd(range)
               /\ inputOff \in -1 .. LastBinEnd(range)
               /\ pc = "trimLast" => head <= tail /\ tail <= inputOff
    <3>1. /\ IsPartition(meta) /\ Interval(query) /\ Touched(meta, query)
          /\ range = <<StartBin(meta, query), EndBin(meta, query)>>
      BY <1>1, <2>2, AtWork DEF Inv, TrimInv
    <3>2. /\ range[1] = StartBin(meta, query) /\ range[2] = EndBin(meta, query)
          /\ FirstBinEnd(range) = FirstEnd(meta, query) /\ LastBinEnd(range) = End(meta, query)
      BY <3>1, Offsets
    <3>3. /\ StartBin(meta, query) \in Nat /\ EndBin(meta, query) \in Nat
          /\ StartBin(meta, query) < EndBin(meta, query)
          /\ EndBin(meta, query) <= meta.numBins
          /\ FirstEnd(meta, query) \in Nat /\ LastFrom(meta, query) \in Nat
          /\ End(meta, query) \in Nat
          /\ FirstEnd(meta, query) <= LastFrom(meta, query)
          /\ LastFrom(meta, query) <= End(meta, query)
      BY <3>1, LoopBounds
    <3>4. CASE pc = "trimFirst"
      <4>1. /\ inputOff \in -1 .. FirstEnd(meta, query) - 1
            /\ head \in inputOff + 1 .. FirstEnd(meta, query)
            /\ data = [k \in 0 .. End(meta, query) - 1 |-> data[k]]
            /\ rids = [k \in 0 .. End(meta, query) - 1 |-> rids[k]]
        BY <1>1, <3>4 DEF Inv, TrimInv, First, FirstOK
      <4>2. /\ head \in 0 .. FirstEnd(meta, query)
            /\ inputOff \in -1 .. End(meta, query)
        BY <4>1, <3>3
      <4>3. DOMAIN data = 0 .. End(meta, query) - 1 /\ DOMAIN rids = DOMAIN data
        BY <4>1
      <4> QED BY <3>2, <3>3, <3>4, <4>2, <4>3
    <3>5. CASE pc = "trimLast"
      <4>1. /\ inputOff \in LastFrom(meta, query) .. End(meta, query)
            /\ tail \in LastFrom(meta, query) .. inputOff
            /\ head \in 0 .. FirstEnd(meta, query)
            /\ data = [k \in 0 .. End(meta, query) - 1 |-> data[k]]
            /\ rids = [k \in 0 .. End(meta, query) - 1 |-> rids[k]]
        BY <1>1, <3>5 DEF Inv, TrimInv, Last, LastOK
      <4>2. /\ inputOff \in -1 .. End(meta, query)
            /\ head <= tail /\ tail <= inputOff
        BY <4>1, <3>3
      <4>3. DOMAIN data = 0 .. End(meta, query) - 1 /\ DOMAIN rids = DOMAIN data
        BY <4>1
      <4> QED BY <3>2, <3>3, <4>1, <4>2, <4>3
    <3> QED BY <2>2, <3>4, <3>5 DEF Loops
  <2> QED BY <2>1, <2>2 DEF TypeOK, Loops
<1> QED BY <1>1, Invariance, PTL

(***************************************************************************)
(* No row whose value lies in the interval is missing from the answer:     *)
(* rounding the bounds to bin values loses no bin (findBinRange1C), and    *)
(* trimming in place overwrites nothing that is kept (trimQueryResults).   *)
(***************************************************************************)
THEOREM NoRowIsLost == Spec => []NothingLost
<1>1. ASSUME Inv PROVE NothingLost
  <2> SUFFICES ASSUME Answered, NEW k \in DOMAIN answer.part.elems,
                      InRange(answer.part.elems[k], answer.query)
               PROVE  answer.part.rids[k] \in Rows
    BY DEF NothingLost
  <2>1. Right(answer.part, answer.query, answer.rids, answer.data)
    BY <1>1 DEF Inv, AnswerInv, Answered, EmptyAnswer
  <2>2. k \in 0 .. answer.part.length - 1
    BY <2>1 DEF Right, IsPartition
  <2> QED BY <2>1, <2>2 DEF Right, Complete, Rows
<1> QED BY <1>1, Invariance, PTL

\* What the properties call the element of a row.
LEMMA ElementOfRow ==
  ASSUME answer.part # None, IsPartition(answer.part), NEW k \in 0 .. answer.part.length - 1
  PROVE  ElementOf(answer.part.rids[k]) = answer.part.elems[k]
<1>1. /\ DOMAIN answer.part.rids = 0 .. answer.part.length - 1
      /\ \A i, j \in 0 .. answer.part.length - 1 :
           i # j => answer.part.rids[i] # answer.part.rids[j]
  BY DEF IsPartition
<1>2. \A i \in 0 .. answer.part.length - 1 :
        answer.part.rids[i] = answer.part.rids[k] <=> i = k
  BY <1>1
<1>3. (CHOOSE i \in DOMAIN answer.part.rids : answer.part.rids[i] = answer.part.rids[k]) = k
  BY <1>1, <1>2
<1> QED BY <1>3 DEF ElementOf

(***************************************************************************)
(* After candidate checks only rows of a zero bin can be outside the       *)
(* interval, when a bound lies in a zero bin and the partition has both    *)
(* (trimQueryResults trims the first and the last bin only).               *)
(***************************************************************************)
THEOREM LeaksAreOfZeroBins == Spec => []OnlyZeroBinsLeak
<1>1. ASSUME Inv PROVE OnlyZeroBinsLeak
  <2> SUFFICES ASSUME Answered, answer.query.type # "RegionIndexOnly",
                      NEW row \in Rows
               PROVE  \/ InRange(ElementOf(row), answer.query)
                      \/ ZeroBinBetween /\ High(ElementOf(row)) \in {0, Sign}
    BY DEF OnlyZeroBinsLeak
  <2>1. answer.part # None /\ Right(answer.part, answer.query, answer.rids, answer.data)
    BY <1>1 DEF Inv, AnswerInv, Answered, EmptyAnswer
  <2>2. PICK j \in DOMAIN answer.rids : answer.rids[j] = row
    BY DEF Rows
  <2>3. PICK k \in 0 .. answer.part.length - 1 :
           row = answer.part.rids[k] /\ Allowed(answer.part, answer.query, k)
    BY <2>1, <2>2 DEF Right, FromPartition
  <2>4. ElementOf(row) = answer.part.elems[k]
    BY <2>1, <2>3, ElementOfRow DEF Right
  <2> QED BY <2>3, <2>4 DEF Allowed, BoundInZeroBin, ZeroBinBetween
<1> QED BY <1>1, Invariance, PTL

\* A number in the w numbers from P * w on, away from zero, is below another
\* number of the kind, or in the same w, exactly if its P is no higher; the two w
\* around zero are one.
Lies(x, P, w) ==
  /\ P > 0 => P * w <= x /\ x <= P * w + (w - 1)
  /\ P < 0 => P * w - (w - 1) <= x /\ x <= P * w
  /\ P = 0 => -(w - 1) <= x /\ x <= w - 1

\* The last and the first of the numbers that lie at p.
UpEnd(p, w) == p * w + (IF p < 0 THEN 0 ELSE w - 1)
DownEnd(p, w) == p * w - (IF p > 0 THEN 0 ELSE w - 1)

LEMMA EdgesOfMultiples ==
  ASSUME NEW w \in Nat \ {0}, NEW P \in Int, NEW p \in Int, NEW x \in Int, Lies(x, P, w)
  PROVE  /\ P <= p <=> x <= UpEnd(p, w)
         /\ p <= P <=> DownEnd(p, w) <= x
<1> DEFINE Pw == P * w
           pw == p * w
<1>1. Pw \in Int /\ pw \in Int
  OBVIOUS
<1>2. P < p => Pw + w <= pw
  BY MultipleApart
<1>3. p < P => pw + w <= Pw
  BY MultipleApart
<1>4. P = p => Pw = pw
  OBVIOUS
<1>5. (P = 0 => Pw = 0) /\ (p = 0 => pw = 0)
  OBVIOUS
<1>6. (P < 0 => Pw + w <= 0) /\ (p < 0 => pw + w <= 0) /\ (P > 0 => w <= Pw) /\ (p > 0 => w <= pw)
  <2>1. ASSUME NEW z \in Int, z < 0 PROVE z * w + w <= 0
    BY <2>1, MultipleApart, 0 * w = 0
  <2>2. ASSUME NEW z \in Int, z > 0 PROVE w <= z * w
    BY <2>2, MultipleApart, 0 * w = 0
  <2> QED BY <2>1, <2>2
<1>7. /\ P > 0 => Pw <= x /\ x <= Pw + (w - 1)
      /\ P < 0 => Pw - (w - 1) <= x /\ x <= Pw
      /\ P = 0 => -(w - 1) <= x /\ x <= w - 1
  BY DEF Lies
<1> HIDE DEF Pw, pw
<1>8. P <= p <=> x <= pw + (IF p < 0 THEN 0 ELSE w - 1)
  <2>1. CASE P < 0 BY <2>1, <1>1, <1>2, <1>3, <1>4, <1>5, <1>6, <1>7
  <2>2. CASE P = 0 BY <2>2, <1>1, <1>2, <1>3, <1>4, <1>5, <1>6, <1>7
  <2>3. CASE P > 0 BY <2>3, <1>1, <1>2, <1>3, <1>4, <1>5, <1>6, <1>7
  <2> QED BY <2>1, <2>2, <2>3
<1>9. p <= P <=> pw - (IF p > 0 THEN 0 ELSE w - 1) <= x
  <2>1. CASE P < 0 BY <2>1, <1>1, <1>2, <1>3, <1>4, <1>5, <1>6, <1>7
  <2>2. CASE P = 0 BY <2>2, <1>1, <1>2, <1>3, <1>4, <1>5, <1>6, <1>7
  <2>3. CASE P > 0 BY <2>3, <1>1, <1>2, <1>3, <1>4, <1>5, <1>6, <1>7
  <2> QED BY <2>1, <2>2, <2>3
<1> QED BY <1>8, <1>9 DEF Pw, pw, UpEnd, DownEnd

\* Where the value of an element lies, seen from its bin's.
LEMMA ValueInBin ==
  ASSUME NEW e \in Element
  PROVE  Value(e) \in Int /\ Rounded(e) \in Int /\ Lies(Value(e), Rounded(e), Lows)
<1> DEFINE g == e \div Lows
           r == e % Lows
           SL == Sign * Lows
           gL == g * Lows
<1>1. Lows \in Nat \ {0} /\ Sign \in Nat \ {0} /\ SL \in Nat /\ e \in Nat
  BY RangeAssumption, HighOfElement DEF Element
<1>2. g \in Nat /\ r \in 0 .. Lows - 1 /\ e = gL + r
  BY <1>1, DividedNatural
<1>3. gL \in Nat /\ (g = 0 => gL = 0)
  BY <1>1, <1>2
<1>4. (Sign - g) * Lows = SL - gL
  BY <1>1, <1>2
<1>5. High(e) = g
  BY DEF High
<1>6. /\ Value(e) = IF g < Sign THEN e ELSE SL - e
      /\ Rounded(e) = IF g < Sign THEN g ELSE Sign - g
  BY <1>5 DEF Value, Rounded, TwosComplement
<1>7. g = Sign => gL = SL
  OBVIOUS
<1> HIDE DEF g, r, SL, gL
<1>8. CASE g < Sign
  <2>1. Value(e) = e /\ Rounded(e) = g
    BY <1>8, <1>6
  <2>2. Rounded(e) * Lows = gL
    BY <2>1 DEF gL
  <2> QED BY <2>1, <2>2, <1>1, <1>2, <1>3 DEF Lies
<1>9. CASE ~ (g < Sign)
  <2>1. Value(e) = SL - e /\ Rounded(e) = Sign - g
    BY <1>9, <1>6
  <2>2. Rounded(e) * Lows = SL - gL
    BY <2>1, <1>4
  <2> QED BY <2>1, <2>2, <1>1, <1>2, <1>3, <1>7, <1>9 DEF Lies
<1> QED BY <1>8, <1>9

\* One element's bin and another one's value.
LEMMA EdgesOfBins ==
  ASSUME NEW e \in Element, NEW f \in Element
  PROVE  /\ Rounded(f) <= Rounded(e) <=> Value(f) <= HighEdge(Rounded(e))
         /\ Rounded(e) <= Rounded(f) <=> LowEdge(Rounded(e)) <= Value(f)
<1> DEFINE p == Rounded(e)
           P == Rounded(f)
           x == Value(f)
<1>1. p \in Int /\ P \in Int /\ x \in Int /\ Lies(x, P, Lows)
  BY ValueInBin
<1>2. HighEdge(p) = UpEnd(p, Lows) /\ LowEdge(p) = DownEnd(p, Lows)
  BY RangeAssumption, <1>1 DEF HighEdge, LowEdge, UpEnd, DownEnd
<1> HIDE DEF p, P, x
<1>3. (P <= p <=> x <= UpEnd(p, Lows)) /\ (p <= P <=> DownEnd(p, Lows) <= x)
  BY ONLY RangeAssumption, <1>1, EdgesOfMultiples
<1> QED BY ONLY <1>2, <1>3 DEF p, P, x

(***************************************************************************)
(* Without candidate checks the answer is every row of each bin that meets *)
(* the closed interval from lb to ub, and no other: that is what comparing *)
(* bin values with bounds rounded toward zero amounts to (findBinRange1C,  *)
(* readIndex).                                                             *)
(***************************************************************************)
THEOREM IndexAnswersMeetInterval == Spec => []IndexOnlyMeetsInterval
<1>1. ASSUME Inv PROVE IndexOnlyMeetsInterval
  <2> DEFINE point(k) == Rounded(answer.part.elems[k])
  <2> SUFFICES ASSUME Answered, answer.query.type = "RegionIndexOnly",
                      NEW k \in DOMAIN answer.part.rids
               PROVE  answer.part.rids[k] \in Rows
                        <=> /\ Value(answer.query.lb) <= HighEdge(point(k))
                            /\ LowEdge(point(k)) <= Value(answer.query.ub)
    BY DEF IndexOnlyMeetsInterval, Rounded
  <2>1. Right(answer.part, answer.query, answer.rids, answer.data)
    BY <1>1 DEF Inv, AnswerInv, Answered, EmptyAnswer
  <2>2. k \in 0 .. answer.part.length - 1
    BY <2>1 DEF Right, IsPartition
  <2>3. answer.part.rids[k] \in Rows
          <=> LowPoint(answer.query) <= point(k) /\ point(k) <= UpPoint(answer.query)
    BY <2>1, <2>2 DEF Right, WholeBins, Rows
  <2>4. answer.part.elems[k] \in Element /\ answer.query.lb \in Element /\ answer.query.ub \in Element
    BY <1>1, <2>1, <2>2, QueryInterval DEF Right, IsPartition, Interval
  <2>5. /\ LowPoint(answer.query) = Rounded(answer.query.lb)
        /\ UpPoint(answer.query) = Rounded(answer.query.ub)
    BY DEF LowPoint, UpPoint, Rounded
  <2> QED BY <2>3, <2>4, <2>5, EdgesOfBins
<1> QED BY <1>1, Invariance, PTL

(***************************************************************************)
(* Every row comes once and a value query gives each its own value,        *)
(* although values and rows are moved separately (trimQueryResults).       *)
(***************************************************************************)
THEOREM ValuesBelongToRows == Spec => []ValuesMatchRows
<1>1. ASSUME Inv PROVE ValuesMatchRows
  <2> SUFFICES ASSUME Answered PROVE ValuesMatchRows
    BY DEF ValuesMatchRows
  <2>1. answer.part # None /\ Right(answer.part, answer.query, answer.rids, answer.data)
    BY <1>1 DEF Inv, AnswerInv, Answered, EmptyAnswer
  <2>2. ASSUME answer.query.type = "ValueRetrieval", NEW i \in DOMAIN answer.data
        PROVE  answer.data[i] = ElementOf(answer.rids[i])
    <3>1. PICK k \in 0 .. answer.part.length - 1 :
             answer.rids[i] = answer.part.rids[k] /\ answer.data[i] = answer.part.elems[k]
      BY <2>1, <2>2 DEF Right, FromPartition
    <3> QED BY <2>1, <3>1, ElementOfRow DEF Right
  <2> QED BY <2>1, <2>2 DEF ValuesMatchRows, Right, Distinct
<1> QED BY <1>1, Invariance, PTL

(***************************************************************************)
(* The engine works with the metadata of the partition that is open and    *)
(* keeps that of each partition under its number, whatever queries were    *)
(* begun, left and repeated (ALQueryGetPartitionMetadata).                 *)
(***************************************************************************)
THEOREM CacheIsRight == Spec => []CacheHoldsOwnMetadata
<1>1. ASSUME Inv PROVE CacheHoldsOwnMetadata
  BY <1>1 DEF Inv, EngineInv, CacheOK, Loops, CacheHoldsOwnMetadata
<1> QED BY <1>1, Invariance, PTL
===============================================================================
