----------------------------- MODULE RidListProofs -----------------------------
(***************************************************************************)
(* A batch of RIDs is read as it was encoded, for every size of a batch,   *)
(* of a word and of a RID: the packed differences, the exceptions behind   *)
(* them, the runs, and the sizes the encoders announce.  A list of RIDs is *)
(* cut into batches, encoded, moved by an offset and read back, alone or   *)
(* with others behind it.                                                  *)
(***************************************************************************)
EXTENDS IndexForms, FixedLengthFunctions, FiniteSetTheorems, WellFoundedInduction, TLAPS

-------------------------------------------------------------------------------
(* Packing at a width.                                                     *)

\* Multiplication keeps a distance of one.
LEMMA NextMultiple ==
  ASSUME NEW w \in Nat, NEW x \in Int, NEW y \in Int, x < y
  PROVE  x * w + w <= y * w
<1>1. PICK d \in Nat : y = x + 1 + d
  <2>1. y - x - 1 \in Nat /\ y = x + 1 + (y - x - 1)
    OBVIOUS
  <2> QED BY <2>1
<1>2. y * w = x * w + w + d * w
  BY <1>1
<1>3. d * w \in Nat /\ x * w \in Int
  OBVIOUS
<1> QED BY <1>2, <1>3

\* A number is its quotient and its remainder.
LEMMA Divided ==
  ASSUME NEW n \in Nat, NEW d \in Nat \ {0}
  PROVE  /\ n \div d \in Nat /\ n % d \in 0 .. d - 1
         /\ n = (n \div d) * d + (n % d)
  OBVIOUS

\* A place in a stream of elements of width w is one bit of one element.
LEMMA OnePlace ==
  ASSUME NEW w \in Nat, NEW x \in Nat, NEW y \in Nat,
         NEW j \in 0 .. w - 1, NEW k \in 0 .. w - 1, x * w + j = y * w + k
  PROVE  x = y /\ j = k
<1> DEFINE xw == x * w
           yw == y * w
<1>1. xw \in Nat /\ yw \in Nat /\ xw + j = yw + k
  OBVIOUS
<1>2. x < y => xw + w <= yw
  BY NextMultiple
<1>3. y < x => yw + w <= xw
  BY NextMultiple
<1>4. x = y => xw = yw
  OBVIOUS
<1> HIDE DEF xw, yw
<1> QED BY <1>1, <1>2, <1>3, <1>4

\* The word of bit p, when the stream has b * q * w bits.
LEMMA WordOfBit ==
  ASSUME NEW W \in Nat \ {0}, NEW b \in Nat, b % W = 0, NEW w \in Nat \ {0},
         NEW x \in 0 .. b - 1, NEW j \in 0 .. w - 1
  PROVE  (x * w + j) \div W \in 0 .. (b \div W) * w - 1
<1> DEFINE p == x * w + j
           k == p \div W
           q == b \div W
           qw == q * w
<1>1. p \in Nat
  OBVIOUS
<1>2. k \in Nat /\ p % W \in 0 .. W - 1 /\ p = k * W + (p % W)
  BY <1>1, Divided
<1>3. q \in Nat /\ b = q * W
  BY Divided
<1>4. qw \in Nat
  BY <1>3
<1>5. p < b * w
  <2>1. x * w + w <= b * w
    BY NextMultiple
  <2> QED BY <2>1
<1>6. b * w = qw * W
  BY <1>3
<1>7. k * W < qw * W
  <2>1. k * W \in Int
    BY <1>2
  <2> QED BY <1>2, <1>5, <1>6, <2>1, <1>4, <1>3
<1>8. ~ (qw <= k)
  <2> SUFFICES ASSUME qw <= k PROVE FALSE
    OBVIOUS
  <2>1. CASE qw = k
    BY <2>1, <1>7, <1>2
  <2>2. CASE qw < k
    <3>1. qw * W + W <= k * W
      BY <2>2, <1>2, <1>4, NextMultiple
    <3> QED BY <3>1, <1>7, <1>2, <1>4
  <2> QED BY <2>1, <2>2, <1>2, <1>4
<1> QED BY <1>8, <1>2, <1>4
-------------------------------------------------------------------------------
\* One bit of one element, as Unpack looks it up in what Pack has written.
LEMMA PackedBit ==
  ASSUME NEW w \in Widths, NEW data \in [Elements -> SUBSET Nat], Fits(w, data),
         NEW i \in Elements, NEW j \in BitsOfWidth(w)
  PROVE  (i * w + j) % WordBits \in Pack(w, data)[(i * w + j) \div WordBits]
           <=> j \in data[i]
<1> DEFINE p == i * w + j
           k == p \div WordBits
           b == p % WordBits
<1>1. /\ w \in Nat \ {0} /\ i \in 0 .. BatchSize - 1 /\ j \in 0 .. w - 1
      /\ BatchSize \in Nat /\ BatchSize % WordBits = 0 /\ WordBits \in Nat \ {0}
  BY PackingAssumption DEF Widths, Elements, BitsOfWidth
<1>2. p \in Nat /\ i * w \in Nat /\ p = i * w + j
  BY <1>1
<1>3. k \in Nat /\ b \in 0 .. WordBits - 1 /\ p = k * WordBits + b
  BY <1>1, <1>2, Divided
<1>4. k \in Words(w)
  BY <1>1, WordOfBit DEF Words
<1>5. b \in Pack(w, data)[k]
        <=> \E x \in Elements : InWord(w, x, k) /\ Position(k, b) - x * w \in data[x]
  BY <1>3, <1>4 DEF Pack
<1>6. Position(k, b) = p
  BY <1>3 DEF Position
<1>7. ASSUME j \in data[i]
      PROVE  InWord(w, i, k) /\ Position(k, b) - i * w \in data[i]
  <2>1. (i + 1) * w = i * w + w /\ (k + 1) * WordBits = k * WordBits + WordBits
    BY <1>1, <1>3
  <2>2. InWord(w, i, k)
    BY <1>1, <1>2, <1>3, <2>1 DEF InWord
  <2>3. p - i * w = j
    BY <1>1, <1>2
  <2>4. Position(k, b) - i * w = j
    BY <1>6, <2>3
  <2> QED BY <1>7, <2>2, <2>4
<1>8. ASSUME NEW x \in Elements, Position(k, b) - x * w \in data[x]
      PROVE  j \in data[i]
  <2>1. p - x * w \in 0 .. w - 1
    BY <1>8, <1>6 DEF Fits, BitsOfWidth
  <2>2. x \in Nat /\ x * w \in Nat /\ x * w + (p - x * w) = i * w + j
    BY <1>1, <1>2 DEF Elements
  <2>3. x = i /\ p - x * w = j
    BY <2>1, <2>2, <1>1, OnePlace
  <2> QED BY <2>3, <1>8, <1>6
<1> QED BY <1>5, <1>7, <1>8

(***************************************************************************)
(* A batch that fits its width is unpacked as it was packed: no element    *)
(* spills into its neighbour's bits or out of the buffer, wherever it      *)
(* crosses the words (gen_fixedlengthcode.cpp).                            *)
(***************************************************************************)
THEOREM UnpackPack ==
  ASSUME NEW w \in Widths, NEW data \in [Elements -> SUBSET Nat], Fits(w, data)
  PROVE  Unpack(w, Pack(w, data)) = data
<1> SUFFICES ASSUME NEW i \in Elements
             PROVE  Unpack(w, Pack(w, data))[i] = data[i]
  BY DEF Unpack
<1>1. Unpack(w, Pack(w, data))[i]
        = {j \in BitsOfWidth(w) :
             (i * w + j) % WordBits \in Pack(w, data)[(i * w + j) \div WordBits]}
  BY DEF Unpack
<1>2. Unpack(w, Pack(w, data))[i] = {j \in BitsOfWidth(w) : j \in data[i]}
  BY <1>1, PackedBit
<1>3. data[i] \subseteq BitsOfWidth(w)
  BY DEF Fits
<1> QED BY <1>2, <1>3
-------------------------------------------------------------------------------
\* The entry of each table for a width packs, or unpacks, at that width.
LEMMA EncodeTable ==
  ASSUME NEW w \in 1 .. 32, NEW data
  PROVE  EncodeFunction(w, data) = Pack(w, data)
BY SMTT(60) DEF EncodeFunction,
       fixed_length_encode_1, fixed_length_encode_2, fixed_length_encode_3,
       fixed_length_encode_4, fixed_length_encode_5, fixed_length_encode_6,
       fixed_length_encode_7, fixed_length_encode_8, fixed_length_encode_9,
       fixed_length_encode_10, fixed_length_encode_11,
       fixed_length_encode_12, fixed_length_encode_13,
       fixed_length_encode_14, fixed_length_encode_15,
       fixed_length_encode_16, fixed_length_encode_17,
       fixed_length_encode_18, fixed_length_encode_19,
       fixed_length_encode_20, fixed_length_encode_21,
       fixed_length_encode_22, fixed_length_encode_23,
       fixed_length_encode_24, fixed_length_encode_25,
       fixed_length_encode_26, fixed_length_encode_27,
       fixed_length_encode_28, fixed_length_encode_29,
       fixed_length_encode_30, fixed_length_encode_31,
       fixed_length_encode_32

\* The decoder of width w reads what lies at width w.
LEMMA DecodeTable ==
  ASSUME NEW w \in 1 .. 32, NEW buffer
  PROVE  DecodeFunction(w, buffer) = Unpack(w, buffer)
BY SMTT(60) DEF DecodeFunction,
       fixed_length_decode_1, fixed_length_decode_2, fixed_length_decode_3,
       fixed_length_decode_4, fixed_length_decode_5, fixed_length_decode_6,
       fixed_length_decode_7, fixed_length_decode_8, fixed_length_decode_9,
       fixed_length_decode_10, fixed_length_decode_11,
       fixed_length_decode_12, fixed_length_decode_13,
       fixed_length_decode_14, fixed_length_decode_15,
       fixed_length_decode_16, fixed_length_decode_17,
       fixed_length_decode_18, fixed_length_decode_19,
       fixed_length_decode_20, fixed_length_decode_21,
       fixed_length_decode_22, fixed_length_decode_23,
       fixed_length_decode_24, fixed_length_decode_25,
       fixed_length_decode_26, fixed_length_decode_27,
       fixed_length_decode_28, fixed_length_decode_29,
       fixed_length_decode_30, fixed_length_decode_31,
       fixed_length_decode_32

(***************************************************************************)
(* With widths up to 32, what fixed_length_encode accepts at a width is    *)
(* what fixed_length_decode returns at that width: the tables name the     *)
(* functions of the same width, and these agree with each other.           *)
(***************************************************************************)
THEOREM DecodesWhatWasEncoded ==
  ASSUME RidBits <= 32, NEW w \in Widths,
         NEW data \in [Elements -> SUBSET Nat], Fits(w, data)
  PROVE  fixed_length_decode(w, fixed_length_encode(w, data)) = data
<1>1. w \in 1 .. 32
  BY PackingAssumption DEF Widths
<1>2. fixed_length_encode(w, data) = Pack(w, data)
  BY <1>1, EncodeTable DEF fixed_length_encode
<1>3. fixed_length_decode(w, Pack(w, data)) = Unpack(w, Pack(w, data))
  BY <1>1, DecodeTable DEF fixed_length_decode
<1> QED BY <1>2, <1>3, UnpackPack

-------------------------------------------------------------------------------
(* Numbers and remainders.                                                 *)

\* Quotient and remainder are what they are when a number is put together.
LEMMA QuotientAndRemainder ==
  ASSUME NEW N \in Nat \ {0}, NEW q \in Int, NEW r \in 0 .. N - 1, NEW x, x = q * N + r
  PROVE  x % N = r /\ x \div N = q
<1>1. ((q * N) + r) % N = r
  OBVIOUS
<1>2. ((q * N) + r) \div N = q
  OBVIOUS
<1> QED BY <1>1, <1>2

\* An integer is its quotient times the divisor and a remainder below the
\* divisor.
LEMMA DividedInteger ==
  ASSUME NEW N \in Nat \ {0}, NEW x \in Int
  PROVE  /\ x \div N \in Int /\ x % N \in 0 .. N - 1
         /\ x = (x \div N) * N + (x % N)
<1>1. x = (N * (x \div N)) + (x % N)
  OBVIOUS
<1>2. x \div N \in Int /\ x % N \in 0 .. N - 1
  OBVIOUS
<1>3. N * (x \div N) = (x \div N) * N
  BY <1>2
<1> QED BY <1>1, <1>2, <1>3

\* A remainder may be taken before or after an addition.
LEMMA RemainderOfSum ==
  ASSUME NEW N \in Nat \ {0}, NEW x \in Int, NEW y \in Int
  PROVE  ((x % N) + y) % N = (x + y) % N /\ (x + (y % N)) % N = (x + y) % N
<1>1. ASSUME NEW a \in Int, NEW b \in Int PROVE ((a % N) + b) % N = (a + b) % N
  <2> DEFINE q == a \div N
             r == a % N
             p == (r + b) \div N
             s == (r + b) % N
  <2>1. q \in Int /\ r \in 0 .. N - 1 /\ a = q * N + r
    BY DividedInteger
  <2>2. p \in Int /\ s \in 0 .. N - 1 /\ r + b = p * N + s
    BY <2>1, DividedInteger
  <2> HIDE DEF q, r, p, s
  <2>3. a + b = (q + p) * N + s
    <3>1. (q + p) * N = q * N + p * N /\ q * N \in Int /\ p * N \in Int
      BY <2>1, <2>2
    <3> QED BY <2>1, <2>2, <3>1
  <2>4. (a + b) % N = s
    <3>1. q + p \in Int /\ s \in 0 .. N - 1
      BY <2>1, <2>2
    <3> DEFINE z == a + b
               k == q + p
    <3>2. z = k * N + s
      BY <2>3
    <3> HIDE DEF z, k
    <3>3. k \in Int
      BY <3>1 DEF k
    <3>4. z % N = s
      BY <3>1, <3>2, <3>3, QuotientAndRemainder
    <3> QED BY <3>4 DEF z
  <2> QED BY <2>4 DEF s, r, p, q
<1>2. ((x % N) + y) % N = (x + y) % N
  BY <1>1
<1>3. ((y % N) + x) % N = (y + x) % N
  BY <1>1
<1>4. y % N \in Int /\ x + (y % N) = (y % N) + x /\ x + y = y + x
  BY DividedInteger
<1> QED BY <1>2, <1>3, <1>4

\* A number below the divisor is its own remainder.
LEMMA SmallRemainder ==
  ASSUME NEW N \in Nat \ {0}, NEW x \in 0 .. N - 1
  PROVE  x % N = x
<1>1. x = 0 * N + x
  OBVIOUS
<1> QED BY <1>1, QuotientAndRemainder

\* Differences modulo N lead from a number to the next.
LEMMA DifferenceModulo ==
  ASSUME NEW N \in Nat \ {0}, NEW x \in 0 .. N - 1, NEW y \in 0 .. N - 1
  PROVE  /\ (y - x) % N \in 0 .. N - 1
         /\ (x + ((y - x) % N)) % N = y
         /\ x <= y => (y - x) % N = y - x
         /\ x # y => (y - x) % N # 0
<1>1. y - x \in Int /\ x + (y - x) = y
  OBVIOUS
<1>2. (y - x) % N \in 0 .. N - 1
  BY <1>1, DividedInteger
<1>3. (x + ((y - x) % N)) % N = y
  BY <1>1, RemainderOfSum, SmallRemainder
<1>4. x <= y => (y - x) % N = y - x
  <2>1. x <= y => y - x \in 0 .. N - 1
    OBVIOUS
  <2> QED BY <2>1, SmallRemainder
<1>5. x # y => (y - x) % N # 0
  <2> SUFFICES ASSUME (y - x) % N = 0 PROVE x = y
    OBVIOUS
  <2>1. (x + 0) % N = y /\ x + 0 = x
    BY <1>3
  <2> QED BY <2>1, SmallRemainder
<1> QED BY <1>2, <1>3, <1>4, <1>5

\* Induction over the natural numbers, and over those up to m.
LEMMA LeastMember ==
  ASSUME NEW S \in SUBSET Nat, S # {}
  PROVE  \E n \in S : \A k \in S : ~ (k < n)
<1>1. PICK n \in S : \A k \in S : ~ (<<k, n>> \in OpToRel(<, Nat))
  BY NatLessThanWellFounded, WFMin
<1>2. \A k \in S : k < n => <<k, n>> \in OpToRel(<, Nat)
  BY DEF OpToRel
<1> QED BY <1>1, <1>2, Zenon

\* Induction up to a bound, over a set: the least number outside the set would
\* follow one inside it.
LEMMA InductionUpTo ==
  ASSUME NEW m \in Nat, NEW S, 0 \in S,
         \A n \in 0 .. m - 1 : n \in S => n + 1 \in S
  PROVE  \A n \in 0 .. m : n \in S
<1> DEFINE T == {n \in 0 .. m : n \notin S}
<1> SUFFICES ASSUME T # {} PROVE FALSE
  OBVIOUS
<1>1. PICK n \in T : \A k \in T : ~ (k < n)
  <2>1. T \in SUBSET Nat
    OBVIOUS
  <2> HIDE DEF T
  <2> QED BY <2>1, LeastMember
<1>2. n \in 0 .. m /\ n \notin S /\ n # 0
  BY <1>1
<1>3. n - 1 \in 0 .. m - 1 /\ n - 1 < n /\ (n - 1) + 1 = n
  BY <1>2
<1>4. n - 1 \notin T
  BY <1>1, <1>3
<1>5. n - 1 \in S
  BY <1>3, <1>4
<1> QED BY <1>2, <1>3, <1>5

-------------------------------------------------------------------------------
(* Sums and powers of two, which the model defines as recursive functions. *)

IsSum(f, m, s) ==
  /\ f \in [0 .. m -> Int] /\ f[0] = 0
  /\ \A k \in 1 .. m : f[k] = f[k - 1] + s[k]

\* The partial sums of a sequence exist.
LEMMA PartialSums ==
  ASSUME NEW m \in Nat, NEW s, \A k \in 1 .. m : s[k] \in Int
  PROVE  \E f : IsSum(f, m, s)
<1> DEFINE S == {n \in 0 .. m : \E f : IsSum(f, n, s)}
<1>1. 0 \in S
  <2> DEFINE f == [k \in 0 .. 0 |-> 0]
  <2>1. f \in [0 .. 0 -> Int] /\ f[0] = 0 /\ 1 .. 0 = {}
    OBVIOUS
  <2> HIDE DEF f
  <2>2. IsSum(f, 0, s)
    BY <2>1 DEF IsSum
  <2> QED BY <2>2
<1>2. \A n \in 0 .. m - 1 : n \in S => n + 1 \in S
  <2> SUFFICES ASSUME NEW n \in 0 .. m - 1, n \in S PROVE n + 1 \in S
    OBVIOUS
  <2>1. PICK f : IsSum(f, n, s)
    OBVIOUS
  <2> DEFINE g == [k \in 0 .. n + 1 |-> IF k = n + 1 THEN f[n] + s[n + 1] ELSE f[k]]
  <2>2. n \in Nat /\ n + 1 \in 0 .. m /\ s[n + 1] \in Int /\ f \in [0 .. n -> Int] /\ f[n] \in Int
    BY <2>1 DEF IsSum
  <2>3. g \in [0 .. n + 1 -> Int]
    BY <2>2
  <2>4. g[0] = 0
    BY <2>1, <2>2 DEF IsSum
  <2>5. ASSUME NEW k \in 1 .. n + 1 PROVE g[k] = g[k - 1] + s[k]
    <3>1. CASE k = n + 1
      <4>1. g[k] = f[n] + s[n + 1] /\ g[k - 1] = f[n]
        BY <2>2, <3>1
      <4> QED BY <3>1, <4>1
    <3>2. CASE k # n + 1
      <4>1. k \in 1 .. n /\ k - 1 \in 0 .. n + 1 /\ k - 1 # n + 1
        BY <2>2, <3>2
      <4>2. g[k] = f[k] /\ g[k - 1] = f[k - 1]
        BY <3>2, <4>1
      <4> QED BY <2>1, <4>1, <4>2 DEF IsSum
    <3> QED BY <3>1, <3>2
  <2> HIDE DEF g
  <2>6. IsSum(g, n + 1, s)
    BY <2>3, <2>4, <2>5 DEF IsSum
  <2> QED BY <2>2, <2>6
<1> HIDE DEF S
<1>3. m \in 0 .. m /\ \A n \in 0 .. m : n \in S
  <2>1. \A n \in 0 .. m : n \in S
    BY <1>1, <1>2, InductionUpTo, Zenon
  <2> QED BY <2>1
<1> QED BY <1>3 DEF S

\* A sum is what partial sums of the sequence lead to.
LEMMA SumIs ==
  ASSUME NEW m \in Nat, NEW s, Len(s) = m, NEW f, IsSum(f, m, s)
  PROVE  SumOf(s) = f[m]
<1> DEFINE u[k \in 0 .. Len(s)] == IF k = 0 THEN 0 ELSE u[k - 1] + s[k]
<1>1. SumOf(s) = u[m]
  BY DEF SumOf
<1>2. f = [k \in 0 .. Len(s) |-> IF k = 0 THEN 0 ELSE f[k - 1] + s[k]]
  <2>1. \A k \in 0 .. m : k = 0 \/ k \in 1 .. m
    OBVIOUS
  <2>2. \A k \in 0 .. m : f[k] = IF k = 0 THEN 0 ELSE f[k - 1] + s[k]
    BY <2>1 DEF IsSum
  <2> QED BY <2>2 DEF IsSum
<1>3. u = [k \in 0 .. Len(s) |-> IF k = 0 THEN 0 ELSE u[k - 1] + s[k]]
  BY <1>2
<1> HIDE DEF u
<1> DEFINE S == {n \in 0 .. m : u[n] = f[n]}
<1>4. 0 \in S
  BY <1>2, <1>3
<1>5. \A n \in 0 .. m - 1 : n \in S => n + 1 \in S
  <2> SUFFICES ASSUME NEW n \in 0 .. m - 1, u[n] = f[n] PROVE n + 1 \in S
    OBVIOUS
  <2>1. n + 1 \in 0 .. m /\ n + 1 # 0 /\ (n + 1) - 1 = n
    OBVIOUS
  <2>2. u[n + 1] = u[n] + s[n + 1]
    BY <1>3, <2>1
  <2>3. f[n + 1] = f[n] + s[n + 1]
    BY <1>2, <2>1
  <2> QED BY <2>1, <2>2, <2>3
<1> HIDE DEF S
<1>6. m \in 0 .. m /\ \A n \in 0 .. m : n \in S
  <2>1. \A n \in 0 .. m : n \in S
    BY <1>4, <1>5, InductionUpTo, Zenon
  <2> QED BY <2>1
<1> QED BY <1>1, <1>6 DEF S

\* Sums of terms that are no greater are no greater.
LEMMA SumBound ==
  ASSUME NEW m \in Nat, NEW s, NEW t, Len(s) = m, Len(t) = m,
         \A k \in 1 .. m : s[k] \in Int /\ t[k] \in Int /\ s[k] <= t[k]
  PROVE  SumOf(s) \in Int /\ SumOf(t) \in Int /\ SumOf(s) <= SumOf(t)
<1>1. PICK f : IsSum(f, m, s)
  BY PartialSums
<1>2. PICK g : IsSum(g, m, t)
  BY PartialSums
<1> DEFINE S == {n \in 0 .. m : f[n] <= g[n]}
<1>3. 0 \in S
  BY <1>1, <1>2 DEF IsSum
<1>4. \A n \in 0 .. m - 1 : n \in S => n + 1 \in S
  <2> SUFFICES ASSUME NEW n \in 0 .. m - 1, f[n] <= g[n] PROVE n + 1 \in S
    OBVIOUS
  <2>1. n + 1 \in 1 .. m /\ (n + 1) - 1 = n /\ n \in 0 .. m
    OBVIOUS
  <2>2. f[n + 1] = f[n] + s[n + 1] /\ g[n + 1] = g[n] + t[n + 1]
    BY <1>1, <1>2, <2>1 DEF IsSum
  <2>3. f[n] \in Int /\ g[n] \in Int
    BY <1>1, <1>2, <2>1 DEF IsSum
  <2> QED BY <2>1, <2>2, <2>3
<1> HIDE DEF S
<1>5. m \in 0 .. m /\ \A n \in 0 .. m : n \in S
  <2>1. \A n \in 0 .. m : n \in S
    BY <1>3, <1>4, InductionUpTo, Zenon
  <2> QED BY <2>1
<1>6. SumOf(s) = f[m] /\ SumOf(t) = g[m]
  <2>1. SumOf(s) = f[m]
    BY <1>1, SumIs, Zenon
  <2>2. SumOf(t) = g[m]
    BY <1>2, SumIs, Zenon
  <2> QED BY <2>1, <2>2
<1>7. f[m] \in Int /\ g[m] \in Int
  BY <1>1, <1>2, <1>5 DEF IsSum
<1>8. f[m] <= g[m]
  BY <1>5 DEF S
<1> QED BY <1>6, <1>7, <1>8

\* The sum of equal terms is a multiple of one of them.
LEMMA SumOfConstant ==
  ASSUME NEW m \in Nat, NEW c \in Int, NEW s, Len(s) = m, \A k \in 1 .. m : s[k] = c
  PROVE  SumOf(s) = c * m
<1> DEFINE f == [k \in 0 .. m |-> c * k]
<1>1. f \in [0 .. m -> Int] /\ f[0] = 0
  <2>1. \A k \in Int : c * k \in Int
    OBVIOUS
  <2>2. c * 0 = 0 /\ 0 \in 0 .. m
    OBVIOUS
  <2> QED BY <2>1, <2>2
<1>2. \A k \in 1 .. m : f[k] = f[k - 1] + s[k]
  <2> SUFFICES ASSUME NEW k \in 1 .. m PROVE f[k] = f[k - 1] + s[k]
    OBVIOUS
  <2>1. c * k = c * (k - 1) + c
    OBVIOUS
  <2>2. k \in 0 .. m /\ k - 1 \in 0 .. m /\ s[k] = c
    OBVIOUS
  <2>3. f[k] = c * k /\ f[k - 1] = c * (k - 1)
    BY <2>2
  <2> HIDE DEF f
  <2> QED BY <2>1, <2>2, <2>3
<1>3. f[m] = c * m
  OBVIOUS
<1> HIDE DEF f
<1>4. IsSum(f, m, s)
  BY <1>1, <1>2 DEF IsSum
<1> QED BY <1>3, <1>4, SumIs
-------------------------------------------------------------------------------
(* Powers of two, and the bits of a number.                                *)

IsPower(f, m) ==
  /\ f \in [0 .. m -> Nat \ {0}] /\ f[0] = 1
  /\ \A k \in 1 .. m : f[k] = 2 * f[k - 1]

\* The powers of two up to a bound exist.
LEMMA PowersExist ==
  ASSUME NEW m \in Nat
  PROVE  \E f : IsPower(f, m)
<1> DEFINE S == {n \in 0 .. m : \E f : IsPower(f, n)}
<1>1. 0 \in S
  <2> DEFINE f == [k \in 0 .. 0 |-> 1]
  <2>1. f \in [0 .. 0 -> Nat \ {0}]
    OBVIOUS
  <2>2. f[0] = 1 /\ 1 .. 0 = {}
    OBVIOUS
  <2> HIDE DEF f
  <2>3. IsPower(f, 0)
    BY <2>1, <2>2 DEF IsPower
  <2> QED BY <2>3
<1>2. \A n \in 0 .. m - 1 : n \in S => n + 1 \in S
  <2> SUFFICES ASSUME NEW n \in 0 .. m - 1, n \in S PROVE n + 1 \in S
    OBVIOUS
  <2>1. PICK f : IsPower(f, n)
    OBVIOUS
  <2> DEFINE g == [k \in 0 .. n + 1 |-> IF k = n + 1 THEN 2 * f[n] ELSE f[k]]
  <2>2. n \in Nat /\ n + 1 \in 0 .. m /\ f \in [0 .. n -> Nat \ {0}] /\ f[n] \in Nat \ {0}
    BY <2>1 DEF IsPower
  <2>3. g \in [0 .. n + 1 -> Nat \ {0}]
    BY <2>2
  <2>4. g[0] = 1
    BY <2>1, <2>2 DEF IsPower
  <2>5. ASSUME NEW k \in 1 .. n + 1 PROVE g[k] = 2 * g[k - 1]
    <3>1. CASE k = n + 1
      <4>1. g[k] = 2 * f[n] /\ g[k - 1] = f[n]
        BY <2>2, <3>1
      <4> QED BY <3>1, <4>1
    <3>2. CASE k # n + 1
      <4>1. k \in 1 .. n /\ k - 1 \in 0 .. n + 1 /\ k - 1 # n + 1
        BY <2>2, <3>2
      <4>2. g[k] = f[k] /\ g[k - 1] = f[k - 1]
        BY <3>2, <4>1
      <4> QED BY <2>1, <4>1, <4>2 DEF IsPower
    <3> QED BY <3>1, <3>2
  <2> HIDE DEF g
  <2>6. IsPower(g, n + 1)
    BY <2>3, <2>4, <2>5 DEF IsPower
  <2> QED BY <2>2, <2>6
<1> HIDE DEF S
<1>3. m \in 0 .. m /\ \A n \in 0 .. m : n \in S
  <2>1. \A n \in 0 .. m : n \in S
    BY <1>1, <1>2, InductionUpTo, Zenon
  <2> QED BY <2>1
<1> QED BY <1>3 DEF S

\* Power, defined as a recursive function, holds the powers of two.
LEMMA PowerIs == IsPower(Power, RidBits)
<1>1. RidBits \in Nat
  BY PackingAssumption
<1>2. PICK f : IsPower(f, RidBits)
  BY <1>1, PowersExist
<1>3. f = [n \in 0 .. RidBits |-> IF n = 0 THEN 1 ELSE 2 * f[n - 1]]
  <2>1. \A k \in 0 .. RidBits : k = 0 \/ k \in 1 .. RidBits
    BY <1>1
  <2>2. \A k \in 0 .. RidBits : f[k] = IF k = 0 THEN 1 ELSE 2 * f[k - 1]
    BY <1>2, <2>1 DEF IsPower
  <2> QED BY <1>2, <2>2 DEF IsPower
<1>4. Power = [n \in 0 .. RidBits |-> IF n = 0 THEN 1 ELSE 2 * Power[n - 1]]
  BY <1>3 DEF Power
<1> DEFINE S == {n \in 0 .. RidBits : Power[n] = f[n]}
<1>5. 0 \in S
  BY <1>1, <1>3, <1>4
<1>6. \A n \in 0 .. RidBits - 1 : n \in S => n + 1 \in S
  <2> SUFFICES ASSUME NEW n \in 0 .. RidBits - 1, Power[n] = f[n] PROVE n + 1 \in S
    OBVIOUS
  <2>1. n + 1 \in 0 .. RidBits /\ n + 1 # 0 /\ (n + 1) - 1 = n
    BY <1>1
  <2>2. Power[n + 1] = 2 * Power[n]
    BY <1>4, <2>1
  <2>3. f[n + 1] = 2 * f[n]
    BY <1>3, <2>1
  <2> QED BY <2>1, <2>2, <2>3
<1> HIDE DEF S
<1>7. \A n \in 0 .. RidBits : n \in S
  BY <1>1, <1>5, <1>6, InductionUpTo
<1>8. \A n \in 0 .. RidBits : Power[n] = f[n]
  BY <1>7 DEF S
<1>9. Power = f
  BY <1>2, <1>4, <1>8 DEF IsPower
<1> QED BY <1>2, <1>9

-------------------------------------------------------------------------------
(* The bits of a number.                                                   *)

\* What the proofs need of the powers: each is positive and twice the one
\* before, the first is 1.
LEMMA Powers ==
  /\ \A i \in 0 .. RidBits : Power[i] \in Nat \ {0}
  /\ \A i \in 1 .. RidBits : Power[i] = 2 * Power[i - 1]
  /\ Power[0] = 1 /\ RidLimit \in Nat \ {0} /\ RidBits \in Nat
<1>1. RidBits \in Nat /\ RidBits \in 0 .. RidBits
  BY PackingAssumption
<1> QED BY <1>1, PowerIs DEF IsPower, RidLimit

\* Powers of two rise with their exponent.
LEMMA PowersRise ==
  ASSUME NEW i \in 0 .. RidBits, NEW j \in 0 .. RidBits, i <= j
  PROVE  Power[i] <= Power[j]
<1> DEFINE S == {k \in 0 .. RidBits - i : Power[i] <= Power[i + k]}
<1>1. RidBits \in Nat /\ RidBits - i \in Nat /\ i + 0 = i /\ Power[i] \in Nat
  BY Powers
<1>2. 0 \in S
  BY <1>1
<1>3. \A k \in 0 .. RidBits - i - 1 : k \in S => k + 1 \in S
  <2> SUFFICES ASSUME NEW k \in 0 .. RidBits - i - 1, Power[i] <= Power[i + k]
               PROVE  k + 1 \in S
    OBVIOUS
  <2>1. i + (k + 1) \in 1 .. RidBits /\ (i + (k + 1)) - 1 = i + k /\ i + k \in 0 .. RidBits
        /\ k + 1 \in 0 .. RidBits - i
    BY <1>1
  <2>2. Power[i + (k + 1)] = 2 * Power[i + k] /\ Power[i + k] \in Nat
    BY <2>1, Powers
  <2>3. Power[i] <= Power[i + (k + 1)]
    BY <1>1, <2>2
  <2> QED BY <2>1, <2>3
<1> HIDE DEF S
<1>4. \A k \in 0 .. RidBits - i : k \in S
  <2> DEFINE m == RidBits - i
  <2>1. m \in Nat /\ \A k \in 0 .. m - 1 : k \in S => k + 1 \in S
    BY <1>1, <1>3
  <2> HIDE DEF m
  <2>2. \A k \in 0 .. m : k \in S
    BY <1>2, <2>1, InductionUpTo, Zenon
  <2> QED BY <2>2 DEF m
<1>5. j - i \in 0 .. RidBits - i /\ i + (j - i) = j
  BY <1>1
<1> QED BY <1>4, <1>5 DEF S

\* One bit more of a number.
LEMMA OneMoreBit ==
  ASSUME NEW P \in Nat \ {0}, NEW d \in Nat
  PROVE  d % (2 * P) = (d % P) + (IF (d \div P) % 2 = 1 THEN P ELSE 0)
<1> DEFINE q == d \div P
           r == d % P
           h == q \div 2
           e == q % 2
<1>1. q \in Nat /\ r \in 0 .. P - 1 /\ d = q * P + r
  BY Divided
<1>2. h \in Nat /\ e \in 0 .. 1 /\ q = h * 2 + e
  BY <1>1, Divided
<1> HIDE DEF q, r, h, e
<1>3. q * P = h * (2 * P) + e * P
  <2>1. (h * 2 + e) * P = h * (2 * P) + e * P
    BY <1>2
  <2> QED BY <1>2, <2>1
<1>4. e * P = (IF e = 1 THEN P ELSE 0)
  <2>1. CASE e = 0
    BY <2>1
  <2>2. CASE e = 1
    BY <2>2
  <2> QED BY <1>2, <2>1, <2>2
<1> DEFINE x == (IF e = 1 THEN P ELSE 0) + r
           N == 2 * P
<1>5. x \in 0 .. N - 1 /\ N \in Nat \ {0}
  BY <1>1
<1>6. d = h * N + x
  <2>1. h * (2 * P) \in Int
    BY <1>2
  <2> QED BY <1>1, <1>3, <1>4, <2>1
<1>7. x = r + (IF e = 1 THEN P ELSE 0)
  BY <1>1
<1> HIDE DEF x
<1>8. d % N = x
  <2> HIDE DEF N
  <2> QED BY <1>2, <1>5, <1>6, QuotientAndRemainder
<1> QED BY <1>7, <1>8 DEF r, e, q

\* A number is the number of its bits.
LEMMA NumberOfBits ==
  ASSUME NEW d \in 0 .. RidLimit - 1
  PROVE  NumberOf(BitsOf(d)) = d
<1> DEFINE s == [j \in 1 .. RidBits |-> IF j - 1 \in BitsOf(d) THEN Power[j - 1] ELSE 0]
           f == [j \in 0 .. RidBits |-> d % Power[j]]
<1>1. RidBits \in Nat /\ d \in Nat
  BY Powers
<1>2. f \in [0 .. RidBits -> Int] /\ f[0] = 0
  <2>1. \A j \in 0 .. RidBits : d % Power[j] \in Int
    BY <1>1, Powers, Divided
  <2>2. Power[0] = 1 /\ d % 1 = 0 /\ 0 \in 0 .. RidBits
    BY <1>1, Powers
  <2> QED BY <2>1, <2>2
<1>3. ASSUME NEW j \in 1 .. RidBits PROVE f[j] = f[j - 1] + s[j]
  <2>1. j - 1 \in 0 .. RidBits /\ j \in 0 .. RidBits /\ j - 1 \in 0 .. RidBits - 1
    BY <1>1
  <2>2. Power[j] = 2 * Power[j - 1] /\ Power[j - 1] \in Nat \ {0}
    BY <2>1, Powers
  <2>3. d % Power[j] = (d % Power[j - 1])
                         + (IF (d \div Power[j - 1]) % 2 = 1 THEN Power[j - 1] ELSE 0)
    BY <1>1, <2>2, OneMoreBit
  <2>4. j - 1 \in BitsOf(d) <=> (d \div Power[j - 1]) % 2 = 1
    BY <2>1 DEF BitsOf
  <2> QED BY <2>1, <2>3, <2>4
<1>4. Len(s) = RidBits
  BY <1>1
<1>5. f[RidBits] = d
  <2>1. f[RidBits] = d % RidLimit
    BY <1>1 DEF RidLimit
  <2> QED BY <2>1, Powers, SmallRemainder
<1>6. SumOf(s) = f[RidBits]
  <2> HIDE DEF s, f
  <2>1. IsSum(f, RidBits, s)
    BY <1>2, <1>3 DEF IsSum
  <2> QED BY <1>1, <1>4, <2>1, SumIs
<1> QED BY <1>5, <1>6 DEF NumberOf

\* A number below a power of two has no bit at or above its exponent.
LEMMA BitsBelow ==
  ASSUME NEW w \in 0 .. RidBits, NEW d \in Nat, d < Power[w]
  PROVE  BitsOf(d) \subseteq 0 .. w - 1
<1> SUFFICES ASSUME NEW j \in 0 .. RidBits - 1, (d \div Power[j]) % 2 = 1, w <= j
             PROVE  FALSE
  BY Powers DEF BitsOf
<1>1. j \in 0 .. RidBits /\ Power[w] <= Power[j] /\ Power[j] \in Nat \ {0} /\ Power[w] \in Nat
  BY Powers, PowersRise
<1>2. d \in 0 .. Power[j] - 1 /\ d = 0 * Power[j] + d
  BY <1>1
<1>3. d \div Power[j] = 0
  <2> DEFINE P == Power[j]
  <2>1. P \in Nat \ {0} /\ d \in 0 .. P - 1 /\ d = 0 * P + d /\ 0 \in Int
    BY <1>1, <1>2
  <2> HIDE DEF P
  <2>2. d \div P = 0
    BY <2>1, QuotientAndRemainder
  <2> QED BY <2>2 DEF P
<1> QED BY <1>3

-------------------------------------------------------------------------------
(* Members of a set of positions in their order.                           *)

\* A set of positions of a batch is finite and no greater than the batch.
LEMMA PositionsFinite ==
  ASSUME NEW ps \in SUBSET Elements
  PROVE  IsFiniteSet(ps) /\ Cardinality(ps) \in Nat /\ Cardinality(ps) <= BatchSize
<1>1. BatchSize \in Nat \ {0} /\ 0 \in Int /\ BatchSize - 1 \in Int
  BY PackingAssumption
<1>2. IsFiniteSet(Elements) /\ Cardinality(Elements) = BatchSize
  <2>1. Elements = 0 .. BatchSize - 1
    BY DEF Elements
  <2>2. IsFiniteSet(0 .. BatchSize - 1)
        /\ Cardinality(0 .. BatchSize - 1) = IF 0 > BatchSize - 1 THEN 0 ELSE (BatchSize - 1) - 0 + 1
    BY <1>1, FS_Interval
  <2> QED BY <1>1, <2>1, <2>2
<1> QED BY <1>2, FS_Subset, FS_CardinalityType

\* The rank of a position is within the set's size and rises with the position.
LEMMA RankInOrder ==
  ASSUME NEW ps \in SUBSET Elements, NEW i \in ps
  PROVE  /\ Rank(ps, i) \in 1 .. Cardinality(ps)
         /\ \A j \in ps : i < j => Rank(ps, i) < Rank(ps, j)
<1> DEFINE upTo(j) == {h \in ps : h <= j}
<1>1. ASSUME NEW j \in ps
      PROVE  /\ IsFiniteSet(upTo(j)) /\ Cardinality(upTo(j)) \in Nat
             /\ Cardinality(upTo(j)) <= Cardinality(ps) /\ Cardinality(ps) \in Nat
             /\ upTo(j) # {} /\ Cardinality(upTo(j)) # 0
  <2>1. upTo(j) \in SUBSET ps /\ upTo(j) \in SUBSET Elements
    OBVIOUS
  <2>2. j \in upTo(j)
    BY DEF Elements
  <2> HIDE DEF upTo
  <2> QED BY <2>1, <2>2, PositionsFinite, FS_Subset, FS_EmptySet
<1>2. Rank(ps, i) \in 1 .. Cardinality(ps)
  <2>1. Rank(ps, i) = Cardinality(upTo(i))
    BY DEF Rank
  <2> HIDE DEF upTo
  <2> QED BY <1>1, <2>1
<1>3. ASSUME NEW j \in ps, i < j PROVE Rank(ps, i) < Rank(ps, j)
  <2>1. upTo(i) \in SUBSET upTo(j)
    <3>1. \A h \in ps : h \in Int
      BY PackingAssumption DEF Elements
    <3>2. \A h \in ps : h <= i => h <= j
      BY <1>3, <3>1
    <3> QED BY <3>2
  <2>2. j \in upTo(j) /\ j \notin upTo(i)
    BY <1>3 DEF Elements
  <2>3. Rank(ps, i) = Cardinality(upTo(i)) /\ Rank(ps, j) = Cardinality(upTo(j))
    BY DEF Rank
  <2> HIDE DEF upTo
  <2>4. Cardinality(upTo(i)) <= Cardinality(upTo(j)) /\ Cardinality(upTo(i)) # Cardinality(upTo(j))
    BY <1>1, <2>1, <2>2, FS_Subset
  <2> QED BY <1>1, <2>3, <2>4
<1> QED BY <1>2, <1>3

\* Positions of the same rank are the same.
LEMMA OneRank ==
  ASSUME NEW ps \in SUBSET Elements, NEW i \in ps, NEW j \in ps, Rank(ps, i) = Rank(ps, j)
  PROVE  i = j
<1>1. i \in Int /\ j \in Int
  BY DEF Elements
<1>2. /\ i < j => Rank(ps, i) < Rank(ps, j)
      /\ j < i => Rank(ps, j) < Rank(ps, i)
      /\ Rank(ps, i) \in Int /\ Rank(ps, j) \in Int
  BY RankInOrder
<1> QED BY <1>1, <1>2

\* The ordered sequence holds a position at its rank.
LEMMA OrderedAtRank ==
  ASSUME NEW ps \in SUBSET Elements, NEW i \in ps
  PROVE  Ordered(ps)[Rank(ps, i)] = i
<1>1. Rank(ps, i) \in 1 .. Cardinality(ps)
  BY RankInOrder
<1>2. \A j \in ps : Rank(ps, j) = Rank(ps, i) => j = i
  BY OneRank
<1>3. (CHOOSE j \in ps : Rank(ps, j) = Rank(ps, i)) = i
  BY <1>2
<1> QED BY <1>1, <1>3 DEF Ordered

\* Every rank is taken by one position, and the ordered sequence rises.
LEMMA EveryRankTaken ==
  ASSUME NEW ps \in SUBSET Elements, NEW k \in 1 .. Cardinality(ps)
  PROVE  /\ Ordered(ps)[k] \in ps /\ Rank(ps, Ordered(ps)[k]) = k
         /\ \A l \in 1 .. Cardinality(ps) : k < l => Ordered(ps)[k] < Ordered(ps)[l]
<1> DEFINE n == Cardinality(ps)
           f == [i \in ps |-> Rank(ps, i)]
<1>1. IsFiniteSet(ps) /\ n \in Nat
  BY PositionsFinite
<1>2. f \in [ps -> 1 .. n]
  BY RankInOrder
<1>3. f \in Injection(ps, 1 .. n)
  <2>1. \A i, j \in ps : f[i] = f[j] => i = j
    BY OneRank
  <2> QED BY <1>2, <2>1 DEF Injection, IsInjective
<1>4. IsFiniteSet(1 .. n) /\ Cardinality(1 .. n) = n
  <2>1. Cardinality(1 .. n) = IF 1 > n THEN 0 ELSE n - 1 + 1
    BY <1>1, FS_Interval
  <2>2. IsFiniteSet(1 .. n)
    BY <1>1, FS_Interval
  <2> QED BY <1>1, <2>1, <2>2
<1>5. f \in Surjection(ps, 1 .. n)
  <2> HIDE DEF f
  <2>1. Cardinality(ps) = Cardinality(1 .. n)
    BY <1>4
  <2> QED BY <1>3, <1>4, <2>1, FS_Injection
<1>6. \A l \in 1 .. n : \E i \in ps : Rank(ps, i) = l
  BY <1>5 DEF Surjection
<1>7. ASSUME NEW l \in 1 .. n
      PROVE  Ordered(ps)[l] \in ps /\ Rank(ps, Ordered(ps)[l]) = l
  <2>1. Ordered(ps)[l] = CHOOSE i \in ps : Rank(ps, i) = l
    BY DEF Ordered
  <2> QED BY <1>6, <2>1
<1>8. ASSUME NEW l \in 1 .. n, k < l PROVE Ordered(ps)[k] < Ordered(ps)[l]
  <2> DEFINE a == Ordered(ps)[k]
             b == Ordered(ps)[l]
  <2>1. a \in ps /\ b \in ps /\ Rank(ps, a) = k /\ Rank(ps, b) = l
    BY <1>7
  <2>2. a \in Int /\ b \in Int
    <3>1. Elements \subseteq Int
      BY PackingAssumption DEF Elements
    <3> QED BY <2>1, <3>1
  <2> HIDE DEF a, b
  <2>3. b < a => l < k
    BY <2>1, RankInOrder
  <2>4. a # b
    BY <1>8, <2>1, <1>1
  <2>5. k \in Int /\ l \in Int
    BY <1>1
  <2>6. a < b
    BY <2>2, <2>3, <2>4, <2>5, <1>8
  <2> QED BY <2>6 DEF a, b
<1> QED BY <1>7, <1>8

-------------------------------------------------------------------------------
(* Exceptions, from the end of a batch.                                    *)

\* The assumptions on the constants, in the form the proofs cite.
LEMMA BatchShape ==
  /\ BatchSize \in Nat \ {0} /\ WordBits \in Nat \ {0} /\ ByteBits \in Nat \ {0}
  /\ WordBytes \in Nat \ {0} /\ RidBits \in Nat \ {0}
  /\ RidBits = 4 * ByteBits /\ RidBits <= 32 /\ WordBits = WordBytes * ByteBits
  /\ Elements = 0 .. BatchSize - 1
BY PackingAssumption, BatchAssumption DEF Elements

\* Slots of S bits counted from an end do not overlap.
LEMMA OnePlaceFromEnd ==
  ASSUME NEW S \in Nat, NEW x \in Nat, NEW y \in Nat, NEW a \in 0 .. S - 1, NEW b \in 0 .. S - 1,
         NEW end \in Int, end - x * S + a = end - y * S + b
  PROVE  x = y /\ a = b
<1> DEFINE xS == x * S
           yS == y * S
<1>1. xS \in Int /\ yS \in Int /\ a \in Int /\ b \in Int
  OBVIOUS
<1>2. end - xS + a = end - yS + b
  OBVIOUS
<1> HIDE DEF xS, yS
<1>3. xS + b = yS + a
  BY <1>1, <1>2
<1>4. x * S + b = y * S + a
  BY <1>3 DEF xS, yS
<1> QED BY <1>4, OnePlace


\* Bits written for every value S bits further from the end than for the last.
FromEnd(values, m, S, end) ==
  UNION {{end - l * S + i : i \in BitsOf(values[l])} : l \in 1 .. m}

\* A bit of a slot counted from the end is set exactly when it is set in the
\* value the slot holds.
LEMMA FromEndBit ==
  ASSUME NEW S \in 1 .. RidBits, NEW m \in Nat, NEW values,
         \A k \in 1 .. m : values[k] \in Nat /\ values[k] < Power[S],
         NEW end \in Nat, NEW k \in 1 .. m, NEW j \in 0 .. S - 1
  PROVE  /\ end - k * S + j \in FromEnd(values, m, S, end) <=> j \in BitsOf(values[k])
         /\ end - k * S + j \in Int /\ end - k * S + j >= end - m * S
<1> DEFINE p == end - k * S + j
<1>1. S \in Nat \ {0} /\ S \in 0 .. RidBits /\ k * S \in Nat /\ m * S \in Nat /\ k * S <= m * S
  <2>1. k < m => k * S + S <= m * S
    BY BatchShape, NextMultiple
  <2>2. k * S \in Nat /\ m * S \in Nat /\ S \in Nat
    BY BatchShape
  <2>3. k = m => k * S = m * S
    OBVIOUS
  <2> QED BY <2>1, <2>2, <2>3, BatchShape
<1>2. ASSUME NEW l \in 1 .. m, NEW i \in BitsOf(values[l]), p = end - l * S + i
      PROVE  l = k /\ i = j
  <2>1. i \in 0 .. S - 1
    BY <1>1, BitsBelow
  <2>2. l \in Nat /\ k \in Nat /\ S \in Nat
    BY <1>1
  <2>3. end - l * S + i = end - k * S + j /\ end \in Int
    BY <1>2
  <2> QED BY <2>1, <2>2, <2>3, OnePlaceFromEnd
<1>3. p \in FromEnd(values, m, S, end) <=> \E l \in 1 .. m : \E i \in BitsOf(values[l]) : p = end - l * S + i
  <2> HIDE DEF p
  <2> QED BY DEF FromEnd
<1>4. j \in BitsOf(values[k]) => \E l \in 1 .. m : \E i \in BitsOf(values[l]) : p = end - l * S + i
  OBVIOUS
<1>5. p \in Int /\ p >= end - m * S
  <2> DEFINE a == k * S
             b == m * S
  <2>1. a \in Nat /\ b \in Nat /\ a <= b /\ j \in Nat
    BY <1>1
  <2>2. p = end - a + j
    OBVIOUS
  <2> HIDE DEF a, b, p
  <2>3. p \in Int /\ p >= end - b
    BY <2>1, <2>2
  <2> QED BY <2>3 DEF b
<1> HIDE DEF p
<1>6. p \in FromEnd(values, m, S, end) <=> j \in BitsOf(values[k])
  BY <1>2, <1>3, <1>4
<1> QED BY <1>5, <1>6 DEF p

\* encode_as_typed_exceptions writes each value in its slot from the end.
LEMMA ExceptionsFromEnd ==
  ASSUME NEW size \in Nat \ {0}, size * ByteBits \in 1 .. RidBits,
         NEW m \in Nat, NEW values, DOMAIN values = 1 .. m,
         \A k \in 1 .. m : values[k] \in Nat /\ values[k] < Power[size * ByteBits],
         NEW end \in Nat
  PROVE  encode_as_typed_exceptions(values, size, end) = FromEnd(values, m, size * ByteBits, end)
<1> DEFINE S == size * ByteBits
<1>1. ASSUME NEW l \in 1 .. m
      PROVE  {end - l * size * ByteBits + i : i \in BitsOf(values[l]) \cap (0 .. size * ByteBits - 1)}
               = {end - l * S + i : i \in BitsOf(values[l])}
  <2>1. l * size * ByteBits = l * S
    BY BatchShape
  <2>2. BitsOf(values[l]) \cap (0 .. size * ByteBits - 1) = BitsOf(values[l])
    <3>1. BitsOf(values[l]) \subseteq 0 .. S - 1
      BY BitsBelow
    <3> QED BY <3>1
  <2> QED BY <2>1, <2>2
<1>2. {{end - l * size * ByteBits + i : i \in BitsOf(values[l]) \cap (0 .. size * ByteBits - 1)} :
           l \in 1 .. m}
        = {{end - l * S + i : i \in BitsOf(values[l])} : l \in 1 .. m}
  <2> DEFINE written(l) == {end - l * size * ByteBits + i :
                              i \in BitsOf(values[l]) \cap (0 .. size * ByteBits - 1)}
             placed(l) == {end - l * S + i : i \in BitsOf(values[l])}
  <2>1. \A l \in 1 .. m : written(l) = placed(l)
    BY <1>1
  <2> HIDE DEF written, placed
  <2>2. {written(l) : l \in 1 .. m} = {placed(l) : l \in 1 .. m}
    BY <2>1
  <2> QED BY <2>2 DEF written, placed
<1>3. encode_as_typed_exceptions(values, size, end)
        = UNION {{end - l * size * ByteBits + i : i \in BitsOf(values[l]) \cap (0 .. size * ByteBits - 1)} :
                   l \in DOMAIN values}
  BY Zenon DEF encode_as_typed_exceptions
<1>4. FromEnd(values, m, S, end) = UNION {{end - l * S + i : i \in BitsOf(values[l])} : l \in 1 .. m}
  BY Zenon DEF FromEnd
<1> QED BY <1>2, <1>3, <1>4, Zenon

\* A batch with m exceptions behind what is packed.
ExceptionsWritten(batch, packed, values, m, size, end) ==
  /\ size \in Nat \ {0} /\ size * ByteBits \in 1 .. RidBits
  /\ m \in Nat /\ DOMAIN values = 1 .. m
  /\ \A k \in 1 .. m : values[k] \in Nat /\ values[k] < Power[size * ByteBits]
  /\ end \in Nat /\ \A p \in packed : p \in Int /\ p < end - m * (size * ByteBits)
  /\ batch.exception_size = size /\ BodyBits(batch) = end
  /\ batch.body = packed \cup encode_as_typed_exceptions(values, size, end)

\* decode_as_typed_exceptions reads the k-th value from the end as it was
\* written.
LEMMA ExceptionRead ==
  ASSUME NEW batch, NEW packed, NEW values, NEW m, NEW size, NEW end,
         ExceptionsWritten(batch, packed, values, m, size, end), NEW k \in 1 .. m
  PROVE  decode_as_typed_exceptions(batch, k) = values[k]
<1> USE DEF ExceptionsWritten
<1> DEFINE S == size * ByteBits
<1>1. batch.body = packed \cup FromEnd(values, m, S, end)
  <2>1. encode_as_typed_exceptions(values, size, end) = FromEnd(values, m, S, end)
    BY ExceptionsFromEnd
  <2> QED BY <2>1
<1>2. decode_as_typed_exceptions(batch, k)
        = NumberOf({j \in 0 .. S - 1 : end - k * S + j \in batch.body})
  <2>1. decode_as_typed_exceptions(batch, k)
          = NumberOf({j \in 0 .. size * ByteBits - 1 :
                        end - k * size * ByteBits + j \in batch.body})
    BY DEF decode_as_typed_exceptions
  <2>2. k * size * ByteBits = k * S
    BY BatchShape
  <2> QED BY <2>1, <2>2
<1>3. S \in 1 .. RidBits /\ \A l \in 1 .. m : values[l] \in Nat /\ values[l] < Power[S]
  OBVIOUS
<1>4. \A p \in packed : p \in Int /\ p < end - m * S
  OBVIOUS
<1> HIDE DEF S
<1>5. ASSUME NEW j \in 0 .. S - 1
      PROVE  end - k * S + j \in batch.body <=> j \in BitsOf(values[k])
  <2> DEFINE p == end - k * S + j
  <2>1. /\ p \in FromEnd(values, m, S, end) <=> j \in BitsOf(values[k])
        /\ p \in Int /\ p >= end - m * S
    BY <1>3, FromEndBit
  <2> HIDE DEF p
  <2>2. end - m * S \in Int
    BY <1>3, BatchShape
  <2>3. p \notin packed
    <3> DEFINE e == end - m * S
    <3>1. e \in Int /\ p \in Int /\ p >= e /\ \A q \in packed : q \in Int /\ q < e
      BY <1>4, <2>1, <2>2
    <3> HIDE DEF e
    <3> QED BY <3>1
  <2>4. p \in batch.body <=> j \in BitsOf(values[k])
    BY <1>1, <2>1, <2>3
  <2> QED BY <2>4 DEF p
<1>6. {j \in 0 .. S - 1 : end - k * S + j \in batch.body} = BitsOf(values[k])
  <2>1. BitsOf(values[k]) \subseteq 0 .. S - 1
    <3>1. S \in 0 .. RidBits /\ values[k] \in Nat /\ values[k] < Power[S]
      BY <1>3, BatchShape
    <3> QED BY ONLY <3>1, BitsBelow
  <2> QED BY <2>1, <1>5
<1>7. values[k] \in 0 .. RidLimit - 1
  <2>1. Power[S] <= RidLimit /\ Power[S] \in Nat /\ RidLimit \in Nat
    BY <1>3, BatchShape, Powers, PowersRise DEF RidLimit
  <2> QED BY <1>3, <2>1
<1> QED BY <1>2, <1>6, <1>7, NumberOfBits

-------------------------------------------------------------------------------
(* What is packed is read back, whatever the exceptions at the end are.    *)

\* A difference of RIDs is a natural number of RidBits bits.
LEMMA RidDifference ==
  ASSUME NEW d \in 0 .. RidLimit - 1
  PROVE  d \in Nat /\ BitsOf(d) \subseteq 0 .. RidBits - 1
BY Powers DEF BitsOf

\* The whole words of a batch.
LEMMA WholeWords ==
  ASSUME NEW w \in Widths
  PROVE  /\ (w * BatchSize) \div ByteBits \in Nat
         /\ ((w * BatchSize) \div ByteBits) * ByteBits = w * BatchSize
         /\ ((BatchSize \div WordBits) * w) * WordBits = w * BatchSize
         /\ (BatchSize \div WordBits) * w \in Nat
<1>1. /\ BatchSize \in Nat /\ WordBits \in Nat \ {0} /\ ByteBits \in Nat \ {0} /\ WordBytes \in Nat
      /\ w \in Nat /\ BatchSize % WordBits = 0 /\ WordBits = WordBytes * ByteBits
  BY BatchShape, PackingAssumption DEF Widths
<1> DEFINE q == BatchSize \div WordBits
<1>2. q \in Nat /\ BatchSize = q * WordBits
  <2>1. q \in Nat /\ BatchSize = q * WordBits + (BatchSize % WordBits)
    <3>1. BatchSize \in Nat /\ WordBits \in Nat \ {0}
      BY <1>1
    <3> QED BY ONLY <3>1, Divided
  <2>2. q * WordBits \in Nat
    BY <1>1, <2>1
  <2> QED BY <1>1, <2>1, <2>2
<1> HIDE DEF q
<1> DEFINE k == w * q * WordBytes
<1>3. k \in Nat /\ w * BatchSize = k * ByteBits
  <2>1. w * (q * (WordBytes * ByteBits)) = (w * q * WordBytes) * ByteBits
    BY <1>1, <1>2, SMTT(30)
  <2>2. w * q * WordBytes \in Nat
    BY <1>1, <1>2
  <2>3. BatchSize = q * (WordBytes * ByteBits)
    BY <1>1, <1>2
  <2> QED BY <2>1, <2>2, <2>3
<1>4. q * w \in Nat /\ (q * w) * WordBits = w * BatchSize
  <2>1. (q * w) * WordBits = w * (q * WordBits)
    BY <1>1, <1>2
  <2> QED BY <1>1, <1>2, <2>1
<1> HIDE DEF k
<1>5. (w * BatchSize) \div ByteBits = k
  <2> DEFINE x == w * BatchSize
  <2>1. x = k * ByteBits + 0 /\ 0 \in 0 .. ByteBits - 1
    BY <1>1, <1>3
  <2> HIDE DEF x
  <2>2. x \div ByteBits = k
    BY <1>1, <1>3, <2>1, QuotientAndRemainder
  <2> QED BY <2>2 DEF x
<1> QED BY <1>3, <1>4, <1>5 DEF q

\* The bits of the packed words stand at different positions of the body.
LEMMA OnePosition ==
  ASSUME NEW k \in Nat, NEW l \in Nat, NEW b \in 0 .. WordBits - 1, NEW c \in 0 .. WordBits - 1,
         Position(k, b) = Position(l, c)
  PROVE  k = l /\ b = c
<1>1. k * WordBits + b = l * WordBits + c /\ WordBits \in Nat
  BY BatchShape DEF Position
<1> QED BY <1>1, OnePlace

\* Packing a batch at a width that all its values fit puts every bit below
\* w * BatchSize, where the packed words of the width have it.
LEMMA PackedPositions ==
  ASSUME NEW w \in Widths, NEW ds \in [Elements -> 0 .. RidLimit - 1],
         \A i \in Elements : ds[i] < Power[w]
  PROVE  LET bits == [i \in Elements |-> BitsOf(ds[i])] IN
         /\ bits \in [Elements -> SUBSET Nat] /\ Fits(w, bits)
         /\ fixed_length_encode(w, bits) = Pack(w, bits)
         /\ \A p \in Packed(w, ds) : p \in Nat /\ p < w * BatchSize
         /\ \A k \in Words(w) : \A b \in 0 .. WordBits - 1 :
              /\ Position(k, b) \in Nat /\ Position(k, b) < w * BatchSize
              /\ Position(k, b) \in Packed(w, ds) <=> b \in Pack(w, bits)[k]
<1> DEFINE bits == [i \in Elements |-> BitsOf(ds[i])]
<1>1. bits \in [Elements -> SUBSET Nat] /\ Fits(w, bits)
  <2>1. ASSUME NEW i \in Elements PROVE BitsOf(ds[i]) \subseteq 0 .. w - 1 /\ BitsOf(ds[i]) \in SUBSET Nat
    <3>1. ds[i] \in Nat /\ ds[i] < Power[w]
      BY RidDifference
    <3>2. w \in 0 .. RidBits /\ w \in Nat
      BY BatchShape DEF Widths
    <3>3. BitsOf(ds[i]) \subseteq 0 .. w - 1
      BY <3>1, <3>2, BitsBelow
    <3> QED BY <3>2, <3>3
  <2> QED BY <2>1 DEF Fits, BitsOfWidth
<1>2. fixed_length_encode(w, bits) = Pack(w, bits)
  <2>1. w \in 1 .. 32
    BY BatchShape DEF Widths
  <2> HIDE DEF bits
  <2> QED BY <1>1, <2>1, EncodeTable DEF fixed_length_encode
<1>3. Packed(w, ds) = UNION {{Position(k, b) : b \in Pack(w, bits)[k]} : k \in Words(w)}
  BY <1>2 DEF Packed
<1>4. \A k \in Words(w) : Pack(w, bits)[k] \subseteq 0 .. WordBits - 1
  BY DEF Pack
<1> HIDE DEF bits
<1> DEFINE m == (BatchSize \div WordBits) * w
<1>5. m \in Nat /\ m * WordBits = w * BatchSize /\ Words(w) = 0 .. m - 1 /\ WordBits \in Nat \ {0}
  BY WholeWords, BatchShape DEF Words
<1> HIDE DEF m
<1>6. ASSUME NEW k \in Words(w), NEW b \in 0 .. WordBits - 1
      PROVE  Position(k, b) \in Nat /\ Position(k, b) < w * BatchSize
  <2>1. k * WordBits + WordBits <= m * WordBits
    <3>1. k \in Int /\ m \in Int /\ k < m /\ WordBits \in Nat
      BY <1>5
    <3> QED BY <3>1, NextMultiple
  <2>2. k * WordBits \in Nat /\ m * WordBits \in Nat
    BY <1>5
  <2>3. Position(k, b) = k * WordBits + b
    BY DEF Position
  <2> QED BY <1>5, <2>1, <2>2, <2>3
<1>7. \A p \in Packed(w, ds) : p \in Nat /\ p < w * BatchSize
  <2> SUFFICES ASSUME NEW p \in Packed(w, ds) PROVE p \in Nat /\ p < w * BatchSize
    OBVIOUS
  <2>1. PICK k \in Words(w) : p \in {Position(k, b) : b \in Pack(w, bits)[k]}
    BY <1>3
  <2>2. PICK b \in Pack(w, bits)[k] : p = Position(k, b)
    BY <2>1
  <2> QED BY <1>4, <1>6, <2>2
<1>8. ASSUME NEW k \in Words(w), NEW b \in 0 .. WordBits - 1
      PROVE  Position(k, b) \in Packed(w, ds) <=> b \in Pack(w, bits)[k]
  <2>1. ASSUME NEW l \in Words(w), NEW c \in Pack(w, bits)[l], Position(k, b) = Position(l, c)
        PROVE  k = l /\ b = c
    <3>1. c \in 0 .. WordBits - 1
      BY <1>4
    <3>2. k \in Nat /\ l \in Nat /\ WordBits \in Nat
      BY <1>5
    <3> QED BY <2>1, <3>1, <3>2, OnePosition
  <2>2. Position(k, b) \in Packed(w, ds)
          <=> \E l \in Words(w) : \E c \in Pack(w, bits)[l] : Position(k, b) = Position(l, c)
    <3> DEFINE p == Position(k, b)
    <3> HIDE DEF p
    <3>1. p \in Packed(w, ds) <=> \E l \in Words(w) : \E c \in Pack(w, bits)[l] : p = Position(l, c)
      BY <1>3
    <3> QED BY <3>1 DEF p
  <2> QED BY <2>1, <2>2
<1>9. bits = [i \in Elements |-> BitsOf(ds[i])]
  BY DEF bits
<1> QED BY <1>1, <1>2, <1>6, <1>7, <1>8, <1>9, Zenon

\* Unpacking reads what was packed, whatever lies beyond it in the body.
LEMMA UnpackedIsPacked ==
  ASSUME NEW w \in Widths, NEW ds \in [Elements -> 0 .. RidLimit - 1],
         \A i \in Elements : ds[i] < Power[w],
         NEW beyond, \A p \in beyond : p \in Int /\ p >= w * BatchSize,
         NEW batch, batch.body = Packed(w, ds) \cup beyond
  PROVE  Unpacked(batch, w) = ds
<1> DEFINE bits == [i \in Elements |-> BitsOf(ds[i])]
<1>1. /\ bits \in [Elements -> SUBSET Nat] /\ Fits(w, bits)
      /\ fixed_length_encode(w, bits) = Pack(w, bits)
      /\ \A k \in Words(w) : \A b \in 0 .. WordBits - 1 :
           /\ Position(k, b) \in Nat /\ Position(k, b) < w * BatchSize
           /\ Position(k, b) \in Packed(w, ds) <=> b \in Pack(w, bits)[k]
  BY PackedPositions
<1>2. \A k \in Words(w) : Pack(w, bits)[k] \subseteq 0 .. WordBits - 1
  BY DEF Pack
<1>3. Pack(w, bits) = [k \in Words(w) |-> Pack(w, bits)[k]]
  BY DEF Pack
<1>4. \A i \in Elements : bits[i] = BitsOf(ds[i])
  OBVIOUS
<1> HIDE DEF bits
<1>5. w * BatchSize \in Int
  BY BatchShape DEF Widths
<1>6. ASSUME NEW k \in Words(w)
      PROVE  {b \in 0 .. WordBits - 1 : Position(k, b) \in batch.body} = Pack(w, bits)[k]
  <2>1. \A b \in 0 .. WordBits - 1 : Position(k, b) \notin beyond
    BY <1>1, <1>5
  <2> QED BY <1>1, <1>2, <2>1
<1>7. Words64(batch, w) = Pack(w, bits)
  <2>1. Words64(batch, w) = [k \in Words(w) |-> Pack(w, bits)[k]]
    BY <1>6 DEF Words64
  <2> QED BY <1>3, <2>1
<1>8. fixed_length_decode(w, Words64(batch, w)) = bits
  <2>1. fixed_length_decode(w, fixed_length_encode(w, bits)) = bits
    BY <1>1, BatchShape, DecodesWhatWasEncoded
  <2> QED BY <1>1, <1>7, <2>1
<1>9. Unpacked(batch, w) = [i \in Elements |-> NumberOf(bits[i])]
  BY <1>8 DEF Unpacked
<1>10. \A i \in Elements : NumberOf(bits[i]) = ds[i]
  BY <1>4, NumberOfBits
<1> QED BY <1>9, <1>10

-------------------------------------------------------------------------------
(* The differences of a batch of RIDs.                                     *)

\* Differences as Deltas gives them for n RIDs, no two neighbours the same.
IsDeltas(ds, n) ==
  /\ n \in 1 .. BatchSize
  /\ ds \in [Elements -> 0 .. RidLimit - 1]
  /\ \A i \in Elements : ds[i] # 0 <=> i \in 1 .. n - 1

\* The size chosen for the exceptions holds every difference of the batch.
LEMMA ValueSizeFits ==
  ASSUME NEW ds \in [Elements -> 0 .. RidLimit - 1]
  PROVE  /\ ValueSize(ds) \in {1, 2, 4}
         /\ ValueSize(ds) * ByteBits \in 1 .. RidBits
         /\ \A i \in Elements : ds[i] \in Nat /\ ds[i] < Power[ValueSize(ds) * ByteBits]
<1>1. /\ ByteBits \in 0 .. RidBits /\ 2 * ByteBits \in 0 .. RidBits /\ 4 * ByteBits = RidBits
      /\ 1 * ByteBits = ByteBits /\ ByteBits \in Nat \ {0}
  BY BatchShape
<1>2. \A i \in Elements : ds[i] \in Nat /\ ds[i] < Power[RidBits]
  BY Powers DEF RidLimit
<1>3. CASE \A i \in Elements : ds[i] < Power[ByteBits]
  <2>1. ValueSize(ds) = 1
    <3>1. ~ \E i \in Elements : ds[i] >= Power[2 * ByteBits]
      <4>1. Power[ByteBits] <= Power[2 * ByteBits] /\ Power[ByteBits] \in Nat /\ Power[2 * ByteBits] \in Nat
        BY <1>1, Powers, PowersRise
      <4> QED BY <1>2, <1>3, <4>1
    <3> QED BY <1>3, <3>1 DEF ValueSize
  <2> QED BY <1>1, <1>2, <1>3, <2>1
<1>4. CASE \E i \in Elements : ds[i] >= Power[2 * ByteBits]
  <2>1. ~ \A i \in Elements : ds[i] < Power[ByteBits]
    <3>1. Power[ByteBits] <= Power[2 * ByteBits] /\ Power[ByteBits] \in Nat /\ Power[2 * ByteBits] \in Nat
      BY <1>1, Powers, PowersRise
    <3> QED BY <1>2, <1>4, <3>1
  <2>2. ValueSize(ds) = 4
    BY <1>4, <2>1 DEF ValueSize
  <2> QED BY <1>1, <1>2, <2>2
<1>5. CASE /\ ~ \A i \in Elements : ds[i] < Power[ByteBits]
           /\ ~ \E i \in Elements : ds[i] >= Power[2 * ByteBits]
  <2>1. ValueSize(ds) = 2
    BY <1>5 DEF ValueSize
  <2>2. \A i \in Elements : ds[i] < Power[2 * ByteBits]
    <3>1. Power[2 * ByteBits] \in Nat
      BY <1>1, Powers
    <3> QED BY <1>2, <1>5, <3>1
  <2> QED BY <1>1, <1>2, <2>1, <2>2
<1> QED BY <1>3, <1>4, <1>5

\* Rounding up to whole words adds less than a word and ends at one.
LEMMA RoundedUp ==
  ASSUME NEW b \in Nat
  PROVE  RoundUp(b) \in Nat /\ RoundUp(b) >= b /\ RoundUp(b) <= b + WordBytes - 1
         /\ RoundUp(b) % WordBytes = 0
<1> DEFINE x == b + WordBytes - 1
           q == x \div WordBytes
           y == q * WordBytes
<1>1. WordBytes \in Nat \ {0} /\ x \in Nat
  BY BatchShape
<1>2. q \in Nat /\ x % WordBytes \in 0 .. WordBytes - 1 /\ x = q * WordBytes + (x % WordBytes)
  <2> HIDE DEF x
  <2> QED BY ONLY <1>1, Divided
<1>3. RoundUp(b) = y
  BY DEF RoundUp
<1>4. y \in Nat
  <2> HIDE DEF q
  <2> QED BY <1>1, <1>2
<1>5. y % WordBytes = 0
  <2>1. y = q * WordBytes + 0 /\ 0 \in 0 .. WordBytes - 1 /\ q \in Int
    BY <1>1, <1>2, <1>4
  <2> HIDE DEF y, q
  <2> QED BY ONLY <1>1, <2>1, QuotientAndRemainder
<1>6. x = y + (x % WordBytes)
  BY <1>2
<1> HIDE DEF y
<1>7. y >= b /\ y <= b + WordBytes - 1
  <2> DEFINE r == x % WordBytes
  <2>1. r \in 0 .. WordBytes - 1 /\ b + WordBytes - 1 = y + r
    BY <1>2, <1>6
  <2> HIDE DEF r
  <2> QED BY <1>1, <1>4, <2>1
<1> QED BY <1>3, <1>4, <1>5, <1>7

\* The sizes of a batch for a width, in bytes and in bits behind the header.
LEMMA SizeOfWidth ==
  ASSUME NEW n, NEW ds, IsDeltas(ds, n), NEW w \in 1 .. RidBits
  PROVE  /\ ExceptionsAt(ds, w) \subseteq 1 .. n - 1
         /\ ExceptionsAt(ds, w) \in SUBSET Elements
         /\ SizeAt(ds, n, w) \in Nat
         /\ (SizeAt(ds, n, w) - WordBytes) * ByteBits \in Nat
         /\ (SizeAt(ds, n, w) - WordBytes) * ByteBits
              - Cardinality(ExceptionsAt(ds, w)) * (ValueSize(ds) * ByteBits) >= w * BatchSize
<1> DEFINE es == ExceptionsAt(ds, w)
           size == ValueSize(ds)
           m == Cardinality(es)
<1>1. es \subseteq 1 .. n - 1 /\ es \in SUBSET Elements
  <2>1. Power[w] \in Nat \ {0}
    BY Powers
  <2>2. \A i \in Elements : ds[i] >= Power[w] => i \in 1 .. n - 1
    BY <2>1 DEF IsDeltas
  <2> QED BY <2>2 DEF ExceptionsAt
<1>2. m \in Nat /\ size \in {1, 2, 4}
  BY <1>1, PositionsFinite, ValueSizeFits DEF IsDeltas
<1> DEFINE p == (w * BatchSize) \div ByteBits
           r == RoundUp(m * size)
<1>3. p \in Nat /\ p * ByteBits = w * BatchSize
  BY WholeWords DEF Widths
<1>4. SizeAt(ds, n, w) = WordBytes + p + r
  BY DEF SizeAt, required_buffer_size, PFOR_FIXED_LENGTH_BUFFER_SIZE
<1> HIDE DEF es, size, m
<1>5. m * size \in Nat
  BY <1>2
<1>6. r \in Nat /\ r >= m * size
  BY <1>5, RoundedUp
<1> HIDE DEF p, r
<1>7. SizeAt(ds, n, w) \in Nat /\ SizeAt(ds, n, w) - WordBytes = p + r
  BY <1>3, <1>4, <1>6, BatchShape
<1>8. (p + r) * ByteBits = w * BatchSize + r * ByteBits /\ r * ByteBits >= m * (size * ByteBits)
      /\ r * ByteBits \in Nat /\ m * (size * ByteBits) \in Nat /\ w * BatchSize \in Nat
  <2>1. (p + r) * ByteBits = p * ByteBits + r * ByteBits
    BY <1>3, <1>6, BatchShape
  <2>2. r * ByteBits >= (m * size) * ByteBits
    <3> DEFINE a == m * size
    <3>1. a \in Nat /\ r \in Nat /\ r >= a /\ ByteBits \in Nat
      BY <1>5, <1>6, BatchShape
    <3> HIDE DEF a
    <3>2. r * ByteBits >= a * ByteBits
      BY ONLY <3>1
    <3> QED BY <3>2 DEF a
  <2>3. (m * size) * ByteBits = m * (size * ByteBits)
    BY <1>2, BatchShape
  <2>4. size * ByteBits \in Nat /\ w \in Nat
    BY <1>2, BatchShape
  <2> QED BY <1>2, <1>3, <1>6, <2>1, <2>2, <2>3, <2>4, BatchShape
<1>9. (SizeAt(ds, n, w) - WordBytes) * ByteBits \in Nat
      /\ (SizeAt(ds, n, w) - WordBytes) * ByteBits - m * (size * ByteBits) >= w * BatchSize
  <2> DEFINE a == r * ByteBits
             b == m * (size * ByteBits)
             c == w * BatchSize
             d == (p + r) * ByteBits
  <2>1. (SizeAt(ds, n, w) - WordBytes) * ByteBits = d
    BY <1>7
  <2>2. d = c + a /\ a >= b /\ a \in Nat /\ b \in Nat /\ c \in Nat
    BY <1>8
  <2> HIDE DEF a, b, c, d
  <2>3. d \in Nat /\ d - b >= c
    BY <2>2
  <2> QED BY <2>1, <2>3 DEF b, c
<1> QED BY <1>1, <1>7, <1>9 DEF es, size, m

-------------------------------------------------------------------------------
(* Encoding a batch and reading its differences.                           *)

\* The header keeps the width less one, and the full width for none.
LEMMA HeaderKeepsWidth ==
  ASSUME NEW w \in 0 .. RidBits
  PROVE  /\ Header_write(w) \in 0 .. RidBits - 1
         /\ Header_write(w) + 1 = IF w = 0 THEN RidBits ELSE w
<1>1. RidBits \in Nat \ {0} /\ RidBits - 1 \in 0 .. RidBits - 1
  BY BatchShape
<1>2. CASE w = 0
  <2>1. (w + RidBits - 1) % RidBits = RidBits - 1
    <3>1. w + RidBits - 1 = RidBits - 1
      BY <1>1, <1>2
    <3> QED BY <1>1, <3>1, SmallRemainder
  <2> QED BY <1>1, <1>2, <2>1 DEF Header_write
<1>3. CASE w # 0
  <2> DEFINE v == w - 1
             x == w + RidBits - 1
  <2>1. v \in 0 .. RidBits - 1 /\ x = 1 * RidBits + v /\ 1 \in Int /\ w = v + 1
    BY <1>1, <1>3
  <2> HIDE DEF v, x
  <2>2. x % RidBits = v
    BY ONLY <1>1, <2>1, QuotientAndRemainder
  <2> QED BY <1>3, <2>1, <2>2 DEF Header_write, x
<1> QED BY <1>2, <1>3

\* The exceptions of a set of positions in the order of the positions.
LEMMA ValuesInOrder ==
  ASSUME NEW ds \in [Elements -> 0 .. RidLimit - 1], NEW es \in SUBSET Elements
  PROVE  /\ DOMAIN ValuesAt(ds, es) = 1 .. Cardinality(es)
         /\ \A k \in 1 .. Cardinality(es) :
              ValuesAt(ds, es)[k] \in Nat
                /\ ValuesAt(ds, es)[k] < Power[ValueSize(ds) * ByteBits]
         /\ \A i \in es : Rank(es, i) \in 1 .. Cardinality(es)
                            /\ ValuesAt(ds, es)[Rank(es, i)] = ds[i]
<1>1. DOMAIN Ordered(es) = 1 .. Cardinality(es)
  BY DEF Ordered
<1>2. ValuesAt(ds, es) = [k \in 1 .. Cardinality(es) |-> ds[Ordered(es)[k]]]
  BY <1>1 DEF ValuesAt
<1>3. \A k \in 1 .. Cardinality(es) : Ordered(es)[k] \in es
  BY EveryRankTaken
<1>4. \A i \in es : Rank(es, i) \in 1 .. Cardinality(es) /\ Ordered(es)[Rank(es, i)] = i
  BY RankInOrder, OrderedAtRank
<1>5. \A i \in Elements : ds[i] \in Nat /\ ds[i] < Power[ValueSize(ds) * ByteBits]
  BY ValueSizeFits
<1> QED BY <1>2, <1>3, <1>4, <1>5

\* The fields of an encoded batch.
LEMMA EncodedFields ==
  ASSUME NEW ds, NEW n, NEW w, NEW frame
  PROVE  /\ encode_param_new(ds, n, w, frame).frame_of_reference = frame
         /\ encode_param_new(ds, n, w, frame).significant = n
         /\ encode_param_new(ds, n, w, frame).fixed_length = Header_write(w)
         /\ encode_param_new(ds, n, w, frame).exception_size = ValueSize(ds)
         /\ encode_param_new(ds, n, w, frame).encoded_size = SizeAt(ds, n, w)
         /\ encode_param_new(ds, n, w, frame).ones = <<>>
         /\ encode_param_new(ds, n, w, frame).zeros = <<>>
BY DEF encode_param_new, Batch

\* A batch of width 0 has only exceptions in its body.
LEMMA EncodedExceptionsOnly ==
  ASSUME NEW ds, NEW n, NEW frame
  PROVE  LET batch == encode_param_new(ds, n, 0, frame)
             es == 0 .. n - 1
             end == (SizeAt(ds, n, 0) - WordBytes) * ByteBits
         IN /\ batch.first_exception = BatchSize
            /\ batch.body = {} \cup encode_as_typed_exceptions(ValuesAt(ds, es), ValueSize(ds), end)
BY DEF encode_param_new, Batch, BodyBits

\* A batch of another width has the packed differences and then the
\* exceptions, packed as 0.
LEMMA EncodedAtWidth ==
  ASSUME NEW ds, NEW n, NEW w, w # 0, NEW frame
  PROVE  LET batch == encode_param_new(ds, n, w, frame)
             es == ExceptionsAt(ds, w)
             end == (SizeAt(ds, n, w) - WordBytes) * ByteBits
         IN /\ batch.first_exception = (IF es = {} THEN BatchSize ELSE Min(es))
            /\ batch.body = Packed(w, [i \in Elements |-> IF i \in es THEN 0 ELSE ds[i]])
                 \cup encode_as_typed_exceptions(ValuesAt(ds, es), ValueSize(ds), end)
BY DEF encode_param_new, Batch, BodyBits

\* A batch of width 0 is decoded to the differences it was made from.
LEMMA AllExceptionsRead ==
  ASSUME NEW n, NEW ds, IsDeltas(ds, n), NEW frame
  PROVE  BatchDeltas(encode_param_new(ds, n, 0, frame)) = ds
<1> DEFINE es == 0 .. n - 1
           batch == encode_param_new(ds, n, 0, frame)
           size == ValueSize(ds)
           end == (SizeAt(ds, n, 0) - WordBytes) * ByteBits
           values == ValuesAt(ds, es)
<1>1. n \in Nat \ {0} /\ es \in SUBSET Elements /\ ds \in [Elements -> 0 .. RidLimit - 1]
  BY BatchShape DEF IsDeltas
<1>2. /\ batch.significant = n /\ batch.fixed_length = Header_write(0)
      /\ batch.exception_size = size /\ batch.encoded_size = SizeAt(ds, n, 0)
      /\ batch.body = {} \cup encode_as_typed_exceptions(values, size, end)
  BY EncodedFields, EncodedExceptionsOnly
<1>3. BodyBits(batch) = end
  BY <1>2 DEF BodyBits
<1>4. /\ size \in Nat \ {0} /\ size * ByteBits \in 1 .. RidBits
  BY <1>1, ValueSizeFits
<1>5. end \in Nat
  <2>1. size \in {1, 2, 4}
    BY <1>1, ValueSizeFits
  <2>2. n * size \in Nat
    BY <1>1, <2>1
  <2>3. SizeAt(ds, n, 0) = WordBytes + RoundUp(n * size)
    BY DEF SizeAt, AsExceptionsSize
  <2>4. RoundUp(n * size) \in Nat
    <3> HIDE DEF size
    <3> QED BY <2>2, RoundedUp
  <2>5. SizeAt(ds, n, 0) - WordBytes \in Nat
    BY <2>3, <2>4, BatchShape
  <2> QED BY <2>5, BatchShape
<1>6. ASSUME NEW i \in 0 .. n - 1 PROVE decode_as_typed_exceptions(batch, i + 1) = ds[i]
  <2>6. Cardinality(es) = n /\ Rank(es, i) = i + 1
    <3>1. 0 \in Int /\ n - 1 \in Int /\ i \in Int
      BY <1>1
    <3>2. Cardinality(0 .. n - 1) = IF 0 > n - 1 THEN 0 ELSE (n - 1) - 0 + 1
      BY <3>1, FS_Interval
    <3>3. Cardinality(0 .. i) = IF 0 > i THEN 0 ELSE i - 0 + 1
      BY <3>1, FS_Interval
    <3>4. {h \in es : h <= i} = 0 .. i
      BY <1>1
    <3>5. Rank(es, i) = Cardinality(0 .. i)
      BY <3>4 DEF Rank
    <3>6. n \in Nat \ {0} /\ i \in 0 .. n - 1
      BY <1>1
    <3>7. Cardinality(0 .. n - 1) = n /\ Cardinality(0 .. i) = i + 1
      BY <3>2, <3>3, <3>6
    <3> QED BY <3>5, <3>7
  <2>7. /\ DOMAIN values = 1 .. n
        /\ \A k \in 1 .. n : values[k] \in Nat /\ values[k] < Power[size * ByteBits]
        /\ values[i + 1] = ds[i] /\ i + 1 \in 1 .. n
    <3>1. i \in es
      OBVIOUS
    <3> HIDE DEF es
    <3> QED BY <1>1, <2>6, <3>1, ValuesInOrder
  <2>9. decode_as_typed_exceptions(batch, i + 1) = values[i + 1]
    <3>1. \A p \in {} : p \in Int /\ p < end - n * (size * ByteBits)
      OBVIOUS
    <3> HIDE DEF values, size, end, batch
    <3>2. ExceptionsWritten(batch, {}, values, n, size, end)
      BY <1>1, <1>2, <1>3, <1>4, <1>5, <2>7, <3>1 DEF ExceptionsWritten
    <3>3. i + 1 \in 1 .. n
      BY <2>7
    <3> QED BY ONLY <3>2, <3>3, ExceptionRead
  <2> QED BY <2>7, <2>9
<1>7. BatchDeltas(batch) = [h \in Elements |->
                             IF h < n THEN decode_as_typed_exceptions(batch, h + 1) ELSE 0]
  <2>1. Header_read(batch) = RidBits
    <3>1. 0 \in 0 .. RidBits
      BY BatchShape
    <3> QED BY <1>2, <3>1, HeaderKeepsWidth DEF Header_read
  <2> HIDE DEF batch
  <2> QED BY <1>2, <2>1 DEF BatchDeltas
<1>8. ASSUME NEW h \in Elements
      PROVE  (IF h < n THEN decode_as_typed_exceptions(batch, h + 1) ELSE 0) = ds[h]
  <2> HIDE DEF batch
  <2>1. CASE h < n
    <3>1. h \in 0 .. n - 1
      BY <1>1, <2>1, BatchShape
    <3> QED BY <1>6, <2>1, <3>1
  <2>2. CASE ~ (h < n)
    <3>1. h \notin 1 .. n - 1
      BY <1>1, <2>2, BatchShape
    <3>2. ds[h] = 0
      BY <3>1 DEF IsDeltas
    <3> QED BY <2>2, <3>2
  <2> QED BY <2>1, <2>2
<1>9. BatchDeltas(batch) = ds
  <2> HIDE DEF batch
  <2> QED BY <1>1, <1>7, <1>8
<1> QED BY <1>9

\* A batch of a width below the full one is decoded to the differences it was
\* made from: the exceptions are put back at their places.
LEMMA ExceptionsPatched ==
  ASSUME NEW n, NEW ds, IsDeltas(ds, n), NEW frame, NEW w \in 1 .. RidBits - 1
  PROVE  BatchDeltas(encode_param_new(ds, n, w, frame)) = ds
<1> DEFINE es == ExceptionsAt(ds, w)
           batch == encode_param_new(ds, n, w, frame)
           size == ValueSize(ds)
           end == (SizeAt(ds, n, w) - WordBytes) * ByteBits
           values == ValuesAt(ds, es)
           rest == [h \in Elements |-> IF h \in es THEN 0 ELSE ds[h]]
           exceptions == encode_as_typed_exceptions(values, size, end)
           m == Cardinality(es)
<1>1. n \in Nat \ {0} /\ ds \in [Elements -> 0 .. RidLimit - 1] /\ w \in 1 .. RidBits /\ w # 0 /\ w # RidBits
      /\ n <= BatchSize
  BY BatchShape DEF IsDeltas
<1>2. /\ es \subseteq 1 .. n - 1 /\ es \in SUBSET Elements /\ end \in Nat
      /\ end - m * (size * ByteBits) >= w * BatchSize
  BY <1>1, SizeOfWidth
<1>3. /\ batch.significant = n /\ batch.fixed_length = Header_write(w)
      /\ batch.first_exception = (IF es = {} THEN BatchSize ELSE Min(es))
      /\ batch.exception_size = size /\ batch.encoded_size = SizeAt(ds, n, w)
      /\ batch.body = Packed(w, rest) \cup exceptions
  <2>1. /\ batch.significant = n /\ batch.fixed_length = Header_write(w)
        /\ batch.exception_size = size /\ batch.encoded_size = SizeAt(ds, n, w)
    BY EncodedFields
  <2>2. /\ batch.first_exception = (IF es = {} THEN BatchSize ELSE Min(es))
        /\ batch.body = Packed(w, rest) \cup exceptions
    BY <1>1, EncodedAtWidth
  <2> QED BY <2>1, <2>2
<1>4. BodyBits(batch) = end
  BY <1>3 DEF BodyBits
<1>5. /\ size \in Nat \ {0} /\ size * ByteBits \in 1 .. RidBits
  BY <1>1, ValueSizeFits
<1>6. m \in Nat /\ m * (size * ByteBits) \in Nat /\ w * BatchSize \in Nat
  <2>1. m \in Nat
    BY <1>2, PositionsFinite
  <2>2. size * ByteBits \in Nat /\ w \in Nat /\ BatchSize \in Nat
    BY <1>1, <1>5, BatchShape
  <2> HIDE DEF m
  <2> QED BY <2>1, <2>2
<1>7. /\ DOMAIN values = 1 .. m
      /\ \A k \in 1 .. m : values[k] \in Nat /\ values[k] < Power[size * ByteBits]
      /\ \A h \in es : Rank(es, h) \in 1 .. m /\ values[Rank(es, h)] = ds[h]
  <2> HIDE DEF es
  <2> QED BY <1>1, <1>2, ValuesInOrder
<1>8. /\ rest \in [Elements -> 0 .. RidLimit - 1] /\ \A h \in Elements : rest[h] < Power[w]
      /\ \A h \in Elements : rest[h] = IF h \in es THEN 0 ELSE ds[h]
  <2>1. Power[w] \in Nat \ {0} /\ RidLimit \in Nat \ {0}
    BY <1>1, Powers, BatchShape
  <2>2. \A h \in Elements : h \notin es => ds[h] < Power[w]
    BY <1>1, <2>1 DEF ExceptionsAt
  <2> HIDE DEF es
  <2> QED BY <1>1, <2>1, <2>2
<1>9. \A p \in Packed(w, rest) : p \in Int /\ p < end - m * (size * ByteBits)
  <2>1. \A p \in Packed(w, rest) : p \in Nat /\ p < w * BatchSize
    <3>1. w \in Widths
      BY <1>1 DEF Widths
    <3> HIDE DEF rest
    <3> QED BY <1>8, <3>1, PackedPositions
  <2> DEFINE a == m * (size * ByteBits)
             b == w * BatchSize
  <2>2. a \in Nat /\ b \in Nat /\ end \in Nat /\ end - a >= b
    BY <1>2, <1>6
  <2>3. \A p \in Packed(w, rest) : p \in Nat /\ p < b
    BY <2>1
  <2> HIDE DEF a, b, end, rest
  <2>4. \A p \in Packed(w, rest) : p \in Int /\ p < end - a
    BY <2>2, <2>3
  <2> QED BY <2>4 DEF a
<1>10. \A k \in 1 .. m : decode_as_typed_exceptions(batch, k) = values[k]
  <2> HIDE DEF values, size, end, batch, rest, m
  <2>1. exceptions = encode_as_typed_exceptions(values, size, end)
    OBVIOUS
  <2> HIDE DEF exceptions
  <2>2. ExceptionsWritten(batch, Packed(w, rest), values, m, size, end)
    BY <1>2, <1>3, <1>4, <1>5, <1>6, <1>7, <1>9, <2>1 DEF ExceptionsWritten
  <2> QED BY ONLY <2>2, ExceptionRead
<1>11. \A p \in exceptions : p \in Int /\ p >= w * BatchSize
  <2> DEFINE S == size * ByteBits
  <2>1. exceptions = FromEnd(values, m, S, end)
    <3> HIDE DEF values, size, end, m
    <3>1. /\ size \in Nat \ {0} /\ size * ByteBits \in 1 .. RidBits /\ m \in Nat
          /\ DOMAIN values = 1 .. m /\ end \in Nat
          /\ \A k \in 1 .. m : values[k] \in Nat /\ values[k] < Power[size * ByteBits]
      BY <1>2, <1>5, <1>6, <1>7
    <3> QED BY ONLY <3>1, ExceptionsFromEnd
  <2>2. S \in 1 .. RidBits /\ \A k \in 1 .. m : values[k] \in Nat /\ values[k] < Power[S]
    BY <1>5, <1>7
  <2>3. end - m * S >= w * BatchSize /\ end - m * S \in Int
    BY <1>2, <1>6
  <2> HIDE DEF S, values, end, m, exceptions
  <2>4. ASSUME NEW k \in 1 .. m, NEW j \in BitsOf(values[k])
        PROVE  end - k * S + j \in Int /\ end - k * S + j >= w * BatchSize
    <3>1. j \in 0 .. S - 1
      BY <2>2, BatchShape, BitsBelow
    <3>2. end - k * S + j \in Int /\ end - k * S + j >= end - m * S
      BY <1>2, <1>6, <2>2, <3>1, FromEndBit
    <3> DEFINE x == end - k * S + j
               y == end - m * S
               z == w * BatchSize
    <3>3. x \in Int /\ y \in Int /\ z \in Int /\ x >= y /\ y >= z
      BY <1>6, <2>3, <3>2
    <3> HIDE DEF x, y, z
    <3>4. x \in Int /\ x >= z
      BY <3>3
    <3> QED BY <3>4 DEF x, z
  <2>5. \A p \in FromEnd(values, m, S, end) :
          \E k \in 1 .. m : \E j \in BitsOf(values[k]) : p = end - k * S + j
    BY DEF FromEnd
  <2> QED BY <2>1, <2>4, <2>5
<1>12. Unpacked(batch, w) = rest
  <2>1. w \in Widths
    BY <1>1 DEF Widths
  <2> HIDE DEF rest, exceptions, batch
  <2> QED BY <1>3, <1>8, <1>11, <2>1, UnpackedIsPacked
<1>13. BatchDeltas(batch) = patch_typed_exceptions_new(rest, batch)
  <2>1. Header_read(batch) = w
    <3>1. w \in 0 .. RidBits
      BY <1>1
    <3> QED BY <1>1, <1>3, <3>1, HeaderKeepsWidth DEF Header_read
  <2> HIDE DEF batch, rest
  <2> QED BY <1>1, <1>12, <2>1 DEF BatchDeltas
<1> DEFINE holes == {h \in batch.first_exception .. n - 1 : rest[h] = 0}
<1>14. holes = es
  <2>1. es # {} => Min(es) \in es /\ \A h \in es : Min(es) <= h
    <3> SUFFICES ASSUME es # {} PROVE Min(es) \in es /\ \A h \in es : Min(es) <= h
      OBVIOUS
    <3>1. es \in SUBSET Nat
      BY <1>2
    <3> HIDE DEF es
    <3>2. PICK k \in es : \A h \in es : ~ (h < k)
      BY <3>1, LeastMember
    <3>3. \A h \in es : k <= h
      BY <3>1, <3>2
    <3> QED BY <3>2, <3>3 DEF Min
  <2>2. batch.first_exception = (IF es = {} THEN BatchSize ELSE Min(es))
    BY <1>3
  <2> HIDE DEF batch, rest
  <2>3. ASSUME NEW h \in es PROVE h \in holes
    <3>1. es # {} /\ Min(es) \in Nat /\ Min(es) <= h /\ h \in 1 .. n - 1
      BY <1>2, <2>1
    <3>2. h \in batch.first_exception .. n - 1 /\ rest[h] = 0
      <4> HIDE DEF es
      <4> QED BY <1>1, <1>2, <1>8, <2>2, <3>1
    <3> QED BY <3>2
  <2>4. ASSUME NEW h \in holes PROVE h \in es
    <3>1. h \in batch.first_exception .. n - 1 /\ rest[h] = 0
      OBVIOUS
    <3>2. CASE es = {}
      <4>1. h \in BatchSize .. n - 1
        BY <2>2, <3>1, <3>2
      <4> QED BY <1>1, <4>1, BatchShape
    <3>3. CASE es # {}
      <4>1. Min(es) \in 1 .. n - 1 /\ h \in Min(es) .. n - 1
        BY <1>2, <2>1, <2>2, <3>1, <3>3
      <4>2. h \in 1 .. n - 1 /\ h \in Elements
        <5> HIDE DEF es
        <5> QED BY <1>1, <4>1, BatchShape
      <4>3. ds[h] # 0
        BY <4>2 DEF IsDeltas
      <4> QED BY <1>8, <3>1, <4>2, <4>3
    <3> QED BY <3>2, <3>3
  <2> HIDE DEF holes, es
  <2> QED BY <2>3, <2>4
<1>15. BatchDeltas(batch)
         = [h \in Elements |-> IF h \in es THEN decode_as_typed_exceptions(batch, Rank(es, h))
                               ELSE rest[h]]
  <2>1. patch_typed_exceptions_new(rest, batch)
          = [h \in Elements |-> IF h \in holes
                                THEN decode_as_typed_exceptions(batch, Rank(holes, h))
                                ELSE rest[h]]
    <3>1. batch.significant = n
      BY <1>3
    <3> HIDE DEF batch, rest
    <3> QED BY <3>1 DEF patch_typed_exceptions_new, Rank
  <2> HIDE DEF holes, es, batch, rest
  <2> QED BY <1>13, <1>14, <2>1
<1>16. ASSUME NEW i \in Elements
       PROVE  (IF i \in es THEN decode_as_typed_exceptions(batch, Rank(es, i)) ELSE rest[i]) = ds[i]
  <2> HIDE DEF es, batch, rest, values, m
  <2>1. CASE i \in es
    BY <1>7, <1>10, <2>1
  <2>2. CASE i \notin es
    BY <1>1, <1>8, <2>2
  <2> QED BY <2>1, <2>2
<1>17. BatchDeltas(batch) = ds
  <2> HIDE DEF es, batch, rest
  <2> QED BY <1>1, <1>15, <1>16
<1> QED BY <1>17

\* A batch of any width but the one that the header cannot tell from "exceptions
\* only" gives back its differences.
LEMMA EncodedDeltas ==
  ASSUME NEW n, NEW ds, IsDeltas(ds, n), NEW frame, NEW w \in 0 .. RidBits - 1
  PROVE  BatchDeltas(encode_param_new(ds, n, w, frame)) = ds
<1>1. w = 0 \/ w \in 1 .. RidBits - 1
  BY BatchShape
<1> QED BY <1>1, AllExceptionsRead, ExceptionsPatched

-------------------------------------------------------------------------------
(* From differences to RIDs.                                               *)

\* RIDs of a batch, or of a list: no two neighbours are the same.
Distinct(rids) ==
  /\ rids \in Seq(0 .. RidLimit - 1)
  /\ \A i \in 1 .. Len(rids) - 1 : rids[i] # rids[i + 1]

\* What a list of distinct neighbours is.
LEMMA TypedRids ==
  ASSUME NEW rids, Distinct(rids)
  PROVE  /\ Len(rids) \in Nat
         /\ \A i \in 1 .. Len(rids) : rids[i] \in 0 .. RidLimit - 1
         /\ \A i \in 1 .. Len(rids) - 1 : rids[i] # rids[i + 1]
<1> DEFINE L == 0 .. RidLimit - 1
<1>1. rids \in Seq(L)
  BY DEF Distinct
<1> HIDE DEF L
<1>2. Len(rids) \in Nat /\ \A i \in 1 .. Len(rids) : rids[i] \in L
  BY ONLY <1>1
<1> QED BY <1>2 DEF L, Distinct

\* The recursive function of the running sums unfolds.
LEMMA RunningSumIs ==
  ASSUME NEW frame \in Int, NEW ds, \A i \in Elements : ds[i] \in Int
  PROVE  LET sum == RunningSum(frame, ds) IN
         /\ \A i \in Elements : sum[i] \in Int
         /\ sum[0] = ds[0] + frame
         /\ \A i \in 1 .. BatchSize - 1 : sum[i] = ds[i] + sum[i - 1]
<1> DEFINE m == BatchSize
           s == [k \in 1 .. m |-> ds[k - 1]]
<1>1. m \in Nat \ {0} /\ Elements = 0 .. m - 1
  BY BatchShape
<1>2. \A k \in 1 .. m : s[k] \in Int /\ s[k] = ds[k - 1]
  BY <1>1
<1> HIDE DEF s
<1>3. PICK f : IsSum(f, m, s)
  BY <1>1, <1>2, PartialSums
<1> DEFINE g == [i \in Elements |-> f[i + 1] + frame]
<1>4. \A i \in Elements : /\ g[i] \in Int
                          /\ g[i] = ds[i] + (IF i = 0 THEN frame ELSE g[i - 1])
  <2> SUFFICES ASSUME NEW i \in Elements
               PROVE  g[i] \in Int /\ g[i] = ds[i] + (IF i = 0 THEN frame ELSE g[i - 1])
    OBVIOUS
  <2>1. i \in 0 .. m /\ i + 1 \in 1 .. m /\ i + 1 \in 0 .. m /\ (i + 1) - 1 = i
    BY <1>1
  <2>2. f[i + 1] = f[i] + ds[i] /\ f[i] \in Int /\ ds[i] \in Int /\ f[0] = 0
    BY <1>2, <1>3, <2>1 DEF IsSum
  <2>3. g[i] = f[i + 1] + frame
    OBVIOUS
  <2>4. CASE i = 0
    BY <2>2, <2>3, <2>4
  <2>5. CASE i # 0
    <3>1. i - 1 \in Elements /\ (i - 1) + 1 = i
      BY <1>1, <2>5
    <3>2. g[i - 1] = f[i] + frame
      BY <3>1
    <3> QED BY <2>2, <2>3, <2>5, <3>2
  <2> QED BY <2>4, <2>5
<1>5. g = [i \in Elements |-> ds[i] + (IF i = 0 THEN frame ELSE g[i - 1])]
  <2>1. g = [i \in Elements |-> g[i]]
    OBVIOUS
  <2> HIDE DEF g
  <2> QED BY <1>4, <2>1
<1> HIDE DEF g
<1> DEFINE sum[i \in Elements] == ds[i] + (IF i = 0 THEN frame ELSE sum[i - 1])
<1>6. RunningSum(frame, ds) = sum
  BY DEF RunningSum
<1>7. sum = [i \in Elements |-> ds[i] + (IF i = 0 THEN frame ELSE sum[i - 1])]
  BY <1>5
<1> HIDE DEF sum
<1>8. sum[0] = ds[0] + frame
  BY <1>1, <1>7
<1>9. \A i \in 1 .. m - 1 : sum[i] = ds[i] + sum[i - 1]
  <2> SUFFICES ASSUME NEW i \in 1 .. m - 1 PROVE sum[i] = ds[i] + sum[i - 1]
    OBVIOUS
  <2>1. i \in Elements /\ i # 0
    BY <1>1
  <2> QED BY <1>7, <2>1
<1> DEFINE S == {i \in Elements : sum[i] \in Int}
<1>10. 0 \in S
  BY <1>1, <1>8
<1>11. \A i \in 0 .. (m - 1) - 1 : i \in S => i + 1 \in S
  <2> SUFFICES ASSUME NEW i \in 0 .. (m - 1) - 1, i \in S PROVE i + 1 \in S
    OBVIOUS
  <2>1. i + 1 \in 1 .. m - 1 /\ i + 1 \in Elements /\ (i + 1) - 1 = i
    BY <1>1
  <2>2. sum[i + 1] = ds[i + 1] + sum[i] /\ sum[i] \in Int /\ ds[i + 1] \in Int
    BY <1>9, <2>1
  <2> QED BY <2>1, <2>2
<1>12. \A i \in Elements : i \in S
  <2>1. m - 1 \in Nat
    BY <1>1
  <2> HIDE DEF S
  <2>2. \A i \in 0 .. m - 1 : i \in S
    BY <1>10, <1>11, <2>1, InductionUpTo
  <2> QED BY <1>1, <2>2
<1> QED BY <1>6, <1>8, <1>9, <1>12

\* The differences of a batch.
LEMMA DeltasOfRids ==
  ASSUME NEW rids, Distinct(rids), Len(rids) \in 1 .. BatchSize
  PROVE  /\ IsDeltas(Deltas(rids), Len(rids)) /\ Deltas(rids)[0] = 0
         /\ \A i \in 1 .. Len(rids) - 1 :
              Deltas(rids)[i] = (rids[i + 1] - rids[i]) % RidLimit
<1> DEFINE n == Len(rids)
<1>1. n \in 1 .. BatchSize /\ Elements = 0 .. BatchSize - 1 /\ BatchSize \in Nat /\ RidLimit \in Nat \ {0}
  BY BatchShape, Powers
<1>2. ASSUME NEW i \in 1 .. n - 1
      PROVE  /\ (rids[i + 1] - rids[i]) % RidLimit \in 0 .. RidLimit - 1
             /\ (rids[i + 1] - rids[i]) % RidLimit # 0
  <2>1. i \in 1 .. n /\ i + 1 \in 1 .. n
    BY <1>1
  <2>2. rids[i] \in 0 .. RidLimit - 1 /\ rids[i + 1] \in 0 .. RidLimit - 1 /\ rids[i] # rids[i + 1]
    BY <2>1, TypedRids
  <2> QED BY <1>1, <2>2, DifferenceModulo
<1>3. \A i \in Elements : Deltas(rids)[i]
        = IF i \in 1 .. n - 1 THEN (rids[i + 1] - rids[i]) % RidLimit ELSE 0
  BY DEF Deltas
<1>4. Deltas(rids) \in [Elements -> 0 .. RidLimit - 1]
  <2>1. Deltas(rids) = [i \in Elements |-> Deltas(rids)[i]]
    BY DEF Deltas
  <2>2. 0 \in 0 .. RidLimit - 1
    BY <1>1
  <2>3. \A i \in Elements : Deltas(rids)[i] \in 0 .. RidLimit - 1
    BY <1>2, <1>3, <2>2
  <2> QED BY <2>1, <2>3
<1>5. \A i \in Elements : Deltas(rids)[i] # 0 <=> i \in 1 .. n - 1
  BY <1>2, <1>3
<1>6. 0 \in Elements /\ 0 \notin 1 .. n - 1 /\ \A i \in 1 .. n - 1 : i \in Elements
  BY <1>1
<1> QED BY <1>1, <1>3, <1>4, <1>5, <1>6 DEF IsDeltas

\* Their sums are the RIDs, but for wrapping.
LEMMA SumsWrap ==
  ASSUME NEW rids, Distinct(rids), Len(rids) \in 1 .. BatchSize
  PROVE  \A i \in 0 .. Len(rids) - 1 :
           /\ RunningSum(rids[1], Deltas(rids))[i] \in Int
           /\ RunningSum(rids[1], Deltas(rids))[i] % RidLimit = rids[i + 1]
<1> DEFINE n == Len(rids)
           sum == RunningSum(rids[1], Deltas(rids))
           ds == Deltas(rids)
<1>1. n \in 1 .. BatchSize /\ Elements = 0 .. BatchSize - 1 /\ BatchSize \in Nat /\ RidLimit \in Nat \ {0}
  BY BatchShape, Powers
<1>2. \A i \in 1 .. n : rids[i] \in 0 .. RidLimit - 1
  BY TypedRids
<1>3. /\ ds[0] = 0 /\ \A i \in Elements : ds[i] \in Int
      /\ \A i \in 1 .. n - 1 : ds[i] = (rids[i + 1] - rids[i]) % RidLimit
  BY DeltasOfRids DEF IsDeltas
<1> HIDE DEF ds
<1>4. /\ \A i \in Elements : sum[i] \in Int
      /\ sum[0] = ds[0] + rids[1]
      /\ \A i \in 1 .. BatchSize - 1 : sum[i] = ds[i] + sum[i - 1]
  <2>1. rids[1] \in Int
    BY <1>1, <1>2
  <2> QED BY <1>3, <2>1, RunningSumIs DEF ds
<1> HIDE DEF sum
<1> DEFINE S == {i \in 0 .. n - 1 : sum[i] % RidLimit = rids[i + 1]}
<1>5. 0 \in S
  <2>1. sum[0] = rids[1] /\ rids[1] \in 0 .. RidLimit - 1
    BY <1>1, <1>2, <1>3, <1>4
  <2>2. sum[0] % RidLimit = rids[1]
    BY <1>1, <2>1, SmallRemainder
  <2> QED BY <1>1, <2>2
<1>6. \A i \in 0 .. (n - 1) - 1 : i \in S => i + 1 \in S
  <2> SUFFICES ASSUME NEW i \in 0 .. (n - 1) - 1, sum[i] % RidLimit = rids[i + 1]
               PROVE  i + 1 \in S
    OBVIOUS
  <2> DEFINE k == i + 1
             x == rids[k]
             y == rids[k + 1]
             d == (y - x) % RidLimit
             z == sum[i]
  <2>1. k \in 1 .. n - 1 /\ k \in 0 .. n - 1 /\ k \in 1 .. BatchSize - 1 /\ k \in 1 .. n /\ k + 1 \in 1 .. n /\ i \in Elements
        /\ k - 1 = i
    BY <1>1
  <2>2. x \in 0 .. RidLimit - 1 /\ y \in 0 .. RidLimit - 1 /\ z \in Int
    BY <1>2, <1>4, <2>1
  <2>3. sum[k] = d + z /\ z % RidLimit = x
    BY <1>3, <1>4, <2>1
  <2> HIDE DEF x, y, z, k
  <2>4. d \in Int /\ (x + d) % RidLimit = y
    <3>1. RidLimit \in Nat \ {0} /\ x \in 0 .. RidLimit - 1 /\ y \in 0 .. RidLimit - 1
      BY <1>1, <2>2
    <3>2. (y - x) % RidLimit \in 0 .. RidLimit - 1 /\ (x + ((y - x) % RidLimit)) % RidLimit = y
      BY ONLY <3>1, DifferenceModulo
    <3> QED BY <3>1, <3>2
  <2> HIDE DEF d
  <2>5. ((z % RidLimit) + d) % RidLimit = (z + d) % RidLimit
    BY <1>1, <2>2, <2>4, RemainderOfSum
  <2>6. (z + d) % RidLimit = y /\ z + d = d + z
    BY <2>2, <2>3, <2>4, <2>5
  <2>7. sum[k] % RidLimit = y
    BY <2>3, <2>6
  <2> QED BY <2>1, <2>7 DEF k, y
<1>7. n - 1 \in Nat
  BY <1>1
<1> HIDE DEF S
<1>8. \A i \in 0 .. n - 1 : i \in S
  BY <1>5, <1>6, <1>7, InductionUpTo
<1>9. \A i \in 0 .. n - 1 : i \in Elements
  BY <1>1
<1> QED BY <1>4, <1>8, <1>9 DEF S, sum, ds

\* RIDs that do not wrap are the sums.
Ascends(rids) == \A i \in 1 .. Len(rids) - 1 : rids[i] <= rids[i + 1]

\* For RIDs that rise the running sums are the RIDs themselves, with no
\* wraparound.
LEMMA SumsExact ==
  ASSUME NEW rids, Distinct(rids), Len(rids) \in 1 .. BatchSize, Ascends(rids)
  PROVE  \A i \in 0 .. Len(rids) - 1 : RunningSum(rids[1], Deltas(rids))[i] = rids[i + 1]
<1> DEFINE n == Len(rids)
           sum == RunningSum(rids[1], Deltas(rids))
           ds == Deltas(rids)
<1>1. n \in 1 .. BatchSize /\ Elements = 0 .. BatchSize - 1 /\ BatchSize \in Nat /\ RidLimit \in Nat \ {0}
  BY BatchShape, Powers
<1>2. \A i \in 1 .. n : rids[i] \in 0 .. RidLimit - 1
  BY TypedRids
<1>3. /\ ds[0] = 0 /\ \A i \in Elements : ds[i] \in Int
      /\ \A i \in 1 .. n - 1 : ds[i] = (rids[i + 1] - rids[i]) % RidLimit
  BY DeltasOfRids DEF IsDeltas
<1> HIDE DEF ds
<1>4. /\ sum[0] = ds[0] + rids[1]
      /\ \A i \in 1 .. BatchSize - 1 : sum[i] = ds[i] + sum[i - 1]
  <2>1. rids[1] \in Int
    BY <1>1, <1>2
  <2> QED BY <1>3, <2>1, RunningSumIs DEF ds
<1> HIDE DEF sum
<1> DEFINE S == {i \in 0 .. n - 1 : sum[i] = rids[i + 1]}
<1>5. 0 \in S
  BY <1>1, <1>2, <1>3, <1>4
<1>6. \A i \in 0 .. (n - 1) - 1 : i \in S => i + 1 \in S
  <2> SUFFICES ASSUME NEW i \in 0 .. (n - 1) - 1, sum[i] = rids[i + 1]
               PROVE  i + 1 \in S
    OBVIOUS
  <2> DEFINE k == i + 1
             x == rids[k]
             y == rids[k + 1]
  <2>1. k \in 1 .. n - 1 /\ k \in 0 .. n - 1 /\ k \in 1 .. BatchSize - 1 /\ k \in 1 .. n /\ k + 1 \in 1 .. n
        /\ k - 1 = i
    BY <1>1
  <2>2. x \in 0 .. RidLimit - 1 /\ y \in 0 .. RidLimit - 1 /\ x <= y
    BY <1>2, <2>1 DEF Ascends
  <2>3. sum[k] = ((y - x) % RidLimit) + x
    BY <1>3, <1>4, <2>1
  <2> HIDE DEF x, y, k
  <2>4. (y - x) % RidLimit = y - x
    BY <1>1, <2>2, DifferenceModulo
  <2>5. sum[k] = y
    BY <2>2, <2>3, <2>4
  <2> QED BY <2>1, <2>5 DEF k, y
<1>7. n - 1 \in Nat
  BY <1>1
<1> HIDE DEF S
<1>8. \A i \in 0 .. n - 1 : i \in S
  BY <1>5, <1>6, <1>7, InductionUpTo
<1> QED BY <1>8 DEF S, sum, ds

-------------------------------------------------------------------------------
(* The widths that are chosen, and the sizes they give.                    *)

\* Rounding up does not go past a whole number of words.
LEMMA WholeWordsOf ==
  ASSUME NEW b \in Nat, NEW q \in Nat, b <= q * WordBytes
  PROVE  RoundUp(b) <= q * WordBytes
<1> DEFINE x == b + WordBytes - 1
           p == x \div WordBytes
           r == x % WordBytes
<1>1. WordBytes \in Nat \ {0} /\ x \in Nat
  BY BatchShape
<1>2. p \in Nat /\ r \in 0 .. WordBytes - 1 /\ x = p * WordBytes + r
  <2> HIDE DEF x
  <2> QED BY ONLY <1>1, Divided DEF p, r
<1>3. RoundUp(b) = p * WordBytes
  BY DEF RoundUp
<1> HIDE DEF p, r
<1>4. ~ (q < p)
  <2> SUFFICES ASSUME q < p PROVE FALSE
    OBVIOUS
  <2>1. q * WordBytes + WordBytes <= p * WordBytes
    BY <1>1, <1>2, NextMultiple
  <2> DEFINE qW == q * WordBytes
             pW == p * WordBytes
  <2>2. qW \in Nat /\ pW \in Nat /\ qW + WordBytes <= pW /\ b <= qW /\ b + WordBytes - 1 = pW + r
    BY <1>1, <1>2, <2>1
  <2> HIDE DEF qW, pW
  <2> QED BY <1>1, <1>2, <2>2
<1>5. p <= q /\ p \in Nat /\ q \in Nat
  BY <1>2, <1>4
<1>6. p * WordBytes <= q * WordBytes
  <2>1. WordBytes \in Nat
    BY <1>1
  <2> QED BY ONLY <1>5, <2>1
<1> QED BY <1>3, <1>6

\* Four bytes for every RID of a batch are whole words.
LEMMA FullBatchWords ==
  /\ \E q \in Nat : 4 * BatchSize = q * WordBytes
  /\ BatchSize >= WordBytes /\ RidBits \div ByteBits = 4
  /\ kSufficientBufferCapacity = WordBytes + 8 * BatchSize
<1> DEFINE q == BatchSize \div WordBits
<1>1. /\ BatchSize \in Nat \ {0} /\ WordBits \in Nat \ {0} /\ ByteBits \in Nat \ {0}
      /\ WordBytes \in Nat \ {0} /\ BatchSize % WordBits = 0 /\ WordBits = WordBytes * ByteBits
  BY BatchShape, PackingAssumption
<1>2. q \in Nat /\ BatchSize = q * WordBits
  <2>1. BatchSize \in Nat /\ WordBits \in Nat \ {0}
    BY <1>1
  <2>2. q \in Nat /\ BatchSize = q * WordBits + (BatchSize % WordBits)
    BY ONLY <2>1, Divided
  <2>3. q * WordBits \in Nat
    BY <1>1, <2>2
  <2> QED BY <1>1, <2>2, <2>3
<1> HIDE DEF q
<1> DEFINE k == q * ByteBits
<1>3. k \in Nat /\ BatchSize = k * WordBytes
  <2>1. q * (WordBytes * ByteBits) = (q * ByteBits) * WordBytes /\ q * ByteBits \in Nat
    BY <1>1, <1>2
  <2> QED BY <1>1, <1>2, <2>1
<1> HIDE DEF k
<1>4. 4 * BatchSize = (4 * k) * WordBytes /\ 4 * k \in Nat
  BY <1>1, <1>3
<1>5. BatchSize >= WordBytes
  <2>1. k # 0
    BY <1>1, <1>3
  <2>2. 0 * WordBytes + WordBytes <= k * WordBytes
    <3>1. 0 < k /\ k \in Int /\ 0 \in Int /\ WordBytes \in Nat
      BY <1>1, <1>3, <2>1
    <3> QED BY ONLY <3>1, NextMultiple
  <2> QED BY <1>1, <1>3, <2>2
<1>6. RidBits \div ByteBits = 4
  <2>1. RidBits = 4 * ByteBits + 0 /\ 0 \in 0 .. ByteBits - 1 /\ ByteBits \in Nat \ {0} /\ 4 \in Int
    BY BatchShape
  <2> QED BY ONLY <2>1, QuotientAndRemainder
<1>7. kSufficientBufferCapacity = WordBytes + 8 * BatchSize
  BY <1>1, <1>6 DEF kSufficientBufferCapacity
<1> QED BY <1>4, <1>5, <1>6, <1>7

\* The packed buffer of a width is whole words, no more than those of the RIDs
\* themselves.
LEMMA PackedSize ==
  ASSUME NEW w \in 1 .. RidBits
  PROVE  /\ PFOR_FIXED_LENGTH_BUFFER_SIZE(w) \in Nat
         /\ PFOR_FIXED_LENGTH_BUFFER_SIZE(w) <= 4 * BatchSize
         /\ PFOR_FIXED_LENGTH_BUFFER_SIZE(w) % WordBytes = 0
         /\ w = RidBits => PFOR_FIXED_LENGTH_BUFFER_SIZE(w) = 4 * BatchSize
<1> DEFINE q == BatchSize \div WordBits
<1>1. /\ BatchSize \in Nat \ {0} /\ WordBits \in Nat \ {0} /\ ByteBits \in Nat \ {0} /\ w \in Nat
      /\ WordBytes \in Nat \ {0} /\ BatchSize % WordBits = 0 /\ WordBits = WordBytes * ByteBits
      /\ w <= 4 * ByteBits /\ RidBits = 4 * ByteBits
  BY BatchShape, PackingAssumption
<1>2. q \in Nat /\ BatchSize = q * WordBits
  <2>1. BatchSize \in Nat /\ WordBits \in Nat \ {0}
    BY <1>1
  <2>2. q \in Nat /\ BatchSize = q * WordBits + (BatchSize % WordBits)
    BY ONLY <2>1, Divided
  <2>3. q * WordBits \in Nat
    BY <1>1, <2>2
  <2> QED BY <1>1, <2>2, <2>3
<1> HIDE DEF q
<1> DEFINE k == w * q
           p == k * WordBytes
<1>3. k \in Nat /\ p \in Nat /\ w * BatchSize = p * ByteBits
  <2>1. w * (q * (WordBytes * ByteBits)) = ((w * q) * WordBytes) * ByteBits
    BY <1>1, <1>2
  <2>2. w * q \in Nat /\ (w * q) * WordBytes \in Nat
    BY <1>1, <1>2
  <2>3. BatchSize = q * (WordBytes * ByteBits)
    BY <1>1, <1>2
  <2> QED BY <2>1, <2>2, <2>3
<1>4. p % WordBytes = 0
  <2>1. p = k * WordBytes + 0 /\ 0 \in 0 .. WordBytes - 1 /\ k \in Int /\ WordBytes \in Nat \ {0}
    BY <1>1, <1>3
  <2> HIDE DEF p, k
  <2> QED BY ONLY <2>1, QuotientAndRemainder
<1> HIDE DEF k, p
<1>5. PFOR_FIXED_LENGTH_BUFFER_SIZE(w) = p
  <2> DEFINE x == w * BatchSize
  <2>1. x = p * ByteBits + 0 /\ 0 \in 0 .. ByteBits - 1 /\ p \in Int /\ ByteBits \in Nat \ {0}
    BY <1>1, <1>3
  <2> HIDE DEF x
  <2>2. x \div ByteBits = p
    BY ONLY <2>1, QuotientAndRemainder
  <2> QED BY <2>2 DEF x, PFOR_FIXED_LENGTH_BUFFER_SIZE
<1>6. p * ByteBits <= (4 * BatchSize) * ByteBits
  <2>1. w * BatchSize <= (4 * ByteBits) * BatchSize
    <3> DEFINE B == 4 * ByteBits
    <3>1. w \in Nat /\ B \in Nat /\ w <= B /\ BatchSize \in Nat
      BY <1>1
    <3> HIDE DEF B
    <3>2. w * BatchSize <= B * BatchSize
      BY ONLY <3>1
    <3> QED BY <3>2 DEF B
  <2>2. (4 * ByteBits) * BatchSize = (4 * BatchSize) * ByteBits
    BY <1>1
  <2> QED BY <1>3, <2>1, <2>2
<1>7. p <= 4 * BatchSize
  <2> DEFINE c == 4 * BatchSize
  <2>1. c \in Nat /\ p \in Nat /\ p * ByteBits <= c * ByteBits /\ ByteBits \in Nat \ {0}
    BY <1>1, <1>3, <1>6
  <2> HIDE DEF c
  <2>2. ~ (c < p)
    <3> SUFFICES ASSUME c < p PROVE FALSE
      OBVIOUS
    <3>1. c * ByteBits + ByteBits <= p * ByteBits
      <4>1. c \in Int /\ p \in Int /\ ByteBits \in Nat
        BY <2>1
      <4> QED BY <4>1, NextMultiple
    <3> DEFINE cB == c * ByteBits
               pB == p * ByteBits
    <3>2. cB \in Nat /\ pB \in Nat /\ cB + ByteBits <= pB /\ pB <= cB
      BY <2>1, <3>1
    <3> HIDE DEF cB, pB
    <3> QED BY <2>1, <3>2
  <2>3. p <= c
    BY <2>1, <2>2
  <2> QED BY <2>3 DEF c
<1>8. w = RidBits => p = 4 * BatchSize
  <2> SUFFICES ASSUME w = RidBits PROVE p = 4 * BatchSize
    OBVIOUS
  <2> DEFINE c == 4 * BatchSize
             x == w * BatchSize
  <2>1. x = c * ByteBits
    BY <1>1
  <2>2. x = p * ByteBits
    BY <1>3
  <2>3. 0 \in 0 .. ByteBits - 1 /\ c \in Nat /\ p \in Nat /\ ByteBits \in Nat
    BY <1>1, <1>3
  <2> HIDE DEF x, c
  <2>4. c * ByteBits + 0 = p * ByteBits + 0
    BY <1>1, <2>1, <2>2, <2>3
  <2>5. c = p
    BY ONLY <2>3, <2>4, OnePlace
  <2> QED BY <2>5 DEF c
<1> QED BY <1>3, <1>4, <1>5, <1>7, <1>8

\* The size of a batch that is all exceptions is never more than four bytes a RID.
LEMMA ExceptionsOnlySize ==
  ASSUME NEW n, NEW ds, IsDeltas(ds, n)
  PROVE  /\ SizeAt(ds, n, 0) \in Nat /\ SizeAt(ds, n, 0) <= WordBytes + 4 * BatchSize
         /\ SizeAt(ds, n, 0) <= SizeAt(ds, n, RidBits)
         /\ SizeAt(ds, n, 0) % WordBytes = 0
<1> DEFINE size == ValueSize(ds)
           es == ExceptionsAt(ds, RidBits)
<1>1. n \in 1 .. BatchSize /\ size \in {1, 2, 4} /\ BatchSize \in Nat \ {0} /\ WordBytes \in Nat \ {0}
      /\ RidBits \in 1 .. RidBits /\ RidBits # 0
  BY BatchShape, ValueSizeFits DEF IsDeltas
<1> HIDE DEF size
<1>2. n * size \in Nat /\ n * size <= 4 * BatchSize
  BY <1>1
<1> DEFINE b == n * size
<1>3. SizeAt(ds, n, 0) = WordBytes + RoundUp(b)
  BY DEF SizeAt, AsExceptionsSize, size
<1> HIDE DEF b
<1>4. RoundUp(b) \in Nat /\ RoundUp(b) <= 4 * BatchSize /\ RoundUp(b) % WordBytes = 0
  <2>1. PICK q \in Nat : 4 * BatchSize = q * WordBytes
    BY FullBatchWords
  <2>2. b \in Nat /\ b <= q * WordBytes
    BY <1>2, <2>1 DEF b
  <2>3. RoundUp(b) <= q * WordBytes
    BY <2>2, WholeWordsOf
  <2> QED BY <2>1, <2>2, <2>3, RoundedUp
<1>5. SizeAt(ds, n, RidBits) >= WordBytes + 4 * BatchSize
  <2>1. SizeAt(ds, n, RidBits)
          = WordBytes + PFOR_FIXED_LENGTH_BUFFER_SIZE(RidBits) + RoundUp(Cardinality(es) * size)
    BY <1>1 DEF SizeAt, required_buffer_size, size
  <2>2. PFOR_FIXED_LENGTH_BUFFER_SIZE(RidBits) = 4 * BatchSize
    BY <1>1, PackedSize
  <2>3. Cardinality(es) \in Nat
    BY <1>1, SizeOfWidth, PositionsFinite
  <2> HIDE DEF es
  <2>4. Cardinality(es) * size \in Nat
    BY <1>1, <2>3
  <2>5. RoundUp(Cardinality(es) * size) \in Nat
    BY <2>4, RoundedUp
  <2> QED BY <1>1, <2>1, <2>2, <2>5
<1>6. (WordBytes + RoundUp(b)) % WordBytes = 0
  <2> DEFINE r == RoundUp(b)
  <2>1. r \in Int /\ WordBytes \in Int /\ WordBytes \in Nat \ {0} /\ r % WordBytes = 0
    BY <1>1, <1>4
  <2> HIDE DEF r
  <2>2. WordBytes % WordBytes = 0
    <3>1. WordBytes = 1 * WordBytes + 0 /\ 0 \in 0 .. WordBytes - 1 /\ 1 \in Int
      BY <2>1
    <3> QED BY ONLY <2>1, <3>1, QuotientAndRemainder
  <2>3. (WordBytes + r) % WordBytes = (0 + r) % WordBytes
    BY ONLY <2>1, <2>2, RemainderOfSum
  <2>4. 0 + r = r
    BY <2>1
  <2>5. (WordBytes + r) % WordBytes = 0
    BY <2>1, <2>3, <2>4
  <2> QED BY <2>5 DEF r
<1>7. SizeAt(ds, n, 0) \in Nat /\ SizeAt(ds, n, 0) <= WordBytes + 4 * BatchSize
  BY <1>1, <1>3, <1>4
<1>8. SizeAt(ds, n, RidBits) \in Nat
  BY <1>1, SizeOfWidth
<1>9. SizeAt(ds, n, 0) <= SizeAt(ds, n, RidBits)
  BY <1>1, <1>5, <1>7, <1>8
<1>10. SizeAt(ds, n, 0) % WordBytes = 0
  BY <1>3, <1>6
<1> QED BY <1>7, <1>9, <1>10

\* Multiples of a number add up to one.
LEMMA MultiplesAdd ==
  ASSUME NEW N \in Nat \ {0}, NEW a \in Int, NEW b \in Int, a % N = 0, b % N = 0
  PROVE  (a + b) % N = 0
<1>1. ((a % N) + b) % N = (a + b) % N
  BY RemainderOfSum
<1>2. (a % N) + b = b
  OBVIOUS
<1> QED BY <1>1, <1>2

\* A number is a multiple of itself.
LEMMA SelfMultiple ==
  ASSUME NEW N \in Nat \ {0}
  PROVE  N % N = 0
<1>1. N = 1 * N + 0 /\ 0 \in 0 .. N - 1 /\ 1 \in Int
  OBVIOUS
<1> QED BY ONLY N \in Nat \ {0}, <1>1, QuotientAndRemainder

\* The size of an encoded batch is whole words, at least the header.
LEMMA WholeSizes ==
  ASSUME NEW n, NEW ds, IsDeltas(ds, n), NEW w \in 0 .. RidBits
  PROVE  SizeAt(ds, n, w) \in Nat /\ SizeAt(ds, n, w) % WordBytes = 0
         /\ SizeAt(ds, n, w) >= WordBytes
<1>1. WordBytes \in Nat \ {0} /\ RidBits \in Nat \ {0}
  BY BatchShape
<1>2. CASE w = 0
  <2>1. SizeAt(ds, n, 0) = WordBytes + RoundUp(n * ValueSize(ds))
    BY DEF SizeAt, AsExceptionsSize
  <2>2. n * ValueSize(ds) \in Nat
    <3>1. n \in Nat /\ ValueSize(ds) \in {1, 2, 4}
      BY BatchShape, ValueSizeFits DEF IsDeltas
    <3> QED BY <3>1
  <2>3. RoundUp(n * ValueSize(ds)) \in Nat
    BY <2>2, RoundedUp
  <2> QED BY <1>1, <1>2, <2>1, <2>3, ExceptionsOnlySize
<1>3. CASE w # 0
  <2> DEFINE p == PFOR_FIXED_LENGTH_BUFFER_SIZE(w)
             m == Cardinality(ExceptionsAt(ds, w))
             size == ValueSize(ds)
             r == RoundUp(m * size)
  <2>1. w \in 1 .. RidBits
    BY <1>1, <1>3
  <2>2. p \in Nat /\ p % WordBytes = 0
    BY <2>1, PackedSize
  <2>3. m \in Nat /\ size \in {1, 2, 4}
    BY <2>1, SizeOfWidth, PositionsFinite, ValueSizeFits DEF IsDeltas
  <2>4. SizeAt(ds, n, w) = (WordBytes + p) + r
    BY <1>3 DEF SizeAt, required_buffer_size
  <2> HIDE DEF m, size, p
  <2>5. m * size \in Nat
    BY <2>3
  <2>6. r \in Nat /\ r % WordBytes = 0
    BY <2>5, RoundedUp
  <2> HIDE DEF r
  <2>7. (WordBytes + p) % WordBytes = 0 /\ WordBytes + p \in Int
    <3>1. WordBytes % WordBytes = 0
      BY ONLY <1>1, SelfMultiple
    <3>2. (WordBytes + p) % WordBytes = 0
      <4>1. WordBytes \in Nat \ {0} /\ WordBytes \in Int /\ p \in Int /\ p % WordBytes = 0
        BY <1>1, <2>2
      <4> QED BY ONLY <3>1, <4>1, MultiplesAdd, Zenon
    <3> QED BY <1>1, <2>2, <3>2
  <2>8. ((WordBytes + p) + r) % WordBytes = 0
    <3> DEFINE a == WordBytes + p
    <3>1. a \in Int /\ r \in Int /\ a % WordBytes = 0
      BY <2>6, <2>7
    <3> HIDE DEF a
    <3>2. (a + r) % WordBytes = 0
      BY <1>1, <2>6, <3>1, MultiplesAdd
    <3> QED BY <3>2 DEF a
  <2> DEFINE total == (WordBytes + p) + r
  <2>9. total \in Nat /\ total >= WordBytes
    BY <1>1, <2>2, <2>6
  <2>10. total % WordBytes = 0
    BY <2>8
  <2>11. SizeAt(ds, n, w) = total
    BY <2>4
  <2> HIDE DEF total
  <2> QED BY <2>9, <2>10, <2>11
<1> QED BY <1>2, <1>3

\* Exceptions only are never worse than the width of a RID: that width is not chosen.
LEMMA OptimalWidth ==
  ASSUME NEW n, NEW ds, IsDeltas(ds, n)
  PROVE  /\ optimal_param(ds, n) \in 0 .. RidBits - 1
         /\ SizeAt(ds, n, optimal_param(ds, n)) <= WordBytes + 4 * BatchSize
<1> DEFINE best == {w \in 0 .. RidBits :
                      \A v \in 0 .. RidBits : SizeAt(ds, n, w) <= SizeAt(ds, n, v)}
           sizes == {SizeAt(ds, n, w) : w \in 0 .. RidBits}
<1>1. RidBits \in Nat \ {0} /\ 0 \in 0 .. RidBits /\ RidBits \in 0 .. RidBits
  BY BatchShape
<1>2. \A w \in 0 .. RidBits : SizeAt(ds, n, w) \in Nat
  BY WholeSizes
<1>3. best # {}
  <2>1. sizes \in SUBSET Nat /\ sizes # {}
    BY <1>1, <1>2
  <2> HIDE DEF sizes
  <2>2. PICK s \in sizes : \A t \in sizes : ~ (t < s)
    BY <2>1, LeastMember
  <2>3. PICK w \in 0 .. RidBits : s = SizeAt(ds, n, w)
    BY <2>2 DEF sizes
  <2>4. \A v \in 0 .. RidBits : SizeAt(ds, n, v) \in sizes
    BY DEF sizes
  <2>5. \A v \in 0 .. RidBits : SizeAt(ds, n, w) <= SizeAt(ds, n, v)
    BY <1>2, <2>2, <2>3, <2>4
  <2> QED BY <2>5
<1>4. PICK w \in best : \A v \in best : ~ (v < w)
  <2>1. best \in SUBSET Nat
    BY <1>1
  <2> HIDE DEF best
  <2> QED BY <1>3, <2>1, LeastMember
<1>5. w \in 0 .. RidBits /\ \A v \in 0 .. RidBits : SizeAt(ds, n, w) <= SizeAt(ds, n, v)
  BY <1>4
<1>6. optimal_param(ds, n) = w
  <2>1. \A v \in best : w <= v
    BY <1>1, <1>4
  <2>2. \A u \in best : (\A v \in best : u <= v) => u = w
    BY <1>1, <1>4, <2>1
  <2>3. optimal_param(ds, n) = Min(best)
    BY DEF optimal_param
  <2> HIDE DEF best
  <2>4. Min(best) = CHOOSE u \in best : \A v \in best : u <= v
    BY DEF Min
  <2> QED BY <1>4, <2>1, <2>2, <2>3, <2>4
<1>7. w # RidBits
  <2> SUFFICES ASSUME w = RidBits PROVE FALSE
    OBVIOUS
  <2>1. SizeAt(ds, n, 0) <= SizeAt(ds, n, RidBits)
    BY ExceptionsOnlySize
  <2>2. \A v \in 0 .. RidBits : SizeAt(ds, n, 0) <= SizeAt(ds, n, v)
    BY <1>1, <1>2, <1>5, <2>1
  <2>3. 0 \in best
    BY <1>1, <2>2
  <2> HIDE DEF best
  <2>4. ~ (0 < RidBits)
    BY <1>4, <2>3
  <2> QED BY <1>1, <2>4
<1>8. SizeAt(ds, n, w) <= WordBytes + 4 * BatchSize
  <2>1. SizeAt(ds, n, w) <= SizeAt(ds, n, 0) /\ SizeAt(ds, n, 0) <= WordBytes + 4 * BatchSize
    BY <1>1, <1>5, ExceptionsOnlySize
  <2>2. SizeAt(ds, n, w) \in Nat /\ SizeAt(ds, n, 0) \in Nat
    BY <1>1, <1>2, <1>5
  <2> QED BY <2>1, <2>2, BatchShape
<1> QED BY <1>1, <1>5, <1>6, <1>7, <1>8

\* The width chosen by expanding never costs more than storing the RIDs, and
\* is 1 only where the optimal one is.
LEMMA ExpandedWidth ==
  ASSUME NEW n, NEW ds, IsDeltas(ds, n)
  PROVE  /\ determine_b_to_expand(ds, n) \in 0 .. RidBits
         /\ SizeAt(ds, n, determine_b_to_expand(ds, n)) <= WordBytes + 4 * BatchSize
         /\ optimal_param(ds, n) # 1 => determine_b_to_expand(ds, n) # 1
<1> DEFINE best == optimal_param(ds, n)
           wider == {w \in best + 2 .. RidBits :
                       /\ ExceptionsAt(ds, w) = {}
                       /\ 10 * SizeAt(ds, n, w) < 16 * SizeAt(ds, n, best)}
           b == determine_b_to_expand(ds, n)
<1>1. best \in 0 .. RidBits - 1 /\ SizeAt(ds, n, best) <= WordBytes + 4 * BatchSize
      /\ RidBits \in Nat \ {0}
  BY OptimalWidth, BatchShape
<1>2. b = IF wider = {} THEN best ELSE Min(wider)
  BY DEF determine_b_to_expand
<1>3. wider \in SUBSET (2 .. RidBits) /\ \A w \in wider : ExceptionsAt(ds, w) = {}
  <2> HIDE DEF best
  <2> QED BY <1>1
<1> HIDE DEF best, b
<1>4. wider # {} => Min(wider) \in wider
  <2> SUFFICES ASSUME wider # {} PROVE Min(wider) \in wider
    OBVIOUS
  <2>1. wider \in SUBSET Nat
    BY <1>1, <1>3
  <2> HIDE DEF wider
  <2>2. PICK k \in wider : \A h \in wider : ~ (h < k)
    BY <2>1, LeastMember
  <2>3. \A h \in wider : k <= h
    BY <2>1, <2>2
  <2> QED BY <2>3 DEF Min
<1> HIDE DEF wider
<1>5. CASE wider = {}
  <2>1. b = best
    BY <1>2, <1>5
  <2> QED BY <1>1, <2>1 DEF best, b
<1>6. CASE wider # {}
  <2>1. b \in 2 .. RidBits /\ ExceptionsAt(ds, b) = {}
    BY <1>2, <1>3, <1>4, <1>6
  <2>2. SizeAt(ds, n, b) <= WordBytes + 4 * BatchSize
    <3> DEFINE size == ValueSize(ds)
    <3>1. SizeAt(ds, n, b) = WordBytes + PFOR_FIXED_LENGTH_BUFFER_SIZE(b) + RoundUp(0 * size)
      <4>1. Cardinality(ExceptionsAt(ds, b)) = 0
        BY <2>1, FS_EmptySet
      <4>2. b # 0
        BY <2>1
      <4> QED BY <4>1, <4>2 DEF SizeAt, required_buffer_size
    <3>2. 0 * size = 0
      <4>1. size \in {1, 2, 4}
        BY ValueSizeFits DEF IsDeltas
      <4> QED BY <4>1
    <3>3. RoundUp(0) \in Nat /\ RoundUp(0) <= 0
      <4>1. 0 * WordBytes = 0 /\ 0 \in Nat
        BY BatchShape
      <4> QED BY <4>1, WholeWordsOf, RoundedUp
    <3>4. PFOR_FIXED_LENGTH_BUFFER_SIZE(b) \in Nat /\ PFOR_FIXED_LENGTH_BUFFER_SIZE(b) <= 4 * BatchSize
      BY <2>1, PackedSize
    <3> HIDE DEF size
    <3> QED BY <3>1, <3>2, <3>3, <3>4, BatchShape
  <2>3. b \in 0 .. RidBits /\ b # 1
    BY <2>1
  <2> QED BY <2>2, <2>3 DEF b
<1> QED BY <1>5, <1>6

-------------------------------------------------------------------------------
(* Batches and the RIDs they stand for.                                    *)

ReadsAs(batch, rids) ==
  /\ batch.frame_of_reference = rids[1] /\ batch.significant = Len(rids)
  /\ BatchDeltas(batch) = Deltas(rids)

\* A batch encoded at any width is read as the RIDs it was made from.
LEMMA ParamBatchRead ==
  ASSUME NEW rids, Distinct(rids), Len(rids) \in 1 .. BatchSize, NEW w \in 0 .. RidBits - 1
  PROVE  ReadsAs(encode_param_new(Deltas(rids), Len(rids), w, rids[1]), rids)
<1>1. IsDeltas(Deltas(rids), Len(rids))
  BY DeltasOfRids
<1> QED BY <1>1, EncodedDeltas, EncodedFields DEF ReadsAs

\* Decoding a batch that is read as some RIDs gives those RIDs, their
\* differences and, where they rise, the sums of the differences.
LEMMA BatchSums ==
  ASSUME NEW rids, Distinct(rids), Len(rids) \in 1 .. BatchSize, NEW batch, ReadsAs(batch, rids)
  PROVE  /\ DOMAIN SumsOf(batch) = 1 .. Len(rids)
         /\ decode_new(batch) = rids
         /\ Ascends(rids) => SumsOf(batch) = rids
         /\ decode_new_to_deltas(batch)
              = [i \in 1 .. Len(rids) |-> IF i = 1 THEN rids[1] ELSE Deltas(rids)[i - 1]]
<1> DEFINE n == Len(rids)
           sum == RunningSum(rids[1], Deltas(rids))
<1>1. n \in Nat /\ n \in 1 .. BatchSize /\ rids = [i \in 1 .. n |-> rids[i]]
      /\ \A i \in 1 .. n : i - 1 \in 0 .. n - 1 /\ (i - 1) + 1 = i
  <2>1. n \in Nat
    BY TypedRids
  <2>2. rids = [i \in 1 .. n |-> rids[i]]
    <3> DEFINE L == 0 .. RidLimit - 1
    <3>1. rids \in Seq(L)
      BY DEF Distinct
    <3> HIDE DEF L
    <3> QED BY <3>1
  <2> QED BY <2>1, <2>2
<1>2. SumsOf(batch) = [i \in 1 .. n |-> sum[i - 1]]
  <2> HIDE DEF sum
  <2>1. RunningSum(batch.frame_of_reference, BatchDeltas(batch)) = sum
    BY DEF ReadsAs, sum
  <2>2. batch.significant = n
    BY DEF ReadsAs
  <2> QED BY <2>1, <2>2 DEF SumsOf
<1>3. \A i \in 1 .. n : sum[i - 1] \in Int /\ sum[i - 1] % RidLimit = rids[i]
  <2>1. \A i \in 0 .. n - 1 : sum[i] \in Int /\ sum[i] % RidLimit = rids[i + 1]
    BY SumsWrap
  <2> HIDE DEF sum
  <2> QED BY <1>1, <2>1
<1>4. decode_new(batch) = rids
  <2>1. decode_new(batch) = [i \in 1 .. n |-> sum[i - 1] % RidLimit]
    <3> HIDE DEF sum
    <3>1. DOMAIN SumsOf(batch) = 1 .. n /\ \A i \in 1 .. n : SumsOf(batch)[i] = sum[i - 1]
      BY <1>2
    <3> QED BY <3>1 DEF decode_new
  <2> HIDE DEF sum
  <2>2. [i \in 1 .. n |-> sum[i - 1] % RidLimit] = [i \in 1 .. n |-> rids[i]]
    BY <1>3
  <2> QED BY <1>1, <2>1, <2>2
<1>5. Ascends(rids) => SumsOf(batch) = rids
  <2> SUFFICES ASSUME Ascends(rids) PROVE SumsOf(batch) = rids
    OBVIOUS
  <2>1. \A i \in 0 .. n - 1 : sum[i] = rids[i + 1]
    BY SumsExact
  <2> HIDE DEF sum
  <2>2. [i \in 1 .. n |-> sum[i - 1]] = [i \in 1 .. n |-> rids[i]]
    BY <1>1, <2>1
  <2> QED BY <1>1, <1>2, <2>2
<1>6. decode_new_to_deltas(batch)
        = [i \in 1 .. n |-> IF i = 1 THEN rids[1] ELSE Deltas(rids)[i - 1]]
  <2>1. Deltas(rids)[0] = 0 /\ rids[1] \in 0 .. RidLimit - 1
    BY DeltasOfRids, TypedRids, <1>1
  <2>2. (Deltas(rids)[0] + rids[1]) % RidLimit = rids[1]
    <3>1. 0 + rids[1] = rids[1] /\ RidLimit \in Nat \ {0}
      BY <2>1, Powers
    <3>2. rids[1] % RidLimit = rids[1]
      BY ONLY <2>1, <3>1, SmallRemainder
    <3> QED BY <2>1, <3>1, <3>2
  <2>3. decode_new_to_deltas(batch)
          = [i \in 1 .. n |-> IF i = 1 THEN (Deltas(rids)[0] + rids[1]) % RidLimit
                              ELSE Deltas(rids)[i - 1]]
    BY DEF decode_new_to_deltas, ReadsAs
  <2> QED BY <2>2, <2>3
<1> QED BY <1>2, <1>4, <1>5, <1>6

\* What the header of a batch holds.
HeaderHolds(batch) ==
  /\ batch.frame_of_reference \in 0 .. RidLimit - 1
  /\ batch.significant \in 1 .. BatchSize
  /\ batch.first_exception \in 0 .. BatchSize
  /\ batch.fixed_length \in 0 .. RidBits - 1
  /\ batch.encoded_size % WordBytes = 0
  /\ batch.encoded_size \in WordBytes .. kSufficientBufferCapacity - 4

\* The fields of an encoded batch fit the header, and the batch its buffer.
LEMMA ParamBatchHeader ==
  ASSUME NEW n, NEW ds, IsDeltas(ds, n), NEW frame \in 0 .. RidLimit - 1, NEW w \in 0 .. RidBits,
         SizeAt(ds, n, w) <= WordBytes + 4 * BatchSize
  PROVE  HeaderHolds(encode_param_new(ds, n, w, frame))
<1> DEFINE batch == encode_param_new(ds, n, w, frame)
<1>1. /\ batch.frame_of_reference = frame /\ batch.significant = n
      /\ batch.fixed_length = Header_write(w) /\ batch.encoded_size = SizeAt(ds, n, w)
  BY EncodedFields
<1>2. Header_write(w) \in 0 .. RidBits - 1
  BY HeaderKeepsWidth
<1>3. SizeAt(ds, n, w) % WordBytes = 0
      /\ SizeAt(ds, n, w) \in WordBytes .. kSufficientBufferCapacity - 4
  <2>1. SizeAt(ds, n, w) \in Nat /\ SizeAt(ds, n, w) % WordBytes = 0 /\ SizeAt(ds, n, w) >= WordBytes
    BY WholeSizes
  <2>2. kSufficientBufferCapacity = WordBytes + 8 * BatchSize
    BY FullBatchWords
  <2>3. WordBytes + 4 * BatchSize <= WordBytes + 8 * BatchSize - 4
        /\ WordBytes + 4 * BatchSize \in Nat /\ WordBytes + 8 * BatchSize - 4 \in Nat /\ WordBytes \in Nat
    BY BatchShape
  <2> DEFINE s == SizeAt(ds, n, w)
             a == WordBytes + 4 * BatchSize
             b == WordBytes + 8 * BatchSize - 4
  <2>4. s \in Nat /\ s >= WordBytes /\ a \in Nat /\ b \in Nat /\ s <= a /\ a <= b /\ WordBytes \in Nat
    <3>1. s \in Nat /\ s >= WordBytes
      BY <2>1
    <3>2. a \in Nat /\ b \in Nat /\ a <= b /\ WordBytes \in Nat
      BY <2>3
    <3>3. s <= a
      OBVIOUS
    <3> QED BY <3>1, <3>2, <3>3
  <2> HIDE DEF s, a, b
  <2>5. s \in WordBytes .. b
    BY <2>4
  <2>6. kSufficientBufferCapacity - 4 = b
    <3>1. WordBytes \in Int /\ BatchSize \in Int
      BY BatchShape
    <3>2. (WordBytes + 8 * BatchSize) - 4 = WordBytes + 8 * BatchSize - 4
      BY ONLY <3>1
    <3> QED BY <2>2, <3>2 DEF b
  <2> QED BY <2>1, <2>5, <2>6 DEF s
<1>4. batch.first_exception \in 0 .. BatchSize
  <2>1. BatchSize \in 0 .. BatchSize
    BY BatchShape
  <2>2. CASE w = 0
    <3>1. batch.first_exception = BatchSize
      BY <2>2, EncodedExceptionsOnly
    <3> QED BY <2>1, <3>1
  <2>3. CASE w # 0
    <3> DEFINE es == ExceptionsAt(ds, w)
    <3>1. batch.first_exception = (IF es = {} THEN BatchSize ELSE Min(es))
      BY <2>3, EncodedAtWidth
    <3>2. es \subseteq 1 .. n - 1 /\ n \in 1 .. BatchSize
      <4>1. w \in 1 .. RidBits
        BY <2>3, BatchShape
      <4> QED BY <4>1, SizeOfWidth DEF IsDeltas
    <3> HIDE DEF es, batch
    <3>3. es # {} => Min(es) \in es
      <4> SUFFICES ASSUME es # {} PROVE Min(es) \in es
        OBVIOUS
      <4>1. es \in SUBSET Nat
        BY <3>2
      <4>2. PICK k \in es : \A h \in es : ~ (h < k)
        BY <4>1, LeastMember
      <4>3. \A h \in es : k <= h
        BY <4>1, <4>2
      <4> QED BY <4>2, <4>3 DEF Min
    <3>4. es # {} => Min(es) \in 0 .. BatchSize
      <4>1. \A h \in 1 .. n - 1 : h \in 0 .. BatchSize
        BY <3>2, BatchShape
      <4> QED BY <3>2, <3>3, <4>1
    <3> QED BY <2>1, <3>1, <3>4
  <2> QED BY <2>2, <2>3
<1> HIDE DEF batch
<1>5. HeaderHolds(batch)
  BY <1>1, <1>2, <1>3, <1>4 DEF HeaderHolds, IsDeltas
<1> QED BY <1>5 DEF batch

\* The frame of a batch can be moved.
ExceptionPlaces(ds, n, w) == IF w = 0 THEN 0 .. n - 1 ELSE ExceptionsAt(ds, w)
EncodedBody(ds, n, w) ==
  LET es == ExceptionPlaces(ds, n, w)
  IN (IF w = 0 THEN {} ELSE Packed(w, [i \in Elements |-> IF i \in es THEN 0 ELSE ds[i]]))
       \cup encode_as_typed_exceptions(ValuesAt(ds, es), ValueSize(ds),
                                       (SizeAt(ds, n, w) - WordBytes) * ByteBits)

\* An encoded batch, field by field.
LEMMA EncodedRecord ==
  ASSUME NEW ds, NEW n, NEW w, NEW frame
  PROVE  encode_param_new(ds, n, w, frame)
           = [frame_of_reference |-> frame, significant |-> n, fixed_length |-> Header_write(w),
              first_exception |-> IF w = 0 \/ ExceptionPlaces(ds, n, w) = {} THEN BatchSize
                                  ELSE Min(ExceptionPlaces(ds, n, w)),
              exception_size |-> ValueSize(ds), encoded_size |-> SizeAt(ds, n, w),
              body |-> EncodedBody(ds, n, w), ones |-> <<>>, zeros |-> <<>>]
<1> DEFINE es == ExceptionPlaces(ds, n, w)
           first == IF w = 0 \/ es = {} THEN BatchSize ELSE Min(es)
           batch == Batch(frame, n, w, first, ValueSize(ds), SizeAt(ds, n, w))
           body == (IF w = 0 THEN {}
                    ELSE Packed(w, [i \in Elements |-> IF i \in es THEN 0 ELSE ds[i]]))
                     \cup encode_as_typed_exceptions(ValuesAt(ds, es), ValueSize(ds), BodyBits(batch))
<1>1. encode_param_new(ds, n, w, frame) = [batch EXCEPT !.body = body]
  BY DEF encode_param_new, ExceptionPlaces
<1>2. BodyBits(batch) = (SizeAt(ds, n, w) - WordBytes) * ByteBits
  <2> HIDE DEF first
  <2> QED BY DEF BodyBits, Batch
<1>3. body = EncodedBody(ds, n, w)
  <2> HIDE DEF batch
  <2> QED BY <1>2 DEF EncodedBody
<1> HIDE DEF body
<1>4. [batch EXCEPT !.body = body]
        = [frame_of_reference |-> frame, significant |-> n, fixed_length |-> Header_write(w),
           first_exception |-> first, exception_size |-> ValueSize(ds),
           encoded_size |-> SizeAt(ds, n, w), body |-> body, ones |-> <<>>, zeros |-> <<>>]
  <2> HIDE DEF first
  <2> QED BY DEF Batch
<1> QED BY <1>1, <1>3, <1>4

\* Moving the frame of an encoded batch is encoding with the moved frame.
LEMMA FrameMoved ==
  ASSUME NEW ds, NEW n, NEW w, NEW frame, NEW moved
  PROVE  [encode_param_new(ds, n, w, frame) EXCEPT !.frame_of_reference = moved]
           = encode_param_new(ds, n, w, moved)
<1> DEFINE first == IF w = 0 \/ ExceptionPlaces(ds, n, w) = {} THEN BatchSize
                    ELSE Min(ExceptionPlaces(ds, n, w))
           header == Header_write(w)
           size == ValueSize(ds)
           bytes == SizeAt(ds, n, w)
           body == EncodedBody(ds, n, w)
           record(f) == [frame_of_reference |-> f, significant |-> n, fixed_length |-> header,
                         first_exception |-> first, exception_size |-> size,
                         encoded_size |-> bytes, body |-> body, ones |-> <<>>, zeros |-> <<>>]
<1>1. encode_param_new(ds, n, w, frame) = record(frame)
      /\ encode_param_new(ds, n, w, moved) = record(moved)
  BY EncodedRecord
<1> HIDE DEF first, header, size, bytes, body
<1>2. [record(frame) EXCEPT !.frame_of_reference = moved] = record(moved)
  OBVIOUS
<1> HIDE DEF record
<1> QED BY <1>1, <1>2

\* The encoders without runs.
LEMMA PlainBatches ==
  ASSUME NEW rids, Distinct(rids), Len(rids) \in 1 .. BatchSize
  PROVE  /\ ReadsAs(encode(rids), rids) /\ HeaderHolds(encode(rids))
         /\ encode(rids).ones = <<>>
         /\ HeaderHolds(expand_encode(rids)) /\ expand_encode(rids).ones = <<>>
         /\ determine_b_to_expand(Deltas(rids), Len(rids)) # RidBits
              => ReadsAs(expand_encode(rids), rids)
<1> DEFINE n == Len(rids)
           ds == Deltas(rids)
           best == optimal_param(ds, n)
           b == determine_b_to_expand(ds, n)
<1>1. IsDeltas(ds, n) /\ rids[1] \in 0 .. RidLimit - 1
  BY DeltasOfRids, TypedRids
<1>2. best \in 0 .. RidBits - 1 /\ best \in 0 .. RidBits
      /\ SizeAt(ds, n, best) <= WordBytes + 4 * BatchSize
  BY <1>1, OptimalWidth, BatchShape
<1>3. b \in 0 .. RidBits /\ SizeAt(ds, n, b) <= WordBytes + 4 * BatchSize
      /\ (b # RidBits => b \in 0 .. RidBits - 1)
  <2>1. b \in 0 .. RidBits /\ SizeAt(ds, n, b) <= WordBytes + 4 * BatchSize
    BY <1>1, ExpandedWidth
  <2> HIDE DEF b
  <2> QED BY <2>1, BatchShape
<1>4. encode(rids) = encode_param_new(ds, n, best, rids[1])
      /\ expand_encode(rids) = encode_param_new(ds, n, b, rids[1])
  BY DEF encode, expand_encode
<1> HIDE DEF best, b
<1>5. ReadsAs(encode(rids), rids) /\ (b # RidBits => ReadsAs(expand_encode(rids), rids))
  BY <1>2, <1>3, <1>4, ParamBatchRead
<1>6. HeaderHolds(encode(rids)) /\ HeaderHolds(expand_encode(rids))
  <2> HIDE DEF ds, n
  <2> QED BY <1>1, <1>2, <1>3, <1>4, ParamBatchHeader
<1>7. encode(rids).ones = <<>> /\ expand_encode(rids).ones = <<>>
  <2> HIDE DEF ds, n
  <2> QED BY <1>4, EncodedFields
<1> QED BY <1>5, <1>6, <1>7 DEF b

-------------------------------------------------------------------------------
(* Batches of runs.                                                        *)

RunPlaces(ds) == {i \in Elements \ {0} : ds[i] > 1} \cup {0}
RunCount(ds) == Cardinality(RunPlaces(ds))
RunFrom(ds, k) == Ordered(RunPlaces(ds))[k]
RunTo(ds, n, k) == IF k < RunCount(ds) THEN RunFrom(ds, k + 1) ELSE n

\* The runs of a batch begin at rising places, the first at its start.
LEMMA RunsInOrder ==
  ASSUME NEW n, NEW ds, IsDeltas(ds, n)
  PROVE  /\ RunCount(ds) \in 1 .. n
         /\ RunPlaces(ds) \in SUBSET Elements /\ RunPlaces(ds) \subseteq 0 .. n - 1
         /\ \A k \in 1 .. RunCount(ds) : RunFrom(ds, k) \in RunPlaces(ds)
         /\ \A k, l \in 1 .. RunCount(ds) : k < l => RunFrom(ds, k) < RunFrom(ds, l)
         /\ \A i \in RunPlaces(ds) : \E k \in 1 .. RunCount(ds) : RunFrom(ds, k) = i
         /\ RunFrom(ds, 1) = 0
<1> DEFINE P == RunPlaces(ds)
           c == RunCount(ds)
<1>1. n \in 1 .. BatchSize /\ BatchSize \in Nat /\ Elements = 0 .. BatchSize - 1 /\ n \in Nat \ {0}
      /\ 0 \in Elements
  BY BatchShape DEF IsDeltas
<1>2. P \in SUBSET Elements /\ P \subseteq 0 .. n - 1 /\ 0 \in P
  <2>1. ASSUME NEW i \in Elements, ds[i] > 1 PROVE i \in 0 .. n - 1
    <3>1. ds[i] # 0
      BY <2>1 DEF IsDeltas
    <3>2. i \in 1 .. n - 1
      BY <3>1 DEF IsDeltas
    <3> QED BY <1>1, <3>2
  <2> QED BY <1>1, <2>1 DEF RunPlaces
<1> HIDE DEF P
<1>3. c = Cardinality(P) /\ \A k : RunFrom(ds, k) = Ordered(P)[k]
  BY DEF P, RunCount, RunFrom
<1> HIDE DEF c
<1>4. \A k \in 1 .. c : /\ Ordered(P)[k] \in P
                        /\ \A l \in 1 .. c : k < l => Ordered(P)[k] < Ordered(P)[l]
  BY <1>2, <1>3, EveryRankTaken
<1>5. \A i \in P : Rank(P, i) \in 1 .. c /\ Ordered(P)[Rank(P, i)] = i
  BY <1>2, <1>3, RankInOrder, OrderedAtRank
<1>6. c \in 1 .. n
  <2>1. IsFiniteSet(0 .. n - 1) /\ Cardinality(0 .. n - 1) = n
    <3>1. 0 \in Int /\ n - 1 \in Int
      BY <1>1
    <3>2. Cardinality(0 .. n - 1) = IF 0 > n - 1 THEN 0 ELSE (n - 1) - 0 + 1
      BY <3>1, FS_Interval
    <3>3. IsFiniteSet(0 .. n - 1)
      BY <3>1, FS_Interval
    <3> QED BY <1>1, <3>2, <3>3
  <2>2. Cardinality(P) <= Cardinality(0 .. n - 1)
    BY <1>2, <2>1, FS_Subset
  <2>3. c \in Nat
    BY <1>2, <1>3, PositionsFinite
  <2>4. 1 .. c # {}
    BY <1>2, <1>5
  <2> QED BY <1>1, <1>3, <2>1, <2>2, <2>3, <2>4
<1>7. Ordered(P)[1] = 0
  <2>1. PICK k \in 1 .. c : Ordered(P)[k] = 0
    BY <1>2, <1>5
  <2>2. 1 \in 1 .. c
    BY <1>1, <1>6
  <2>3. Ordered(P)[1] \in 0 .. n - 1
    BY <1>2, <1>4, <2>2
  <2>4. 1 < k => Ordered(P)[1] < 0
    BY <1>4, <2>1, <2>2
  <2>5. k = 1
    BY <1>1, <1>6, <2>3, <2>4
  <2> QED BY <2>1, <2>5
<1>8. \A i \in P : \E k \in 1 .. c : Ordered(P)[k] = i
  BY <1>5
<1> QED BY <1>2, <1>3, <1>4, <1>6, <1>7, <1>8 DEF P, c

\* A run is not empty, and its rows after the first have differences of one.
LEMMA InsideRun ==
  ASSUME NEW n, NEW ds, IsDeltas(ds, n), NEW k \in 1 .. RunCount(ds)
  PROVE  /\ RunFrom(ds, k) \in 0 .. n - 1 /\ RunTo(ds, n, k) \in 1 .. n
         /\ RunFrom(ds, k) < RunTo(ds, n, k)
         /\ \A i \in RunFrom(ds, k) + 1 .. RunTo(ds, n, k) - 1 : ds[i] = 1
<1> DEFINE c == RunCount(ds)
           a == RunFrom(ds, k)
           b == RunTo(ds, n, k)
<1>1. /\ c \in 1 .. n /\ RunPlaces(ds) \in SUBSET Elements /\ RunPlaces(ds) \subseteq 0 .. n - 1
      /\ \A l \in 1 .. c : RunFrom(ds, l) \in RunPlaces(ds)
      /\ \A l, m \in 1 .. c : l < m => RunFrom(ds, l) < RunFrom(ds, m)
      /\ \A i \in RunPlaces(ds) : \E l \in 1 .. c : RunFrom(ds, l) = i
  BY RunsInOrder
<1>2. n \in 1 .. BatchSize /\ BatchSize \in Nat /\ Elements = 0 .. BatchSize - 1 /\ n \in Nat \ {0}
  BY BatchShape DEF IsDeltas
<1> HIDE DEF c
<1>3. a \in 0 .. n - 1 /\ k \in Nat /\ k \in 1 .. c
  BY <1>1, <1>2 DEF c
<1>4. b \in 1 .. n /\ a < b
  <2>1. CASE k < c
    <3>1. k + 1 \in 1 .. c /\ k < k + 1
      BY <1>1, <1>2, <1>3, <2>1
    <3>2. b = RunFrom(ds, k + 1)
      BY <2>1 DEF RunTo, c
    <3>3. b \in 0 .. n - 1 /\ a < b
      BY <1>1, <1>3, <3>1, <3>2
    <3> HIDE DEF a, b
    <3> QED BY <1>2, <1>3, <3>3
  <2>2. CASE ~ (k < c)
    <3>1. b = n
      BY <2>2 DEF RunTo, c
    <3> HIDE DEF a, b
    <3> QED BY <1>2, <1>3, <3>1
  <2> QED BY <2>1, <2>2
<1>5. ASSUME NEW i \in a + 1 .. b - 1 PROVE ds[i] = 1
  <2>1. i \in 1 .. n - 1 /\ i \in Elements /\ i # 0 /\ a < i /\ i < b
    <3> HIDE DEF a, b
    <3> QED BY <1>2, <1>3, <1>4
  <2>2. i \notin RunPlaces(ds)
    <3> SUFFICES ASSUME i \in RunPlaces(ds) PROVE FALSE
      OBVIOUS
    <3>1. PICK l \in 1 .. c : RunFrom(ds, l) = i
      BY <1>1
    <3>2. ~ (l < k) /\ l # k
      <4>1. l < k => i < a
        BY <1>1, <1>3, <3>1
      <4>2. l = k => i = a
        BY <3>1
      <4> HIDE DEF a, b
      <4> QED BY <1>2, <1>3, <2>1, <4>1, <4>2
    <3>3. k < l /\ k < c /\ k + 1 \in 1 .. c /\ (k + 1 = l \/ k + 1 < l)
      BY <1>1, <1>2, <1>3, <3>2
    <3>4. b = RunFrom(ds, k + 1) /\ b \in 1 .. n
      BY <1>4, <3>3 DEF RunTo, c
    <3>5. k + 1 < l => b < i
      BY <1>1, <3>1, <3>3, <3>4
    <3>6. k + 1 = l => b = i
      BY <3>1, <3>4
    <3> HIDE DEF a, b
    <3> QED BY <1>2, <2>1, <3>3, <3>4, <3>5, <3>6
  <2>3. ds[i] # 0 /\ ds[i] \in 0 .. RidLimit - 1
    BY <2>1 DEF IsDeltas
  <2>4. ~ (ds[i] > 1)
    BY <2>1, <2>2 DEF RunPlaces
  <2> QED BY <2>3, <2>4, Powers
<1> QED BY <1>3, <1>4, <1>5

\* Every row is in a run.
LEMMA RunOfRow ==
  ASSUME NEW n, NEW ds, IsDeltas(ds, n), NEW i \in 0 .. n - 1
  PROVE  \E k \in 1 .. RunCount(ds) : i \in RunFrom(ds, k) .. RunTo(ds, n, k) - 1
<1> DEFINE c == RunCount(ds)
           back == {i - h : h \in {g \in RunPlaces(ds) : g <= i}}
<1>1. /\ c \in 1 .. n /\ RunPlaces(ds) \in SUBSET Elements /\ RunPlaces(ds) \subseteq 0 .. n - 1
      /\ \A l \in 1 .. c : RunFrom(ds, l) \in RunPlaces(ds)
      /\ \A l, m \in 1 .. c : l < m => RunFrom(ds, l) < RunFrom(ds, m)
      /\ \A h \in RunPlaces(ds) : \E l \in 1 .. c : RunFrom(ds, l) = h
      /\ 0 \in RunPlaces(ds)
  BY RunsInOrder DEF RunPlaces
<1>2. n \in Nat \ {0} /\ i \in Nat
  BY BatchShape DEF IsDeltas
<1> HIDE DEF c
<1>3. PICK d \in back : \A e \in back : ~ (e < d)
  <2>1. back \in SUBSET Nat
    BY <1>1, <1>2
  <2>2. i - 0 \in back
    BY <1>1, <1>2
  <2> HIDE DEF back
  <2> QED BY <2>1, <2>2, LeastMember
<1>4. PICK h \in RunPlaces(ds) : h <= i /\ d = i - h
  BY <1>3
<1>5. \A g \in RunPlaces(ds) : g <= i => g <= h
  <2> SUFFICES ASSUME NEW g \in RunPlaces(ds), g <= i PROVE g <= h
    OBVIOUS
  <2>1. i - g \in back
    OBVIOUS
  <2>2. ~ (i - g < i - h)
    BY <1>3, <1>4, <2>1
  <2>3. g \in Int /\ h \in Int
    BY <1>1
  <2> QED BY <1>2, <2>2, <2>3
<1>6. PICK k \in 1 .. c : RunFrom(ds, k) = h
  BY <1>1
<1> HIDE DEF back
<1>7. i < RunTo(ds, n, k) /\ RunTo(ds, n, k) \in Int
  <2>1. CASE k < c
    <3>1. k + 1 \in 1 .. c /\ k < k + 1
      BY <1>1, <1>2, <2>1
    <3> DEFINE b == RunFrom(ds, k + 1)
    <3>2. b \in RunPlaces(ds) /\ h < b /\ b \in Int /\ h \in Int
      BY <1>1, <1>6, <3>1
    <3>3. RunTo(ds, n, k) = b
      BY <2>1 DEF RunTo, c
    <3> HIDE DEF b
    <3>4. ~ (b <= i)
      BY <1>5, <3>2
    <3> QED BY <1>2, <3>2, <3>3, <3>4
  <2>2. CASE ~ (k < c)
    <3>1. RunTo(ds, n, k) = n
      BY <2>2 DEF RunTo, c
    <3> QED BY <1>2, <3>1
  <2> QED BY <2>1, <2>2
<1>8. i \in RunFrom(ds, k) .. RunTo(ds, n, k) - 1
  <2> DEFINE b == RunTo(ds, n, k)
  <2>1. b \in Int /\ i < b /\ h \in Int /\ h <= i
    BY <1>1, <1>4, <1>7
  <2> HIDE DEF b
  <2>2. i \in h .. b - 1
    BY <1>2, <2>1
  <2> QED BY <1>6, <2>2 DEF b
<1> QED BY <1>8 DEF c

\* Within a run the running sum rises by one a step.
LEMMA SumsInRun ==
  ASSUME NEW n, NEW ds, IsDeltas(ds, n), NEW frame \in Int, NEW k \in 1 .. RunCount(ds)
  PROVE  /\ \A i \in RunFrom(ds, k) .. RunTo(ds, n, k) - 1 :
              RunningSum(frame, ds)[i] = RunningSum(frame, ds)[RunFrom(ds, k)] + (i - RunFrom(ds, k))
         /\ RunningSum(frame, ds)[RunFrom(ds, k)] \in Int
<1> DEFINE a == RunFrom(ds, k)
           b == RunTo(ds, n, k)
           sum == RunningSum(frame, ds)
<1>1. a \in 0 .. n - 1 /\ b \in 1 .. n /\ a < b /\ \A i \in a + 1 .. b - 1 : ds[i] = 1
  BY InsideRun
<1>2. n \in 1 .. BatchSize /\ BatchSize \in Nat /\ Elements = 0 .. BatchSize - 1 /\ n \in Nat \ {0}
  BY BatchShape DEF IsDeltas
<1>3. /\ \A i \in Elements : sum[i] \in Int
      /\ \A i \in 1 .. BatchSize - 1 : sum[i] = ds[i] + sum[i - 1]
  <2>1. \A i \in Elements : ds[i] \in Int
    BY DEF IsDeltas
  <2> QED BY <2>1, RunningSumIs
<1> HIDE DEF a, b, sum
<1> DEFINE S == {j \in 0 .. (b - 1) - a : sum[a + j] = sum[a] + j}
<1>4. a \in Elements /\ sum[a] \in Int
  BY <1>1, <1>2, <1>3
<1>5. 0 \in S
  BY <1>1, <1>2, <1>4
<1>6. \A j \in 0 .. ((b - 1) - a) - 1 : j \in S => j + 1 \in S
  <2> SUFFICES ASSUME NEW j \in 0 .. ((b - 1) - a) - 1, sum[a + j] = sum[a] + j PROVE j + 1 \in S
    OBVIOUS
  <2>1. /\ a + (j + 1) \in a + 1 .. b - 1 /\ a + (j + 1) \in 1 .. BatchSize - 1
        /\ (a + (j + 1)) - 1 = a + j /\ j + 1 \in 0 .. (b - 1) - a
    BY <1>1, <1>2
  <2>2. sum[a + (j + 1)] = 1 + sum[a + j]
    BY <1>1, <1>3, <2>1
  <2>3. sum[a + (j + 1)] = sum[a] + (j + 1)
    BY <1>4, <2>2
  <2> QED BY <2>1, <2>3
<1>7. (b - 1) - a \in Nat
  BY <1>1, <1>2
<1> HIDE DEF S
<1>8. \A j \in 0 .. (b - 1) - a : j \in S
  <2> DEFINE m == (b - 1) - a
  <2>1. m \in Nat /\ \A j \in 0 .. m - 1 : j \in S => j + 1 \in S
    BY <1>6, <1>7
  <2> HIDE DEF m
  <2>2. \A j \in 0 .. m : j \in S
    BY <1>5, <2>1, InductionUpTo
  <2> QED BY <2>2 DEF m
<1>9. ASSUME NEW i \in a .. b - 1 PROVE sum[i] = sum[a] + (i - a)
  <2>1. i - a \in 0 .. (b - 1) - a /\ a + (i - a) = i
    BY <1>1, <1>2
  <2>2. i - a \in S
    BY <1>8, <2>1
  <2> QED BY <2>1, <2>2 DEF S
<1> QED BY <1>4, <1>9 DEF a, b, sum

-------------------------------------------------------------------------------
(* How a batch of runs is read.                                            *)

\* A batch of runs, field by field.
LEMMA RunsRecord ==
  ASSUME NEW n, NEW ds, IsDeltas(ds, n), NEW frame
  PROVE  LET batch == encode_on_b_equal_one(ds, n, frame)
             c == RunCount(ds)
         IN /\ batch.frame_of_reference = frame /\ batch.significant = n
            /\ batch.fixed_length = Header_write(1) /\ batch.first_exception = c
            /\ batch.encoded_size = RunsSize(c)
            /\ DOMAIN batch.ones = 1 .. c /\ DOMAIN batch.zeros = 1 .. c - 1
            /\ \A k \in 1 .. c : batch.ones[k] = RunTo(ds, n, k) - RunFrom(ds, k)
            /\ \A k \in 1 .. c - 1 : batch.zeros[k] = ds[RunFrom(ds, k + 1)] - 1
<1> DEFINE c == RunCount(ds)
           starts == Ordered(RunPlaces(ds))
           size == ValueSize(ds)
           bytes == RunsSize(c)
           base == Batch(frame, n, 1, c, size, bytes)
           ones == [k \in 1 .. c |-> IF k < c THEN starts[k + 1] - starts[k]
                                     ELSE (n - 1) - starts[k] + 1]
           zeros == [k \in 1 .. c - 1 |-> ds[starts[k + 1]] - 1]
           batch == encode_on_b_equal_one(ds, n, frame)
<1>1. c \in Nat /\ c \in 1 .. n /\ n \in Nat
  <2>1. n \in 1 .. BatchSize
    BY DEF IsDeltas
  <2>2. c \in 1 .. n
    BY RunsInOrder
  <2> HIDE DEF c
  <2> QED BY <2>1, <2>2, BatchShape
<1>2. Len(starts) = c
  <2> DEFINE place(k) == CHOOSE i \in RunPlaces(ds) : Rank(RunPlaces(ds), i) = k
  <2>1. starts = [k \in 1 .. c |-> place(k)]
    BY DEF Ordered, RunCount
  <2> HIDE DEF starts, c, place
  <2> QED BY <1>1, <2>1
<1>3. batch = [base EXCEPT !.ones = ones, !.zeros = zeros]
  <2>1. starts = Ordered({i \in Elements \ {0} : ds[i] > 1} \cup {0})
    BY DEF RunPlaces
  <2> HIDE DEF starts, c
  <2> QED BY <1>2, <2>1 DEF encode_on_b_equal_one
<1>4. /\ base.frame_of_reference = frame /\ base.significant = n
      /\ base.fixed_length = Header_write(1) /\ base.first_exception = c
      /\ base.encoded_size = bytes
  <2> HIDE DEF bytes, c, size
  <2> QED BY DEF Batch
<1>5. DOMAIN base = {"frame_of_reference", "significant", "fixed_length", "first_exception",
                     "exception_size", "encoded_size", "body", "ones", "zeros"}
  BY DEF Batch
<1> HIDE DEF ones, zeros, base
<1>6. /\ batch.frame_of_reference = frame /\ batch.significant = n
      /\ batch.fixed_length = Header_write(1) /\ batch.first_exception = c
      /\ batch.encoded_size = bytes /\ batch.ones = ones /\ batch.zeros = zeros
  <2> HIDE DEF bytes, c, batch
  <2> QED BY <1>3, <1>4, <1>5
<1>7. DOMAIN ones = 1 .. c /\ DOMAIN zeros = 1 .. c - 1
  BY DEF ones, zeros
<1>8. ASSUME NEW k \in 1 .. c PROVE ones[k] = RunTo(ds, n, k) - RunFrom(ds, k)
  <2>1. ones[k] = IF k < c THEN starts[k + 1] - starts[k] ELSE (n - 1) - starts[k] + 1
    BY DEF ones
  <2>2. starts[k] = RunFrom(ds, k) /\ starts[k + 1] = RunFrom(ds, k + 1)
    BY DEF RunFrom
  <2>3. CASE k < c
    <3>1. RunTo(ds, n, k) = RunFrom(ds, k + 1)
      BY <2>3 DEF RunTo
    <3> QED BY <2>1, <2>2, <2>3, <3>1
  <2>4. CASE ~ (k < c)
    <3>1. RunTo(ds, n, k) = n
      BY <2>4 DEF RunTo
    <3>2. RunFrom(ds, k) \in Int
      BY InsideRun
    <3> DEFINE a == RunFrom(ds, k)
    <3>3. ones[k] = (n - 1) - a + 1 /\ a \in Int
      BY <2>1, <2>2, <2>4, <3>2
    <3> HIDE DEF a
    <3>4. ones[k] = n - a
      BY <1>1, <3>3
    <3> QED BY <3>1, <3>4 DEF a
  <2> QED BY <2>3, <2>4
<1>9. ASSUME NEW k \in 1 .. c - 1 PROVE zeros[k] = ds[RunFrom(ds, k + 1)] - 1
  BY DEF zeros, RunFrom
<1> QED BY <1>6, <1>7, <1>8, <1>9

\* The counting of a run starts from the RID of its first row.
LEMMA RunStartIsSum ==
  ASSUME NEW n, NEW ds, IsDeltas(ds, n), ds[0] = 0, NEW frame \in Int, NEW k \in 1 .. RunCount(ds),
         NEW batch, batch = encode_on_b_equal_one(ds, n, frame)
  PROVE  RunStart(batch, k) = RunningSum(frame, ds)[RunFrom(ds, k)] % RidLimit
<1> DEFINE c == RunCount(ds)
           sum == RunningSum(frame, ds)
           counts == [j \in 1 .. k - 1 |-> batch.ones[j] + batch.zeros[j]]
           f == [j \in 0 .. k - 1 |-> sum[RunFrom(ds, j + 1)] - frame]
<1>1. /\ batch.frame_of_reference = frame
      /\ \A j \in 1 .. c : batch.ones[j] = RunTo(ds, n, j) - RunFrom(ds, j)
      /\ \A j \in 1 .. c - 1 : batch.zeros[j] = ds[RunFrom(ds, j + 1)] - 1
  BY RunsRecord
<1>2. /\ c \in Nat /\ k \in 1 .. c /\ k - 1 \in Nat
      /\ RunFrom(ds, 1) = 0
      /\ \A j \in 1 .. c : sum[RunFrom(ds, j)] \in Int /\ RunFrom(ds, j) \in 0 .. n - 1
                           /\ RunTo(ds, n, j) \in 1 .. n /\ RunFrom(ds, j) < RunTo(ds, n, j)
  <2>1. c \in Nat /\ c \in 1 .. n /\ n \in Nat
    <3>1. n \in 1 .. BatchSize
      BY DEF IsDeltas
    <3>2. c \in 1 .. n
      BY RunsInOrder
    <3> HIDE DEF c
    <3> QED BY <3>1, <3>2, BatchShape
  <2>2. RunFrom(ds, 1) = 0
    BY RunsInOrder
  <2>3. \A j \in 1 .. c : sum[RunFrom(ds, j)] \in Int /\ RunFrom(ds, j) \in 0 .. n - 1
                           /\ RunTo(ds, n, j) \in 1 .. n /\ RunFrom(ds, j) < RunTo(ds, n, j)
    BY SumsInRun, InsideRun
  <2> QED BY <2>1, <2>2, <2>3
<1>3. n \in 1 .. BatchSize /\ BatchSize \in Nat /\ Elements = 0 .. BatchSize - 1 /\ n \in Nat \ {0}
  BY BatchShape DEF IsDeltas
<1>4. /\ sum[0] = frame
      /\ \A i \in 1 .. BatchSize - 1 : sum[i] = ds[i] + sum[i - 1]
      /\ \A i \in Elements : ds[i] \in Int /\ sum[i] \in Int
  <2>1. \A i \in Elements : ds[i] \in Int
    BY DEF IsDeltas
  <2>2. /\ sum[0] = ds[0] + frame
        /\ \A i \in 1 .. BatchSize - 1 : sum[i] = ds[i] + sum[i - 1]
        /\ \A i \in Elements : sum[i] \in Int
    BY <2>1, RunningSumIs
  <2> HIDE DEF sum
  <2> QED BY <2>1, <2>2
<1>5. ASSUME NEW j \in 1 .. k - 1
      PROVE  /\ counts[j] \in Int
             /\ sum[RunFrom(ds, j + 1)] = sum[RunFrom(ds, j)] + counts[j]
  <2> DEFINE a == RunFrom(ds, j)
             b == RunFrom(ds, j + 1)
  <2>1. j \in 1 .. c /\ j + 1 \in 1 .. c /\ j < c /\ j \in 1 .. c - 1
    BY <1>2
  <2>2. RunTo(ds, n, j) = b /\ a \in 0 .. n - 1 /\ b \in 0 .. n - 1 /\ a < b
    <3>1. RunTo(ds, n, j) = b
      BY <2>1 DEF RunTo
    <3> QED BY <1>2, <2>1, <3>1
  <2>3. counts[j] = (b - a) + (ds[b] - 1)
    <3>1. batch.ones[j] = b - a /\ batch.zeros[j] = ds[b] - 1
      BY <1>1, <2>1, <2>2
    <3> HIDE DEF a, b
    <3> QED BY <3>1
  <2>4. sum[b - 1] = sum[a] + ((b - 1) - a)
    <3>1. b - 1 \in a .. RunTo(ds, n, j) - 1
      <4> HIDE DEF a, b
      <4> QED BY <1>3, <2>2
    <3> QED BY <2>1, <3>1, SumsInRun
  <2>5. sum[b] = ds[b] + sum[b - 1] /\ ds[b] \in Int /\ sum[a] \in Int /\ a \in Int /\ b \in Int
    <3>1. b \in 1 .. BatchSize - 1 /\ b \in Elements /\ a \in Elements
      <4> HIDE DEF a, b
      <4> QED BY <1>3, <2>2
    <3> HIDE DEF sum, a, b
    <3> QED BY <1>4, <2>2, <3>1
  <2> HIDE DEF sum, a, b, counts
  <2>6. sum[b] = sum[a] + counts[j] /\ counts[j] \in Int
    BY <2>3, <2>4, <2>5
  <2> QED BY <2>6 DEF a, b
<1>6. IsSum(f, k - 1, counts)
  <2>1. \A j \in 0 .. k - 1 : j + 1 \in 1 .. c
    BY <1>2
  <2>2. f \in [0 .. k - 1 -> Int]
    <3> HIDE DEF sum
    <3> QED BY <1>2, <2>1
  <2>3. f[0] = 0
    <3>1. f[0] = sum[0] - frame
      <4>1. 0 \in 0 .. k - 1 /\ 0 + 1 = 1
        BY <1>2
      <4> HIDE DEF sum
      <4> QED BY <1>2, <4>1
    <3> HIDE DEF sum, f
    <3> QED BY <1>4, <3>1
  <2>4. ASSUME NEW j \in 1 .. k - 1 PROVE f[j] = f[j - 1] + counts[j]
    <3>1. j \in 0 .. k - 1 /\ j - 1 \in 0 .. k - 1 /\ (j - 1) + 1 = j /\ j \in 1 .. c /\ j + 1 \in 1 .. c
      BY <1>2
    <3>2. f[j] = sum[RunFrom(ds, j + 1)] - frame /\ f[j - 1] = sum[RunFrom(ds, j)] - frame
      <4> HIDE DEF sum
      <4> QED BY <3>1
    <3>3. sum[RunFrom(ds, j + 1)] = sum[RunFrom(ds, j)] + counts[j] /\ counts[j] \in Int
      BY <1>5
    <3>4. sum[RunFrom(ds, j)] \in Int
      BY <1>2, <3>1
    <3> HIDE DEF sum, f, counts
    <3> QED BY <3>2, <3>3, <3>4
  <2> HIDE DEF f, counts
  <2> QED BY <2>2, <2>3, <2>4 DEF IsSum
<1>7. Len(counts) = k - 1
  BY <1>2
<1>8. SumOf(counts) = f[k - 1]
  <2> HIDE DEF counts, f
  <2> QED BY <1>2, <1>6, <1>7, SumIs
<1>9. f[k - 1] = sum[RunFrom(ds, k)] - frame
  <2>1. k - 1 \in 0 .. k - 1 /\ (k - 1) + 1 = k
    BY <1>2
  <2> HIDE DEF sum
  <2> QED BY <2>1
<1>10. RunStart(batch, k) = (frame + SumOf(counts)) % RidLimit
  BY <1>1 DEF RunStart
<1>11. sum[RunFrom(ds, k)] \in Int
  BY <1>2
<1> HIDE DEF sum, f, counts
<1>12. frame + SumOf(counts) = sum[RunFrom(ds, k)]
  BY <1>8, <1>9, <1>11
<1>13. RunStart(batch, k) = sum[RunFrom(ds, k)] % RidLimit
  BY <1>10, <1>12
<1> QED BY <1>13 DEF sum

\* A bitmap gets the sums of all rows, run by run, if they are RIDs.
LEMMA RunsRead ==
  ASSUME NEW n, NEW ds, IsDeltas(ds, n), ds[0] = 0, NEW frame \in Int,
         \A i \in 0 .. n - 1 : RunningSum(frame, ds)[i] \in 0 .. RidLimit - 1
  PROVE  expand_exceptions_binary_typed(encode_on_b_equal_one(ds, n, frame))
           = {RunningSum(frame, ds)[i] : i \in 0 .. n - 1}
<1> DEFINE batch == encode_on_b_equal_one(ds, n, frame)
           c == RunCount(ds)
           sum == RunningSum(frame, ds)
<1>1. n \in 1 .. BatchSize /\ BatchSize \in Nat /\ n \in Nat \ {0}
  BY BatchShape DEF IsDeltas
<1>2. /\ DOMAIN batch.ones = 1 .. c
      /\ \A k \in 1 .. c : batch.ones[k] = RunTo(ds, n, k) - RunFrom(ds, k)
  BY RunsRecord
<1>3. ASSUME NEW k \in 1 .. c PROVE RunStart(batch, k) = sum[RunFrom(ds, k)]
  <2>1. RunStart(batch, k) = sum[RunFrom(ds, k)] % RidLimit
    BY RunStartIsSum
  <2>2. sum[RunFrom(ds, k)] \in 0 .. RidLimit - 1
    BY InsideRun
  <2> DEFINE s == sum[RunFrom(ds, k)]
  <2> HIDE DEF s
  <2>3. s % RidLimit = s
    BY <2>2, Powers, SmallRemainder DEF s
  <2> QED BY <2>1, <2>3 DEF s
<1>4. \A k \in 1 .. c :
        /\ RunFrom(ds, k) \in 0 .. n - 1 /\ RunTo(ds, n, k) \in 1 .. n
        /\ RunFrom(ds, k) < RunTo(ds, n, k) /\ sum[RunFrom(ds, k)] \in Int
        /\ \A i \in RunFrom(ds, k) .. RunTo(ds, n, k) - 1 :
             sum[i] = sum[RunFrom(ds, k)] + (i - RunFrom(ds, k))
  BY InsideRun, SumsInRun
<1>5. expand_exceptions_binary_typed(batch)
        = UNION {RunStart(batch, k) .. RunStart(batch, k) + batch.ones[k] - 1 : k \in 1 .. c}
  <2> HIDE DEF batch
  <2> QED BY <1>2 DEF expand_exceptions_binary_typed
<1> HIDE DEF batch, sum, c
<1>6. ASSUME NEW k \in 1 .. c, NEW x \in RunStart(batch, k) .. RunStart(batch, k) + batch.ones[k] - 1
      PROVE  \E i \in 0 .. n - 1 : x = sum[i]
  <2> DEFINE a == RunFrom(ds, k)
             b == RunTo(ds, n, k)
             s == sum[a]
  <2>1. a \in 0 .. n - 1 /\ b \in 1 .. n /\ a < b /\ s \in Int
        /\ \A i \in a .. b - 1 : sum[i] = s + (i - a)
    BY <1>4
  <2>2. x \in s .. s + (b - a) - 1
    BY <1>2, <1>3
  <2> HIDE DEF a, b, s
  <2>3. a + (x - s) \in a .. b - 1 /\ a + (x - s) \in 0 .. n - 1
    BY <1>1, <2>1, <2>2
  <2>4. sum[a + (x - s)] = s + ((a + (x - s)) - a)
    BY <2>1, <2>3
  <2>5. sum[a + (x - s)] = x
    BY <1>1, <2>1, <2>2, <2>4
  <2> QED BY <2>3, <2>5
<1>7. ASSUME NEW i \in 0 .. n - 1
      PROVE  \E k \in 1 .. c : sum[i] \in RunStart(batch, k) .. RunStart(batch, k) + batch.ones[k] - 1
  <2>1. PICK k \in 1 .. c : i \in RunFrom(ds, k) .. RunTo(ds, n, k) - 1
    BY RunOfRow DEF c
  <2> DEFINE a == RunFrom(ds, k)
             b == RunTo(ds, n, k)
             s == sum[a]
  <2>2. a \in 0 .. n - 1 /\ b \in 1 .. n /\ a < b /\ s \in Int /\ i \in a .. b - 1
        /\ sum[i] = s + (i - a)
    BY <1>4, <2>1
  <2>3. RunStart(batch, k) = s /\ batch.ones[k] = b - a
    BY <1>2, <1>3
  <2> HIDE DEF a, b, s
  <2>4. s + (i - a) \in s .. s + (b - a) - 1
    BY <1>1, <2>2
  <2> QED BY <2>2, <2>3, <2>4
<1>8. expand_exceptions_binary_typed(batch) = {sum[i] : i \in 0 .. n - 1}
  <2> DEFINE read(k) == RunStart(batch, k) .. RunStart(batch, k) + batch.ones[k] - 1
  <2>1. \A k \in 1 .. c : \A x \in read(k) : \E i \in 0 .. n - 1 : x = sum[i]
    BY <1>6
  <2>2. \A i \in 0 .. n - 1 : \E k \in 1 .. c : sum[i] \in read(k)
    BY <1>7
  <2>3. expand_exceptions_binary_typed(batch) = UNION {read(k) : k \in 1 .. c}
    BY <1>5
  <2> HIDE DEF read
  <2> QED BY <2>1, <2>2, <2>3
<1> QED BY <1>8 DEF batch, sum

-------------------------------------------------------------------------------
(* The batches of the encoders that make runs.                             *)

\* The header of a batch of runs.
LEMMA RunsHeader ==
  ASSUME NEW n, NEW ds, IsDeltas(ds, n), NEW frame \in 0 .. RidLimit - 1
  PROVE  /\ HeaderHolds(encode_on_b_equal_one(ds, n, frame))
         /\ Header_read(encode_on_b_equal_one(ds, n, frame)) = 1
<1> DEFINE batch == encode_on_b_equal_one(ds, n, frame)
           c == RunCount(ds)
           x == WordBytes + 1 + (c - 1) * (4 + 1)
           s == RoundUp(x)
<1>1. /\ batch.frame_of_reference = frame /\ batch.significant = n
      /\ batch.fixed_length = Header_write(1) /\ batch.first_exception = c
      /\ batch.encoded_size = s
  BY RunsRecord DEF RunsSize
<1>2. n \in 1 .. BatchSize /\ c \in 1 .. n
  BY RunsInOrder DEF IsDeltas
<1>3. Header_write(1) \in 0 .. RidBits - 1 /\ Header_write(1) + 1 = 1
  <2>1. 1 \in 0 .. RidBits
    BY BatchShape
  <2>2. /\ Header_write(1) \in 0 .. RidBits - 1
        /\ Header_write(1) + 1 = IF 1 = 0 THEN RidBits ELSE 1
    BY ONLY <2>1, HeaderKeepsWidth
  <2> QED BY <2>2
<1> HIDE DEF c
<1>4. c \in Nat /\ x \in Nat /\ x <= WordBytes + 5 * BatchSize - 4 /\ x >= WordBytes
      /\ BatchSize \in Nat /\ WordBytes \in Nat \ {0} /\ c \in 0 .. BatchSize
  BY <1>2, BatchShape
<1> HIDE DEF x
<1>5. s \in Nat /\ s >= x /\ s <= x + WordBytes - 1 /\ s % WordBytes = 0
  BY <1>4, RoundedUp
<1> HIDE DEF s
<1>6. BatchSize >= WordBytes /\ kSufficientBufferCapacity = WordBytes + 8 * BatchSize
  BY FullBatchWords
<1>7. s \in WordBytes .. kSufficientBufferCapacity - 4
  BY <1>4, <1>5, <1>6
<1> HIDE DEF batch
<1>8. HeaderHolds(batch)
  BY <1>1, <1>2, <1>3, <1>4, <1>5, <1>7 DEF HeaderHolds
<1>9. Header_read(batch) = 1
  BY <1>1, <1>3 DEF Header_read
<1> QED BY <1>8, <1>9 DEF batch

\* Only batches of runs and batches of width 1 have a 1 in their header.
LEMMA PlainWidth ==
  ASSUME NEW ds, NEW n, NEW w \in 0 .. RidBits, w # 1, NEW frame
  PROVE  Header_read(encode_param_new(ds, n, w, frame)) # 1
<1>1. encode_param_new(ds, n, w, frame).fixed_length = Header_write(w)
  BY EncodedFields
<1>2. Header_write(w) + 1 = IF w = 0 THEN RidBits ELSE w
  BY HeaderKeepsWidth
<1>3. RidBits # 1
  BY BatchShape
<1> QED BY <1>1, <1>2, <1>3 DEF Header_read

\* A batch of runs for a bitmap: its bits are the RIDs when they do not wrap.
LEMMA RunsBits ==
  ASSUME NEW rids, Distinct(rids), Len(rids) \in 1 .. BatchSize, Ascends(rids)
  PROVE  expand_exceptions_binary_typed(encode_on_b_equal_one(Deltas(rids), Len(rids), rids[1]))
           = Range(rids)
<1> DEFINE n == Len(rids)
           ds == Deltas(rids)
           sum == RunningSum(rids[1], ds)
<1>1. n \in Nat /\ n \in 1 .. BatchSize /\ \A i \in 1 .. n : rids[i] \in 0 .. RidLimit - 1
  BY TypedRids
<1>2. rids[1] \in Int
  BY <1>1
<1>3. \A i \in 0 .. n - 1 : sum[i] = rids[i + 1]
  BY SumsExact
<1>4. expand_exceptions_binary_typed(encode_on_b_equal_one(ds, n, rids[1]))
        = {sum[i] : i \in 0 .. n - 1}
  <2>1. \A i \in 0 .. n - 1 : sum[i] \in 0 .. RidLimit - 1
    <3>1. \A i \in 0 .. n - 1 : i + 1 \in 1 .. n
      BY <1>1
    <3> HIDE DEF sum, n
    <3> QED BY <1>1, <1>3, <3>1
  <2>2. IsDeltas(ds, n) /\ ds[0] = 0
    BY DeltasOfRids
  <2> QED BY ONLY <1>2, <2>1, <2>2, RunsRead
<1>5. DOMAIN rids = 1 .. n
  <2> DEFINE L == 0 .. RidLimit - 1
  <2>1. rids \in Seq(L)
    BY DEF Distinct
  <2> HIDE DEF L
  <2> QED BY <2>1
<1> HIDE DEF sum
<1>6. {sum[i] : i \in 0 .. n - 1} = {rids[k] : k \in 1 .. n}
  <2>1. \A i \in 0 .. n - 1 : i + 1 \in 1 .. n
    BY <1>1
  <2>2. \A k \in 1 .. n : k - 1 \in 0 .. n - 1 /\ (k - 1) + 1 = k
    BY <1>1
  <2> HIDE DEF n
  <2>3. \A k \in 1 .. n : sum[k - 1] = rids[k]
    BY <1>3, <2>2
  <2> QED BY <1>3, <2>1, <2>2, <2>3
<1> QED BY <1>4, <1>5, <1>6 DEF Range

\* The encoders with runs: what a bitmap gets, and the headers.
LEMMA RunBatches ==
  ASSUME NEW rids, Distinct(rids), Len(rids) \in 1 .. BatchSize
  PROVE  /\ HeaderHolds(hybrid_encode(rids)) /\ HeaderHolds(expand_runlength_encode(rids))
         /\ Ascends(rids) => rle_decode_every_batch(hybrid_encode(rids)) = Range(rids)
         /\ determine_b_to_expand(Deltas(rids), Len(rids)) # RidBits /\ Ascends(rids)
              => rle_decode_every_batch(expand_runlength_encode(rids)) = Range(rids)
<1> DEFINE n == Len(rids)
           ds == Deltas(rids)
           best == optimal_param(ds, n)
           b == determine_b_to_expand(ds, n)
           runs == encode_on_b_equal_one(ds, n, rids[1])
           plain(w) == encode_param_new(ds, n, w, rids[1])
<1>1. IsDeltas(ds, n) /\ rids[1] \in 0 .. RidLimit - 1
  BY DeltasOfRids, TypedRids
<1>2. best \in 0 .. RidBits - 1 /\ best \in 0 .. RidBits
      /\ SizeAt(ds, n, best) <= WordBytes + 4 * BatchSize
  BY <1>1, OptimalWidth, BatchShape
<1>3. b \in 0 .. RidBits /\ SizeAt(ds, n, b) <= WordBytes + 4 * BatchSize
      /\ (b # RidBits => b \in 0 .. RidBits - 1) /\ (best # 1 => b # 1)
  <2>1. b \in 0 .. RidBits /\ SizeAt(ds, n, b) <= WordBytes + 4 * BatchSize /\ (best # 1 => b # 1)
    BY <1>1, ExpandedWidth
  <2> HIDE DEF b
  <2> QED BY <2>1, BatchShape
<1>4. /\ hybrid_encode(rids) = IF best = 1 THEN runs ELSE plain(best)
      /\ expand_runlength_encode(rids) = IF best = 1 THEN runs ELSE plain(b)
  BY DEF hybrid_encode, expand_runlength_encode
<1> HIDE DEF best, b
<1>5. HeaderHolds(runs) /\ Header_read(runs) = 1
  BY <1>1, RunsHeader
<1>6. HeaderHolds(plain(best)) /\ HeaderHolds(plain(b))
  <2> HIDE DEF ds, n
  <2> QED BY <1>1, <1>2, <1>3, ParamBatchHeader
<1>7. best # 1 => Header_read(plain(best)) # 1 /\ Header_read(plain(b)) # 1
  <2> HIDE DEF ds, n
  <2> QED BY <1>2, <1>3, PlainWidth
<1>8. Ascends(rids) => rle_decode_every_batch(runs) = Range(rids)
  BY <1>5, RunsBits DEF rle_decode_every_batch
<1>9. ASSUME NEW w \in 0 .. RidBits - 1, Header_read(plain(w)) # 1, Ascends(rids)
      PROVE  rle_decode_every_batch(plain(w)) = Range(rids)
  <2>1. ReadsAs(plain(w), rids)
    BY ParamBatchRead
  <2>2. SumsOf(plain(w)) = rids
    <3> HIDE DEF plain
    <3> QED BY <2>1, <1>9, BatchSums
  <2> QED BY <1>9, <2>2 DEF rle_decode_every_batch
<1> HIDE DEF runs, plain
<1>10. HeaderHolds(hybrid_encode(rids)) /\ HeaderHolds(expand_runlength_encode(rids))
  BY <1>4, <1>5, <1>6
<1>11. Ascends(rids) => rle_decode_every_batch(hybrid_encode(rids)) = Range(rids)
  BY <1>2, <1>4, <1>7, <1>8, <1>9
<1>12. b # RidBits /\ Ascends(rids)
        => rle_decode_every_batch(expand_runlength_encode(rids)) = Range(rids)
  BY <1>3, <1>4, <1>7, <1>8, <1>9
<1> QED BY <1>10, <1>11, <1>12 DEF b

-------------------------------------------------------------------------------
(* Sequences of sequences, put one after the other.                        *)

\* Induction from 1 up to a bound.
LEMMA InductionFromOne ==
  ASSUME NEW m \in Nat, NEW S, 1 \in S,
         \A n \in 1 .. m - 1 : n \in S => n + 1 \in S
  PROVE  \A n \in 1 .. m : n \in S
<1> DEFINE T == {n \in 0 .. m : n = 0 \/ n \in S}
<1>1. 0 \in T
  OBVIOUS
<1>2. ASSUME NEW n \in 0 .. m - 1, n \in T PROVE n + 1 \in T
  <2>1. n + 1 \in 0 .. m
    OBVIOUS
  <2>2. CASE n = 0
    BY <2>1, <2>2
  <2>3. CASE n # 0
    <3>1. n \in 1 .. m - 1 /\ n \in S
      BY <1>2, <2>3
    <3>2. n + 1 \in S
      BY <3>1
    <3> QED BY <2>1, <3>2
  <2> QED BY <2>2, <2>3
<1> HIDE DEF T
<1>3. \A n \in 0 .. m : n \in T
  BY <1>1, <1>2, InductionUpTo
<1> QED BY <1>3 DEF T

\* The sequences so far, and where each of them ends.
IsFlat(f, m, ss) ==
  /\ f = [k \in 1 .. m |-> f[k]]
  /\ \A k \in 1 .. m : f[k] = IF k = 1 THEN ss[k] ELSE f[k - 1] \o ss[k]

Cuts(p, m, ss) ==
  /\ p \in [0 .. m -> Nat] /\ p[0] = 0
  /\ \A k \in 1 .. m : p[k] = p[k - 1] + Len(ss[k])

\* The concatenations of the first k sequences exist.
LEMMA FlatExists ==
  ASSUME NEW m \in Nat, NEW ss
  PROVE  \E f : IsFlat(f, m, ss)
<1> DEFINE S == {k \in 0 .. m : \E f : IsFlat(f, k, ss)}
<1>1. 0 \in S
  <2>1. IsFlat([k \in 1 .. 0 |-> 0], 0, ss)
    BY DEF IsFlat
  <2> QED BY <2>1
<1>2. ASSUME NEW n \in 0 .. m - 1, n \in S PROVE n + 1 \in S
  <2>1. PICK f : IsFlat(f, n, ss)
    BY <1>2
  <2> DEFINE last == IF n + 1 = 1 THEN ss[n + 1] ELSE f[n] \o ss[n + 1]
             g == [k \in 1 .. n + 1 |-> IF k = n + 1 THEN last ELSE f[k]]
  <2>2. g = [k \in 1 .. n + 1 |-> g[k]]
    <3> HIDE DEF last
    <3> QED OBVIOUS
  <2>3. ASSUME NEW k \in 1 .. n + 1 PROVE g[k] = IF k = 1 THEN ss[k] ELSE g[k - 1] \o ss[k]
    <3>1. CASE k = n + 1
      <4>1. g[k] = last
        BY <3>1
      <4>2. k # 1 => g[k - 1] = f[n]
        <5> HIDE DEF last
        <5>1. k # 1 => k - 1 \in 1 .. n + 1 /\ k - 1 = n /\ n # n + 1
          BY <3>1
        <5> QED BY <5>1
      <4> HIDE DEF g
      <4> QED BY <3>1, <4>1, <4>2
    <3>2. CASE k # n + 1
      <4>1. k \in 1 .. n /\ (k # 1 => k - 1 \in 1 .. n /\ k - 1 \in 1 .. n + 1 /\ k - 1 # n + 1)
        BY <3>2
      <4>2. g[k] = f[k] /\ (k # 1 => g[k - 1] = f[k - 1])
        <5> HIDE DEF last
        <5> QED BY <3>2, <4>1
      <4>3. f[k] = IF k = 1 THEN ss[k] ELSE f[k - 1] \o ss[k]
        BY <2>1, <4>1 DEF IsFlat
      <4> HIDE DEF g
      <4> QED BY <4>2, <4>3
    <3> QED BY <3>1, <3>2
  <2> HIDE DEF g
  <2>4. IsFlat(g, n + 1, ss)
    BY <2>2, <2>3 DEF IsFlat
  <2>5. n + 1 \in 0 .. m
    OBVIOUS
  <2> QED BY <2>4, <2>5
<1> HIDE DEF S
<1>3. m \in S
  <2>1. \A k \in 0 .. m : k \in S
    BY <1>1, <1>2, InductionUpTo
  <2> QED BY <2>1
<1> QED BY <1>3 DEF S

\* The places where each sequence ends exist.
LEMMA CutsExist ==
  ASSUME NEW m \in Nat, NEW ss, \A k \in 1 .. m : Len(ss[k]) \in Nat
  PROVE  \E p : Cuts(p, m, ss)
<1> DEFINE s == [k \in 1 .. m |-> Len(ss[k])]
<1>1. \A k \in 1 .. m : s[k] \in Nat /\ s[k] = Len(ss[k])
  OBVIOUS
<1> HIDE DEF s
<1>2. PICK p : IsSum(p, m, s)
  BY <1>1, PartialSums
<1>3. /\ p \in [0 .. m -> Int] /\ p[0] = 0
      /\ \A k \in 1 .. m : p[k] = p[k - 1] + s[k]
  BY <1>2 DEF IsSum
<1> DEFINE S == {k \in 0 .. m : p[k] \in Nat}
<1>4. 0 \in S
  BY <1>3
<1>5. \A n \in 0 .. m - 1 : n \in S => n + 1 \in S
  <2> SUFFICES ASSUME NEW n \in 0 .. m - 1, n \in S PROVE n + 1 \in S
    OBVIOUS
  <2>1. n + 1 \in 1 .. m /\ n + 1 \in 0 .. m /\ (n + 1) - 1 = n
    OBVIOUS
  <2>2. p[n + 1] = p[n] + s[n + 1] /\ p[n] \in Nat /\ s[n + 1] \in Nat
    BY <1>1, <1>3, <2>1
  <2> QED BY <2>1, <2>2
<1> HIDE DEF S
<1>6. \A k \in 0 .. m : k \in S
  BY <1>4, <1>5, InductionUpTo
<1>7. \A k \in 0 .. m : p[k] \in Nat
  BY <1>6 DEF S
<1>8. p \in [0 .. m -> Nat]
  BY <1>3, <1>7
<1>9. Cuts(p, m, ss)
  BY <1>1, <1>3, <1>8 DEF Cuts
<1> QED BY <1>9

\* FlattenSeq is the last of the concatenations.
LEMMA FlattenIs ==
  ASSUME NEW m \in Nat \ {0}, NEW ss, Len(ss) = m
  PROVE  \E f : IsFlat(f, m, ss) /\ FlattenSeq(ss) = f[m]
<1>1. PICK f : IsFlat(f, m, ss)
  BY FlatExists
<1> DEFINE flatten[i \in 1 .. m] == IF i = 1 THEN ss[i] ELSE flatten[i - 1] \o ss[i]
<1>2. FlattenSeq(ss) = flatten[m]
  BY DEF FlattenSeq
<1>3. f = [i \in 1 .. m |-> IF i = 1 THEN ss[i] ELSE f[i - 1] \o ss[i]]
  BY <1>1 DEF IsFlat
<1>4. flatten = [i \in 1 .. m |-> IF i = 1 THEN ss[i] ELSE flatten[i - 1] \o ss[i]]
  BY <1>3
<1> HIDE DEF flatten
<1>5. flatten = [i \in 1 .. m |-> flatten[i]]
  BY <1>4
<1>6. \A i \in 1 .. m : flatten[i] = IF i = 1 THEN ss[i] ELSE flatten[i - 1] \o ss[i]
  BY <1>4
<1>7. IsFlat(flatten, m, ss)
  BY <1>5, <1>6 DEF IsFlat
<1> QED BY <1>2, <1>7

\* Where the elements of the sequences are.
Placed(s, p, k, ss) ==
  /\ Len(s) = p[k]
  /\ \A l \in 1 .. k : \A i \in 1 .. Len(ss[l]) :
       p[l - 1] + i \in 1 .. p[k] /\ s[p[l - 1] + i] = ss[l][i]
  /\ \A j \in 1 .. p[k] : \E l \in 1 .. k : \E i \in 1 .. Len(ss[l]) : j = p[l - 1] + i

\* Appending the next sequence keeps the others in place.
LEMMA OneMorePlaced ==
  ASSUME NEW X, NEW m \in Nat \ {0}, NEW ss, NEW k \in 1 .. m - 1, NEW p, Cuts(p, m, ss),
         NEW s \in Seq(X), Placed(s, p, k, ss), NEW t \in Seq(X), t = ss[k + 1]
  PROVE  Placed(s \o t, p, k + 1, ss)
<1> DEFINE u == s \o t
<1>1. /\ p[k] \in Nat /\ p[k + 1] \in Nat /\ p[k + 1] = p[k] + Len(t) /\ Len(t) \in Nat
      /\ \A l \in 1 .. k + 1 : p[l - 1] \in Nat
  <2>1. k \in 0 .. m /\ k + 1 \in 1 .. m /\ k + 1 \in 0 .. m /\ (k + 1) - 1 = k
        /\ \A l \in 1 .. k + 1 : l - 1 \in 0 .. m
    OBVIOUS
  <2>2. /\ \A l \in 0 .. m : p[l] \in Nat
        /\ \A l \in 1 .. m : p[l] = p[l - 1] + Len(ss[l])
    BY DEF Cuts
  <2>3. Len(t) \in Nat
    OBVIOUS
  <2>4. p[k] \in Nat /\ p[k + 1] \in Nat /\ p[k + 1] = p[k] + Len(ss[k + 1])
    BY ONLY <2>1, <2>2
  <2>5. \A l \in 1 .. k + 1 : p[l - 1] \in Nat
    BY ONLY <2>1, <2>2
  <2> QED BY ONLY <2>3, <2>4, <2>5, t = ss[k + 1]
<1>2. Len(s) = p[k]
  BY DEF Placed
<1>3. Len(u) = Len(s) + Len(t)
      /\ (\A i \in 1 .. Len(s) : u[i] = s[i])
      /\ (\A i \in 1 .. Len(t) : u[Len(s) + i] = t[i])
  OBVIOUS
<1> HIDE DEF u
<1>4. ASSUME NEW l \in 1 .. k + 1, NEW i \in 1 .. Len(ss[l])
      PROVE  p[l - 1] + i \in 1 .. p[k + 1] /\ u[p[l - 1] + i] = ss[l][i]
  <2>1. CASE l = k + 1
    <3>1. i \in 1 .. Len(t) /\ p[l - 1] = p[k] /\ ss[l] = t
      BY <2>1
    <3> QED BY <1>1, <1>2, <1>3, <3>1
  <2>2. CASE l # k + 1
    <3>1. l \in 1 .. k
      BY <2>2
    <3>2. p[l - 1] + i \in 1 .. p[k] /\ s[p[l - 1] + i] = ss[l][i]
      BY <3>1 DEF Placed
    <3>3. p[l - 1] \in Nat
      BY <1>1
    <3> DEFINE j == p[l - 1] + i
    <3>4. j \in 1 .. p[k] /\ s[j] = ss[l][i]
      BY <3>2
    <3> HIDE DEF j
    <3>5. j \in 1 .. p[k + 1] /\ u[j] = ss[l][i]
      BY <1>1, <1>2, <1>3, <3>4
    <3> QED BY <3>5 DEF j
  <2> QED BY <2>1, <2>2
<1>5. ASSUME NEW j \in 1 .. p[k + 1]
      PROVE  \E l \in 1 .. k + 1 : \E i \in 1 .. Len(ss[l]) : j = p[l - 1] + i
  <2>1. CASE j <= p[k]
    <3>1. j \in 1 .. p[k]
      BY <1>1, <2>1
    <3>2. PICK l \in 1 .. k : \E i \in 1 .. Len(ss[l]) : j = p[l - 1] + i
      BY <3>1 DEF Placed
    <3>3. l \in 1 .. k + 1
      OBVIOUS
    <3> QED BY <3>2, <3>3
  <2>2. CASE ~ (j <= p[k])
    <3>1. j - p[k] \in 1 .. Len(t) /\ j = p[k] + (j - p[k])
      BY <1>1, <2>2
    <3>2. k + 1 \in 1 .. k + 1 /\ (k + 1) - 1 = k
      OBVIOUS
    <3> QED BY <3>1, <3>2
  <2> QED BY <2>1, <2>2
<1>6. Len(u) = p[k + 1]
  BY <1>1, <1>2, <1>3
<1> QED BY <1>4, <1>5, <1>6 DEF Placed, u

\* FlattenSeq has each sequence where the cuts place it, and nothing else.
LEMMA FlattenPlaces ==
  ASSUME NEW X, NEW m \in Nat \ {0}, NEW ss, Len(ss) = m, \A k \in 1 .. m : ss[k] \in Seq(X),
         NEW p, Cuts(p, m, ss)
  PROVE  FlattenSeq(ss) \in Seq(X) /\ Placed(FlattenSeq(ss), p, m, ss)
<1>1. PICK f : IsFlat(f, m, ss) /\ FlattenSeq(ss) = f[m]
  BY FlattenIs
<1>2. \A k \in 1 .. m : f[k] = IF k = 1 THEN ss[k] ELSE f[k - 1] \o ss[k]
  BY <1>1 DEF IsFlat
<1> DEFINE S == {k \in 1 .. m : f[k] \in Seq(X) /\ Placed(f[k], p, k, ss)}
<1>3. 1 \in S
  <2> DEFINE s == ss[1]
  <2>1. f[1] = s /\ s \in Seq(X)
    BY <1>2
  <2>2. p[0] = 0 /\ p[1] = Len(s) /\ Len(s) \in Nat
    <3>1. 1 \in 1 .. m /\ 1 - 1 = 0
      OBVIOUS
    <3>2. p[0] = 0 /\ p[1] = p[0] + Len(s)
      BY <3>1 DEF Cuts
    <3> QED BY <2>1, <3>2
  <2> HIDE DEF s
  <2>3. \A l \in 1 .. 1 : l = 1 /\ l - 1 = 0
    OBVIOUS
  <2>4. Placed(s, p, 1, ss)
    <3>1. \A i \in 1 .. Len(s) : p[0] + i = i /\ i \in 1 .. p[1]
      BY <2>2
    <3>2. 1 \in 1 .. 1 /\ 1 - 1 = 0 /\ \A j \in 1 .. p[1] : j \in 1 .. Len(s) /\ j = p[0] + j
      BY <2>2
    <3>3. \A l \in 1 .. 1 : ss[l] = s /\ p[l - 1] = p[0]
      BY <2>3 DEF s
    <3> QED BY <2>2, <3>1, <3>2, <3>3 DEF Placed
  <2>5. f[1] \in Seq(X)
    BY <2>1
  <2>6. 1 \in 1 .. m
    OBVIOUS
  <2> QED BY <2>1, <2>4, <2>5, <2>6
<1>4. ASSUME NEW k \in 1 .. m - 1, k \in S PROVE k + 1 \in S
  <2> DEFINE s == f[k]
             t == ss[k + 1]
  <2>1. k + 1 \in 1 .. m /\ k + 1 # 1 /\ (k + 1) - 1 = k
    OBVIOUS
  <2>2. f[k + 1] = s \o t
    BY <1>2, <2>1
  <2>3. s \in Seq(X) /\ t \in Seq(X) /\ Placed(s, p, k, ss)
    BY <1>4, <2>1
  <2> HIDE DEF s, S
  <2>4. Placed(s \o t, p, k + 1, ss)
    BY <2>3, OneMorePlaced
  <2> HIDE DEF t
  <2>5. s \o t \in Seq(X)
    BY <2>3
  <2>6. k + 1 \in 1 .. m /\ f[k + 1] \in Seq(X) /\ Placed(f[k + 1], p, k + 1, ss)
    BY <2>1, <2>2, <2>4, <2>5
  <2> QED BY <2>6 DEF S
<1>5. m \in S
  <2> HIDE DEF S
  <2>1. \A k \in 1 .. m : k \in S
    BY <1>3, <1>4, InductionFromOne
  <2> QED BY <2>1
<1> QED BY <1>1, <1>5

\* A sequence is known by its elements.
LEMMA SameFlat ==
  ASSUME NEW X, NEW m \in Nat \ {0}, NEW ss, Len(ss) = m, \A k \in 1 .. m : ss[k] \in Seq(X),
         NEW p, Cuts(p, m, ss), NEW Y, NEW s \in Seq(Y), Placed(s, p, m, ss)
  PROVE  FlattenSeq(ss) = s
<1> DEFINE t == FlattenSeq(ss)
<1>1. t \in Seq(X) /\ Placed(t, p, m, ss)
  BY FlattenPlaces
<1> HIDE DEF t
<1>2. Len(t) = p[m] /\ Len(s) = p[m]
  BY <1>1 DEF Placed
<1>3. ASSUME NEW j \in 1 .. p[m] PROVE t[j] = s[j]
  <2>1. PICK l \in 1 .. m : \E i \in 1 .. Len(ss[l]) : j = p[l - 1] + i
    BY DEF Placed
  <2>2. PICK i \in 1 .. Len(ss[l]) : j = p[l - 1] + i
    BY <2>1
  <2>3. t[p[l - 1] + i] = ss[l][i] /\ s[p[l - 1] + i] = ss[l][i]
    BY <1>1 DEF Placed
  <2> QED BY <2>2, <2>3
<1>4. t = [j \in 1 .. Len(t) |-> t[j]] /\ s = [j \in 1 .. Len(s) |-> s[j]]
  BY <1>1
<1>5. t = s
  <2>1. [j \in 1 .. p[m] |-> t[j]] = [j \in 1 .. p[m] |-> s[j]]
    BY <1>3
  <2> QED BY <1>2, <1>4, <2>1
<1> QED BY <1>5 DEF t

-------------------------------------------------------------------------------
(* The batches of a list.                                                  *)

\* The smaller of two numbers.
LEMMA MinOfTwo ==
  ASSUME NEW a \in Int, NEW b \in Int
  PROVE  Min({a, b}) = IF a <= b THEN a ELSE b
<1>1. \E x \in {a, b} : \A y \in {a, b} : x <= y
  OBVIOUS
<1>2. PICK x \in {a, b} : x = Min({a, b}) /\ \A y \in {a, b} : x <= y
  BY <1>1 DEF Min
<1> QED BY <1>2

\* A part of a sequence, element by element.
LEMMA PartOfSequence ==
  ASSUME NEW X, NEW s \in Seq(X), NEW a \in Nat, NEW b \in Nat, a <= b, b <= Len(s)
  PROVE  /\ SubSeq(s, a + 1, b) \in Seq(X) /\ Len(SubSeq(s, a + 1, b)) = b - a
         /\ \A i \in 1 .. b - a : SubSeq(s, a + 1, b)[i] = s[a + i]
OBVIOUS

\* Where batch k of n RIDs ends.
BatchEnd(n, k) == IF k < BatchCount(n) THEN k * BatchSize ELSE n

\* Where the batches of a list end: all are full but the last.
LEMMA BatchEnds ==
  ASSUME NEW n \in Nat \ {0}
  PROVE  /\ BatchCount(n) \in Nat \ {0} /\ BatchEnd(n, 0) = 0 /\ BatchEnd(n, BatchCount(n)) = n
         /\ \A k \in 0 .. BatchCount(n) : BatchEnd(n, k) \in 0 .. n
         /\ \A k \in 1 .. BatchCount(n) :
              /\ BatchEnd(n, k) - BatchEnd(n, k - 1) \in 1 .. BatchSize
              /\ BatchEnd(n, k - 1) = (k - 1) * BatchSize
              /\ BatchEnd(n, k) = Min({k * BatchSize, n})
              /\ k < BatchCount(n) => BatchEnd(n, k) = BatchEnd(n, k - 1) + BatchSize
<1> DEFINE B == BatchSize
           x == n + B - 1
           c == x \div B
           r == x % B
<1>1. B \in Nat \ {0} /\ x \in Nat
  BY BatchShape
<1>2. c \in Int /\ r \in 0 .. B - 1 /\ x = c * B + r
  <2> HIDE DEF x, B
  <2> QED BY <1>1, DividedInteger
<1>3. BatchCount(n) = c
  BY DEF BatchCount
<1> HIDE DEF B, c, r
<1>4. c * B >= n /\ c * B \in Int /\ c * B - B < n
  BY <1>1, <1>2
<1>5. c \in Nat \ {0}
  <2>1. CASE c <= 0
    <3>1. c * B <= 0
      <4>1. \A u \in Int, v \in Nat : u <= 0 => u * v <= 0
        OBVIOUS
      <4> QED BY ONLY <1>1, <1>2, <2>1, <4>1
    <3> QED BY <1>1, <1>4, <3>1
  <2> QED BY <1>2, <2>1
<1> DEFINE e(k) == k * B
<1>6. \A k \in Nat : e(k) \in Nat /\ (k >= 1 => e(k - 1) = e(k) - B)
  <2> SUFFICES ASSUME NEW k \in Nat PROVE e(k) \in Nat /\ (k >= 1 => e(k - 1) = e(k) - B)
    OBVIOUS
  <2>1. k * B \in Nat
    BY <1>1
  <2>2. (k - 1) * B = k * B - B
    BY <1>1
  <2> QED BY <2>1, <2>2
<1>7. \A k \in Nat : k <= c - 1 => e(k) <= e(c - 1)
  <2> SUFFICES ASSUME NEW k \in Nat, k <= c - 1 PROVE k * B <= (c - 1) * B
    OBVIOUS
  <2>1. \A u \in Nat, v \in Nat, w \in Nat : u <= v => u * w <= v * w
    <3> SUFFICES ASSUME NEW u \in Nat, NEW v \in Nat, NEW w \in Nat, u <= v PROVE u * w <= v * w
      OBVIOUS
    <3>1. v - u \in Nat /\ v = u + (v - u)
      OBVIOUS
    <3>2. (v - u) * w \in Nat
      BY ONLY <3>1, w \in Nat
    <3>3. (v - u) * w = v * w - u * w
      OBVIOUS
    <3> QED BY <3>2, <3>3
  <2>2. c - 1 \in Nat
    BY <1>5
  <2> QED BY ONLY <1>1, <2>1, <2>2, k \in Nat, k <= c - 1
<1>8. e(0) = 0 /\ e(c) >= n /\ e(c - 1) < n
  <2>1. e(c - 1) = e(c) - B
    BY <1>5, <1>6
  <2> QED BY <1>1, <1>4, <2>1
<1>9. \A k \in Int : BatchEnd(n, k) = IF k < c THEN e(k) ELSE n
  BY <1>3 DEF BatchEnd, B
<1>10. \A k \in 1 .. c : Min({k * BatchSize, n}) = IF e(k) <= n THEN e(k) ELSE n
  <2> SUFFICES ASSUME NEW k \in 1 .. c PROVE Min({k * BatchSize, n}) = IF e(k) <= n THEN e(k) ELSE n
    OBVIOUS
  <2>1. k * BatchSize = e(k)
    BY DEF B
  <2>2. e(k) \in Int /\ n \in Int
    BY <1>6, <1>5
  <2> HIDE DEF e
  <2>3. Min({e(k), n}) = IF e(k) <= n THEN e(k) ELSE n
    BY ONLY <2>2, MinOfTwo
  <2> QED BY <2>1, <2>3
<1>11. \A k \in 1 .. c : (k - 1) * BatchSize = e(k - 1)
  BY DEF B
<1> HIDE DEF e
<1>12. BatchEnd(n, 0) = 0 /\ BatchEnd(n, c) = n
  BY <1>5, <1>8, <1>9
<1>13. \A k \in 0 .. c : BatchEnd(n, k) \in 0 .. n
  <2> SUFFICES ASSUME NEW k \in 0 .. c PROVE BatchEnd(n, k) \in 0 .. n
    OBVIOUS
  <2>1. CASE k < c
    <3>1. k \in Nat /\ k <= c - 1 /\ c - 1 \in Nat
      BY <1>5, <2>1
    <3>2. e(k) \in Nat /\ e(k) <= e(c - 1) /\ e(c - 1) \in Nat
      BY <1>6, <1>7, <3>1
    <3> QED BY <1>8, <1>9, <2>1, <3>2
  <2>2. CASE ~ (k < c)
    BY <1>9, <2>2
  <2> QED BY <2>1, <2>2
<1>14. ASSUME NEW k \in 1 .. c
       PROVE  /\ BatchEnd(n, k) - BatchEnd(n, k - 1) \in 1 .. BatchSize
              /\ BatchEnd(n, k - 1) = (k - 1) * BatchSize
              /\ BatchEnd(n, k) = Min({k * BatchSize, n})
              /\ k < c => BatchEnd(n, k) = BatchEnd(n, k - 1) + BatchSize
  <2>1. k \in Nat /\ k >= 1 /\ k - 1 \in Nat /\ k - 1 < c /\ k - 1 <= c - 1 /\ c - 1 \in Nat
    BY <1>5
  <2>2. e(k) \in Nat /\ e(k - 1) = e(k) - B /\ e(k - 1) \in Nat /\ e(k - 1) <= e(c - 1)
        /\ e(c - 1) \in Nat
    BY <1>6, <1>7, <2>1
  <2>3. BatchEnd(n, k - 1) = e(k - 1)
    BY <1>9, <2>1
  <2>4. CASE k < c
    <3>1. k <= c - 1
      BY <1>5, <2>4
    <3>2. e(k) <= e(c - 1)
      BY <1>7, <2>1, <3>1
    <3>3. BatchEnd(n, k) = e(k) /\ e(k) <= n
      BY <1>8, <1>9, <2>2, <2>4, <3>2
    <3>4. Min({k * BatchSize, n}) = e(k)
      BY <1>10, <3>3
    <3>5. e(k) - e(k - 1) = B /\ e(k) = e(k - 1) + B /\ B \in 1 .. B
      BY <1>1, <2>2
    <3> QED BY <1>11, <2>3, <3>3, <3>4, <3>5 DEF B
  <2>5. CASE ~ (k < c)
    <3>1. k = c
      BY <1>5, <2>5
    <3>2. BatchEnd(n, k) = n /\ e(k) >= n /\ e(k - 1) < n
      BY <1>8, <1>12, <3>1
    <3>3. Min({k * BatchSize, n}) = n
      <4>1. Min({k * BatchSize, n}) = IF e(k) <= n THEN e(k) ELSE n
        BY <1>10
      <4>2. e(k) >= n /\ e(k) \in Nat /\ n \in Nat
        BY <2>2, <3>2
      <4> DEFINE y == e(k)
                 z == Min({k * BatchSize, n})
      <4>3. z = (IF y <= n THEN y ELSE n) /\ y >= n /\ y \in Nat /\ n \in Nat
        BY <4>1, <4>2
      <4> HIDE DEF y, z
      <4>4. z = n
        BY ONLY <4>3
      <4> QED BY <4>4 DEF z
    <3>4. n - e(k - 1) \in 1 .. B
      BY <1>1, <2>2, <3>2
    <3> QED BY <1>11, <2>3, <2>5, <3>2, <3>3, <3>4 DEF B
  <2> QED BY <2>4, <2>5
<1> QED BY <1>3, <1>5, <1>12, <1>13, <1>14

\* The batches are pieces of the list, in their order.
LEMMA BatchPieces ==
  ASSUME NEW rids, Distinct(rids), Len(rids) # 0, NEW k \in 1 .. BatchCount(Len(rids))
  PROVE  LET e(j) == BatchEnd(Len(rids), j)
         IN /\ Distinct(BatchRids(rids, k)) /\ Len(BatchRids(rids, k)) \in 1 .. BatchSize
            /\ Len(BatchRids(rids, k)) = e(k) - e(k - 1)
            /\ \A i \in 1 .. Len(BatchRids(rids, k)) :
                 /\ e(k - 1) + i \in 1 .. Len(rids)
                 /\ BatchRids(rids, k)[i] = rids[e(k - 1) + i]
            /\ Ascends(rids) => Ascends(BatchRids(rids, k))
<1> DEFINE n == Len(rids)
           a == BatchEnd(n, k - 1)
           b == BatchEnd(n, k)
           part == BatchRids(rids, k)
           L == 0 .. RidLimit - 1
<1>1. n \in Nat \ {0} /\ rids \in Seq(L) /\ \A i \in 1 .. n - 1 : rids[i] # rids[i + 1]
  <2>1. n \in Nat
    BY TypedRids
  <2> QED BY <2>1 DEF Distinct
<1>2. /\ BatchCount(n) \in Nat
      /\ \A j \in 0 .. BatchCount(n) : BatchEnd(n, j) \in 0 .. n
      /\ b - a \in 1 .. BatchSize /\ a = (k - 1) * BatchSize /\ b = Min({k * BatchSize, n})
  <2> HIDE DEF n
  <2> QED BY <1>1, BatchEnds DEF n
<1>3. a \in 0 .. n /\ b \in 0 .. n
  <2>1. k - 1 \in 0 .. BatchCount(n) /\ k \in 0 .. BatchCount(n)
    BY <1>2
  <2> QED BY <1>2, <2>1
<1>4. part = SubSeq(rids, a + 1, b)
  BY <1>2 DEF BatchRids
<1> HIDE DEF part, a, b, L
<1>5. a \in Nat /\ b \in Nat /\ a <= b /\ b <= Len(rids) /\ BatchSize \in Nat
  BY <1>1, <1>2, <1>3, BatchShape
<1>6. part \in Seq(L) /\ Len(part) = b - a /\ \A i \in 1 .. b - a : part[i] = rids[a + i]
  BY <1>1, <1>4, <1>5, PartOfSequence
<1>7. ASSUME NEW i \in 1 .. Len(part) PROVE a + i \in 1 .. n /\ part[i] = rids[a + i]
  BY <1>1, <1>5, <1>6
<1>8. ASSUME NEW i \in 1 .. Len(part) - 1
      PROVE  /\ part[i] = rids[a + i] /\ part[i + 1] = rids[(a + i) + 1]
             /\ a + i \in 1 .. n - 1
  <2>1. i \in 1 .. Len(part) /\ i + 1 \in 1 .. Len(part) /\ a + (i + 1) = (a + i) + 1
        /\ a + i \in 1 .. n - 1
    <3> DEFINE l == Len(part)
    <3>1. l = b - a /\ l \in Nat /\ i \in 1 .. l - 1
      BY <1>5, <1>6
    <3>2. n = Len(rids)
      OBVIOUS
    <3> HIDE DEF l, n
    <3>3. i \in 1 .. l /\ i + 1 \in 1 .. l /\ a + (i + 1) = (a + i) + 1 /\ a + i \in 1 .. n - 1
      BY ONLY <1>1, <1>5, <3>1, <3>2
    <3> QED BY <3>3 DEF l, n
  <2>2. part[i] = rids[a + i] /\ part[i + 1] = rids[a + (i + 1)]
    BY <1>7, <2>1
  <2> QED BY <2>1, <2>2
<1>9. Distinct(part)
  <2>1. \A i \in 1 .. Len(part) - 1 : part[i] # part[i + 1]
    <3> SUFFICES ASSUME NEW i \in 1 .. Len(part) - 1 PROVE part[i] # part[i + 1]
      OBVIOUS
    <3> DEFINE h == a + i
    <3>1. part[i] = rids[h] /\ part[i + 1] = rids[h + 1] /\ h \in 1 .. n - 1
      BY <1>8
    <3> HIDE DEF h
    <3> QED BY <1>1, <3>1
  <2>2. part \in Seq(0 .. RidLimit - 1)
    BY <1>6 DEF L
  <2> QED BY <2>1, <2>2 DEF Distinct
<1>10. Ascends(rids) => Ascends(part)
  BY <1>8 DEF Ascends
<1>11. Len(part) \in 1 .. BatchSize
  BY <1>2, <1>6
<1> QED BY <1>6, <1>7, <1>9, <1>10, <1>11 DEF part, a, b

\* Sequences with the lengths of the batches are, together, a sequence with the
\* length of the list.
PiecesTyped(ss, n, Y) ==
  /\ Len(ss) = BatchCount(n)
  /\ \A k \in 1 .. BatchCount(n) :
       ss[k] \in Seq(Y) /\ Len(ss[k]) = BatchEnd(n, k) - BatchEnd(n, k - 1)
PiecesOf(s, ss, n) ==
  \A k \in 1 .. BatchCount(n) : \A i \in 1 .. Len(ss[k]) :
    BatchEnd(n, k - 1) + i \in 1 .. n /\ ss[k][i] = s[BatchEnd(n, k - 1) + i]

\* Sequences that agree with the batches of a list, put together, are the list.
LEMMA PiecesOfList ==
  ASSUME NEW n \in Nat \ {0}, NEW Y, NEW ss, PiecesTyped(ss, n, Y),
         NEW s \in Seq(Y), Len(s) = n, PiecesOf(s, ss, n)
  PROVE  FlattenSeq(ss) = s
<1> DEFINE c == BatchCount(n)
           p == [k \in 0 .. c |-> BatchEnd(n, k)]
<1>2. /\ c \in Nat \ {0} /\ BatchEnd(n, 0) = 0 /\ BatchEnd(n, c) = n
      /\ \A k \in 0 .. c : BatchEnd(n, k) \in 0 .. n
  BY BatchEnds
<1>3. Len(ss) = c /\ \A k \in 1 .. c :
        /\ ss[k] \in Seq(Y) /\ Len(ss[k]) = BatchEnd(n, k) - BatchEnd(n, k - 1)
        /\ \A i \in 1 .. Len(ss[k]) : /\ BatchEnd(n, k - 1) + i \in 1 .. n
                                      /\ ss[k][i] = s[BatchEnd(n, k - 1) + i]
  BY DEF PiecesTyped, PiecesOf
<1> HIDE DEF c
<1>4. \A k \in 0 .. c : p[k] = BatchEnd(n, k) /\ p[k] \in Nat
  BY <1>2
<1>5. p \in [0 .. c -> Nat]
  BY <1>2
<1> HIDE DEF p
<1>6. \A k \in 1 .. c : k \in 0 .. c /\ k - 1 \in 0 .. c
  BY <1>2
<1>7. Cuts(p, c, ss)
  <2>1. p[0] = 0
    BY <1>2, <1>4
  <2>2. ASSUME NEW k \in 1 .. c PROVE p[k] = p[k - 1] + Len(ss[k])
    <3>1. p[k] = BatchEnd(n, k) /\ p[k - 1] = BatchEnd(n, k - 1) /\ p[k] \in Nat /\ p[k - 1] \in Nat
      BY <1>4, <1>6
    <3>2. Len(ss[k]) = p[k] - p[k - 1]
      BY <1>3, <3>1
    <3> QED BY <3>1, <3>2
  <2> QED BY <1>5, <2>1, <2>2 DEF Cuts
<1>8. Placed(s, p, c, ss)
  <2>0. p[c] = n /\ c \in 0 .. c
    BY <1>2, <1>4
  <2>1. Len(s) = p[c]
    BY <2>0
  <2>2. ASSUME NEW l \in 1 .. c, NEW i \in 1 .. Len(ss[l])
        PROVE  p[l - 1] + i \in 1 .. p[c] /\ s[p[l - 1] + i] = ss[l][i]
    BY <1>3, <1>4, <1>6, <2>0
  <2>3. ASSUME NEW j \in 1 .. p[c]
        PROVE  \E l \in 1 .. c : \E i \in 1 .. Len(ss[l]) : j = p[l - 1] + i
    <3> DEFINE T == {k \in 0 .. c : j <= p[k]}
    <3>1. T \in SUBSET Nat /\ c \in T
      BY <2>0
    <3>2. PICK l \in T : \A h \in T : ~ (h < l)
      BY <3>1, LeastMember
    <3>3. l \in 0 .. c /\ j <= p[l]
      OBVIOUS
    <3>4. l # 0
      BY <1>2, <1>4, <2>0, <3>3
    <3>5. l \in 1 .. c /\ l - 1 \in 0 .. c /\ l - 1 < l
      BY <1>2, <3>3, <3>4
    <3>6. ~ (j <= p[l - 1])
      BY <3>2, <3>5
    <3>7. Len(ss[l]) = p[l] - p[l - 1] /\ p[l] \in Nat /\ p[l - 1] \in Nat
      BY <1>3, <1>4, <1>6, <3>5
    <3>8. j - p[l - 1] \in 1 .. Len(ss[l]) /\ j = p[l - 1] + (j - p[l - 1])
      BY <2>0, <3>3, <3>6, <3>7
    <3> QED BY <3>5, <3>8
  <2> QED BY <2>1, <2>2, <2>3 DEF Placed
<1>9. Len(ss) = c /\ \A k \in 1 .. c : ss[k] \in Seq(Y)
  BY <1>3
<1> QED BY <1>2, <1>7, <1>8, <1>9, SameFlat

\* Together the batches are the list.
LEMMA BatchesAreList ==
  ASSUME NEW rids, Distinct(rids), Len(rids) # 0, NEW ss, Len(ss) = BatchCount(Len(rids)),
         \A k \in 1 .. BatchCount(Len(rids)) : ss[k] = BatchRids(rids, k)
  PROVE  FlattenSeq(ss) = rids
<1> DEFINE n == Len(rids)
           L == 0 .. RidLimit - 1
<1>1. n \in Nat \ {0} /\ rids \in Seq(L)
  <2>1. n \in Nat
    BY TypedRids
  <2> QED BY <2>1 DEF Distinct
<1>2. ASSUME NEW k \in 1 .. BatchCount(n)
      PROVE  /\ ss[k] \in Seq(L) /\ Len(ss[k]) = BatchEnd(n, k) - BatchEnd(n, k - 1)
             /\ \A i \in 1 .. Len(ss[k]) : /\ BatchEnd(n, k - 1) + i \in 1 .. n
                                           /\ ss[k][i] = rids[BatchEnd(n, k - 1) + i]
  <2>1. ss[k] = BatchRids(rids, k)
    OBVIOUS
  <2>2. /\ Distinct(BatchRids(rids, k))
        /\ Len(BatchRids(rids, k)) = BatchEnd(n, k) - BatchEnd(n, k - 1)
        /\ \A i \in 1 .. Len(BatchRids(rids, k)) :
                 /\ BatchEnd(n, k - 1) + i \in 1 .. n
                 /\ BatchRids(rids, k)[i] = rids[BatchEnd(n, k - 1) + i]
    BY BatchPieces
  <2> QED BY <2>1, <2>2 DEF Distinct
<1>3. Len(ss) = BatchCount(n) /\ Len(rids) = n
  OBVIOUS
<1> HIDE DEF n, L
<1>4. PiecesTyped(ss, n, L) /\ PiecesOf(rids, ss, n)
  BY <1>2, <1>3 DEF PiecesTyped, PiecesOf
<1> QED BY <1>1, <1>3, <1>4, PiecesOfList

-------------------------------------------------------------------------------
(* Reading lists one after the other.                                      *)

\* One sequence put together is itself.
LEMMA FlattenOne ==
  ASSUME NEW s
  PROVE  FlattenSeq(<<s>>) = s
<1> DEFINE ss == <<s>>
<1>1. Len(ss) = 1 /\ ss[1] = s
  OBVIOUS
<1> HIDE DEF ss
<1>2. PICK f : IsFlat(f, 1, ss) /\ FlattenSeq(ss) = f[1]
  BY <1>1, FlattenIs
<1>3. 1 \in 1 .. 1
  OBVIOUS
<1>4. f[1] = ss[1]
  BY <1>2, <1>3 DEF IsFlat
<1> QED BY <1>1, <1>2, <1>4 DEF ss

\* Sequences of the same lengths have the same length together.
LEMMA FlattenLength ==
  ASSUME NEW X, NEW Y, NEW m \in Nat \ {0}, NEW ss, NEW tt, Len(ss) = m, Len(tt) = m,
         \A k \in 1 .. m : ss[k] \in Seq(X) /\ tt[k] \in Seq(Y) /\ Len(ss[k]) = Len(tt[k])
  PROVE  Len(FlattenSeq(ss)) = Len(FlattenSeq(tt))
<1>1. \A k \in 1 .. m : Len(ss[k]) \in Nat
  OBVIOUS
<1>2. PICK p : Cuts(p, m, ss)
  BY <1>1, CutsExist
<1>3. Cuts(p, m, tt)
  BY <1>2 DEF Cuts
<1>4. Placed(FlattenSeq(ss), p, m, ss)
  BY <1>2, FlattenPlaces
<1>5. Placed(FlattenSeq(tt), p, m, tt)
  BY <1>3, FlattenPlaces
<1> QED BY <1>4, <1>5 DEF Placed

\* The ends of consecutive sequences rise.
LEMMA CutsRise ==
  ASSUME NEW m \in Nat, NEW ss, NEW p, Cuts(p, m, ss), \A k \in 1 .. m : Len(ss[k]) \in Nat,
         NEW a \in 0 .. m, NEW b \in a .. m
  PROVE  p[a] \in Nat /\ p[b] \in Nat /\ p[a] <= p[b]
<1> DEFINE S == {k \in 0 .. b - a : p[a] <= p[a + k]}
<1>1. \A k \in 0 .. m : p[k] \in Nat
  BY DEF Cuts
<1>2. b - a \in Nat /\ p[a] \in Nat
  BY <1>1
<1>3. 0 \in S
  BY <1>2
<1>4. ASSUME NEW k \in 0 .. (b - a) - 1, k \in S PROVE k + 1 \in S
  <2>1. a + (k + 1) \in 1 .. m /\ (a + (k + 1)) - 1 = a + k /\ a + k \in 0 .. m /\ k + 1 \in 0 .. b - a
    OBVIOUS
  <2>2. p[a + (k + 1)] = p[a + k] + Len(ss[a + (k + 1)])
    BY <2>1 DEF Cuts
  <2>3. Len(ss[a + (k + 1)]) \in Nat /\ p[a + k] \in Nat /\ p[a] <= p[a + k]
    BY <1>1, <1>4, <2>1
  <2>4. p[a] <= p[a + (k + 1)]
    BY <1>2, <2>2, <2>3
  <2> QED BY <2>1, <2>4
<1> HIDE DEF S
<1>5. \A k \in 0 .. b - a : k \in S
  BY <1>2, <1>3, <1>4, InductionUpTo
<1>6. b - a \in 0 .. b - a /\ a + (b - a) = b
  OBVIOUS
<1>7. p[a] <= p[a + (b - a)]
  BY <1>5, <1>6 DEF S
<1> QED BY <1>1, <1>6, <1>7

\* What R reads from every batch, and from every sequence of batches.
ReadBy(R, bs) == [j \in DOMAIN bs |-> R[bs[j]]]
ReadEach(R, bb, m) == [l \in 1 .. m |-> FlattenSeq(ReadBy(R, bb[l]))]

\* What is read from sequences of batches one after the other is what is read
\* from each of them, one after the other.
LEMMA NestedFlatten ==
  ASSUME NEW X, NEW Y, NEW m \in Nat \ {0}, NEW bb, Len(bb) = m,
         \A l \in 1 .. m : bb[l] \in Seq(X) /\ Len(bb[l]) # 0,
         NEW R, \A b \in X : R[b] \in Seq(Y)
  PROVE  FlattenSeq(ReadBy(R, FlattenSeq(bb))) = FlattenSeq(ReadEach(R, bb, m))
<1> DEFINE bs == FlattenSeq(bb)
           rr == [j \in DOMAIN bs |-> R[bs[j]]]
           one(l) == [k \in DOMAIN bb[l] |-> R[bb[l][k]]]
           tt == [l \in 1 .. m |-> FlattenSeq(one(l))]
           s == FlattenSeq(rr)
<1>1. PICK q : Cuts(q, m, bb)
  <2>1. \A l \in 1 .. m : Len(bb[l]) \in Nat
    OBVIOUS
  <2> QED BY <2>1, CutsExist
<1>2. bs \in Seq(X) /\ Placed(bs, q, m, bb)
  BY <1>1, FlattenPlaces
<1> HIDE DEF bs
<1> DEFINE N == Len(bs)
<1>3. N \in Nat /\ N = q[m] /\ DOMAIN bs = 1 .. N /\ \A j \in 1 .. N : bs[j] \in X
  BY <1>2 DEF Placed
<1>4. /\ q[0] = 0 /\ \A l \in 0 .. m : q[l] \in Nat
      /\ \A l \in 1 .. m : q[l] = q[l - 1] + Len(bb[l]) /\ Len(bb[l]) \in Nat \ {0}
                           /\ DOMAIN bb[l] = 1 .. Len(bb[l])
  <2>1. \A l \in 1 .. m : Len(bb[l]) \in Nat \ {0} /\ DOMAIN bb[l] = 1 .. Len(bb[l])
    OBVIOUS
  <2> QED BY <1>1, <2>1 DEF Cuts
<1>5. \A l \in 1 .. m : l - 1 \in 0 .. m /\ l \in 0 .. m
  OBVIOUS
<1>6. N # 0
  <2>1. 0 \in 0 .. m /\ 1 \in 0 .. m /\ 1 \in 1 .. m /\ 1 - 1 = 0 /\ m \in 0 .. m /\ m \in 1 .. m
    OBVIOUS
  <2>2. q[1] <= q[m] /\ q[1] \in Nat /\ q[m] \in Nat
    <3>1. m \in 1 .. m /\ \A k \in 1 .. m : Len(bb[k]) \in Nat
      BY <1>4
    <3> QED BY <1>1, <2>1, <3>1, CutsRise
  <2>3. q[1] = 0 + Len(bb[1]) /\ Len(bb[1]) \in Nat \ {0}
    BY <1>4, <2>1
  <2> QED BY <1>3, <2>2, <2>3
\* Batch k of list l is batch q[l - 1] + k of all.
<1>7. ASSUME NEW l \in 1 .. m, NEW k \in 1 .. Len(bb[l])
      PROVE  q[l - 1] + k \in 1 .. N /\ bs[q[l - 1] + k] = bb[l][k] /\ q[l - 1] + k <= q[l]
             /\ bb[l][k] \in X
  <2>1. q[l - 1] + k \in 1 .. N /\ bs[q[l - 1] + k] = bb[l][k]
    BY <1>2, <1>3 DEF Placed
  <2>2. q[l] = q[l - 1] + Len(bb[l]) /\ Len(bb[l]) \in Nat /\ q[l - 1] \in Nat
    BY <1>4, <1>5
  <2>3. q[l - 1] + k <= q[l]
    BY <2>2
  <2> QED BY <1>3, <2>1, <2>3
<1>8. Len(rr) = N /\ \A j \in 1 .. N : rr[j] = R[bs[j]] /\ rr[j] \in Seq(Y) /\ Len(rr[j]) \in Nat
  BY <1>3
<1> HIDE DEF rr
<1>9. PICK p : Cuts(p, N, rr)
  BY <1>3, <1>8, CutsExist
<1>10. s \in Seq(Y) /\ Placed(s, p, N, rr)
  BY <1>3, <1>6, <1>8, <1>9, FlattenPlaces
<1> HIDE DEF s, N
<1>11. \A j \in 0 .. N : p[j] \in Nat
  BY <1>9 DEF Cuts
<1>12. p[0] = 0
  BY <1>9 DEF Cuts
\* Where the parts of list l are.
<1> DEFINE c(l) == [k \in 0 .. Len(bb[l]) |-> p[q[l - 1] + k] - p[q[l - 1]]]
<1>13. ASSUME NEW l \in 1 .. m
       PROVE  /\ tt[l] = FlattenSeq(one(l)) /\ tt[l] \in Seq(Y)
              /\ Placed(tt[l], c(l), Len(bb[l]), one(l))
              /\ c(l)[Len(bb[l])] = p[q[l]] - p[q[l - 1]]
              /\ \A k \in 1 .. Len(bb[l]) : /\ one(l)[k] = rr[q[l - 1] + k]
                                            /\ c(l)[k - 1] = p[q[l - 1] + k - 1] - p[q[l - 1]]
  <2> DEFINE M == Len(bb[l])
             a == q[l - 1]
             o == one(l)
             d == c(l)
  <2>1. M \in Nat \ {0} /\ DOMAIN bb[l] = 1 .. M /\ a \in Nat /\ q[l] = a + M /\ q[l] \in Nat
        /\ a + M <= N /\ N \in Nat
    <3>1. M \in Nat \ {0} /\ DOMAIN bb[l] = 1 .. M /\ a \in Nat /\ q[l] = a + M /\ q[l] \in Nat
      BY <1>4, <1>5
    <3>2. M \in 1 .. M
      BY <3>1
    <3>3. a + M \in 1 .. N
      BY <1>7, <3>2
    <3> QED BY <1>3, <3>1, <3>3 DEF N
  <2>2. o = [k \in 1 .. M |-> R[bb[l][k]]]
    BY <2>1
  <2>3. \A k \in 1 .. M : bs[a + k] = bb[l][k] /\ bb[l][k] \in X /\ a + k \in 1 .. N
    BY <1>7
  <2> HIDE DEF M, a, o
  <2>4. Len(o) = M /\ \A k \in 1 .. M : o[k] = R[bb[l][k]]
    BY <2>1, <2>2
  <2>5. \A k \in 1 .. M : o[k] = rr[a + k] /\ o[k] \in Seq(Y) /\ Len(o[k]) = Len(rr[a + k])
    BY <1>8, <2>3, <2>4
  <2>6. d = [k \in 0 .. M |-> p[a + k] - p[a]]
    BY DEF M, a
  <2> HIDE DEF d
  <2>7. \A k \in 0 .. M : d[k] = p[a + k] - p[a] /\ d[k] \in Nat /\ p[a + k] \in Nat /\ p[a] \in Nat
    <3> SUFFICES ASSUME NEW k \in 0 .. M
                 PROVE  d[k] = p[a + k] - p[a] /\ d[k] \in Nat /\ p[a + k] \in Nat /\ p[a] \in Nat
      OBVIOUS
    <3>1. a \in 0 .. N /\ a + k \in a .. N
      BY <2>1
    <3>2. p[a] \in Nat /\ p[a + k] \in Nat /\ p[a] <= p[a + k]
      <4>1. \A j \in 1 .. N : Len(rr[j]) \in Nat
        BY <1>8
      <4> QED BY <1>9, <2>1, <3>1, <4>1, CutsRise
    <3>3. d[k] = p[a + k] - p[a]
      BY <2>6
    <3> QED BY <3>2, <3>3
  <2>8. Cuts(d, M, o)
    <3>1. d \in [0 .. M -> Nat]
      <4>1. d = [k \in 0 .. M |-> d[k]]
        BY <2>6
      <4> QED BY <2>7, <4>1
    <3>2. d[0] = 0
      <4>1. 0 \in 0 .. M /\ a + 0 = a
        BY <2>1
      <4>2. d[0] = p[a] - p[a] /\ p[a] \in Nat
        BY <2>7, <4>1
      <4> QED BY <4>2
    <3>3. ASSUME NEW k \in 1 .. M PROVE d[k] = d[k - 1] + Len(o[k])
      <4>1. k \in 0 .. M /\ k - 1 \in 0 .. M /\ a + k \in 1 .. N /\ (a + k) - 1 = a + (k - 1)
        BY <2>1
      <4>2. p[a + k] = p[a + (k - 1)] + Len(rr[a + k]) /\ Len(rr[a + k]) \in Nat
        <5>1. p[a + k] = p[(a + k) - 1] + Len(rr[a + k])
          BY <1>9, <4>1 DEF Cuts
        <5> QED BY <1>8, <4>1, <5>1
      <4>3. d[k] = p[a + k] - p[a] /\ d[k - 1] = p[a + (k - 1)] - p[a]
            /\ p[a + (k - 1)] \in Nat /\ p[a] \in Nat
        BY <2>7, <4>1
      <4>4. Len(o[k]) = Len(rr[a + k])
        BY <2>5
      <4> QED BY <4>2, <4>3, <4>4
    <3> QED BY <3>1, <3>2, <3>3 DEF Cuts
  <2>9. FlattenSeq(o) \in Seq(Y) /\ Placed(FlattenSeq(o), d, M, o)
    BY <2>1, <2>4, <2>5, <2>8, FlattenPlaces
  <2>10. tt[l] = FlattenSeq(o)
    BY DEF o
  <2>11. d[M] = p[q[l]] - p[a]
    BY <2>1, <2>7
  <2>12. ASSUME NEW k \in 1 .. M PROVE d[k - 1] = p[a + k - 1] - p[a]
    <3>1. k - 1 \in 0 .. M /\ a + (k - 1) = a + k - 1
      BY <2>1
    <3> QED BY <2>7, <3>1
  <2> QED BY <2>5, <2>9, <2>10, <2>11, <2>12 DEF o, d, M, a
<1> HIDE DEF c, one, tt
<1>14. Len(tt) = m
  BY DEF tt
<1> DEFINE P == [l \in 0 .. m |-> p[q[l]]]
<1>15. \A l \in 0 .. m : P[l] = p[q[l]] /\ P[l] \in Nat /\ q[l] \in 0 .. N
  <2> SUFFICES ASSUME NEW l \in 0 .. m PROVE P[l] = p[q[l]] /\ P[l] \in Nat /\ q[l] \in 0 .. N
    OBVIOUS
  <2>1. l \in 0 .. m /\ m \in l .. m
    OBVIOUS
  <2>2. q[l] <= q[m] /\ q[l] \in Nat
    <3>1. \A k \in 1 .. m : Len(bb[k]) \in Nat
      BY <1>4
    <3> QED BY <1>1, <2>1, <3>1, CutsRise
  <2>3. q[l] \in 0 .. N
    BY <1>3, <2>2 DEF N
  <2> QED BY <1>11, <2>3
<1>16. P \in [0 .. m -> Nat]
  BY <1>15
<1> HIDE DEF P
<1>17. Cuts(P, m, tt)
  <2>1. P[0] = 0
    <3>1. 0 \in 0 .. m
      OBVIOUS
    <3> QED BY <1>4, <1>12, <1>15, <3>1
  <2>2. ASSUME NEW l \in 1 .. m PROVE P[l] = P[l - 1] + Len(tt[l])
    <3>1. Len(tt[l]) = p[q[l]] - p[q[l - 1]]
      BY <1>13 DEF Placed
    <3>2. P[l] = p[q[l]] /\ P[l - 1] = p[q[l - 1]] /\ P[l] \in Nat /\ P[l - 1] \in Nat
      BY <1>5, <1>15
    <3> QED BY <3>1, <3>2
  <2> QED BY <1>16, <2>1, <2>2 DEF Cuts
<1>18. Placed(s, P, m, tt)
  <2>1. Len(s) = P[m] /\ P[m] = p[N]
    <3>1. m \in 0 .. m
      OBVIOUS
    <3>2. P[m] = p[N]
      BY <1>3, <1>15, <3>1 DEF N
    <3> QED BY <1>10, <3>2 DEF Placed
  <2>2. ASSUME NEW l \in 1 .. m, NEW i \in 1 .. Len(tt[l])
        PROVE  P[l - 1] + i \in 1 .. P[m] /\ s[P[l - 1] + i] = tt[l][i]
    <3>1. i \in 1 .. c(l)[Len(bb[l])]
      BY <1>13 DEF Placed
    <3>2. PICK k \in 1 .. Len(bb[l]) : \E h \in 1 .. Len(one(l)[k]) : i = c(l)[k - 1] + h
      BY <1>13, <3>1 DEF Placed
    <3>3. PICK h \in 1 .. Len(one(l)[k]) : i = c(l)[k - 1] + h
      BY <3>2
    <3>4. tt[l][i] = one(l)[k][h]
      BY <1>13, <3>3 DEF Placed
    <3> DEFINE x == q[l - 1] + k
    <3>5. x \in 1 .. N /\ one(l)[k] = rr[x] /\ c(l)[k - 1] = p[x - 1] - p[q[l - 1]]
      <4>1. x \in 1 .. N
        BY <1>7
      <4>2. one(l)[k] = rr[q[l - 1] + k] /\ c(l)[k - 1] = p[q[l - 1] + k - 1] - p[q[l - 1]]
        BY <1>13
      <4>3. q[l - 1] \in Nat /\ k \in Nat
        BY <1>4, <1>5
      <4> DEFINE a == q[l - 1]
      <4>4. a + k - 1 = x - 1 /\ a + k = x
        BY <4>3
      <4> HIDE DEF x
      <4> QED BY <4>1, <4>2, <4>4
    <3> HIDE DEF x
    <3>6. p[x - 1] + h \in 1 .. p[N] /\ s[p[x - 1] + h] = rr[x][h]
      BY <1>10, <3>3, <3>5 DEF Placed
    <3>7. P[l - 1] = p[q[l - 1]] /\ P[l - 1] \in Nat
      BY <1>5, <1>15
    <3>8. p[x - 1] \in Nat /\ h \in Nat
      <4>1. x - 1 \in 0 .. N
        BY <1>3, <3>5 DEF N
      <4>2. Len(rr[x]) \in Nat
        BY <1>8, <3>5
      <4> QED BY <1>11, <3>3, <3>5, <4>1, <4>2
    <3>9. P[l - 1] + i = p[x - 1] + h
      <4> DEFINE u == p[x - 1]
                 v == c(l)[k - 1]
                 w == P[l - 1]
      <4>1. i = v + h /\ v = u - w /\ u \in Nat /\ h \in Nat /\ w \in Nat
        BY <3>3, <3>5, <3>7, <3>8
      <4> HIDE DEF u, v, w
      <4>2. w + i = u + h
        BY ONLY <4>1
      <4> QED BY <4>2 DEF u, w
    <3> QED BY <2>1, <3>4, <3>5, <3>6, <3>9
  <2>3. ASSUME NEW j \in 1 .. P[m]
        PROVE  \E l \in 1 .. m : \E i \in 1 .. Len(tt[l]) : j = P[l - 1] + i
    <3>1. PICK x \in 1 .. N : \E h \in 1 .. Len(rr[x]) : j = p[x - 1] + h
      BY <1>10, <2>1 DEF Placed
    <3>2. PICK h \in 1 .. Len(rr[x]) : j = p[x - 1] + h
      BY <3>1
    <3>3. x \in 1 .. q[m]
      BY <1>3 DEF N
    <3>4. PICK l \in 1 .. m : \E k \in 1 .. Len(bb[l]) : x = q[l - 1] + k
      BY <1>2, <3>3 DEF Placed
    <3>5. PICK k \in 1 .. Len(bb[l]) : x = q[l - 1] + k
      BY <3>4
    <3>6. one(l)[k] = rr[x] /\ c(l)[k - 1] = p[x - 1] - p[q[l - 1]]
      <4>1. one(l)[k] = rr[q[l - 1] + k] /\ c(l)[k - 1] = p[q[l - 1] + k - 1] - p[q[l - 1]]
        BY <1>13
      <4>2. q[l - 1] \in Nat /\ k \in Nat
        BY <1>4, <1>5
      <4> DEFINE a == q[l - 1]
      <4>3. a + k - 1 = x - 1 /\ a + k = x
        BY <3>5, <4>2
      <4> QED BY <4>1, <4>3
    <3> DEFINE i == c(l)[k - 1] + h
    <3>7. i \in 1 .. Len(tt[l])
      <4>1. h \in 1 .. Len(one(l)[k])
        BY <3>6
      <4> QED BY <1>13, <4>1 DEF Placed
    <3>8. P[l - 1] = p[q[l - 1]] /\ P[l - 1] \in Nat
      BY <1>5, <1>15
    <3>9. p[x - 1] \in Nat /\ h \in Nat
      <4>1. x - 1 \in 0 .. N
        BY <1>3 DEF N
      <4>2. Len(rr[x]) \in Nat
        BY <1>8
      <4> QED BY <1>11, <4>1, <4>2
    <3>10. j = P[l - 1] + i
      <4> DEFINE u == p[x - 1]
                 v == c(l)[k - 1]
                 w == P[l - 1]
      <4>1. j = u + h /\ v = u - w /\ u \in Nat /\ h \in Nat /\ w \in Nat
        BY <3>2, <3>6, <3>8, <3>9
      <4> HIDE DEF u, v, w
      <4>2. j = w + (v + h)
        BY ONLY <4>1
      <4> QED BY <4>2 DEF v, w
    <3> HIDE DEF i
    <3> QED BY <3>7, <3>10
  <2> QED BY <2>1, <2>2, <2>3 DEF Placed
<1>19. FlattenSeq(tt) = s
  <2>1. \A l \in 1 .. m : tt[l] \in Seq(Y)
    BY <1>13
  <2> QED BY <1>10, <1>14, <1>17, <1>18, <2>1, SameFlat
<1>20. rr = ReadBy(R, FlattenSeq(bb)) /\ tt = ReadEach(R, bb, m)
  BY DEF rr, bs, tt, one, ReadBy, ReadEach
<1> QED BY <1>19, <1>20 DEF s

-------------------------------------------------------------------------------
(* Translated RIDs.                                                        *)

\* The RIDs moved by s, as PartitionIndex has them.
MovedBy(rids, s) == [i \in DOMAIN rids |-> (rids[i] + s) % RidLimit]

\* Strictly ascending RIDs that are not none: those of a bin.
Rising(rids) ==
  /\ rids \in Seq(0 .. RidLimit - 1) /\ Len(rids) # 0
  /\ \A i \in 1 .. Len(rids) - 1 : rids[i] < rids[i + 1]

\* What a rising list is.
LEMMA TypedRising ==
  ASSUME NEW rids, Rising(rids)
  PROVE  /\ Len(rids) \in Nat \ {0} /\ DOMAIN rids = 1 .. Len(rids)
         /\ \A i \in 1 .. Len(rids) : rids[i] \in 0 .. RidLimit - 1
         /\ rids = [i \in 1 .. Len(rids) |-> rids[i]]
<1> DEFINE L == 0 .. RidLimit - 1
<1>1. rids \in Seq(L) /\ Len(rids) # 0
  BY DEF Rising
<1> HIDE DEF L
<1>2. /\ Len(rids) \in Nat \ {0} /\ DOMAIN rids = 1 .. Len(rids)
      /\ \A i \in 1 .. Len(rids) : rids[i] \in L
      /\ rids = [i \in 1 .. Len(rids) |-> rids[i]]
  BY ONLY <1>1
<1> QED BY <1>2 DEF L

\* Differences survive a translation.
LEMMA DifferenceMoved ==
  ASSUME NEW N \in Nat \ {0}, NEW x \in Int, NEW y \in Int, NEW s \in Int
  PROVE  (((y + s) % N) - ((x + s) % N)) % N = (y - x) % N
<1> DEFINE a == (y + s) % N
           b == (x + s) % N
<1>1. y + s \in Int /\ x + s \in Int
  OBVIOUS
<1>2. a \in 0 .. N - 1 /\ b \in 0 .. N - 1
  BY <1>1, DividedInteger
<1>3. a \in Int /\ b \in Int /\ (0 - b) \in Int /\ a - b = a + (0 - b)
  BY <1>2
<1>4. (a + (0 - b)) % N = ((y + s) + (0 - b)) % N
  <2> DEFINE z == y + s
             w == 0 - b
  <2>1. z \in Int /\ w \in Int
    BY <1>1, <1>3
  <2> HIDE DEF z, w
  <2>2. ((z % N) + w) % N = (z + w) % N
    BY ONLY <2>1, N \in Nat \ {0}, RemainderOfSum
  <2> QED BY <2>2 DEF z, w
\* Add b back: (d + b) and (e + b) leave the same remainder, so do d and e.
<1> DEFINE q == (x + s) \div N
<1>5. q \in Int /\ x + s = q * N + b
  BY <1>1, DividedInteger
<1> HIDE DEF a, b, q
<1>6. (y + s) + (0 - b) = (y - x) + q * N
  <2> DEFINE u == q * N
  <2>1. u \in Int
    BY <1>5
  <2>2. x + s = u + b
    BY <1>5
  <2> HIDE DEF u
  <2>3. (y + s) + (0 - b) = (y - x) + u
    BY <1>3, <2>1, <2>2
  <2> QED BY <2>3 DEF u
<1>7. ((y - x) + q * N) % N = (y - x) % N
  <2> DEFINE d == y - x
             t == d \div N
             r == d % N
  <2>1. d \in Int
    OBVIOUS
  <2> HIDE DEF d
  <2>2. t \in Int /\ r \in 0 .. N - 1 /\ d = t * N + r
    BY <2>1, DividedInteger
  <2> HIDE DEF t, r
  <2>3. d + q * N = (t + q) * N + r
    <3>1. (t + q) * N = t * N + q * N
      BY <1>5, <2>2
    <3> QED BY <1>5, <2>2, <3>1
  <2>4. (d + q * N) % N = r
    <3>1. t + q \in Int
      BY <1>5, <2>2
    <3> QED BY <2>2, <2>3, <3>1, QuotientAndRemainder
  <2> QED BY <2>4 DEF r, d
<1>8. (a - b) % N = (y - x) % N
  <2>1. (a - b) % N = (a + (0 - b)) % N
    BY <1>3
  <2> QED BY <1>4, <1>6, <1>7, <2>1
<1> QED BY <1>8 DEF a, b

\* A moved list has distinct neighbours with the differences of the list.
LEMMA MovedIsDistinct ==
  ASSUME NEW rids, Rising(rids), NEW s \in Int
  PROVE  /\ Distinct(MovedBy(rids, s)) /\ Len(MovedBy(rids, s)) = Len(rids)
         /\ Len(MovedBy(rids, s)) # 0
         /\ \A i \in 1 .. Len(rids) - 1 :
              (MovedBy(rids, s)[i + 1] - MovedBy(rids, s)[i]) % RidLimit
                = (rids[i + 1] - rids[i]) % RidLimit
<1> DEFINE n == Len(rids)
           moved == MovedBy(rids, s)
           N == RidLimit
<1>1. /\ n \in Nat \ {0} /\ DOMAIN rids = 1 .. n
      /\ \A i \in 1 .. n : rids[i] \in 0 .. N - 1
  BY TypedRising
<1>2. N \in Nat \ {0}
  BY Powers
<1>3. moved = [i \in 1 .. n |-> (rids[i] + s) % N]
  BY <1>1 DEF MovedBy
<1> HIDE DEF N, moved, n
<1>4. ASSUME NEW i \in 1 .. n
      PROVE  moved[i] = (rids[i] + s) % N /\ moved[i] \in 0 .. N - 1 /\ rids[i] \in Int
  <2>1. rids[i] + s \in Int /\ rids[i] \in Int
    BY <1>1, <1>2
  <2>2. (rids[i] + s) % N \in 0 .. N - 1
    BY ONLY <1>2, <2>1, DividedInteger
  <2> QED BY <1>3, <2>1, <2>2
<1>5. Len(moved) = n /\ moved \in Seq(0 .. N - 1)
  <2> DEFINE L == 0 .. N - 1
             e(i) == (rids[i] + s) % N
  <2>1. \A i \in 1 .. n : e(i) \in L
    BY <1>3, <1>4
  <2>2. moved = [i \in 1 .. n |-> e(i)]
    BY <1>3
  <2> HIDE DEF L, e
  <2>3. Len(moved) = n /\ moved \in Seq(L)
    BY <1>1, <2>1, <2>2
  <2> QED BY <2>3 DEF L
<1>6. ASSUME NEW i \in 1 .. n - 1
      PROVE  /\ (moved[i + 1] - moved[i]) % N = (rids[i + 1] - rids[i]) % N
             /\ moved[i] # moved[i + 1]
  <2>1. i \in 1 .. n /\ i + 1 \in 1 .. n
    BY <1>1
  <2> DEFINE x == rids[i]
             y == rids[i + 1]
             u == moved[i]
             v == moved[i + 1]
  <2>2. x \in 0 .. N - 1 /\ y \in 0 .. N - 1 /\ x < y
    BY <1>1, <2>1 DEF Rising, n
  <2>3. u = (x + s) % N /\ v = (y + s) % N /\ u \in 0 .. N - 1 /\ v \in 0 .. N - 1
    BY <1>4, <2>1
  <2> HIDE DEF x, y, u, v
  <2>4. (v - u) % N = (y - x) % N
    <3>1. x \in Int /\ y \in Int
      BY <1>2, <2>2
    <3>2. (((y + s) % N) - ((x + s) % N)) % N = (y - x) % N
      BY ONLY <1>2, <3>1, s \in Int, DifferenceMoved
    <3> QED BY <2>3, <3>2
  <2>5. (y - x) % N # 0
    BY <1>2, <2>2, DifferenceModulo
  <2>6. u # v
    <3>1. u = v => v - u = 0
      BY <1>2, <2>3
    <3>2. 0 % N = 0
      BY <1>2
    <3> QED BY <2>4, <2>5, <3>1, <3>2
  <2> QED BY <2>4, <2>6 DEF x, y, u, v
<1>7. Distinct(moved)
  BY <1>5, <1>6 DEF Distinct, N
<1> QED BY <1>1, <1>5, <1>6, <1>7 DEF n, moved, N

\* Moving twice is moving by the sum, and moving by 0 changes nothing.
LEMMA MovedTwice ==
  ASSUME NEW rids, Rising(rids), NEW s \in Int, NEW o \in Int
  PROVE  /\ MovedBy(MovedBy(rids, s), o) = MovedBy(rids, s + o)
         /\ MovedBy(rids, 0) = rids
<1> DEFINE n == Len(rids)
           N == RidLimit
<1>1. /\ n \in Nat \ {0} /\ DOMAIN rids = 1 .. n
      /\ rids = [i \in 1 .. n |-> rids[i]]
      /\ \A i \in 1 .. n : rids[i] \in 0 .. N - 1
  BY TypedRising
<1>2. N \in Nat \ {0}
  BY Powers
<1>3. \A t : MovedBy(rids, t) = [i \in 1 .. n |-> (rids[i] + t) % N]
  BY <1>1 DEF MovedBy
<1>4. MovedBy(MovedBy(rids, s), o) = [i \in 1 .. n |-> (((rids[i] + s) % N) + o) % N]
  <2>1. DOMAIN MovedBy(rids, s) = 1 .. n /\ \A i \in 1 .. n : MovedBy(rids, s)[i] = (rids[i] + s) % N
    <3> HIDE DEF n, N
    <3> QED BY <1>3
  <2> HIDE DEF n
  <2> QED BY <2>1 DEF MovedBy
<1> HIDE DEF n, N
<1>5. ASSUME NEW i \in 1 .. n PROVE (((rids[i] + s) % N) + o) % N = (rids[i] + (s + o)) % N
  <2> DEFINE x == rids[i]
             z == x + s
  <2>1. x \in Int /\ z \in Int
    BY <1>1, <1>2
  <2>2. z + o = x + (s + o)
    BY <2>1
  <2> HIDE DEF z
  <2>3. ((z % N) + o) % N = (z + o) % N
    BY ONLY <1>2, <2>1, o \in Int, RemainderOfSum
  <2> QED BY <2>2, <2>3 DEF z
<1>6. MovedBy(MovedBy(rids, s), o) = MovedBy(rids, s + o)
  <2>1. MovedBy(rids, s + o) = [i \in 1 .. n |-> (rids[i] + (s + o)) % N]
    BY <1>3
  <2> QED BY <1>4, <1>5, <2>1
<1>7. MovedBy(rids, 0) = rids
  <2>1. \A i \in 1 .. n : (rids[i] + 0) % N = rids[i]
    <3> SUFFICES ASSUME NEW i \in 1 .. n PROVE (rids[i] + 0) % N = rids[i]
      OBVIOUS
    <3>1. rids[i] \in 0 .. N - 1
      BY <1>1
    <3>2. rids[i] + 0 = rids[i]
      BY <1>2, <3>1
    <3>3. rids[i] % N = rids[i]
      BY <1>2, <3>1, SmallRemainder
    <3> QED BY <3>2, <3>3
  <2>2. MovedBy(rids, 0) = [i \in 1 .. n |-> (rids[i] + 0) % N]
    BY <1>3
  <2> QED BY <1>1, <2>1, <2>2
<1> QED BY <1>6, <1>7

\* RIDs that wrapped together still ascend.
LEMMA MovedAscends ==
  ASSUME NEW rids, Rising(rids), NEW s \in Int,
         \A i, j \in DOMAIN rids : (rids[i] + s) \div RidLimit = (rids[j] + s) \div RidLimit
  PROVE  Ascends(MovedBy(rids, s))
<1> DEFINE n == Len(rids)
           N == RidLimit
           moved == MovedBy(rids, s)
<1>1. /\ n \in Nat \ {0} /\ DOMAIN rids = 1 .. n
      /\ \A i \in 1 .. n : rids[i] \in 0 .. N - 1
  BY TypedRising
<1>2. N \in Nat \ {0}
  BY Powers
<1>3. \A i \in 1 .. n : moved[i] = (rids[i] + s) % N
  BY <1>1 DEF MovedBy
<1>4. Len(moved) = n
  BY MovedIsDistinct
<1> HIDE DEF N, moved
<1>5. ASSUME NEW i \in 1 .. n - 1 PROVE moved[i] <= moved[i + 1]
  <2>1. i \in 1 .. n /\ i + 1 \in 1 .. n
    BY <1>1
  <2> DEFINE x == rids[i]
             y == rids[i + 1]
             u == x + s
             v == y + s
             q == u \div N
             a == u % N
             b == v % N
  <2>2. x < y
    BY DEF Rising
  <2>3. u \in Int /\ v \in Int /\ u < v
    <3>1. x \in Int /\ y \in Int
      BY <1>1, <1>2, <2>1
    <3> QED BY <2>2, <3>1
  <2>4. u \div N = v \div N
    <3>1. i \in DOMAIN rids /\ i + 1 \in DOMAIN rids
      BY <1>1, <2>1
    <3> HIDE DEF n
    <3> QED BY <3>1 DEF N
  <2>5. moved[i] = a /\ moved[i + 1] = b
    BY <1>3, <2>1
  <2> HIDE DEF u, v
  <2>6. q \in Int /\ a \in 0 .. N - 1 /\ b \in 0 .. N - 1 /\ u = q * N + a /\ v = q * N + b
    <3>1. q \in Int /\ a \in 0 .. N - 1 /\ u = q * N + a
      BY ONLY <1>2, <2>3, DividedInteger
    <3>2. (v \div N) \in Int /\ b \in 0 .. N - 1 /\ v = (v \div N) * N + b
      BY ONLY <1>2, <2>3, DividedInteger
    <3> QED BY <2>4, <3>1, <3>2
  <2> HIDE DEF q, a, b
  <2> DEFINE w == q * N
  <2>7. w \in Int /\ u = w + a /\ v = w + b
    BY <1>2, <2>6
  <2> HIDE DEF w
  <2>8. a <= b
    BY <1>2, <2>3, <2>6, <2>7
  <2> QED BY <2>5, <2>8
<1> QED BY <1>4, <1>5 DEF Ascends, moved

\* The batches of moved RIDs differ from those of the RIDs in their frames only.
LEMMA MovedBatches ==
  ASSUME NEW rids, Rising(rids), NEW s \in Int, NEW k \in 1 .. BatchCount(Len(rids))
  PROVE  /\ Len(BatchRids(MovedBy(rids, s), k)) = Len(BatchRids(rids, k))
         /\ Deltas(BatchRids(MovedBy(rids, s), k)) = Deltas(BatchRids(rids, k))
         /\ BatchRids(MovedBy(rids, s), k)[1] = (BatchRids(rids, k)[1] + s) % RidLimit
         /\ Len(BatchRids(rids, k)) \in 1 .. BatchSize
<1> DEFINE n == Len(rids)
           moved == MovedBy(rids, s)
           p == BatchRids(rids, k)
           q == BatchRids(moved, k)
           a == BatchEnd(n, k - 1)
<1>1. /\ n \in Nat \ {0} /\ DOMAIN rids = 1 .. n /\ n # 0
      /\ \A i \in 1 .. n : rids[i] \in 0 .. RidLimit - 1
  BY TypedRising
<1>2. /\ Distinct(moved) /\ Len(moved) = n
      /\ \A i \in 1 .. n - 1 : (moved[i + 1] - moved[i]) % RidLimit
                                 = (rids[i + 1] - rids[i]) % RidLimit
  BY MovedIsDistinct
<1>3. Distinct(rids)
  <2>1. MovedBy(rids, 0) = rids
    BY MovedTwice
  <2>2. Distinct(MovedBy(rids, 0))
    BY MovedIsDistinct
  <2> QED BY <2>1, <2>2
<1>4. \A i \in 1 .. n : moved[i] = (rids[i] + s) % RidLimit
  BY <1>1 DEF MovedBy
<1> HIDE DEF moved
<1>5. /\ Len(p) \in 1 .. BatchSize /\ Len(p) = BatchEnd(n, k) - a
      /\ \A i \in 1 .. Len(p) : a + i \in 1 .. n /\ p[i] = rids[a + i]
  BY <1>1, <1>3, BatchPieces
<1>6. /\ Len(q) = BatchEnd(n, k) - a
      /\ \A i \in 1 .. Len(q) : a + i \in 1 .. n /\ q[i] = moved[a + i]
  <2>1. k \in 1 .. BatchCount(Len(moved)) /\ Len(moved) # 0
    BY <1>1, <1>2
  <2>2. /\ Len(q) = BatchEnd(Len(moved), k) - BatchEnd(Len(moved), k - 1)
        /\ \A i \in 1 .. Len(q) : BatchEnd(Len(moved), k - 1) + i \in 1 .. Len(moved)
                                  /\ q[i] = moved[BatchEnd(Len(moved), k - 1) + i]
    BY <1>2, <2>1, BatchPieces
  <2> QED BY <1>2, <2>2
<1>7. a \in Nat
  <2>1. k - 1 \in 0 .. BatchCount(n)
    <3>1. BatchCount(n) \in Nat /\ k \in 1 .. BatchCount(n)
      BY <1>1, BatchEnds
    <3> QED BY ONLY <3>1
  <2>2. a \in 0 .. n
    BY <1>1, <2>1, BatchEnds
  <2> QED BY <1>1, <2>2
<1> HIDE DEF p, q, a
<1>8. Len(q) = Len(p)
  BY <1>5, <1>6
<1>9. ASSUME NEW i \in 1 .. Len(p) - 1
      PROVE  (q[i + 1] - q[i]) % RidLimit = (p[i + 1] - p[i]) % RidLimit
  <2> DEFINE h == a + i
  <2>1. i \in 1 .. Len(p) /\ i + 1 \in 1 .. Len(p) /\ a + (i + 1) = h + 1 /\ h \in Nat
    BY <1>5, <1>7, BatchShape
  <2>2. h \in 1 .. n /\ h + 1 \in 1 .. n
    BY <1>5, <2>1
  <2>3. p[i] = rids[h] /\ p[i + 1] = rids[h + 1] /\ q[i] = moved[h] /\ q[i + 1] = moved[h + 1]
    BY <1>5, <1>6, <1>8, <2>1
  <2>4. h \in 1 .. n - 1
    BY <1>1, <2>1, <2>2
  <2> HIDE DEF h
  <2> QED BY <1>2, <2>3, <2>4
<1>10. Deltas(q) = Deltas(p)
  BY <1>8, <1>9 DEF Deltas
<1>11. q[1] = (p[1] + s) % RidLimit
  <2>1. 1 \in 1 .. Len(p)
    BY <1>5, BatchShape
  <2>2. a + 1 \in 1 .. n /\ p[1] = rids[a + 1] /\ q[1] = moved[a + 1]
    BY <1>5, <1>6, <1>8, <2>1
  <2> QED BY <1>4, <2>2
<1> QED BY <1>5, <1>8, <1>10, <1>11 DEF p, q, moved

-------------------------------------------------------------------------------
(* One compressed list.                                                    *)

\* The batches of a list.
LEMMA ListBatches ==
  ASSUME NEW rids, Distinct(rids), Len(rids) # 0, NEW form \in CompressedForms
  PROVE  LET list == Compress(form, rids)
             c == BatchCount(Len(rids))
             part(k) == BatchRids(rids, k)
         IN /\ list.count = Len(rids) /\ DOMAIN list.batches = 1 .. c
            /\ Len(list.batches) = c /\ c \in Nat \ {0}
            /\ list.batches = [k \in 1 .. c |-> list.batches[k]]
            /\ \A k \in 1 .. c :
                 /\ form = PFD => list.batches[k] = encode(part(k))
                 /\ form = Hybrid => list.batches[k] = hybrid_encode(part(k))
                 /\ form = Expansion => list.batches[k] = expand_encode(part(k))
                 /\ form = Mix => list.batches[k] = expand_runlength_encode(part(k))
            /\ \A k \in 1 .. c : HeaderHolds(list.batches[k])
<1> DEFINE list == Compress(form, rids)
           c == BatchCount(Len(rids))
           part(k) == BatchRids(rids, k)
<1>1. c \in Nat \ {0}
  <2>1. Len(rids) \in Nat \ {0}
    BY TypedRids
  <2> HIDE DEF c
  <2> QED BY <2>1, BatchEnds DEF c
<1>2. \A k \in 1 .. c : Distinct(part(k)) /\ Len(part(k)) \in 1 .. BatchSize
  BY BatchPieces
<1> HIDE DEF c, part
<1>3. CASE form = PFD
  <2>1. list = [count |-> Len(rids), batches |-> [k \in 1 .. c |-> encode(part(k))]]
    BY <1>3 DEF Compress, encode_rids, List, c, part, PFD, Hybrid, Expansion, Mix
  <2>2. /\ list.count = Len(rids) /\ DOMAIN list.batches = 1 .. c /\ Len(list.batches) = c
        /\ list.batches = [k \in 1 .. c |-> list.batches[k]]
        /\ \A k \in 1 .. c : list.batches[k] = encode(part(k))
    <3> HIDE DEF list
    <3> QED BY <1>1, <2>1
  <2>3. \A k \in 1 .. c : HeaderHolds(encode(part(k)))
    BY <1>2, PlainBatches
  <2> QED BY <1>1, <1>3, <2>2, <2>3 DEF c, part, PFD, Hybrid, Expansion, Mix
<1>4. CASE form = Hybrid
  <2>1. list = [count |-> Len(rids), batches |-> [k \in 1 .. c |-> hybrid_encode(part(k))]]
    BY <1>4 DEF Compress, hybrid_encode_rids, List, c, part, PFD, Hybrid, Expansion, Mix
  <2>2. /\ list.count = Len(rids) /\ DOMAIN list.batches = 1 .. c /\ Len(list.batches) = c
        /\ list.batches = [k \in 1 .. c |-> list.batches[k]]
        /\ \A k \in 1 .. c : list.batches[k] = hybrid_encode(part(k))
    <3> HIDE DEF list
    <3> QED BY <1>1, <2>1
  <2>3. \A k \in 1 .. c : HeaderHolds(hybrid_encode(part(k)))
    BY <1>2, RunBatches
  <2> QED BY <1>1, <1>4, <2>2, <2>3 DEF c, part, PFD, Hybrid, Expansion, Mix
<1>5. CASE form = Expansion
  <2>1. list = [count |-> Len(rids), batches |-> [k \in 1 .. c |-> expand_encode(part(k))]]
    BY <1>5 DEF Compress, expand_encode_rids, List, c, part, PFD, Hybrid, Expansion, Mix
  <2>2. /\ list.count = Len(rids) /\ DOMAIN list.batches = 1 .. c /\ Len(list.batches) = c
        /\ list.batches = [k \in 1 .. c |-> list.batches[k]]
        /\ \A k \in 1 .. c : list.batches[k] = expand_encode(part(k))
    <3> HIDE DEF list
    <3> QED BY <1>1, <2>1
  <2>3. \A k \in 1 .. c : HeaderHolds(expand_encode(part(k)))
    BY <1>2, PlainBatches
  <2> QED BY <1>1, <1>5, <2>2, <2>3 DEF c, part, PFD, Hybrid, Expansion, Mix
<1>6. CASE form = Mix
  <2>1. list = [count |-> Len(rids), batches |-> [k \in 1 .. c |-> expand_runlength_encode(part(k))]]
    BY <1>6 DEF Compress, exapnd_runlength_encode_rids, List, c, part, PFD, Hybrid, Expansion, Mix
  <2>2. /\ list.count = Len(rids) /\ DOMAIN list.batches = 1 .. c /\ Len(list.batches) = c
        /\ list.batches = [k \in 1 .. c |-> list.batches[k]]
        /\ \A k \in 1 .. c : list.batches[k] = expand_runlength_encode(part(k))
    <3> HIDE DEF list
    <3> QED BY <1>1, <2>1
  <2>3. \A k \in 1 .. c : HeaderHolds(expand_runlength_encode(part(k)))
    BY <1>2, RunBatches
  <2> QED BY <1>1, <1>6, <2>2, <2>3 DEF c, part, PFD, Hybrid, Expansion, Mix
<1> QED BY <1>3, <1>4, <1>5, <1>6 DEF CompressedForms

\* A list takes no more than the capacity computed from its count.
LEMMA ListFits ==
  ASSUME NEW rids, Distinct(rids), Len(rids) # 0, NEW form \in CompressedForms
  PROVE  /\ ListBytes(Compress(form, rids)) \in Int
         /\ get_sufficient_buffer_capacity(Len(rids)) \in Int
         /\ ListBytes(Compress(form, rids)) <= get_sufficient_buffer_capacity(Len(rids))
<1> DEFINE list == Compress(form, rids)
           c == BatchCount(Len(rids))
           K == kSufficientBufferCapacity
           s == [k \in DOMAIN list.batches |-> list.batches[k].encoded_size]
           t == [k \in 1 .. c |-> K - 4]
<1>1. /\ DOMAIN list.batches = 1 .. c /\ c \in Nat \ {0}
      /\ \A k \in 1 .. c : HeaderHolds(list.batches[k])
  BY ListBatches
<1>2. K \in Int /\ WordBytes \in Int
  <2>1. K = WordBytes + 8 * BatchSize
    BY FullBatchWords
  <2> HIDE DEF K
  <2> QED BY <2>1, BatchShape
<1> HIDE DEF list, c, K
<1>3. Len(s) = c /\ \A k \in 1 .. c : s[k] \in WordBytes .. K - 4
  <2>1. s = [k \in 1 .. c |-> list.batches[k].encoded_size]
    BY <1>1
  <2>2. \A k \in 1 .. c : list.batches[k].encoded_size \in WordBytes .. K - 4
    BY <1>1 DEF HeaderHolds, K
  <2> HIDE DEF s
  <2> QED BY <1>1, <2>1, <2>2
<1>4. Len(t) = c /\ \A k \in 1 .. c : t[k] = K - 4
  BY <1>1
<1> HIDE DEF s, t
<1>5. SumOf(s) \in Int /\ SumOf(s) <= SumOf(t) /\ SumOf(t) \in Int
  <2>1. \A k \in 1 .. c : s[k] \in Int /\ t[k] \in Int /\ s[k] <= t[k]
    BY <1>2, <1>3, <1>4
  <2>2. c \in Nat
    BY <1>1
  <2> QED BY <1>3, <1>4, <2>1, <2>2, SumBound
<1>6. SumOf(t) = (K - 4) * c
  <2>1. K - 4 \in Int /\ c \in Nat
    BY <1>1, <1>2
  <2> DEFINE d == K - 4
  <2> HIDE DEF d
  <2>2. \A k \in 1 .. c : t[k] = d
    BY <1>4 DEF d
  <2>3. d \in Int
    BY <2>1 DEF d
  <2>4. SumOf(t) = d * c
    BY ONLY <1>4, <2>1, <2>2, <2>3, SumOfConstant
  <2> QED BY <2>4 DEF d
<1>7. ListBytes(list) = 4 + SumOf(s)
  <2>1. CountBytes = 4
    BY FullBatchWords DEF CountBytes
  <2> QED BY <2>1 DEF ListBytes, s
<1>8. get_sufficient_buffer_capacity(Len(rids)) = K * c
  BY DEF get_sufficient_buffer_capacity, K, c
<1>9. (K - 4) * c = K * c - 4 * c /\ K * c \in Int
  BY <1>1, <1>2
<1>10. 4 + SumOf(s) <= K * c
  <2> DEFINE u == K * c
             v == SumOf(s)
             w == SumOf(t)
  <2>1. u \in Int /\ v \in Int /\ w \in Int /\ v <= w /\ w = u - 4 * c /\ c \in Nat \ {0}
    BY <1>1, <1>5, <1>6, <1>9
  <2> HIDE DEF u, v, w
  <2>2. 4 + v <= u
    BY <2>1
  <2> QED BY <2>2 DEF u, v
<1> QED BY <1>5, <1>7, <1>8, <1>9, <1>10 DEF list

\* Moving the frames of a list moves its RIDs.
LEMMA ListMoved ==
  ASSUME NEW rids, Rising(rids), NEW s \in Int, NEW o \in Int
  PROVE  update_rids(<<encode_rids(MovedBy(rids, s))>>, o).lists[1]
           = encode_rids(MovedBy(rids, s + o))
<1> DEFINE n == Len(rids)
           c == BatchCount(n)
           a == MovedBy(rids, s)
           b == MovedBy(rids, s + o)
           bs == [k \in 1 .. c |-> encode(BatchRids(a, k))]
           cs == [k \in 1 .. c |-> encode(BatchRids(b, k))]
           moved == [k \in 1 .. c |-> MovedFrame(bs[k], o)]
           list == [count |-> n, batches |-> bs]
<1>1. n \in Nat \ {0} /\ s + o \in Int /\ Len(a) = n /\ Len(b) = n
  BY TypedRising, MovedIsDistinct
<1>2. encode_rids(a) = list /\ encode_rids(b) = [count |-> n, batches |-> cs]
  BY <1>1 DEF encode_rids, List
<1>3. ASSUME NEW k \in 1 .. c PROVE moved[k] = cs[k]
  <2> DEFINE p == BatchRids(a, k)
             q == BatchRids(b, k)
             r == BatchRids(rids, k)
             w == optimal_param(Deltas(r), Len(r))
  <2>1. Len(p) = Len(r) /\ Deltas(p) = Deltas(r) /\ p[1] = (r[1] + s) % RidLimit
    BY MovedBatches
  <2>2. Len(q) = Len(r) /\ Deltas(q) = Deltas(r) /\ q[1] = (r[1] + (s + o)) % RidLimit
    BY <1>1, MovedBatches
  <2>3. bs[k] = encode(p) /\ cs[k] = encode(q)
    OBVIOUS
  <2> HIDE DEF p, q
  <2>4. encode(p) = encode_param_new(Deltas(r), Len(r), w, p[1])
        /\ encode(q) = encode_param_new(Deltas(r), Len(r), w, q[1])
    BY <2>1, <2>2 DEF encode
  <2>5. r[1] \in Int
    <3>1. MovedBy(rids, 0) = rids
      BY MovedTwice
    <3>2. Distinct(rids)
      <4>1. Distinct(MovedBy(rids, 0))
        BY MovedIsDistinct
      <4> QED BY <3>1, <4>1
    <3>3. Distinct(r) /\ Len(r) \in 1 .. BatchSize
      <4>1. Len(rids) # 0
        BY DEF Rising
      <4> QED BY <3>2, <4>1, BatchPieces
    <3>4. 1 \in 1 .. Len(r)
      BY <3>3, BatchShape
    <3>5. r[1] \in 0 .. RidLimit - 1
      BY <3>3, <3>4, TypedRids
    <3>6. RidLimit \in Nat \ {0}
      BY Powers
    <3> HIDE DEF r
    <3> QED BY <3>5, <3>6
  <2> HIDE DEF r, w
  <2>6. (p[1] + o) % RidLimit = q[1]
    <3> DEFINE z == r[1] + s
               N == RidLimit
    <3>1. z \in Int /\ z + o = r[1] + (s + o) /\ N \in Nat \ {0}
      BY <2>5, Powers
    <3>2. p[1] = z % N /\ q[1] = (z + o) % N
      BY <2>1, <2>2, <3>1
    <3> HIDE DEF z, N
    <3>3. ((z % N) + o) % N = (z + o) % N
      BY ONLY <3>1, o \in Int, RemainderOfSum
    <3> QED BY <3>2, <3>3 DEF N
  <2> DEFINE e == encode(p)
             f == (p[1] + o) % RidLimit
  <2>7. e.frame_of_reference = p[1]
    BY <2>4, EncodedFields
  <2>8. moved[k] = [e EXCEPT !.frame_of_reference = f]
    <3>1. moved[k] = MovedFrame(bs[k], o)
      <4> HIDE DEF bs
      <4> QED OBVIOUS
    <3> HIDE DEF bs
    <3> QED BY <2>3, <2>7, <3>1 DEF MovedFrame
  <2>9. [e EXCEPT !.frame_of_reference = f] = encode_param_new(Deltas(r), Len(r), w, f)
    BY <2>4, FrameMoved
  <2> QED BY <2>3, <2>4, <2>6, <2>8, <2>9
<1>4. moved = cs
  <2>1. moved = [k \in 1 .. c |-> moved[k]] /\ cs = [k \in 1 .. c |-> cs[k]]
    OBVIOUS
  <2> HIDE DEF moved, cs
  <2> QED BY <1>3, <2>1
<1>5. update_rids(<<list>>, o).lists[1] = [count |-> n, batches |-> moved]
  <2> HIDE DEF n, c
  <2>1. DOMAIN bs = 1 .. c
    OBVIOUS
  <2> HIDE DEF bs
  <2> DEFINE lists == <<list>>
  <2>2. /\ lists = [i \in 1 .. 1 |-> list] /\ lists[1] = list /\ list.batches = bs
        /\ list.count = n
    OBVIOUS
  <2>3. update_rids(lists, o).lists
          = [lists EXCEPT ![1].batches = [k \in DOMAIN @ |-> MovedFrame(@[k], o)]]
    BY DEF update_rids
  <2>4. update_rids(lists, o).lists[1]
          = [lists[1] EXCEPT !.batches = [k \in DOMAIN @ |-> MovedFrame(@[k], o)]]
    <3>1. 1 \in DOMAIN lists
      BY <2>2
    <3> HIDE DEF lists, list
    <3> QED BY <2>3, <3>1
  <2>5. [list EXCEPT !.batches = [k \in DOMAIN @ |-> MovedFrame(@[k], o)]]
          = [count |-> n, batches |-> moved]
    <3> DEFINE new == [k \in DOMAIN list.batches |-> MovedFrame(list.batches[k], o)]
    <3>1. new = moved
      <4>1. new = [k \in DOMAIN bs |-> MovedFrame(bs[k], o)]
        BY <2>2
      <4> HIDE DEF new, list
      <4> QED BY <2>1, <4>1
    <3>2. [list EXCEPT !.batches = new] = [count |-> n, batches |-> new]
      <4> HIDE DEF new
      <4> QED OBVIOUS
    <3> HIDE DEF moved
    <3> QED BY <3>1, <3>2
  <2> HIDE DEF list
  <2> QED BY <2>2, <2>4, <2>5 DEF lists
<1> QED BY <1>2, <1>4, <1>5

-------------------------------------------------------------------------------
(* The RIDs read from one list.                                            *)

\* The RIDs read from a batch of runs are as many as the batch has.
LEMMA RunsLength ==
  ASSUME NEW n, NEW ds, IsDeltas(ds, n), NEW frame \in Int
  PROVE  LET batch == encode_on_b_equal_one(ds, n, frame)
         IN /\ decode_ones_zeros_typed(batch) \in Seq(0 .. RidLimit - 1)
            /\ Len(decode_ones_zeros_typed(batch)) = n
            /\ batch.ones # <<>>
<1> DEFINE batch == encode_on_b_equal_one(ds, n, frame)
           c == RunCount(ds)
           run(k) == [m \in 1 .. batch.ones[k] |-> (RunStart(batch, k) + m) % RidLimit]
           ss == [k \in DOMAIN batch.ones |-> run(k)]
           p == [k \in 0 .. c |-> IF k = 0 THEN 0 ELSE RunTo(ds, n, k)]
           L == 0 .. RidLimit - 1
<1>1. n \in 1 .. BatchSize /\ n \in Nat /\ c \in 1 .. n
  <2>1. n \in 1 .. BatchSize /\ c \in 1 .. n
    BY RunsInOrder DEF IsDeltas
  <2> HIDE DEF c
  <2> QED BY <2>1, BatchShape
<1>2. /\ DOMAIN batch.ones = 1 .. c
      /\ \A k \in 1 .. c : batch.ones[k] = RunTo(ds, n, k) - RunFrom(ds, k)
      /\ batch.frame_of_reference = frame
      /\ \A k \in 1 .. c - 1 : batch.zeros[k] = ds[RunFrom(ds, k + 1)] - 1
  BY RunsRecord
<1>3. /\ RunFrom(ds, 1) = 0
      /\ \A k \in 1 .. c : RunFrom(ds, k) \in 0 .. n - 1 /\ RunTo(ds, n, k) \in 1 .. n
                           /\ RunFrom(ds, k) < RunTo(ds, n, k)
  <2>1. RunFrom(ds, 1) = 0
    BY RunsInOrder
  <2> QED BY <2>1, InsideRun
<1>4. ASSUME NEW k \in 1 .. c
      PROVE  RunTo(ds, n, k) = IF k < c THEN RunFrom(ds, k + 1) ELSE n
  BY DEF RunTo
<1>5. ASSUME NEW k \in 1 .. c PROVE RunStart(batch, k) \in Int
  <2>1. \A j \in 1 .. k - 1 : batch.ones[j] + batch.zeros[j] \in Int
    <3> SUFFICES ASSUME NEW j \in 1 .. k - 1 PROVE batch.ones[j] + batch.zeros[j] \in Int
      OBVIOUS
    <3>1. c \in Nat /\ j \in 1 .. c /\ j + 1 \in 1 .. c /\ j \in 1 .. c - 1
      <4> HIDE DEF c
      <4> QED BY <1>1
    <3>2. batch.ones[j] \in Int
      <4>1. RunFrom(ds, j) \in Int /\ RunTo(ds, n, j) \in Int
        BY <1>1, <1>3, <3>1
      <4>2. batch.ones[j] = RunTo(ds, n, j) - RunFrom(ds, j)
        BY <1>2, <3>1
      <4> HIDE DEF batch
      <4> QED BY <4>1, <4>2
    <3>3. ds[RunFrom(ds, j + 1)] \in Int
      <4>1. RunFrom(ds, j + 1) \in Elements
        <5> HIDE DEF c
        <5> QED BY <1>1, <1>3, <3>1, BatchShape
      <4>2. ds[RunFrom(ds, j + 1)] \in 0 .. RidLimit - 1
        BY <4>1 DEF IsDeltas
      <4> DEFINE v == ds[RunFrom(ds, j + 1)]
      <4> HIDE DEF v
      <4> QED BY <4>2, Powers DEF v
    <3>4. batch.zeros[j] \in Int
      <4> HIDE DEF batch, c
      <4> QED BY <1>2, <3>1, <3>3
    <3> HIDE DEF batch
    <3> QED BY <3>2, <3>4
  <2> DEFINE s == [j \in 1 .. k - 1 |-> batch.ones[j] + batch.zeros[j]]
  <2>2. k - 1 \in Nat
    BY <1>1
  <2>3. Len(s) = k - 1 /\ \A j \in 1 .. k - 1 : s[j] \in Int
    <3> HIDE DEF batch
    <3> QED BY <2>1, <2>2
  <2>4. RunStart(batch, k) = (frame + SumOf(s)) % RidLimit
    BY <1>2 DEF RunStart
  <2> HIDE DEF s
  <2>5. SumOf(s) \in Int
    <3>1. \A j \in 1 .. k - 1 : s[j] <= s[j]
      BY <2>3
    <3> QED BY <2>2, <2>3, <3>1, SumBound
  <2> DEFINE x == frame + SumOf(s)
  <2>6. x \in Int /\ RidLimit \in Nat \ {0}
    BY <2>5, Powers
  <2> HIDE DEF x
  <2>7. x % RidLimit \in Int
    BY <2>6, DividedInteger
  <2> QED BY <2>4, <2>7 DEF x
<1>6. /\ decode_ones_zeros_typed(batch) = FlattenSeq(ss)
      /\ batch.ones # <<>>
  <2>1. 1 \in 1 .. c
    <3> HIDE DEF c
    <3> QED BY <1>1
  <2>2. DOMAIN batch.ones # DOMAIN <<>>
    <3> HIDE DEF batch, c
    <3> QED BY <1>2, <2>1
  <2> HIDE DEF c
  <2> QED BY <2>2 DEF decode_ones_zeros_typed
<1> HIDE DEF batch
<1>7. Len(ss) = c /\ c \in Nat \ {0}
  <2> HIDE DEF run, c
  <2> QED BY <1>1, <1>2
<1>8. ASSUME NEW k \in 1 .. c
      PROVE  ss[k] \in Seq(L) /\ Len(ss[k]) = RunTo(ds, n, k) - RunFrom(ds, k)
  <2> DEFINE o == batch.ones[k]
             e(m) == (RunStart(batch, k) + m) % RidLimit
  <2>1. ss[k] = run(k)
    BY <1>2
  <2>2. o = RunTo(ds, n, k) - RunFrom(ds, k) /\ o \in Nat
    <3>1. o = RunTo(ds, n, k) - RunFrom(ds, k)
      BY <1>2
    <3> HIDE DEF o
    <3> QED BY <1>1, <1>3, <3>1
  <2>3. \A m \in 1 .. o : e(m) \in L
    <3> SUFFICES ASSUME NEW m \in 1 .. o PROVE e(m) \in L
      OBVIOUS
    <3> DEFINE x == RunStart(batch, k) + m
    <3>1. x \in Int /\ RidLimit \in Nat \ {0}
      BY <1>5, <2>2, Powers
    <3> HIDE DEF x
    <3>2. x % RidLimit \in 0 .. RidLimit - 1
      BY <3>1, DividedInteger
    <3> QED BY <3>2 DEF x
  <2>4. run(k) = [m \in 1 .. o |-> e(m)]
    OBVIOUS
  <2> HIDE DEF run, e, o, L, ss
  <2>5. run(k) \in Seq(L) /\ Len(run(k)) = o
    BY <2>2, <2>3, <2>4
  <2> QED BY <2>1, <2>2, <2>5
<1> HIDE DEF run, ss, L
<1>9. Cuts(p, c, ss)
  <2>1. \A k \in 1 .. c : p[k] = RunTo(ds, n, k) /\ p[k] \in Nat
    <3> HIDE DEF c
    <3> QED BY <1>1, <1>3
  <2>2. p[0] = 0
    <3> HIDE DEF c
    <3> QED BY <1>1
  <2>3. p \in [0 .. c -> Nat]
    <3>1. \A k \in 0 .. c : p[k] \in Nat
      <4> HIDE DEF p, c
      <4>1. \A k \in 0 .. c : k = 0 \/ k \in 1 .. c
        BY <1>7
      <4> QED BY <2>1, <2>2, <4>1
    <3>2. p = [k \in 0 .. c |-> p[k]]
      OBVIOUS
    <3> HIDE DEF p
    <3> QED BY <3>1, <3>2
  <2> HIDE DEF p
  <2>4. ASSUME NEW k \in 1 .. c PROVE p[k] = p[k - 1] + Len(ss[k])
    <3>1. Len(ss[k]) = RunTo(ds, n, k) - RunFrom(ds, k)
      BY <1>8
    <3>2. p[k - 1] = RunFrom(ds, k)
      <4>1. CASE k = 1
        BY <1>3, <2>2, <4>1
      <4>2. CASE k # 1
        <5>1. k - 1 \in 1 .. c /\ k - 1 < c /\ (k - 1) + 1 = k
          <6> HIDE DEF c
          <6> QED BY <1>7, <4>2
        <5>2. p[k - 1] = RunTo(ds, n, k - 1)
          BY <2>1, <5>1
        <5>3. RunTo(ds, n, k - 1) = RunFrom(ds, (k - 1) + 1)
          BY <1>4, <5>1
        <5> QED BY <5>1, <5>2, <5>3
      <4> QED BY <4>1, <4>2
    <3>3. p[k] = RunTo(ds, n, k) /\ RunTo(ds, n, k) \in Int /\ RunFrom(ds, k) \in Int
      BY <1>1, <1>3, <2>1
    <3> DEFINE a == RunFrom(ds, k)
               b == RunTo(ds, n, k)
    <3> HIDE DEF a, b
    <3>4. p[k] = b /\ p[k - 1] = a /\ Len(ss[k]) = b - a /\ a \in Int /\ b \in Int
      BY <3>1, <3>2, <3>3 DEF a, b
    <3> QED BY ONLY <3>4
  <2> QED BY <2>2, <2>3, <2>4 DEF Cuts
<1>10. p[c] = n
  <2>1. c \in 0 .. c /\ c # 0 /\ c \in 1 .. c /\ ~ (c < c)
    <3> HIDE DEF c
    <3> QED BY <1>7
  <2>2. RunTo(ds, n, c) = n
    BY <1>4, <2>1
  <2> HIDE DEF c
  <2> QED BY <2>1, <2>2
<1> HIDE DEF p, c
<1>11. FlattenSeq(ss) \in Seq(L) /\ Placed(FlattenSeq(ss), p, c, ss)
  BY <1>7, <1>8, <1>9, FlattenPlaces
<1>12. Len(FlattenSeq(ss)) = n
  BY <1>10, <1>11 DEF Placed
<1> QED BY <1>6, <1>11, <1>12 DEF L, batch

\* What is read as RIDs from the batches of the form Mix.
LEMMA MixBatch ==
  ASSUME NEW rids, Distinct(rids), Len(rids) \in 1 .. BatchSize,
         determine_b_to_expand(Deltas(rids), Len(rids)) # RidBits
  PROVE  LET batch == expand_runlength_encode(rids)
         IN /\ rle_decode_every_batch_to_rids(batch) \in Seq(0 .. RidLimit - 1)
            /\ Len(rle_decode_every_batch_to_rids(batch)) = Len(rids)
            /\ batch.ones = <<>> => rle_decode_every_batch_to_rids(batch) = rids
<1> DEFINE n == Len(rids)
           ds == Deltas(rids)
           best == optimal_param(ds, n)
           b == determine_b_to_expand(ds, n)
           batch == expand_runlength_encode(rids)
           runs == encode_on_b_equal_one(ds, n, rids[1])
           plain == encode_param_new(ds, n, b, rids[1])
<1>1. IsDeltas(ds, n) /\ rids[1] \in 0 .. RidLimit - 1 /\ rids \in Seq(0 .. RidLimit - 1)
  BY DeltasOfRids, TypedRids DEF Distinct
<1>2. batch = IF best = 1 THEN runs ELSE plain
  BY DEF expand_runlength_encode
<1>3. CASE best = 1
  <2>1. batch = runs
    BY <1>2, <1>3
  <2>2. Header_read(runs) = 1
    BY <1>1, RunsHeader
  <2>3. rids[1] \in Int
    <3>1. RidLimit \in Nat
      BY Powers
    <3> QED BY <1>1, <3>1
  <2>4. /\ decode_ones_zeros_typed(runs) \in Seq(0 .. RidLimit - 1)
        /\ Len(decode_ones_zeros_typed(runs)) = n /\ runs.ones # <<>>
    BY <1>1, <2>3, RunsLength
  <2>5. rle_decode_every_batch_to_rids(runs) = decode_ones_zeros_typed(runs)
    BY <2>2 DEF rle_decode_every_batch_to_rids
  <2> HIDE DEF batch, runs
  <2> QED BY <2>1, <2>4, <2>5 DEF batch
<1>4. CASE best # 1
  <2>1. batch = plain
    BY <1>2, <1>4
  <2>2. b \in 0 .. RidBits /\ b # 1
    BY <1>1, <1>4, ExpandedWidth
  <2>3. b \in 0 .. RidBits - 1
    <3> HIDE DEF b
    <3>1. b # RidBits
      BY DEF b
    <3> QED BY <2>2, <3>1, BatchShape
  <2> HIDE DEF b
  <2>4. Header_read(plain) # 1
    BY <2>2, PlainWidth
  <2>5. ReadsAs(plain, rids)
    BY <2>3, ParamBatchRead
  <2>6. decode_new(plain) = rids
    <3> HIDE DEF plain
    <3> QED BY <2>5, BatchSums
  <2>7. rle_decode_every_batch_to_rids(plain) = rids
    BY <2>4, <2>6 DEF rle_decode_every_batch_to_rids
  <2> HIDE DEF batch, plain
  <2> QED BY <1>1, <2>1, <2>7 DEF batch
<1> QED BY <1>3, <1>4

-------------------------------------------------------------------------------
(* The RIDs read from lists.                                               *)

\* A batch of the list that expansion gives the width of a RID.
Wide(rids) ==
  \E k \in 1 .. BatchCount(Len(rids)) :
    determine_b_to_expand(Deltas(BatchRids(rids, k)), Len(BatchRids(rids, k))) = RidBits

\* The differences of a list, every batch started anew.
DeltasOf(rids) ==
  [i \in 1 .. Len(rids) |-> IF (i - 1) % BatchSize = 0 THEN rids[i]
                            ELSE (rids[i] - rids[i - 1]) % RidLimit]

\* Sequences with the lengths of the batches end where the batches end.
LEMMA PieceCuts ==
  ASSUME NEW n \in Nat \ {0}, NEW ss, NEW Y, PiecesTyped(ss, n, Y)
  PROVE  /\ Cuts([k \in 0 .. BatchCount(n) |-> BatchEnd(n, k)], BatchCount(n), ss)
         /\ [k \in 0 .. BatchCount(n) |-> BatchEnd(n, k)][BatchCount(n)] = n
<1> DEFINE c == BatchCount(n)
           p == [k \in 0 .. c |-> BatchEnd(n, k)]
<1>1. /\ c \in Nat \ {0} /\ BatchEnd(n, 0) = 0 /\ BatchEnd(n, c) = n
      /\ \A k \in 0 .. c : BatchEnd(n, k) \in 0 .. n
  BY BatchEnds
<1>2. \A k \in 1 .. c : Len(ss[k]) = BatchEnd(n, k) - BatchEnd(n, k - 1)
  BY DEF PiecesTyped
<1> HIDE DEF c
<1>3. p \in [0 .. c -> Nat] /\ \A k \in 0 .. c : p[k] = BatchEnd(n, k) /\ p[k] \in Nat
  BY <1>1
<1> HIDE DEF p
<1>4. p[0] = 0 /\ p[c] = n
  BY <1>1, <1>3
<1>5. ASSUME NEW k \in 1 .. c PROVE p[k] = p[k - 1] + Len(ss[k])
  <2>1. k \in 0 .. c /\ k - 1 \in 0 .. c
    BY <1>1
  <2>2. p[k] = BatchEnd(n, k) /\ p[k - 1] = BatchEnd(n, k - 1) /\ p[k] \in Nat /\ p[k - 1] \in Nat
    BY <1>3, <2>1
  <2>3. Len(ss[k]) = p[k] - p[k - 1]
    BY <1>2, <2>2
  <2> QED BY <2>2, <2>3
<1> QED BY <1>3, <1>4, <1>5 DEF Cuts, p, c

\* The sequences of rr, one after the other.
Joined(rr, m) == FlattenSeq([l \in 1 .. m |-> rr[l]])

\* R reads every batch, and from list l as many values as rr[l] has.
Readable(X, Y, m, lists, rr, R) ==
  /\ m \in Nat \ {0} /\ Len(lists) = m /\ DOMAIN lists = 1 .. m
  /\ \A l \in 1 .. m : /\ rr[l] \in Seq(Y) /\ Len(rr[l]) # 0
                       /\ lists[l].batches \in Seq(X)
                       /\ PiecesTyped(ReadBy(R, lists[l].batches), Len(rr[l]), Y)
  /\ \A b \in X : R[b] \in Seq(Y)

\* Reading the batches of all lists: rr[l] is what list l stands for.
LEMMA ReadLists ==
  ASSUME NEW X, NEW Y, NEW m, NEW lists, NEW rr, NEW R, Readable(X, Y, m, lists, rr, R)
  PROVE  LET out == FlattenSeq(ReadBy(R, BatchesOf(lists)))
             all == Joined(rr, m)
         IN /\ BatchesOf(lists) \in Seq(X)
            /\ Len(out) = Len(all)
            /\ (\A l \in 1 .. m : PiecesOf(rr[l], ReadBy(R, lists[l].batches), Len(rr[l])))
                 => out = all
<1> DEFINE bs == BatchesOf(lists)
           out == FlattenSeq(ReadBy(R, bs))
           all == [l \in 1 .. m |-> rr[l]]
           bb == [l \in 1 .. m |-> lists[l].batches]
           one(l) == ReadBy(R, lists[l].batches)
           tt == [l \in 1 .. m |-> FlattenSeq(one(l))]
<1>12. m \in Nat \ {0} /\ Len(lists) = m /\ DOMAIN lists = 1 .. m
       /\ \A b \in X : R[b] \in Seq(Y)
  BY DEF Readable
<1>13. \A l \in 1 .. m : rr[l] \in Seq(Y) /\ Len(rr[l]) # 0 /\ lists[l].batches \in Seq(X)
  BY DEF Readable
<1>6. \A l \in 1 .. m : PiecesTyped(one(l), Len(rr[l]), Y)
  BY DEF Readable
<1> USE <1>12, <1>13
<1>1. bs = FlattenSeq(bb)
  BY DEF BatchesOf
<1>2. \A l \in 1 .. m : Len(rr[l]) \in Nat \ {0} /\ BatchCount(Len(rr[l])) \in Nat \ {0}
  <2>1. \A l \in 1 .. m : Len(rr[l]) \in Nat \ {0}
    OBVIOUS
  <2> QED BY <2>1, BatchEnds
<1>3. Len(bb) = m /\ \A l \in 1 .. m : bb[l] = lists[l].batches /\ bb[l] \in Seq(X) /\ Len(bb[l]) # 0
  <2>1. ASSUME NEW l \in 1 .. m PROVE Len(lists[l].batches) # 0
    <3> DEFINE b == lists[l].batches
               r == ReadBy(R, b)
    <3>1. b \in Seq(X)
      OBVIOUS
    <3>2. Len(r) # 0
      <4>1. Len(r) = BatchCount(Len(rr[l]))
        BY <1>6 DEF PiecesTyped
      <4> QED BY <1>2, <4>1
    <3>3. r = [j \in DOMAIN b |-> R[b[j]]]
      BY DEF ReadBy
    <3> HIDE DEF b, r
    <3>4. Len(r) = Len(b)
      BY <3>1, <3>3
    <3> QED BY <3>2, <3>4 DEF b
  <2> QED BY <2>1
<1>4. bs \in Seq(X)
  <2>1. \A l \in 1 .. m : Len(bb[l]) \in Nat
    BY <1>3
  <2>2. PICK q : Cuts(q, m, bb)
    BY <2>1, CutsExist
  <2> HIDE DEF bb
  <2> QED BY <1>1, <1>3, <2>2, FlattenPlaces
<1>5. out = FlattenSeq(tt)
  <2>1. \A b \in X : R[b] \in Seq(Y)
    OBVIOUS
  <2>2. tt = ReadEach(R, bb, m)
    <3>1. \A l \in 1 .. m : one(l) = ReadBy(R, bb[l])
      BY <1>3
    <3> HIDE DEF one, bb
    <3> QED BY <3>1 DEF ReadEach
  <2>4. Len(bb) = m /\ m \in Nat \ {0}
    BY <1>3
  <2>5. \A l \in 1 .. m : bb[l] \in Seq(X) /\ Len(bb[l]) # 0
    BY <1>3
  <2> HIDE DEF bb
  <2>3. FlattenSeq(ReadBy(R, FlattenSeq(bb))) = FlattenSeq(ReadEach(R, bb, m))
    BY ONLY <2>1, <2>4, <2>5, NestedFlatten
  <2> HIDE DEF bs, tt
  <2> QED BY <1>1, <2>2, <2>3
<1>7. Len(tt) = m /\ Len(all) = m
      /\ \A l \in 1 .. m : tt[l] = FlattenSeq(one(l)) /\ all[l] = rr[l]
  OBVIOUS
<1>8. ASSUME NEW l \in 1 .. m PROVE tt[l] \in Seq(Y) /\ Len(tt[l]) = Len(all[l])
  <2> DEFINE n == Len(rr[l])
             c == BatchCount(n)
             p == [k \in 0 .. c |-> BatchEnd(n, k)]
             ss == one(l)
  <2>1. n \in Nat \ {0} /\ c \in Nat \ {0} /\ PiecesTyped(ss, n, Y)
    BY <1>2, <1>6
  <2> HIDE DEF n, ss
  <2>2. Len(ss) = c /\ \A k \in 1 .. c : ss[k] \in Seq(Y)
    BY <2>1 DEF PiecesTyped
  <2>3. Cuts(p, c, ss) /\ p[c] = n
    BY <2>1, PieceCuts
  <2> HIDE DEF c, p
  <2>4. FlattenSeq(ss) \in Seq(Y) /\ Placed(FlattenSeq(ss), p, c, ss)
    BY <2>1, <2>2, <2>3, FlattenPlaces
  <2>5. Len(FlattenSeq(ss)) = n
    BY <2>3, <2>4 DEF Placed
  <2> QED BY <1>7, <2>4, <2>5 DEF n, ss
<1>9. Len(FlattenSeq(tt)) = Len(FlattenSeq(all))
  <2>1. \A l \in 1 .. m : tt[l] \in Seq(Y) /\ all[l] \in Seq(Y) /\ Len(tt[l]) = Len(all[l])
    BY <1>7, <1>8
  <2>2. Len(tt) = m /\ Len(all) = m /\ m \in Nat \ {0}
    BY <1>7
  <2> HIDE DEF tt, all
  <2> QED BY ONLY <2>1, <2>2, FlattenLength
<1>10. ASSUME \A l \in 1 .. m : PiecesOf(rr[l], one(l), Len(rr[l]))
       PROVE  out = FlattenSeq(all)
  <2>1. ASSUME NEW l \in 1 .. m PROVE tt[l] = all[l]
    <3> DEFINE n == Len(rr[l])
               s == rr[l]
               ss == one(l)
    <3>1. n \in Nat \ {0} /\ s \in Seq(Y) /\ Len(s) = n /\ PiecesTyped(ss, n, Y) /\ PiecesOf(s, ss, n)
      BY <1>2, <1>6, <1>10
    <3> HIDE DEF n, s, ss
    <3>2. FlattenSeq(ss) = s
      BY <3>1, PiecesOfList
    <3> QED BY <1>7, <3>2 DEF s, ss
  <2>2. tt = all
    <3>1. tt = [l \in 1 .. m |-> tt[l]] /\ all = [l \in 1 .. m |-> all[l]]
      OBVIOUS
    <3> HIDE DEF tt, all
    <3>2. [l \in 1 .. m |-> tt[l]] = [l \in 1 .. m |-> all[l]]
      BY <2>1
    <3> QED BY <3>1, <3>2
  <2> QED BY <1>5, <2>2
<1> HIDE DEF out, bs, all, tt
<1>11. /\ bs \in Seq(X) /\ Len(out) = Len(FlattenSeq(all))
       /\ (\A l \in 1 .. m : PiecesOf(rr[l], one(l), Len(rr[l]))) => out = FlattenSeq(all)
  BY <1>4, <1>5, <1>9, <1>10
<1> QED BY <1>11 DEF out, bs, all, Joined

-------------------------------------------------------------------------------
(* The batches of one list, read.                                          *)

\* The value of a difference in the batch that starts at a RID.
StartsAnew(i) == (i - 1) % BatchSize = 0

\* Only the first RID of a batch starts it.
LEMMA FirstOfBatch ==
  ASSUME NEW k \in Nat \ {0}, NEW i \in 1 .. BatchSize
  PROVE  ((k - 1) * BatchSize + i - 1) % BatchSize = 0 <=> i = 1
<1> DEFINE B == BatchSize
           a == (k - 1) * B
<1>1. B \in Nat \ {0}
  BY BatchShape
<1> HIDE DEF B
<1>2. a \in Int /\ i - 1 \in 0 .. B - 1
  <2>1. k - 1 \in Int /\ B \in Int
    BY <1>1
  <2>2. a \in Int
    BY <2>1
  <2>3. i \in 1 .. B
    BY DEF B
  <2> QED BY <1>1, <2>2, <2>3
<1>3. (a + i - 1) % B = i - 1
  <2>1. (k - 1) * B + (i - 1) \in Int /\ k - 1 \in Int
    BY <1>2
  <2> DEFINE q == k - 1
             r == i - 1
  <2>2. q \in Int /\ r \in 0 .. B - 1
    BY <1>2, <2>1
  <2>3. a + i - 1 = q * B + r
    <3>1. a = q * B /\ a \in Int /\ i \in Int
      BY <1>2
    <3> HIDE DEF a, q
    <3> QED BY <3>1
  <2> HIDE DEF q, r
  <2>4. (q * B + r) % B = r
    BY <1>1, <2>2, QuotientAndRemainder
  <2> QED BY <2>3, <2>4 DEF r
<1>4. i - 1 = 0 <=> i = 1
  OBVIOUS
<1> HIDE DEF a
<1>5. (a + i - 1) % B = 0 <=> i = 1
  BY <1>3, <1>4
<1> QED BY <1>5 DEF a, B

\* What the decoders of RIDs and of differences read from a batch.
LEMMA PlainPieces ==
  ASSUME NEW rids, Distinct(rids), Len(rids) # 0, NEW form \in {PFD, Expansion},
         form = Expansion => ~ Wide(rids), NEW k \in 1 .. BatchCount(Len(rids))
  PROVE  LET batch == Compress(form, rids).batches[k]
             part == BatchRids(rids, k)
             n == Len(part)
         IN /\ decode_new(batch) = part /\ Distinct(part) /\ n \in 1 .. BatchSize
            /\ Ascends(part) => SumsOf(batch) = part
            /\ DOMAIN decode_new_to_deltas(batch) = 1 .. n
            /\ \A i \in 1 .. n :
                 decode_new_to_deltas(batch)[i]
                   = DeltasOf(rids)[BatchEnd(Len(rids), k - 1) + i]
<1> DEFINE batch == Compress(form, rids).batches[k]
           part == BatchRids(rids, k)
           n == Len(part)
           N == Len(rids)
           a == BatchEnd(N, k - 1)
           ds == Deltas(part)
<1>1. N \in Nat \ {0} /\ \A i \in 1 .. N : rids[i] \in 0 .. RidLimit - 1
  BY TypedRids
<1>2. /\ Distinct(part) /\ n \in 1 .. BatchSize
      /\ \A i \in 1 .. n : a + i \in 1 .. N /\ part[i] = rids[a + i]
  BY BatchPieces
<1>3. ReadsAs(batch, part)
  <2>1. /\ form = PFD => batch = encode(part)
        /\ form = Expansion => batch = expand_encode(part)
    <3>1. form \in CompressedForms
      BY DEF CompressedForms
    <3> QED BY <3>1, ListBatches
  <2>2. /\ ReadsAs(encode(part), part)
        /\ determine_b_to_expand(ds, n) # RidBits => ReadsAs(expand_encode(part), part)
    BY <1>2, PlainBatches
  <2>3. form = Expansion => determine_b_to_expand(ds, n) # RidBits
    BY DEF Wide
  <2> HIDE DEF batch, part, n, ds
  <2> QED BY <2>1, <2>2, <2>3
<1>4. k \in Nat \ {0} /\ a = (k - 1) * BatchSize /\ a \in Nat
  <2> DEFINE c == BatchCount(N)
  <2>5. c \in Nat \ {0} /\ k \in 1 .. c
    BY <1>1, BatchEnds
  <2> HIDE DEF c
  <2>1. k \in Nat \ {0}
    BY ONLY <2>5
  <2>2. a = (k - 1) * BatchSize
    BY <1>1, BatchEnds
  <2>6. k - 1 \in Nat /\ k - 1 \in 0 .. c
    BY ONLY <2>5
  <2>3. k - 1 \in Nat /\ k - 1 \in 0 .. BatchCount(N)
    BY <2>6 DEF c
  <2>4. a \in 0 .. N
    BY <1>1, <2>3, BatchEnds
  <2> QED BY <1>1, <2>1, <2>2, <2>4
<1> HIDE DEF batch, part, a
<1>5. /\ decode_new(batch) = part
      /\ Ascends(part) => SumsOf(batch) = part
      /\ decode_new_to_deltas(batch) = [i \in 1 .. n |-> IF i = 1 THEN part[1] ELSE ds[i - 1]]
  BY <1>2, <1>3, BatchSums
<1>9. n \in 1 .. BatchSize /\ BatchSize \in Nat /\ n \in Nat
  BY <1>2, BatchShape
<1>10. \A i \in 1 .. n - 1 : ds[i] = (part[i + 1] - part[i]) % RidLimit
  BY <1>2, DeltasOfRids
<1> HIDE DEF n, N, ds
<1>6. ASSUME NEW i \in 1 .. n
      PROVE  decode_new_to_deltas(batch)[i] = DeltasOf(rids)[a + i]
  <2>1. decode_new_to_deltas(batch)[i] = IF i = 1 THEN part[1] ELSE ds[i - 1]
    BY <1>5
  <2>2. a + i \in 1 .. N /\ part[i] = rids[a + i] /\ i \in 1 .. BatchSize /\ n \in Nat /\ i \in Nat
    BY <1>2, <1>9
  <2>3. DeltasOf(rids)[a + i] = IF (a + i - 1) % BatchSize = 0 THEN rids[a + i]
                                ELSE (rids[a + i] - rids[a + i - 1]) % RidLimit
    <3>1. a + i \in 1 .. Len(rids)
      BY <2>2 DEF N
    <3> DEFINE x == a + i
    <3> HIDE DEF x
    <3>2. x \in 1 .. Len(rids)
      BY <3>1 DEF x
    <3>3. DeltasOf(rids)[x] = IF (x - 1) % BatchSize = 0 THEN rids[x]
                              ELSE (rids[x] - rids[x - 1]) % RidLimit
      BY <3>2 DEF DeltasOf
    <3>4. a \in Nat /\ i \in Nat
      BY <1>4, <2>2
    <3> QED BY <3>3, <3>4 DEF x
  <2>4. (a + i - 1) % BatchSize = 0 <=> i = 1
    BY <1>4, <2>2, FirstOfBatch
  <2>5. CASE i = 1
    BY <2>1, <2>2, <2>3, <2>4, <2>5
  <2>6. CASE i # 1
    <3>1. i - 1 \in 1 .. n /\ i - 1 \in 1 .. n - 1 /\ (i - 1) + 1 = i /\ a + i - 1 = a + (i - 1)
      BY <1>4, <1>9, <2>2, <2>6
    <3>2. ds[i - 1] = (part[i] - part[i - 1]) % RidLimit
      <4>1. ds[i - 1] = (part[(i - 1) + 1] - part[i - 1]) % RidLimit
        BY <1>10, <3>1
      <4> QED BY <3>1, <4>1
    <3>3. part[i - 1] = rids[a + (i - 1)]
      BY <1>2, <3>1
    <3> QED BY <2>1, <2>2, <2>3, <2>4, <2>6, <3>1, <3>2, <3>3
  <2> QED BY <2>5, <2>6
<1>7. DOMAIN decode_new_to_deltas(batch) = 1 .. n
  BY <1>5
<1>8. /\ decode_new(batch) = part /\ Distinct(part) /\ n \in 1 .. BatchSize
      /\ Ascends(part) => SumsOf(batch) = part
      /\ DOMAIN decode_new_to_deltas(batch) = 1 .. n
      /\ \A i \in 1 .. n : decode_new_to_deltas(batch)[i] = DeltasOf(rids)[a + i]
  BY <1>2, <1>5, <1>6, <1>7
<1> QED BY <1>8 DEF batch, part, n, a, N

\* Differences are numbers of the width of a RID.
LEMMA DeltasTyped ==
  ASSUME NEW rids, Distinct(rids)
  PROVE  /\ DeltasOf(rids) \in Seq(0 .. RidLimit - 1) /\ Len(DeltasOf(rids)) = Len(rids)
         /\ \A i \in 1 .. Len(rids) : DeltasOf(rids)[i] \in 0 .. RidLimit - 1
<1> DEFINE n == Len(rids)
           L == 0 .. RidLimit - 1
<1>1. RidLimit \in Nat \ {0} /\ BatchSize \in Nat \ {0}
  BY Powers, BatchShape
<1>2. n \in Nat /\ \A i \in 1 .. n : rids[i] \in L
  BY TypedRids
<1>3. ASSUME NEW i \in 1 .. n
      PROVE  (IF (i - 1) % BatchSize = 0 THEN rids[i] ELSE (rids[i] - rids[i - 1]) % RidLimit) \in L
  <2>1. CASE (i - 1) % BatchSize = 0
    BY <1>2, <2>1
  <2>2. CASE (i - 1) % BatchSize # 0
    <3>1. i # 1
      <4> SUFFICES ASSUME i = 1 PROVE FALSE
        OBVIOUS
      <4>1. 0 \in 0 .. BatchSize - 1 /\ i - 1 = 0
        BY <1>1
      <4> QED BY <1>1, <2>2, <4>1, SmallRemainder
    <3>2. i \in 1 .. n /\ i - 1 \in 1 .. n
      BY <1>2, <3>1
    <3>3. rids[i] \in L /\ rids[i - 1] \in L
      BY <1>2, <3>2
    <3> QED BY <1>1, <2>2, <3>3, DifferenceModulo
  <2> QED BY <2>1, <2>2
<1>4. DeltasOf(rids) = [i \in 1 .. n |-> IF (i - 1) % BatchSize = 0 THEN rids[i]
                                        ELSE (rids[i] - rids[i - 1]) % RidLimit]
  BY DEF DeltasOf
<1> HIDE DEF n, L
<1>5. DeltasOf(rids) \in Seq(L) /\ Len(DeltasOf(rids)) = n
      /\ \A i \in 1 .. n : DeltasOf(rids)[i] \in L
  BY <1>2, <1>3, <1>4
<1> QED BY <1>5 DEF n, L

-------------------------------------------------------------------------------
(* The RIDs and the differences read from several lists.                   *)

\* The lists are those of the RIDs of rr in the given form.
ListsOf(form, lists, rr, m) ==
  /\ form \in CompressedForms
  /\ Len(lists) = m /\ DOMAIN lists = 1 .. m
  /\ \A l \in 1 .. m : /\ Distinct(rr[l]) /\ Len(rr[l]) # 0
                       /\ lists[l] = Compress(form, rr[l])
                       /\ form \in {Expansion, Mix} => ~ Wide(rr[l])

BatchSet(lists, m) == UNION {Range(lists[l].batches) : l \in 1 .. m}

\* The batches of several lists of one form and what their headers hold.
LEMMA ListsTyped ==
  ASSUME NEW m \in Nat \ {0}, NEW rr, NEW lists, NEW form, ListsOf(form, lists, rr, m)
  PROVE  /\ \A l \in 1 .. m :
              LET c == BatchCount(Len(rr[l]))
              IN /\ lists[l].batches \in Seq(BatchSet(lists, m))
                 /\ DOMAIN lists[l].batches = 1 .. c /\ c \in Nat \ {0}
                 /\ \A k \in 1 .. c : lists[l].batches[k] \in BatchSet(lists, m)
                                      /\ HeaderHolds(lists[l].batches[k])
         /\ \A b \in BatchSet(lists, m) :
              \E l \in 1 .. m : \E k \in 1 .. BatchCount(Len(rr[l])) : b = lists[l].batches[k]
<1>1. ASSUME NEW l \in 1 .. m
      PROVE  LET c == BatchCount(Len(rr[l]))
             IN /\ DOMAIN lists[l].batches = 1 .. c /\ c \in Nat \ {0}
                /\ lists[l].batches = [k \in 1 .. c |-> lists[l].batches[k]]
                /\ \A k \in 1 .. c : HeaderHolds(lists[l].batches[k])
  <2>1. Distinct(rr[l]) /\ Len(rr[l]) # 0 /\ form \in CompressedForms
        /\ lists[l] = Compress(form, rr[l])
    BY DEF ListsOf
  <2> QED BY <2>1, ListBatches
<1>2. ASSUME NEW l \in 1 .. m
      PROVE  LET c == BatchCount(Len(rr[l]))
             IN /\ lists[l].batches \in Seq(BatchSet(lists, m))
                /\ \A k \in 1 .. c : lists[l].batches[k] \in BatchSet(lists, m)
  <2> DEFINE c == BatchCount(Len(rr[l]))
             X == BatchSet(lists, m)
             bs == lists[l].batches
  <2>1. DOMAIN bs = 1 .. c /\ c \in Nat \ {0} /\ bs = [k \in 1 .. c |-> bs[k]]
    BY <1>1
  <2> HIDE DEF c
  <2>2. \A k \in 1 .. c : bs[k] \in X
    BY <2>1 DEF BatchSet, Range
  <2> HIDE DEF bs, X
  <2>3. bs \in Seq(X)
    BY <2>1, <2>2
  <2> QED BY <2>2, <2>3 DEF bs, X, c
<1>3. \A b \in BatchSet(lists, m) :
        \E l \in 1 .. m : \E k \in 1 .. BatchCount(Len(rr[l])) : b = lists[l].batches[k]
  <2> SUFFICES ASSUME NEW b \in BatchSet(lists, m)
               PROVE  \E l \in 1 .. m : \E k \in 1 .. BatchCount(Len(rr[l])) : b = lists[l].batches[k]
    OBVIOUS
  <2>1. PICK l \in 1 .. m : b \in Range(lists[l].batches)
    BY DEF BatchSet
  <2>2. PICK k \in DOMAIN lists[l].batches : b = lists[l].batches[k]
    BY <2>1 DEF Range
  <2>3. k \in 1 .. BatchCount(Len(rr[l]))
    BY <1>1, <2>2
  <2> QED BY <2>2, <2>3
<1> QED BY <1>1, <1>2, <1>3

\* Reading batch by batch is reading the batches of every list.
LEMMA InOrderReads ==
  ASSUME NEW X, NEW lists, BatchesOf(lists) \in Seq(X)
  PROVE  /\ InOrder(lists, decode_new)
              = FlattenSeq(ReadBy([b \in X |-> decode_new(b)], BatchesOf(lists)))
         /\ InOrder(lists, decode_new_to_deltas)
              = FlattenSeq(ReadBy([b \in X |-> decode_new_to_deltas(b)], BatchesOf(lists)))
         /\ InOrder(lists, rle_decode_every_batch_to_rids)
              = FlattenSeq(ReadBy([b \in X |-> rle_decode_every_batch_to_rids(b)],
                                  BatchesOf(lists)))
<1> DEFINE bs == BatchesOf(lists)
<1>1. bs \in Seq(X)
  OBVIOUS
<1> HIDE DEF bs
<1>2. \A k \in DOMAIN bs : bs[k] \in X
  BY <1>1
<1>3. [k \in DOMAIN bs |-> decode_new(bs[k])] = ReadBy([b \in X |-> decode_new(b)], bs)
  BY <1>2 DEF ReadBy
<1>4. [k \in DOMAIN bs |-> decode_new_to_deltas(bs[k])]
        = ReadBy([b \in X |-> decode_new_to_deltas(b)], bs)
  BY <1>2 DEF ReadBy
<1>5. [k \in DOMAIN bs |-> rle_decode_every_batch_to_rids(bs[k])]
        = ReadBy([b \in X |-> rle_decode_every_batch_to_rids(b)], bs)
  BY <1>2 DEF ReadBy
<1> QED BY <1>3, <1>4, <1>5 DEF InOrder, bs

\* The RIDs of lists without batches that are too wide, nor runs.
LEMMA PlainListsRead ==
  ASSUME NEW m \in Nat \ {0}, NEW rr, NEW lists, NEW form \in {PFD, Expansion},
         ListsOf(form, lists, rr, m)
  PROVE  /\ decode_rids(lists) = Joined(rr, m)
         /\ adios_decode_deltas(lists) = Joined([l \in 1 .. m |-> DeltasOf(rr[l])], m)
<1> DEFINE X == BatchSet(lists, m)
           L == 0 .. RidLimit - 1
           R == [b \in X |-> decode_new(b)]
           D == [b \in X |-> decode_new_to_deltas(b)]
           dd == [l \in 1 .. m |-> DeltasOf(rr[l])]
<1>1. Len(lists) = m /\ DOMAIN lists = 1 .. m
      /\ \A l \in 1 .. m : /\ Distinct(rr[l]) /\ Len(rr[l]) # 0
                           /\ lists[l] = Compress(form, rr[l])
                           /\ form = Expansion => ~ Wide(rr[l])
  BY DEF ListsOf
<1>2. \A l \in 1 .. m : rr[l] \in Seq(L) /\ Len(rr[l]) \in Nat \ {0}
  BY <1>1 DEF Distinct
<1>3. /\ \A l \in 1 .. m : /\ lists[l].batches \in Seq(X)
                           /\ DOMAIN lists[l].batches = 1 .. BatchCount(Len(rr[l]))
                           /\ BatchCount(Len(rr[l])) \in Nat \ {0}
                           /\ \A k \in 1 .. BatchCount(Len(rr[l])) : lists[l].batches[k] \in X
      /\ \A b \in X :
           \E l \in 1 .. m : \E k \in 1 .. BatchCount(Len(rr[l])) : b = lists[l].batches[k]
  <2>1. /\ \A l \in 1 .. m :
             LET c == BatchCount(Len(rr[l]))
             IN /\ lists[l].batches \in Seq(BatchSet(lists, m))
                /\ DOMAIN lists[l].batches = 1 .. c /\ c \in Nat \ {0}
                /\ \A k \in 1 .. c : lists[l].batches[k] \in BatchSet(lists, m)
                                     /\ HeaderHolds(lists[l].batches[k])
        /\ \A b \in BatchSet(lists, m) :
             \E l \in 1 .. m : \E k \in 1 .. BatchCount(Len(rr[l])) : b = lists[l].batches[k]
    BY ONLY m \in Nat \ {0}, ListsOf(form, lists, rr, m), ListsTyped
  <2> HIDE DEF L, R, D, dd
  <2> QED BY ONLY <2>1 DEF X
<1> HIDE DEF X
<1>4. ASSUME NEW l \in 1 .. m, NEW k \in 1 .. BatchCount(Len(rr[l]))
      PROVE  LET batch == lists[l].batches[k]
                 part == BatchRids(rr[l], k)
             IN /\ decode_new(batch) = part /\ Distinct(part) /\ Len(part) \in Nat
                /\ DOMAIN decode_new_to_deltas(batch) = 1 .. Len(part)
                /\ \A i \in 1 .. Len(part) :
                     decode_new_to_deltas(batch)[i]
                       = DeltasOf(rr[l])[BatchEnd(Len(rr[l]), k - 1) + i]
  BY <1>1, PlainPieces
<1>5. ASSUME NEW l \in 1 .. m, NEW k \in 1 .. BatchCount(Len(rr[l]))
      PROVE  LET part == BatchRids(rr[l], k)
                 e(j) == BatchEnd(Len(rr[l]), j)
             IN /\ Len(part) = e(k) - e(k - 1)
                /\ \A i \in 1 .. Len(part) : /\ e(k - 1) + i \in 1 .. Len(rr[l])
                                             /\ part[i] = rr[l][e(k - 1) + i]
  BY <1>1, BatchPieces
<1>6. ASSUME NEW l \in 1 .. m
      PROVE  /\ DeltasOf(rr[l]) \in Seq(L) /\ Len(DeltasOf(rr[l])) = Len(rr[l])
             /\ \A i \in 1 .. Len(rr[l]) : DeltasOf(rr[l])[i] \in L
  <2> DEFINE u == rr[l]
  <2>1. Distinct(u)
    BY <1>1
  <2> HIDE DEF u
  <2> QED BY <2>1, DeltasTyped DEF u
<1>7. ASSUME NEW b \in X PROVE R[b] \in Seq(L) /\ D[b] \in Seq(L)
  <2>1. PICK l \in 1 .. m : \E k \in 1 .. BatchCount(Len(rr[l])) : b = lists[l].batches[k]
    BY <1>3
  <2>2. PICK k \in 1 .. BatchCount(Len(rr[l])) : b = lists[l].batches[k]
    BY <2>1
  <2> DEFINE part == BatchRids(rr[l], k)
             n == Len(part)
             d == decode_new_to_deltas(b)
             a == BatchEnd(Len(rr[l]), k - 1)
  <2>3. /\ decode_new(b) = part /\ Distinct(part) /\ n \in Nat
        /\ DOMAIN d = 1 .. n /\ \A i \in 1 .. n : d[i] = DeltasOf(rr[l])[a + i]
    BY <1>4, <2>2
  <2>4. \A i \in 1 .. n : a + i \in 1 .. Len(rr[l])
    BY <1>5
  <2> HIDE DEF part, n, a
  <2>5. \A i \in 1 .. n : d[i] \in L
    BY <1>6, <2>3, <2>4
  <2>6. R[b] = part /\ D[b] = d
    BY <2>3
  <2>7. part \in Seq(L)
    BY <2>3 DEF Distinct
  <2>8. d = [i \in 1 .. n |-> d[i]]
    BY <2>3 DEF decode_new_to_deltas
  <2> HIDE DEF d, L, R, D
  <2>9. d \in Seq(L)
    BY <2>3, <2>5, <2>8
  <2> QED BY <2>6, <2>7, <2>9
\* What is read from the batches of one list.
<1>8. ASSUME NEW l \in 1 .. m
      PROVE  LET n == Len(rr[l])
                 r == ReadBy(R, lists[l].batches)
                 d == ReadBy(D, lists[l].batches)
             IN /\ PiecesTyped(r, n, L) /\ PiecesOf(rr[l], r, n)
                /\ PiecesTyped(d, n, L) /\ PiecesOf(DeltasOf(rr[l]), d, n)
  <2> DEFINE n == Len(rr[l])
             c == BatchCount(n)
             bs == lists[l].batches
             r == ReadBy(R, bs)
             d == ReadBy(D, bs)
  <2>1. DOMAIN bs = 1 .. c /\ c \in Nat \ {0} /\ \A k \in 1 .. c : bs[k] \in X
    BY <1>3
  <2>2. r = [k \in 1 .. c |-> R[bs[k]]] /\ d = [k \in 1 .. c |-> D[bs[k]]]
    BY <2>1 DEF ReadBy
  <2>3. ASSUME NEW k \in 1 .. c
        PROVE  /\ R[bs[k]] \in Seq(L) /\ D[bs[k]] \in Seq(L)
               /\ Len(R[bs[k]]) = BatchEnd(n, k) - BatchEnd(n, k - 1)
               /\ Len(D[bs[k]]) = BatchEnd(n, k) - BatchEnd(n, k - 1)
               /\ \A i \in 1 .. Len(R[bs[k]]) :
                    BatchEnd(n, k - 1) + i \in 1 .. n
                    /\ R[bs[k]][i] = rr[l][BatchEnd(n, k - 1) + i]
               /\ \A i \in 1 .. Len(D[bs[k]]) :
                    BatchEnd(n, k - 1) + i \in 1 .. n
                    /\ D[bs[k]][i] = DeltasOf(rr[l])[BatchEnd(n, k - 1) + i]
    <3> DEFINE part == BatchRids(rr[l], k)
               x == R[bs[k]]
               y == D[bs[k]]
               M == Len(part)
    <3>1. x \in Seq(L) /\ y \in Seq(L) /\ x = decode_new(bs[k]) /\ y = decode_new_to_deltas(bs[k])
      <4>1. bs[k] \in X
        BY <2>1
      <4> HIDE DEF bs, L
      <4> QED BY <1>7, <4>1
    <3>2. /\ decode_new(bs[k]) = part /\ M \in Nat
          /\ DOMAIN decode_new_to_deltas(bs[k]) = 1 .. M
          /\ \A i \in 1 .. M : decode_new_to_deltas(bs[k])[i]
                                 = DeltasOf(rr[l])[BatchEnd(n, k - 1) + i]
      BY <1>4
    <3>3. /\ M = BatchEnd(n, k) - BatchEnd(n, k - 1)
          /\ \A i \in 1 .. M : /\ BatchEnd(n, k - 1) + i \in 1 .. n
                               /\ part[i] = rr[l][BatchEnd(n, k - 1) + i]
      BY <1>5
    <3>4. x = part
      BY <3>1, <3>2
    <3> HIDE DEF x, y, n, L, part
    <3>5. Len(y) = M
      <4>1. M \in Nat /\ DOMAIN y = 1 .. M /\ y \in Seq(L)
        BY <3>1, <3>2
      <4> HIDE DEF M
      <4> QED BY ONLY <4>1
    <3>6. \A i \in 1 .. M : y[i] = DeltasOf(rr[l])[BatchEnd(n, k - 1) + i]
      BY <3>1, <3>2
    <3> HIDE DEF M
    <3>7. /\ x \in Seq(L) /\ y \in Seq(L)
          /\ Len(x) = M /\ Len(y) = M
      BY <3>1, <3>4, <3>5 DEF M
    <3> QED BY <3>3, <3>4, <3>6, <3>7 DEF x, y, n, L
  <2> HIDE DEF n, c, bs, R, D, L
  <2>4. Len(r) = c /\ Len(d) = c /\ \A k \in 1 .. c : r[k] = R[bs[k]] /\ d[k] = D[bs[k]]
    BY <2>1, <2>2
  <2> HIDE DEF r, d
  <2>5. PiecesTyped(r, n, L) /\ PiecesTyped(d, n, L)
    BY <2>3, <2>4 DEF PiecesTyped, c
  <2>6. PiecesOf(rr[l], r, n)
    BY <2>3, <2>4 DEF PiecesOf, c
  <2>7. PiecesOf(DeltasOf(rr[l]), d, n)
    BY <2>3, <2>4 DEF PiecesOf, c
  <2> QED BY <2>5, <2>6, <2>7 DEF n, r, d, bs
<1>9. \A l \in 1 .. m : dd[l] = DeltasOf(rr[l]) /\ dd[l] \in Seq(L) /\ Len(dd[l]) = Len(rr[l])
                        /\ Len(dd[l]) # 0
  BY <1>2, <1>6
<1>10. dd = [l \in 1 .. m |-> dd[l]]
  OBVIOUS
<1>11. \A l \in 1 .. m : lists[l].batches \in Seq(X)
  BY <1>3
<1>12. \A b \in X : R[b] \in Seq(L) /\ D[b] \in Seq(L)
  BY <1>7
<1> HIDE DEF L, R, D, dd
<1>13. /\ BatchesOf(lists) \in Seq(X)
       /\ FlattenSeq(ReadBy(R, BatchesOf(lists))) = Joined(rr, m)
  <2>1. \A l \in 1 .. m : rr[l] \in Seq(L) /\ Len(rr[l]) # 0
    BY <1>1, <1>2
  <2>2. \A b \in X : R[b] \in Seq(L)
    BY <1>12
  <2>3. \A l \in 1 .. m : PiecesTyped(ReadBy(R, lists[l].batches), Len(rr[l]), L)
                          /\ PiecesOf(rr[l], ReadBy(R, lists[l].batches), Len(rr[l]))
    BY <1>8
  <2>4. Len(lists) = m /\ DOMAIN lists = 1 .. m /\ m \in Nat \ {0}
    BY <1>1
  <2>5. Readable(X, L, m, lists, rr, R)
    BY <1>11, <2>1, <2>2, <2>3, <2>4 DEF Readable
  <2> QED BY <2>3, <2>5, ReadLists
<1>14. FlattenSeq(ReadBy(D, BatchesOf(lists))) = Joined(dd, m)
  <2>1. \A l \in 1 .. m : dd[l] \in Seq(L) /\ Len(dd[l]) # 0
    BY <1>9
  <2>2. \A b \in X : D[b] \in Seq(L)
    BY <1>12
  <2>3. \A l \in 1 .. m : PiecesTyped(ReadBy(D, lists[l].batches), Len(dd[l]), L)
                          /\ PiecesOf(dd[l], ReadBy(D, lists[l].batches), Len(dd[l]))
    BY <1>8, <1>9
  <2>4. Len(lists) = m /\ DOMAIN lists = 1 .. m /\ m \in Nat \ {0}
    BY <1>1
  <2>5. Readable(X, L, m, lists, dd, D)
    BY <1>11, <2>1, <2>2, <2>3, <2>4 DEF Readable
  <2> QED BY <2>3, <2>5, ReadLists
<1>15. /\ decode_rids(lists) = FlattenSeq(ReadBy(R, BatchesOf(lists)))
       /\ adios_decode_deltas(lists) = FlattenSeq(ReadBy(D, BatchesOf(lists)))
  BY <1>13, InOrderReads DEF decode_rids, adios_decode_deltas, R, D
<1> QED BY <1>13, <1>14, <1>15 DEF dd

\* Lists with runs give as many RIDs, and the RIDs when there are no runs.
LEMMA MixListsRead ==
  ASSUME NEW m \in Nat \ {0}, NEW rr, NEW lists, ListsOf(Mix, lists, rr, m)
  PROVE  /\ Len(adios_expand_runlength_decode_rid(lists)) = Len(Joined(rr, m))
         /\ (\A l \in 1 .. m : \A k \in DOMAIN lists[l].batches : lists[l].batches[k].ones = <<>>)
              => adios_expand_runlength_decode_rid(lists) = Joined(rr, m)
<1> DEFINE X == BatchSet(lists, m)
           L == 0 .. RidLimit - 1
           R == [b \in X |-> rle_decode_every_batch_to_rids(b)]
<1>1. Len(lists) = m /\ DOMAIN lists = 1 .. m
      /\ \A l \in 1 .. m : /\ Distinct(rr[l]) /\ Len(rr[l]) # 0
                           /\ lists[l] = Compress(Mix, rr[l]) /\ ~ Wide(rr[l])
  BY DEF ListsOf
<1>2. \A l \in 1 .. m : rr[l] \in Seq(L) /\ Len(rr[l]) \in Nat \ {0}
  BY <1>1 DEF Distinct
<1>3. /\ \A l \in 1 .. m : /\ lists[l].batches \in Seq(X)
                           /\ DOMAIN lists[l].batches = 1 .. BatchCount(Len(rr[l]))
                           /\ BatchCount(Len(rr[l])) \in Nat \ {0}
                           /\ \A k \in 1 .. BatchCount(Len(rr[l])) : lists[l].batches[k] \in X
      /\ \A b \in X :
           \E l \in 1 .. m : \E k \in 1 .. BatchCount(Len(rr[l])) : b = lists[l].batches[k]
  <2>1. /\ \A l \in 1 .. m :
             LET c == BatchCount(Len(rr[l]))
             IN /\ lists[l].batches \in Seq(BatchSet(lists, m))
                /\ DOMAIN lists[l].batches = 1 .. c /\ c \in Nat \ {0}
                /\ \A k \in 1 .. c : lists[l].batches[k] \in BatchSet(lists, m)
                                     /\ HeaderHolds(lists[l].batches[k])
        /\ \A b \in BatchSet(lists, m) :
             \E l \in 1 .. m : \E k \in 1 .. BatchCount(Len(rr[l])) : b = lists[l].batches[k]
    BY ONLY m \in Nat \ {0}, ListsOf(Mix, lists, rr, m), ListsTyped
  <2> HIDE DEF L, R
  <2> QED BY ONLY <2>1 DEF X
<1> HIDE DEF X
<1>4. ASSUME NEW l \in 1 .. m, NEW k \in 1 .. BatchCount(Len(rr[l]))
      PROVE  LET batch == lists[l].batches[k]
                 part == BatchRids(rr[l], k)
                 e(j) == BatchEnd(Len(rr[l]), j)
             IN /\ rle_decode_every_batch_to_rids(batch) \in Seq(L)
                /\ Len(rle_decode_every_batch_to_rids(batch)) = e(k) - e(k - 1)
                /\ batch.ones = <<>> =>
                     \A i \in 1 .. Len(rle_decode_every_batch_to_rids(batch)) :
                       e(k - 1) + i \in 1 .. Len(rr[l])
                       /\ rle_decode_every_batch_to_rids(batch)[i] = rr[l][e(k - 1) + i]
  <2> DEFINE batch == lists[l].batches[k]
             part == BatchRids(rr[l], k)
             e(j) == BatchEnd(Len(rr[l]), j)
  <2>1. /\ Distinct(part) /\ Len(part) \in 1 .. BatchSize /\ Len(part) = e(k) - e(k - 1)
        /\ \A i \in 1 .. Len(part) : /\ e(k - 1) + i \in 1 .. Len(rr[l])
                                     /\ part[i] = rr[l][e(k - 1) + i]
    BY <1>1, BatchPieces
  <2>2. batch = expand_runlength_encode(part)
    <3>1. Mix \in CompressedForms
      BY DEF CompressedForms
    <3>2. lists[l] = Compress(Mix, rr[l]) /\ Distinct(rr[l]) /\ Len(rr[l]) # 0
      BY <1>1
    <3> DEFINE u == rr[l]
    <3>3. Distinct(u) /\ Len(u) # 0 /\ k \in 1 .. BatchCount(Len(u))
      BY <3>2
    <3> HIDE DEF u, batch, part
    <3>4. Compress(Mix, u).batches[k] = expand_runlength_encode(BatchRids(u, k))
      BY <3>1, <3>3, ListBatches
    <3> QED BY <3>2, <3>4 DEF u, batch, part
  <2>3. determine_b_to_expand(Deltas(part), Len(part)) # RidBits
    BY <1>1 DEF Wide
  <2> HIDE DEF batch, part, e
  <2>4. /\ rle_decode_every_batch_to_rids(batch) \in Seq(L)
        /\ Len(rle_decode_every_batch_to_rids(batch)) = Len(part)
        /\ batch.ones = <<>> => rle_decode_every_batch_to_rids(batch) = part
    BY <2>1, <2>2, <2>3, MixBatch
  <2>5. /\ rle_decode_every_batch_to_rids(batch) \in Seq(L)
        /\ Len(rle_decode_every_batch_to_rids(batch)) = e(k) - e(k - 1)
        /\ batch.ones = <<>> =>
             \A i \in 1 .. Len(rle_decode_every_batch_to_rids(batch)) :
               e(k - 1) + i \in 1 .. Len(rr[l])
               /\ rle_decode_every_batch_to_rids(batch)[i] = rr[l][e(k - 1) + i]
    BY <2>1, <2>4
  <2> QED BY <2>5 DEF batch, e
<1>5. ASSUME NEW b \in X PROVE R[b] \in Seq(L) /\ R[b] = rle_decode_every_batch_to_rids(b)
  <2>1. PICK l \in 1 .. m : \E k \in 1 .. BatchCount(Len(rr[l])) : b = lists[l].batches[k]
    BY <1>3
  <2>2. PICK k \in 1 .. BatchCount(Len(rr[l])) : b = lists[l].batches[k]
    BY <2>1
  <2> QED BY <1>4, <2>2
<1> HIDE DEF L, R
<1>6. ASSUME NEW l \in 1 .. m
      PROVE  LET n == Len(rr[l])
                 r == ReadBy(R, lists[l].batches)
             IN /\ PiecesTyped(r, n, L)
                /\ (\A k \in DOMAIN lists[l].batches : lists[l].batches[k].ones = <<>>)
                     => PiecesOf(rr[l], r, n)
  <2> DEFINE n == Len(rr[l])
             c == BatchCount(n)
             bs == lists[l].batches
             r == ReadBy(R, bs)
  <2>1. DOMAIN bs = 1 .. c /\ c \in Nat \ {0} /\ \A k \in 1 .. c : bs[k] \in X
    BY <1>3
  <2>2. r = [k \in 1 .. c |-> R[bs[k]]]
    BY <2>1 DEF ReadBy
  <2>3. ASSUME NEW k \in 1 .. c
        PROVE  /\ R[bs[k]] \in Seq(L)
               /\ Len(R[bs[k]]) = BatchEnd(n, k) - BatchEnd(n, k - 1)
               /\ bs[k].ones = <<>> => \A i \in 1 .. Len(R[bs[k]]) :
                    BatchEnd(n, k - 1) + i \in 1 .. n
                    /\ R[bs[k]][i] = rr[l][BatchEnd(n, k - 1) + i]
    <3>1. R[bs[k]] = rle_decode_every_batch_to_rids(bs[k])
      BY <1>5, <2>1
    <3> QED BY <1>4, <3>1
  <2> HIDE DEF n, c, bs
  <2>4. Len(r) = c /\ \A k \in 1 .. c : r[k] = R[bs[k]]
    BY <2>1, <2>2
  <2> HIDE DEF r
  <2>5. PiecesTyped(r, n, L)
    BY <2>3, <2>4 DEF PiecesTyped, c
  <2>6. ASSUME \A k \in DOMAIN bs : bs[k].ones = <<>> PROVE PiecesOf(rr[l], r, n)
    BY <2>1, <2>3, <2>4, <2>6 DEF PiecesOf, c
  <2> QED BY <2>5, <2>6 DEF n, r, bs
<1>7. /\ BatchesOf(lists) \in Seq(X)
      /\ Len(FlattenSeq(ReadBy(R, BatchesOf(lists)))) = Len(Joined(rr, m))
      /\ (\A l \in 1 .. m : PiecesOf(rr[l], ReadBy(R, lists[l].batches), Len(rr[l])))
           => FlattenSeq(ReadBy(R, BatchesOf(lists))) = Joined(rr, m)
  <2>1. \A l \in 1 .. m : rr[l] \in Seq(L) /\ Len(rr[l]) # 0
    BY <1>1, <1>2
  <2>2. \A b \in X : R[b] \in Seq(L)
    BY <1>5
  <2>3. \A l \in 1 .. m : PiecesTyped(ReadBy(R, lists[l].batches), Len(rr[l]), L)
    BY <1>6
  <2>4. Len(lists) = m /\ DOMAIN lists = 1 .. m /\ m \in Nat \ {0}
    BY <1>1
  <2>5. \A l \in 1 .. m : lists[l].batches \in Seq(X)
    BY <1>3
  <2>6. Readable(X, L, m, lists, rr, R)
    BY <2>1, <2>2, <2>3, <2>4, <2>5 DEF Readable
  <2> QED BY <2>6, ReadLists
<1>8. adios_expand_runlength_decode_rid(lists) = FlattenSeq(ReadBy(R, BatchesOf(lists)))
  BY <1>7, InOrderReads DEF adios_expand_runlength_decode_rid, adios_runlength_decode_rid, R
<1> QED BY <1>6, <1>7, <1>8

-------------------------------------------------------------------------------
(* The bits of one list.                                                   *)

\* Sequences put together hold what each of them holds.
LEMMA FlattenRange ==
  ASSUME NEW X, NEW m \in Nat \ {0}, NEW ss, Len(ss) = m, \A k \in 1 .. m : ss[k] \in Seq(X)
  PROVE  Range(FlattenSeq(ss)) = UNION {Range(ss[k]) : k \in 1 .. m}
<1> DEFINE s == FlattenSeq(ss)
<1>1. \A k \in 1 .. m : Len(ss[k]) \in Nat /\ DOMAIN ss[k] = 1 .. Len(ss[k])
  OBVIOUS
<1>2. PICK p : Cuts(p, m, ss)
  BY <1>1, CutsExist
<1>3. s \in Seq(X) /\ Placed(s, p, m, ss)
  BY <1>2, FlattenPlaces
<1> HIDE DEF s
<1>4. DOMAIN s = 1 .. p[m]
  BY <1>3 DEF Placed
<1>5. ASSUME NEW x \in Range(s) PROVE x \in UNION {Range(ss[k]) : k \in 1 .. m}
  <2>1. PICK j \in 1 .. p[m] : x = s[j]
    BY <1>4 DEF Range
  <2>2. PICK k \in 1 .. m : \E i \in 1 .. Len(ss[k]) : j = p[k - 1] + i
    BY <1>3, <2>1 DEF Placed
  <2>3. PICK i \in 1 .. Len(ss[k]) : j = p[k - 1] + i
    BY <2>2
  <2>4. x = ss[k][i]
    BY <1>3, <2>1, <2>3 DEF Placed
  <2>5. x \in Range(ss[k])
    BY <1>1, <2>4 DEF Range
  <2> QED BY <2>5
<1>6. ASSUME NEW k \in 1 .. m, NEW x \in Range(ss[k]) PROVE x \in Range(s)
  <2>1. PICK i \in 1 .. Len(ss[k]) : x = ss[k][i]
    BY <1>1 DEF Range
  <2>2. p[k - 1] + i \in 1 .. p[m] /\ s[p[k - 1] + i] = x
    BY <1>3, <2>1 DEF Placed
  <2> QED BY <1>4, <2>2 DEF Range
<1> QED BY <1>5, <1>6 DEF s

\* The RIDs of the batches are those of the list.
LEMMA BatchesCover ==
  ASSUME NEW rids, Distinct(rids), Len(rids) # 0
  PROVE  UNION {Range(BatchRids(rids, k)) : k \in 1 .. BatchCount(Len(rids))} = Range(rids)
<1> DEFINE c == BatchCount(Len(rids))
           ss == [k \in 1 .. c |-> BatchRids(rids, k)]
           L == 0 .. RidLimit - 1
<1>1. c \in Nat \ {0}
  <2>1. Len(rids) \in Nat \ {0}
    BY TypedRids
  <2> QED BY <2>1, BatchEnds
<1>2. \A k \in 1 .. c : BatchRids(rids, k) \in Seq(L)
  BY BatchPieces DEF Distinct
<1> HIDE DEF c, L
<1>3. Len(ss) = c /\ \A k \in 1 .. c : ss[k] = BatchRids(rids, k) /\ ss[k] \in Seq(L)
  BY <1>1, <1>2
<1> HIDE DEF ss
<1>4. FlattenSeq(ss) = rids
  BY <1>3, BatchesAreList DEF c
<1>5. Range(FlattenSeq(ss)) = UNION {Range(ss[k]) : k \in 1 .. c}
  BY <1>1, <1>3, FlattenRange
<1>6. {Range(ss[k]) : k \in 1 .. c} = {Range(BatchRids(rids, k)) : k \in 1 .. c}
  BY <1>3
<1> QED BY <1>4, <1>5, <1>6 DEF c

\* The batches of one list are all there are to read.
LEMMA OneList ==
  ASSUME NEW list
  PROVE  BatchesOf(<<list>>) = list.batches
<1> DEFINE lists == <<list>>
           bs == [l \in DOMAIN lists |-> lists[l].batches]
<1>1. DOMAIN lists = {1} /\ lists[1] = list
  OBVIOUS
<1>2. bs = <<list.batches>>
  BY <1>1
<1>3. BatchesOf(lists) = FlattenSeq(bs)
  BY DEF BatchesOf
<1> HIDE DEF bs, lists
<1> QED BY <1>2, <1>3, FlattenOne DEF lists

\* The bits of a list whose RIDs ascend.
LEMMA ListBitsAreRids ==
  ASSUME NEW rids, Distinct(rids), Len(rids) # 0, Ascends(rids), NEW form \in CompressedForms,
         form \in {Expansion, Mix} => ~ Wide(rids)
  PROVE  ListBits(form, Compress(form, rids)) = Range(rids)
<1> DEFINE list == Compress(form, rids)
           c == BatchCount(Len(rids))
           part(k) == BatchRids(rids, k)
           bs == list.batches
<1>1. /\ DOMAIN bs = 1 .. c
      /\ \A k \in 1 .. c :
           /\ form = PFD => bs[k] = encode(part(k))
           /\ form = Hybrid => bs[k] = hybrid_encode(part(k))
           /\ form = Expansion => bs[k] = expand_encode(part(k))
           /\ form = Mix => bs[k] = expand_runlength_encode(part(k))
  BY ListBatches
<1>2. \A k \in 1 .. c : Distinct(part(k)) /\ Len(part(k)) \in 1 .. BatchSize /\ Ascends(part(k))
  BY BatchPieces
<1>3. BatchesOf(<<list>>) = bs
  BY OneList
<1>4. ASSUME form \in {PFD, Expansion}, NEW k \in 1 .. c
      PROVE  decode_every_batch(bs[k]) = Range(part(k))
             /\ expand_decode_every_batch(bs[k]) = Range(part(k))
  <2>1. SumsOf(bs[k]) = part(k)
    BY <1>2, <1>4, PlainPieces
  <2> QED BY <2>1 DEF decode_every_batch, expand_decode_every_batch
<1>5. ASSUME form \in {Hybrid, Mix}, NEW k \in 1 .. c
      PROVE  rle_decode_every_batch(bs[k]) = Range(part(k))
  <2>1. form = Mix => determine_b_to_expand(Deltas(part(k)), Len(part(k))) # RidBits
    BY DEF Wide
  <2>2. /\ rle_decode_every_batch(hybrid_encode(part(k))) = Range(part(k))
        /\ determine_b_to_expand(Deltas(part(k)), Len(part(k))) # RidBits
             => rle_decode_every_batch(expand_runlength_encode(part(k))) = Range(part(k))
    BY <1>2, RunBatches
  <2>3. (form = Hybrid => bs[k] = hybrid_encode(part(k)))
        /\ (form = Mix => bs[k] = expand_runlength_encode(part(k)))
    BY <1>1
  <2> QED BY <1>5, <2>1, <2>2, <2>3
<1> DEFINE all == UNION {Range(part(k)) : k \in 1 .. c}
<1>6. all = Range(rids)
  BY BatchesCover
<1> HIDE DEF list, c, part
<1>11. /\ PFD # Hybrid /\ PFD # Expansion /\ PFD # Mix
       /\ Hybrid # Expansion /\ Hybrid # Mix /\ Expansion # Mix
  BY DEF PFD, Hybrid, Expansion, Mix
<1>12. ListBits(form, list)
         = IF form = PFD THEN decode_rids_set_bmap(<<list>>)
           ELSE IF form = Hybrid THEN rle_decode_rids(<<list>>)
           ELSE IF form = Expansion THEN expand_decode_rids(<<list>>)
           ELSE expand_runlength_decode_rids(<<list>>)
  <2>1. form \in {PFD, Hybrid, Expansion, Mix}
    BY DEF CompressedForms
  <2> QED BY <1>11, <2>1 DEF ListBits
<1>7. CASE form = PFD
  <2>1. decode_rids_set_bmap(<<list>>) = UNION {decode_every_batch(bs[k]) : k \in 1 .. c}
    BY <1>1, <1>3 DEF decode_rids_set_bmap, SetBits, Range
  <2>2. decode_rids_set_bmap(<<list>>) = all
    BY <1>4, <1>7, <2>1
  <2> QED BY <1>6, <1>7, <1>11, <1>12, <2>2 DEF list
<1>8. CASE form = Hybrid
  <2>1. rle_decode_rids(<<list>>) = UNION {rle_decode_every_batch(bs[k]) : k \in 1 .. c}
    BY <1>1, <1>3 DEF rle_decode_rids, SetBits, Range
  <2>2. rle_decode_rids(<<list>>) = all
    BY <1>5, <1>8, <2>1
  <2> QED BY <1>6, <1>8, <1>11, <1>12, <2>2 DEF list
<1>9. CASE form = Expansion
  <2>1. expand_decode_rids(<<list>>) = UNION {expand_decode_every_batch(bs[k]) : k \in 1 .. c}
    BY <1>1, <1>3 DEF expand_decode_rids, SetBits, Range
  <2>2. expand_decode_rids(<<list>>) = all
    BY <1>4, <1>9, <2>1
  <2> QED BY <1>6, <1>9, <1>11, <1>12, <2>2 DEF list
<1>10. CASE form = Mix
  <2>1. expand_runlength_decode_rids(<<list>>) = UNION {rle_decode_every_batch(bs[k]) : k \in 1 .. c}
    BY <1>1, <1>3 DEF expand_runlength_decode_rids, rle_decode_rids, SetBits, Range
  <2>2. expand_runlength_decode_rids(<<list>>) = all
    BY <1>5, <1>10, <2>1
  <2> QED BY <1>6, <1>10, <1>11, <1>12, <2>2 DEF list
<1> QED BY <1>7, <1>8, <1>9, <1>10 DEF CompressedForms
===============================================================================
