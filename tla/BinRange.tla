-------------------------------- MODULE BinRange --------------------------------
(***************************************************************************)
(* The bins that an interval lb <= x < ub of values touches in a           *)
(* partition, found from the values of the bins alone                      *)
(* (src/src/uniquery/findbinrange.templates.cc), as both query programs    *)
(* use it.  Arrays start at 0.                                             *)
(***************************************************************************)
EXTENDS Integers, Sequences, FiniteSetsExt

CONSTANTS
  Sign,     \* 2^(significantBits - 1)
  Lows      \* 2^(bits below the significant ones)

ASSUME RangeAssumption == Sign \in Nat \ {0} /\ Lows \in Nat \ {0}

\* An element is its bit pattern as an unsigned number: sign and magnitude.
Element == 0 .. 2 * Sign * Lows - 1
High(e) == e \div Lows
Value(e) == IF High(e) < Sign THEN e ELSE Sign * Lows - e

\* CONV_1C_TO_2C: both zero bins become 0.
TwosComplement(hi) == IF hi < Sign THEN hi ELSE Sign - hi

\* The order of bins: -0 comes before +0.
Key(hi) == IF hi < Sign THEN hi ELSE Sign - 1 - hi

\* Bins b of p hold elements binStart[b] up to binStart[b + 1]; rids says which
\* rows of the application they are.
IsPartition(p) ==
  LET bins == 0 .. p.numBins - 1
      all == 0 .. p.length - 1
  IN /\ p.numBins \in Nat /\ p.length \in Nat
     /\ p.binValues \in [bins -> 0 .. 2 * Sign - 1]
     /\ p.binStart \in [0 .. p.numBins -> 0 .. p.length]
     /\ p.elems \in [all -> Element] /\ p.rids \in [all -> all]
     /\ p.binStart[0] = 0 /\ p.binStart[p.numBins] = p.length
     /\ \A b \in bins : p.binStart[b] < p.binStart[b + 1]
     /\ \A b, c \in bins : b < c => Key(p.binValues[b]) < Key(p.binValues[c])
     /\ \A b \in bins : \A k \in p.binStart[b] .. p.binStart[b + 1] - 1 :
          High(p.elems[k]) = p.binValues[b]
     /\ \A j, k \in all : j # k => p.rids[j] # p.rids[k]

InRange(e, q) == Value(q.lb) <= Value(e) /\ Value(e) < Value(q.ub)
-------------------------------------------------------------------------------
(* findBinRange1C.  The four loops share one iterator that only moves up;  *)
(* a loop for negative bins that stops early hands over a bin which the    *)
(* loop for positive bins rejects at once, so each pair finds the first    *)
(* bin with its condition.                                                 *)

Bins(m) == 0 .. m.numBins - 1
Point(m, b) == TwosComplement(m.binValues[b])
LowPoint(q) == TwosComplement(High(q.lb))
UpPoint(q) == TwosComplement(High(q.ub))

\* AboveLow and AtOrAboveUp, each before the definition it resembles, are that
\* definition with a fault.
AboveLow(m, q) == {b \in Bins(m) : Point(m, b) > LowPoint(q)}
AtOrAboveLow(m, q) == {b \in Bins(m) : Point(m, b) >= LowPoint(q)}
StartBin(m, q) == Min(AtOrAboveLow(m, q))

AtOrAboveUp(m, q) == {b \in StartBin(m, q) .. m.numBins - 1 : Point(m, b) >= UpPoint(q)}
AboveUp(m, q) == {b \in StartBin(m, q) .. m.numBins - 1 : Point(m, b) > UpPoint(q)}

EndBin(m, q) == IF AboveUp(m, q) = {} THEN m.numBins ELSE Min(AboveUp(m, q))

Touched(m, q) ==
  /\ AtOrAboveLow(m, q) # {}
  /\ Point(m, StartBin(m, q)) <= UpPoint(q)
  /\ StartBin(m, q) # EndBin(m, q)
  /\ Point(m, EndBin(m, q) - 1) >= LowPoint(q)
===============================================================================
