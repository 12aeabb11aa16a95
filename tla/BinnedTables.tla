------------------------------ MODULE BinnedTables -----------------------------
(* Partitions for the instances of the query modules. *)
EXTENDS BinRange

\* A set in ascending order, as a function from 0.
Ascending(S, before(_, _)) ==
  [k \in 0 .. Cardinality(S) - 1 |->
     CHOOSE x \in S : Cardinality({y \in S : before(y, x)}) = k]

\* The partition that encodes a sequence of elements.
Encode(raw) ==
  LET rows == 0 .. Len(raw) - 1
      value(r) == High(raw[r + 1])
      below(u, v) == Key(u) < Key(v)
      before(r, s) == below(value(r), value(s)) \/ (value(r) = value(s) /\ r < s)
      values == Ascending({value(r) : r \in rows}, below)
      order == Ascending(rows, before)
      numBins == Cardinality(DOMAIN values)
  IN [numBins |-> numBins, length |-> Len(raw), binValues |-> values,
      binStart |-> [b \in 0 .. numBins |->
                      Cardinality({r \in rows : \E c \in 0 .. b - 1 : values[c] = value(r)})],
      elems |-> [k \in rows |-> raw[order[k] + 1]],
      rids |-> order]
===============================================================================
