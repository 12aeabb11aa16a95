----------------------------- MODULE UniQueryProps -----------------------------
(***************************************************************************)
(* What a range query must answer, in terms of the partition's elements    *)
(* and the values they stand for.                                          *)
(***************************************************************************)
EXTENDS UniQuery

Answered == answer.part # None
Rows == {answer.rids[i] : i \in DOMAIN answer.rids}

\* The element of a row of the partition that was queried.
ElementOf(row) ==
  LET p == answer.part
      k == CHOOSE i \in DOMAIN p.rids : p.rids[i] = row
  IN p.elems[k]
-------------------------------------------------------------------------------
(* Types; in particular the metadata cache has a slot for each partition   *)
(* and the trimming loops stay inside the buffers that were read           *)
(* (uniquery.c, trimbins.templates.cc).                                    *)
TypeOK ==
  /\ store \in Stores /\ cur \in 0 .. Len(store)
  /\ metadatas # NotLoaded => DOMAIN metadatas = 0 .. Len(store) - 1
  /\ query # None => query \in Queries
  /\ pc \in {"idle", "loop", "find", "trimFirst", "trimLast"}
  /\ pc \in {"find", "trimFirst", "trimLast"} => cur < Len(store)
  /\ pc \in {"trimFirst", "trimLast"} =>
       /\ 0 <= range[1] /\ range[1] < range[2] /\ range[2] <= meta.numBins
       /\ DOMAIN data = 0 .. LastBinEnd(range) - 1 /\ DOMAIN rids = DOMAIN data
       /\ head \in 0 .. FirstBinEnd(range)
       /\ inputOff \in -1 .. LastBinEnd(range)
  /\ pc = "trimLast" => head <= tail /\ tail <= inputOff

(* No row whose value lies in the interval is missing from the result,     *)
(* whatever the query type: rounding the bounds to bin values toward zero  *)
(* loses no bin (findbinrange.templates.cc:64, "it ends up working"), and  *)
(* trimming in place overwrites nothing that is kept.                      *)
NothingLost ==
  Answered =>
    \A k \in DOMAIN answer.part.elems :
      InRange(answer.part.elems[k], answer.query) => answer.part.rids[k] \in Rows

(* After candidate checks a row outside the interval can be left only from *)
(* a zero bin, when a bound lies in a zero bin and both zero bins are      *)
(* touched together with another: one of them is then neither first nor    *)
(* last (trimQueryResults).                                                *)
ZeroBinBetween ==
  /\ LowPoint(answer.query) = 0 \/ UpPoint(answer.query) = 0
  /\ {0, Sign} \subseteq {answer.part.binValues[b] : b \in Bins(answer.part)}

OnlyZeroBinsLeak ==
  Answered /\ answer.query.type # "RegionIndexOnly" =>
    \A row \in Rows :
      \/ InRange(ElementOf(row), answer.query)
      \/ ZeroBinBetween /\ High(ElementOf(row)) \in {0, Sign}

(* Without candidate checks the result is every row of each bin that meets *)
(* the closed interval from lb to ub, where the two zero bins are one bin  *)
(* around 0, and no other row: that is what comparing bin values with      *)
(* bounds rounded toward zero amounts to (findbinrange.templates.cc:59,    *)
(* "we can treat them as inclusive whenever they intersect a bin value").  *)
(* So the bin that begins at ub is part of the result, though the interval *)
(* excludes ub.                                                            *)
LowEdge(point) == point * Lows - (IF point > 0 THEN 0 ELSE Lows - 1)
HighEdge(point) == point * Lows + (IF point < 0 THEN 0 ELSE Lows - 1)

IndexOnlyMeetsInterval ==
  Answered /\ answer.query.type = "RegionIndexOnly" =>
    \A k \in DOMAIN answer.part.rids :
      LET point == TwosComplement(High(answer.part.elems[k])) IN
        answer.part.rids[k] \in Rows
          <=> /\ Value(answer.query.lb) <= HighEdge(point)
              /\ LowEdge(point) <= Value(answer.query.ub)

(* A value query returns every row once and with its own value, although   *)
(* values and rows are moved separately (trimQueryResults).                *)
ValuesMatchRows ==
  Answered =>
    /\ \A i, j \in DOMAIN answer.rids : i # j => answer.rids[i] # answer.rids[j]
    /\ answer.query.type = "ValueRetrieval" =>
         /\ DOMAIN answer.data = DOMAIN answer.rids
         /\ \A i \in DOMAIN answer.data : answer.data[i] = ElementOf(answer.rids[i])

(* Whatever queries were begun, left and repeated on a store that was      *)
(* opened again, the engine holds for each partition that partition's      *)
(* metadata, and works with it (ALQueryGetPartitionMetadata).              *)
CacheHoldsOwnMetadata ==
  /\ metadatas # NotLoaded => \A p \in DOMAIN metadatas : metadatas[p] \in {None, store[p + 1]}
  /\ meta # None => meta = store[cur + 1]

(* "assert(maskedRealValH >= query->lb.asDouble && maskedRealValL <        *)
(* query->ub.asDouble);" (tests/test-uniquery-correctness.c:48) of every   *)
(* row returned without candidate checks, where the masked values are the  *)
(* ends of the row's bin.  The tests ask for no empty interval.            *)
EndsOfBin(hi) == {Value(hi * Lows), Value(hi * Lows + Lows - 1)}

IndexOnlyLeavesOutUpperBin ==
  /\ Answered /\ answer.query.type = "RegionIndexOnly"
  /\ Value(answer.query.lb) < Value(answer.query.ub)
  => \A row \in Rows :
       LET ends == EndsOfBin(High(ElementOf(row))) IN
         Max(ends) >= Value(answer.query.lb) /\ Min(ends) < Value(answer.query.ub)

(* "assert(val >= query->lb.asDouble); assert(val < query->ub.asDouble);"  *)
(* (tests/test-uniquery-correctness.c:83) of every value returned.         *)
ResultsInRange ==
  Answered /\ answer.query.type = "ValueRetrieval" =>
    \A i \in DOMAIN answer.data : InRange(answer.data[i], answer.query)
-------------------------------------------------------------------------------
\* A call of ALQueryNextResult runs to its end, and the application's loop
\* "while (ALQueryNextResult(...))" calls it again.
NextResult ==
  \/ NextAtEnd \/ NextOpen \/ NoBinTouched \/ IndexOnly
  \/ ReadRange \/ TrimFirst \/ FirstTrimmed \/ TrimLast \/ PackageResult

FairSpec == Spec /\ WF_vars(NextResult)

(* A loop over the results of a query ends: each call takes the store to   *)
(* its next partition until ALStoreEOF (tools/uniquery.c).                 *)
QueryEnds == (pc = "loop") ~> (pc = "idle")
===============================================================================
