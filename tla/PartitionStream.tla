---------------------------- MODULE PartitionStream ----------------------------
(***************************************************************************)
(* What an ALStore promises its application, whatever the backend (the     *)
(* comments of src/src/include/alacrity-store.h): a store is written as a  *)
(* sequence of partitions, sealed by closing it, and read in that order.   *)
(* The next partition is either taken whole or opened; while one is open   *)
(* the store gives access to nothing else, and every view of it shows that *)
(* partition.  There are no files, offsets or file pointers here.          *)
(***************************************************************************)
EXTENDS Integers, Sequences

CONSTANT Parts

VARIABLES
  parts,   \* the partitions of the store, in order
  phase,   \* "closed", "writing" or "reading"
  next,    \* the partition a reader gets next, from 0
  opened,  \* the partition that is open, or None
  seen     \* <<kind, p, lo, hi>>: what the last call delivered of partition p

None == -1
NoView == <<"none", 0, 0, 0>>

svars == <<parts, phase, next, opened, seen>>

SInit ==
  /\ parts = <<>> /\ phase = "closed" /\ next = 0
  /\ opened = None /\ seen = NoView

Create ==
  /\ phase = "closed" /\ phase' = "writing"
  /\ parts' = <<>>
  /\ next' = 0 /\ opened' = None /\ seen' = NoView

AppendPartition ==
  /\ phase = "writing"
  /\ \E d \in Parts : parts' = Append(parts, d)
  /\ seen' = NoView
  /\ UNCHANGED <<phase, next, opened>>

\* Sealed for good, or closed by a reader (or by the reader's death).
Finish ==
  /\ phase \in {"writing", "reading"} /\ opened = None
  /\ phase' = "closed"
  /\ next' = 0 /\ seen' = NoView
  /\ UNCHANGED <<parts, opened>>

StartReading ==
  /\ phase = "closed" /\ phase' = "reading"
  /\ seen' = NoView
  /\ UNCHANGED <<parts, next, opened>>

TakeWhole ==
  /\ phase = "reading" /\ opened = None /\ next < Len(parts)
  /\ next' = next + 1
  /\ seen' = <<"whole", next, 0, 0>>
  /\ UNCHANGED <<parts, phase, opened>>

OpenNext ==
  /\ phase = "reading" /\ opened = None /\ next < Len(parts)
  /\ opened' = next
  /\ next' = next + 1
  /\ seen' = NoView
  /\ UNCHANGED <<parts, phase>>

View ==
  /\ opened # None
  /\ \E lo, hi \in 0 .. parts[opened + 1].numBins :
       seen' \in {<<"metadata", opened, 0, 0>>, <<"data", opened, lo, hi>>,
                  <<"index", opened, lo, hi>>}
  /\ UNCHANGED <<parts, phase, next, opened>>

Release ==
  /\ opened # None /\ opened' = None
  /\ seen' = NoView
  /\ UNCHANGED <<parts, phase, next>>

\* Questions about the store, and calls it refuses.
Answer ==
  /\ seen' = NoView
  /\ UNCHANGED <<parts, phase, next, opened>>

SNext ==
  \/ Create \/ AppendPartition \/ Finish
  \/ StartReading \/ TakeWhole \/ OpenNext \/ View \/ Release
  \/ Answer

SSpec == SInit /\ [][SNext]_svars
===============================================================================
