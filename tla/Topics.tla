------------------------------- MODULE Topics --------------------------------
(***************************************************************************)
(* What the two readers of every topic share: the bridge of the dashboard  *)
(* (runner/bridge_ingestion.py) and the forwarder (consumers/main.py).     *)
(*                                                                         *)
(* A partition here holds the records of one key on one topic, as they are *)
(* ordered by Kafka; the readers meet partitions in any order.  A record   *)
(* is its partition and its number there (_topic, _partition, _offset).    *)
(***************************************************************************)
EXTENDS Naturals, Sequences

CONSTANTS
    Partition,
    MaxCrashes     \* bound: process kills, of both readers together
ASSUME CrashesAssumption == MaxCrashes \in Nat

VARIABLES
    end_offset,    \* how many records each partition has
    crashes

Record     == Partition \X (Nat \ {0})
NoneRead   == [p \in Partition |-> 0]

TopicsInit == end_offset = NoneRead /\ crashes = 0

\* One record more on partition p.
Grow(p) == end_offset' = [end_offset EXCEPT ![p] = @ + 1]

\* The position after the next record of partition p.
Advanced(position, p) == [position EXCEPT ![p] = @ + 1]
Available(position, p) == position[p] < end_offset[p]

Kill == crashes < MaxCrashes /\ crashes' = crashes + 1
=============================================================================
