---------------------------- MODULE MCRebalance ----------------------------
(* Instances of Rebalance for TLC.                                         *)
EXTENDS Rebalance

CONSTANTS i1, i2, p1, p2, a, b

\* One topic: each partition has its task.
MCTaskOf == [s \in Sources |-> s]

\* Two topics whose partitions have the same number.
MCSharedTask == [s \in Sources |-> p1]

MCKeyOf == [s \in Sources |-> [o \in Offsets |-> IF o % 2 = 0 THEN a ELSE b]]

MCMaxInt64 == 1000

=============================================================================
