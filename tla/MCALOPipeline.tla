---------------------------- MODULE MCALOPipeline ----------------------------
(* Model-checking instance of ALOPipeline: the constants of its run.         *)
EXTENDS ALOPipeline

CONSTANTS p1, p2, a, b

\* Two records of one key in the first partition, of two keys in the second.
MCKeyOf ==
  [p \in Partitions |-> [o \in Offsets |-> IF p = p2 /\ o = 1 THEN b ELSE a]]
==============================================================================
