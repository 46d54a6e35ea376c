---------------------------- MODULE MCGlobalTable ----------------------------
(* Model-checking instance of GlobalTable: the constants of its runs.        *)
EXTENDS GlobalTable

CONSTANTS a, b, c, p1, p2

TwoPartitions == [k \in Keys |-> IF k = c THEN p2 ELSE p1]

\* The second partition holds one record: a topic with an uneven load.
MCMaxLen == [p \in Partitions |-> IF p = p2 THEN 1 ELSE 3]
==============================================================================
