---------------------------- MODULE MCEOSPipeline ----------------------------
(* Model-checking instance of EOSPipeline: the constants of its runs.        *)
EXTENDS EOSPipeline

CONSTANTS p1, p2, a, b

\* The keys alternate: the first key of a partition comes back at offset 2.
MCKeyOf ==
  [p \in Partitions |-> [o \in Offsets(p) |-> IF o % 2 = 0 THEN a ELSE b]]

MCEnd == [p \in Partitions |-> IF p = p1 THEN 3 ELSE 1]

\* All disruptions on Pebble; on the memory backend those after which the
\* exactly-once promise holds, failures that leave no mutation undrained.
MCFaults ==
  [x \in Backends |->
     IF x = "pebble" THEN FaultKinds
     ELSE {"begin", "produce", "commit", "cancel", "crash"}]

\* Disruptions that single runs are about.
OnlyCancel == [x \in Backends |-> {"cancel"}]
OnlyProcess == [x \in Backends |-> {"process"}]
==============================================================================
