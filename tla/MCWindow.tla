------------------------------- MODULE MCWindow -------------------------------
(* Model-checking instance of WindowAggregate: the constants of its run.     *)
EXTENDS WindowAggregate

CONSTANTS a, b

\* Windows that overlap, with and without a grace period, and windows that do
\* not, with a grace period shorter than their size.
MCDefinitions ==
  {[hopping |-> TRUE, size |-> 2, advance |-> 1, grace |-> 0],
   [hopping |-> TRUE, size |-> 3, advance |-> 2, grace |-> 1],
   [hopping |-> FALSE, size |-> 2, advance |-> 2, grace |-> 1]}
==============================================================================
