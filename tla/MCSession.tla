------------------------------ MODULE MCSession ------------------------------
(* Model-checking instance of SessionAggregate: the constants of its runs.   *)
EXTENDS SessionAggregate

CONSTANTS a, b
==============================================================================
