------------------------------ MODULE MCRestore ------------------------------
(* Model-checking instance of Restore: the constants of its runs.            *)
EXTENDS Restore

CONSTANTS a, b
==============================================================================
