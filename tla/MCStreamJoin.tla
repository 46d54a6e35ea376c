----------------------------- MODULE MCStreamJoin -----------------------------
(* Model-checking instance of StreamJoin: the constants of its runs.         *)
EXTENDS StreamJoin

CONSTANTS a, b
==============================================================================
