-------------------------- MODULE MCWindowRecovery --------------------------
(* Model-checking instance of WindowRecovery: the constants of its runs.     *)
EXTENDS WindowRecovery
=============================================================================
