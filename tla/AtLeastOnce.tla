----------------------------- MODULE AtLeastOnce -----------------------------
(***************************************************************************)
(* What the at-least-once guarantee promises, with no loop, task, store or *)
(* changelog in sight: inputs become durable, in any order and any number  *)
(* at a time, and stay so; the committed offset of a partition moves       *)
(* forward over durable inputs only.                                       *)
(***************************************************************************)
EXTENDS Integers

CONSTANTS
  Partitions,   \* the partitions of the source topic
  End           \* each partition holds the offsets 0 .. End-1

VARIABLES
  durable,      \* the inputs <<p, o>> whose effects survive every failure
  committed     \* the committed offset of each partition

Inputs == Partitions \X (0 .. End - 1)

Init ==
  /\ durable = {}
  /\ committed = [p \in Partitions |-> 0]

\* The effects of some inputs become durable, for the first time or again.
Apply ==
  /\ durable' \in {D \in SUBSET Inputs : durable \subseteq D}
  /\ UNCHANGED committed

\* The committed offsets move forward, never past an input that is not durable.
Commit ==
  /\ committed' \in [Partitions -> 0 .. End]
  /\ \A p \in Partitions :
       /\ committed[p] <= committed'[p]
       /\ \A o \in 0 .. committed'[p] - 1 : <<p, o>> \in durable
  /\ UNCHANGED durable

Next == Apply \/ Commit

Spec == Init /\ [][Next]_<<durable, committed>>

\* Every input is read, and stays read.
Complete == <>[](\A p \in Partitions : committed[p] = End)

LiveSpec == Spec /\ Complete
==============================================================================
