----------------------------- MODULE ExactlyOnce -----------------------------
(***************************************************************************)
(* What the exactly-once guarantee promises: sink output, state and source *)
(* offsets advance together, in one step, and each is what processing      *)
(* every input below the offset exactly once and in order yields.          *)
(***************************************************************************)
EXTENDS Integers, Sequences

CONSTANTS
  Partitions,   \* the partitions of the source topic
  Keys,         \* the record keys
  End,          \* partition p holds the offsets 0 .. End[p]-1
  KeyOf         \* KeyOf[p][o] is the key of the source record <<p, o>>

VARIABLES
  position,     \* the source offset each partition has been processed up to
  outputs,      \* the sink records of each partition's inputs, in order
  state         \* the state rebuilt from each partition's changelog

\* v is the value of key k after the inputs below n: their offsets, in order.
IsFold(p, k, n, v) ==
  /\ v \in Seq(Nat)
  /\ \A i, j \in 1 .. Len(v) : i < j => v[i] < v[j]
  /\ \A o \in 0 .. n - 1 : KeyOf[p][o] = k => \E i \in 1 .. Len(v) : v[i] = o
  /\ \A i \in 1 .. Len(v) : v[i] < n /\ KeyOf[p][v[i]] = k

\* st is the state after the inputs below n.
IsState(p, n, st) ==
  DOMAIN st = Keys /\ \A k \in Keys : IsFold(p, k, n, st[k])

\* out are the outputs of the inputs below n: each carries the value of its
\* key after it.
IsOutput(p, n, out) ==
  /\ out \in Seq([off : Nat, val : Seq(Nat)])
  /\ Len(out) = n
  /\ \A i \in 1 .. n : out[i].off = i - 1 /\ IsFold(p, KeyOf[p][i - 1], i, out[i].val)

Init ==
  /\ position = [p \in Partitions |-> 0]
  /\ \A p \in Partitions : IsOutput(p, 0, outputs[p]) /\ IsState(p, 0, state[p])

\* One transaction: any number of further inputs of any partitions.
Advance ==
  /\ DOMAIN position' = Partitions
  /\ \A p \in Partitions :
       /\ position'[p] \in position[p] .. End[p]
       /\ IsOutput(p, position'[p], outputs'[p])
       /\ IsState(p, position'[p], state'[p])

Spec == Init /\ [][Advance]_<<position, outputs, state>>
==============================================================================
