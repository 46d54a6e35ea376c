----------------------------- MODULE StateStore -----------------------------
(***************************************************************************)
(* What the interfaces Store and StoreBackend of store.go promise a task:  *)
(* stores that do not know of each other, each a map from entries to       *)
(* values, and a stream time of their own.  A store outlives the backend   *)
(* by way of its changelog, where an empty value and no value are the      *)
(* same.                                                                   *)
(***************************************************************************)
CONSTANTS
  Names,          \* the stores of the task
  EntriesOf(_),   \* the entries of a store
  RangesOf(_),    \* the sets of entries of a store that are deleted at once
  Values,         \* the values
  Empty,          \* the value of no bytes
  Times           \* the stream times

VARIABLES
  content,        \* content[n]: the pairs of an entry and its value in store n
  streamTime      \* the stream time kept with the stores

vars == <<content, streamTime>>

Init ==
  /\ content = [n \in Names |-> {}]
  /\ streamTime = 0

NonEmpty(C) == {x \in C : x[2] # Empty}

\* How the content of a store may change: by a put, ...
Put(n, old, new) ==
  \E e \in EntriesOf(n), v \in Values :
    new = {x \in old : x[1] # e} \cup {<<e, v>>}

\* ... by deleting an entry or those in a range, ...
Delete(n, old, new) ==
  \E E \in RangesOf(n) \cup {{e} : e \in EntriesOf(n)} :
    new = {x \in old : x[1] \notin E}

\* ... or by opening it: entries of empty values may be found in the backend.
Open(old, new) ==
  /\ NonEmpty(new) = old
  /\ \A x, y \in new : x[1] = y[1] => x = y

Change(n) ==
  /\ \A m \in Names \ {n} : content'[m] = content[m]
  /\ \E old \in {content[n]}, new \in {content'[n]} :
       Put(n, old, new) \/ Delete(n, old, new) \/ Open(old, new)
  /\ UNCHANGED streamTime

WriteStreamTime ==
  /\ streamTime' \in Times
  /\ UNCHANGED content

\* The backend is closed.  A volatile one forgets the stream time.
Close ==
  /\ content' = [n \in Names |-> NonEmpty(content[n])]
  /\ streamTime' \in {streamTime, 0}

Next == (\E n \in Names : Change(n)) \/ WriteStreamTime \/ Close

Spec == Init /\ [][Next]_vars
==============================================================================
