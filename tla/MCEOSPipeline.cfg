CONSTANTS
  p1 = p1
  p2 = p2
  a = a
  b = b
  Keys = {a, b}
  MaxInt64 = 100
  KeyOf <- MCKeyOf
  End <- MCEnd
  Partitions = {p1, p2}
  Backends = {"pebble", "memory"}
  Faults <- MCFaults
  MaxDisruptions = 2
SPECIFICATION FairSpec
INVARIANTS
  OutputsOnce
  StateAtLeastOnce
  MemoryBeginsOnCommittedState
PROPERTIES
  AllCommitted
  ExactlyOnceSafety
