CONSTANTS
  p1 = p1
  p2 = p2
  a = a
  b = b
  Keys = {a, b}
  MaxInt64 = 100
  KeyOf <- MCKeyOf
  End <- MCEnd
  Partitions = {p1}
  Backends = {"pebble"}
  Faults <- OnlyCancel
  MaxDisruptions = 1
SPECIFICATION Spec
INVARIANTS
  BeginsOnCommittedState
