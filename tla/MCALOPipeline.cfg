CONSTANTS
  p1 = p1
  p2 = p2
  a = a
  b = b
  Partitions = {p1, p2}
  Keys = {a, b}
  End = 2
  MaxDisruptions = 2
  MaxInt64 = 100
  KeyOf <- MCKeyOf
SPECIFICATION FairSpec
INVARIANTS
  NoLoss
  StoreCoversChangelog
PROPERTIES
  AtLeastOnceSafety
  AllCommitted
