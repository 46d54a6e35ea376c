SPECIFICATION FairSpec
CONSTANTS
  i1 = i1
  i2 = i2
  p1 = p1
  p2 = p2
  a = a
  b = b
  Instances = {i1, i2}
  Sources = {p1}
  Tasks = {p1}
  TaskOf <- MCTaskOf
  Keys = {a, b}
  KeyOf <- MCKeyOf
  End = 2
  MaxMoves = 1
  MaxFaults = 1
  MaxEvictions = 0
  MaxInt64 <- MCMaxInt64
INVARIANTS
  SinkComplete
  OneWriter
  StoreCoversChangelog
  LossOnlyWhenOvertaken
PROPERTIES
  AllDelivered
CHECK_DEADLOCK FALSE
