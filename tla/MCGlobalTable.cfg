CONSTANTS
  a = a
  b = b
  c = c
  p1 = p1
  p2 = p2
  NoKey = NoKey
  Keys = {a, c}
  JoinedKeys = {a}
  Partitions = {p1, p2}
  PartitionOf <- TwoPartitions
  MaxLen <- MCMaxLen
  Persistent = TRUE
  Transactional = TRUE
  LongDowntime = FALSE
  PollDeadline = TRUE
  MaxFaults = 2
SPECIFICATION FairSpec
INVARIANTS
  TableMatchesTopic
  NoLoopBeforeBootstrap
  NoWriteAfterClose
PROPERTIES
  BootstrapEnds
  TripStopsLoop
  JoinsNeverGoBack
CHECK_DEADLOCK FALSE
