SPECIFICATION Spec
CONSTANTS
  ByteMax = 3
  LenWidth = 1
  TimeWidth = 2
  Backends = {"pebble", "memory"}
  Names <- MCNames
  WindowNames <- MCWindowNames
  Keys <- MCKeys
  Starts <- MCStarts
  Values <- MCValues
  Times <- MCTimes
  Nil = Nil
  MaxInt64 <- MCMaxInt64
  MaxWrites = 2
  MaxOpens = 2
INVARIANTS  LookupsAgree
PROPERTIES StoresApart 
CHECK_DEADLOCK FALSE
