CONSTANTS
  a = a
  b = b
  Keys = {a, b}
  MaxLen = 3
  MaxInt64 = 100
  Callers = {"openTask", "closeTask"}
  OpenTxn = TRUE
  Prompt = TRUE
SPECIFICATION FairSpec
INVARIANTS
  StoreMatchesCheckpoint
  RestoreComplete
  CloseCheckpointSound
PROPERTIES
  ResolvedTerminates
CHECK_DEADLOCK FALSE
