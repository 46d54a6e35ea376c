CONSTANTS
  Size = 2
  Grace = 0
  MaxTs = 5
  End = 3
  Guarantees = {"ALO", "EOS"}
  Faults = {"process", "flush", "produce", "commit", "cancel", "crash", "move", "clock"}
  MaxFailures = 2
  MaxInt64 = 100
SPECIFICATION Spec
INVARIANTS
  FoldedUnlessOverrun
  UnexpiredWindowsRebuilt
  LateStaysLate
CHECK_DEADLOCK FALSE
