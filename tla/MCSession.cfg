CONSTANTS
  a = a
  b = b
  Keys = {a, b}
  Timestamps = {0, 1, 2, 3, 4, 5, 6}
  Gap = 2
  Grace = 1
  MaxRecords = 4
SPECIFICATION Spec
INVARIANTS
  SessionsSeparated
  SessionsAreRuns
CHECK_DEADLOCK FALSE
