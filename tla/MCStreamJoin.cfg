CONSTANTS
  a = a
  b = b
  Keys = {a, b}
  Timestamps = {0, 1, 2, 3, 4, 5, 6, 7}
  Before = 1
  After = 1
  Grace = 1
  Width = 4
  MaxRecords = 3
  MaxReopens = 1
SPECIFICATION Spec
INVARIANTS
  JoinedInWindow
  TimelyJoinsComplete
