CONSTANTS
  a = a
  b = b
  Keys = {a, b}
  Definitions <- MCDefinitions
  MaxTs = 9
  MaxRecords = 3
  MaxReopens = 1
SPECIFICATION Spec
INVARIANTS
  UnsweptWindowsComplete
PROPERTIES
  RetentionBounded
