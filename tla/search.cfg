SPECIFICATION MCSpec
CONSTANTS
  a = a
  b = b
  c = c
  d = d
  Keys <- FourKeys
INVARIANTS
  TypeOK
  ReportIsCycle
  VerdictIsRight
PROPERTIES
  Terminates
CHECK_DEADLOCK FALSE
