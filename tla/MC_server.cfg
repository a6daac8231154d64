CONSTANTS
  MaxConns = 2
  MaxCmds = 1
  HistorySize = 2
SPECIFICATION Spec
CHECK_DEADLOCK FALSE
INVARIANTS OneOpenClient Served FreshAnswer
PROPERTY ClientKept
