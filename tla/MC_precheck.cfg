CONSTANTS
  Boards = {"s31", "p4"}
  Checked <- PrecheckOrder
  MaxCalls = 1
  MaxKeys = 0
SPECIFICATION StartSpec
PROPERTY PrecheckServes
CHECK_DEADLOCK FALSE
