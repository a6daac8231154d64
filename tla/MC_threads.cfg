CONSTANTS
  Boards = {"s31", "p4"}
  Checked <- PrecheckOrder
  MaxCalls = 3
  MaxKeys = 2
SPECIFICATION FairSpec
INVARIANTS ResultExplained
PROPERTIES WorkerErrorRaised NoSendAfterReturn LooksAreLive QuitEnds BoardsMeet
CHECK_DEADLOCK FALSE
