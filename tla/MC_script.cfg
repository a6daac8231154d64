CONSTANTS
  Acts = {1, 2}
  Scripts <- AllScripts
  MaxClock = 4
  MaxChanges = 2
SPECIFICATION FairSpec
INVARIANTS TypeOK StopReachesAll CompletedMeansDone
PROPERTIES Timeline_Spec Termination
CHECK_DEADLOCK FALSE
