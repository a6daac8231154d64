CONSTANTS
  Moves <- Increments
  Poses <- Raised
  Default <- DefaultPose
  Home <- HomePose
  Parked <- ParkedPose
  MinSteps = 10
  MaxSteps = 30
  MaxCalls = 4
SPECIFICATION Spec
INVARIANT CacheIsGoal
PROPERTY Smooth
CHECK_DEADLOCK FALSE
