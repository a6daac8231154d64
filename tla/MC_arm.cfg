CONSTANTS
  Presets <- DefaultPresets
  Plans <- ArmPlans
SPECIFICATION Spec
CHECK_DEADLOCK FALSE
INVARIANTS SentInBox SentInReach SafeIsStable CacheIsLastGoal
PROPERTY DeltaOnTop
