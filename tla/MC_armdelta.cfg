CONSTANTS
  Presets <- DefaultPresets
  Plans <- DeltaFirst
SPECIFICATION Spec
CHECK_DEADLOCK FALSE
PROPERTY DeltaOnTop
