CONSTANTS
  Tolerance <- DefaultTolerance
  Expected <- DefaultExpected
  Boxes <- SomeBoxes
  Controllers = {"planner", "servo"}
  Cameras = {"real"}
  MaxIters = 8
  Responses <- SomeResponses
  Weakest = 45
SPECIFICATION ServoSpec
CHECK_DEADLOCK FALSE
PROPERTY FixesHelp
