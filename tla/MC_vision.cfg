CONSTANTS
  Tolerance <- DefaultTolerance
  Expected <- DefaultExpected
  Boxes <- SomeBoxes
  Controllers = {"planner", "servo"}
  Cameras = {"real", "standin"}
  MaxIters = 8
  Responses <- SomeResponses
  Weakest = 45
  People <- AllPeople
  Looks <- AllLooks
  Alike <- Likeness
  Places <- Spots
  Dist <- Apart
  Frames <- Scenes
  Albums <- Photos
  MaxLooks = 4
  Deviations = {2, 5}
  Stretches = {100, 109}
  Low = 5000
  LowConf = 6000
  HighConf = 9000
  Same = 9500
  Other = 5000
  Leap = 3000
  Near = 500
  Strays = 3
  Loss = 897
SPECIFICATION VisionSpec
CHECK_DEADLOCK FALSE
INVARIANTS OnlyHeightGivenUp BudgetSuffices
PROPERTIES CorrectionHelps StaysWith TemplateWins
