CONSTANTS
  NumActions = 2
  Boards = {s31, p4}
  CarBoard = s31
  ExpectedBoards = {}
  Plans <- StartAtPlans
SPECIFICATION Spec
CHECK_DEADLOCK FALSE
PROPERTY StartAtHonoured
