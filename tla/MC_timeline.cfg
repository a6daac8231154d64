CONSTANTS
  NumActions = 3
  Boards = {s31, p4}
  CarBoard = s31
  ExpectedBoards = {s31}
  Plans <- AllPlans
SPECIFICATION FairSpec
CHECK_DEADLOCK FALSE
INVARIANTS NoOverlap IInv DepsFinished VerdictExplained WaitsElapsed
PROPERTIES NotRepeated AckKept Timeline_Spec Termination
