CONSTANTS
  Sessions = {s1, s2}
  MaxReplies = 3
  LiveTexts <- SomeTexts
  Ids = {"a1", "b1", "cp1"}
  SafeTimeline = {"a1"}
  MockTimeline = {"a1", "b1"}
  MockExtras = {"cp1"}
  Callers = {"cli", "api"}
SYMMETRY AnySession
SPECIFICATION Spec
CHECK_DEADLOCK FALSE
INVARIANTS TypeOK SavedBeforeRun ConfirmationIsOfPlan RunWasReviewed
