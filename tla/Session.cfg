CONSTANTS
  None = None
  Door = Door
  Lines = {p1, y1, y2}
  YesNo = {y1, y2}
  RouteOf <- RoutedByAnswer
  Modes = {auto, plan}
  MaxQuestions = 2
  MaxCalls = 1
  MaxCrashes = 1
SPECIFICATION Spec
INVARIANTS
  OneDriveOwnsThePhase
  NoAnswerCrosses
  FollowUpsAreKept
  SavedWhenSettled
PROPERTIES
  CancelUnwinds
CHECK_DEADLOCK FALSE
