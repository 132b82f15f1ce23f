SPECIFICATION FairSpec
CONSTANTS
  Lines <- MCLines
  Vectors <- MCVectors
INVARIANTS
  HandlersDoNotNest
  LinesReleased
  RightHandler
PROPERTIES
  ClockServed
CHECK_DEADLOCK FALSE
