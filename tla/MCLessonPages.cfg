SPECIFICATION LessonSpec
CONSTANTS
  Flows <- MCFlows
  MaxSessions = 2
  MaxClicks = 3
  MaxClasses = 2
INVARIANTS
  SignedOutStaysSignedOut
  PageFollowsAddress
  OneClassPerName
  NoticeIsTrue
PROPERTIES
  PagesSettle
CHECK_DEADLOCK FALSE
