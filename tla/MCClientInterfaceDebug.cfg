\* A debug build: the worker looks at the slots around the one it picks up.
CONSTANTS
  s1 = s1
  Sessions <- MCSessions
  PerSessionReqNum = 3
  MaxReqs = 7
  EnableAssertions = TRUE
  NDebug = FALSE
SPECIFICATION FairSpec
INVARIANT PrevInactiveIfNextInactive
CHECK_DEADLOCK FALSE
