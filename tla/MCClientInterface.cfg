CONSTANTS
  s1 = s1
  Sessions <- MCSessions
  PerSessionReqNum = 3
  MaxReqs = 7
  EnableAssertions = TRUE
  NDebug = TRUE
SPECIFICATION FairSpec
INVARIANT TypeOK
INVARIANT PointersMatchSlots
INVARIANT AssertionsHold
PROPERTY RequestStable
PROPERTY ImplementsPipeline
PROPERTY CallsReturn
CHECK_DEADLOCK FALSE
