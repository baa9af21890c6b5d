\* A build that keeps assert(): what becomes of a weak call on a full ring.
CONSTANTS
  s1 = s1
  Sessions <- MCSessions
  PerSessionReqNum = 2
  MaxReqs = 4
  EnableAssertions = FALSE
  NDebug = FALSE
SPECIFICATION FairSpec
INVARIANT WeakCallReturns
CHECK_DEADLOCK FALSE
