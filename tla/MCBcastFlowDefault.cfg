\* ENABLE_ASSERTIONS 0, the default build: ctx_ack_insert never refuses.
CONSTANTS
  s1 = s1
  s2 = s2
  Senders <- MCOneSender
  Receivers <- MCReceivers
  MaxCredits = 2
  RemoteQuorum = 1
  CreditTimeout = 2
  EnableAssertions = FALSE
  MaxOps = 4
  MaxCoalesce = 2
  MaxLost = 0
SPECIFICATION FairSpec
INVARIANT
  AcksAreHonest
CHECK_DEADLOCK FALSE
