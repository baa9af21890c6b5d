\* Two senders that share the receives of two receivers, and no losses.
CONSTANTS
  s1 = s1
  s2 = s2
  Senders <- MCTwoSenders
  Receivers <- MCReceivers
  MaxCredits = 1
  RemoteQuorum = 1
  CreditTimeout = 1
  EnableAssertions = TRUE
  MaxOps = 2
  MaxCoalesce = 1
  MaxLost = 0
SPECIFICATION FairSpec
INVARIANT
  ReceivesSuffice
PROPERTY
  OpsRetire
CHECK_DEADLOCK FALSE
