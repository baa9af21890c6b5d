\* One sender, two receivers, and the loss of a message or an ack.
CONSTANTS
  s1 = s1
  s2 = s2
  Senders <- MCOneSender
  Receivers <- MCReceivers
  MaxCredits = 2
  RemoteQuorum = 1
  CreditTimeout = 2
  EnableAssertions = TRUE
  MaxOps = 4
  MaxCoalesce = 2
  MaxLost = 1
SPECIFICATION FairSpec
INVARIANTS
  TypeOK
  ReceivesSuffice
  CreditsAccounted
  AcksAreHonest
  RetiredByQuorum
PROPERTY
  BroadcastsGoOut
CHECK_DEADLOCK FALSE
