\* Six rounds are the least in which an old top can come back to its stack and
\* point elsewhere; with five a session can fall behind a queue's tail and a
\* node be enqueued again.  Lists that no session comes back to (see
\* MCHMListABA).  Machine 0 has its second turn in both rings.
CONSTANTS
  s1 = s1
  s2 = s2
  s3 = s3
  Sessions <- MCSessions
  Null = Null
  MaxRounds = 6
  Unknown = Unknown
  DbgMaxRounds = 5
  BlkMaxRounds = 5
  MsSessions <- MCSessions
  NoNode = NoNode
  MsMaxRounds = 4
  HmNum = 2
  MaxWaitLoops = 1
  HmMaxRounds = 4
  Revisits = FALSE
  MachineNum = 3
  RelaxedWrites = 2
  MaxTurns = 5
  PcWrites = 2
  PcMaxTurns = 3
SPECIFICATION ClientsSpec
SYMMETRY MCSymmetry
INVARIANTS
  ClientsTypeOK
  ClientsAssert
  ReusedWhenUnlinked
  ReadsPreviousMachine
  OneTurn
  ReadsReleasedNode
PROPERTIES
  ImplementsStacks
  RetryMeansProgress
  ImplementsQueues
  ImplementsSets
CHECK_DEADLOCK FALSE
