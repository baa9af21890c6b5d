CONSTANTS
  MaxSize = 3
  MesHeader = 1
  SlotSize = 5
  Mtu = 3
  Sizes <- MCSizes
  RespSizes <- MCRespSizes
  MaxReqs = 5
  MaxCredits = 3
  NumLimit = 4
  SendWrNum = 3
  MinSsBatch = 2
SPECIFICATION UniSpec
INVARIANTS
  CountsAgree
  MessagesFit
  MirrorIsLeadersBuffer
  SignalsAnswered
PROPERTY
  ImplementsMailbox
CHECK_DEADLOCK FALSE
