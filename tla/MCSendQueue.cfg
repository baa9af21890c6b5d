CONSTANTS
  RemMachNum = 3
  RemoteQuorum = 2
  MaxBcastBatch = 2
  MinSsBatch = 9
  MaxMessages = 5
SPECIFICATION Spec
INVARIANTS
  PollAnswered
  SendQueueFits
PROPERTY
  ChainIsBroadcast
