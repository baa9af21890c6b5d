CONSTANTS
  NumKeys = 3
  NumBkts = 2
  NumTags = 2
  SlotNum = 2
  LogCaps <- MCLogCaps
  OpSize = 2
  MachineNum = 3
  WorkersPerMachine = 2
  SessionsPerThread = 2
  ClientsPerMachine = 1
  Hardware <- MCHardware
SPECIFICATION StartSpec
INVARIANTS
  CoresAreOwn
  LookupsFindTheirKey
  StartsWithAllAddresses
PROPERTY AllWorkersStart
CHECK_DEADLOCK FALSE
