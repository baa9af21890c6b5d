\* ENABLE_LOCK_FREE_READING 1 (the default): lock-free readers.
CONSTANTS
  w1 = w1
  w2 = w2
  w3 = w3
  k1 = k1
  k2 = k2
  Workers <- MCWorkers
  Words <- MCWords
  MaxLockedCalls = 2
  EnableLockFreeReading = TRUE
SPECIFICATION FairSpec
INVARIANTS
  TypeOK
  LockExcludes
PROPERTIES
  ImplementsRegister
  CallsFinish
CHECK_DEADLOCK FALSE
