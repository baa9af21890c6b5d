CONSTANTS
  HmNum = 2
  MaxWaitLoops = 1
  HmMaxRounds = 6
  Revisits = TRUE
SPECIFICATION HmSpec
INVARIANT DeleteFindsOwnNode
CHECK_DEADLOCK FALSE
