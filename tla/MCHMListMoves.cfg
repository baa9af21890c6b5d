CONSTANTS
  HmNum = 3
  MaxWaitLoops = 0
  HmMaxRounds = 7
  Revisits = FALSE
SPECIFICATION HmSpec
INVARIANT NextIsInList
ACTION_CONSTRAINT MeetAtListOne
CHECK_DEADLOCK FALSE
