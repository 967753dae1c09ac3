SPECIFICATION FairSpec
CONSTANTS
  MaxInstalls = 3
  MaxRounds = 1
  MayDie = TRUE
CHECK_DEADLOCK FALSE
PROPERTY SerialDropsNothing
