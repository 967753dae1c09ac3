SPECIFICATION FairSpec
CONSTANTS
  MaxInstalls = 4
  MaxRounds = 2
  MayDie = TRUE
CHECK_DEADLOCK FALSE
INVARIANTS
  OneAtATime
  StartedInOrder
  SupersededAreCancelled
PROPERTIES
  NewsIsDelivered
