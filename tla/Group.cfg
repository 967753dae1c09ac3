SPECIFICATION FairSpec
CONSTANTS
  N = 2
  Callers = {c1, c2}
  Docs = {d1}
  Broken = broken
  Nothing = nothing
  MaxEdits = 1
  MaxCalls = 2
CHECK_DEADLOCK FALSE
INVARIANTS
  ReportsAreTrue
  WatchersReachable
PROPERTIES
  AllOrNothing
  CallsReturn
