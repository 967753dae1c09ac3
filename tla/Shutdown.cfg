SPECIFICATION FairSpec
CONSTANTS
  Watchers = {w}
  Daemons = {d}
  MaxReloads = 3
  HasGIL = TRUE
  MayWedge = TRUE
  Boot = Boot
  None = None
CHECK_DEADLOCK FALSE
INVARIANTS
  NoneSlipsThrough
  ReleasedStaysEmpty
PROPERTIES
  ExitGoesThrough
