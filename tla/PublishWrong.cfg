SPECIFICATION Spec
CONSTANTS
  Callers = {c1, c2}
  Watchers = {}
  Trees = {a, b}
  Valid = {a, b}
  Ops <- ReloadsAndLoads
  HasGIL = FALSE
  SerialEngine = TRUE
  MaxOps = 3
  None = None
  Handmade = Handmade
CHECK_DEADLOCK FALSE
INVARIANT RightModel
