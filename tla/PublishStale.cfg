SPECIFICATION Spec
CONSTANTS
  Callers = {c1, c2}
  Watchers = {}
  Trees = {a, b}
  Valid = {a, b}
  Ops <- Reloads
  HasGIL = TRUE
  SerialEngine = TRUE
  MaxOps = 3
  None = None
  Handmade = Handmade
CHECK_DEADLOCK FALSE
INVARIANT ServesInstalled
