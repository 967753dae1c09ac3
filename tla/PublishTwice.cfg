SPECIFICATION Spec
CONSTANTS
  Callers = {c1, c2}
  Watchers = {}
  Trees = {a}
  Valid = {a}
  Ops <- ReloadsAndLoads
  HasGIL = TRUE
  SerialEngine = TRUE
  MaxOps = 3
  None = None
  Handmade = Handmade
CHECK_DEADLOCK FALSE
INVARIANT OneGenerationPerInstall
