SPECIFICATION FairSpec
CONSTANTS
  Callers = {c1, c2}
  Watchers = {}
  Trees = {a, b, bad}
  Valid = {a, b}
  Ops <- EveryOperation
  HasGIL = TRUE
  SerialEngine = TRUE
  MaxOps = 3
  None = None
  Handmade = Handmade
CHECK_DEADLOCK FALSE
PROPERTIES
  OperationsReturn
