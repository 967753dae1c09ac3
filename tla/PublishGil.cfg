SPECIFICATION Spec
CONSTANTS
  Callers = {c1, c2}
  Watchers = {w}
  Trees = {a, b, bad}
  Valid = {a, b}
  Ops <- EveryOperation
  HasGIL = TRUE
  SerialEngine = FALSE
  MaxOps = 3
  None = None
  Handmade = Handmade
CHECK_DEADLOCK FALSE
INVARIANTS
  RightModel
  OnlyInstalledIsPublished
  LoneInstallsServe
  RejectedNeverServes
  GenerationIsBacked
PROPERTIES
  LoadAnswersItsOwn
  ImplementsLog
