SPECIFICATION Spec
CONSTANTS
  Class <- MCClass
  Short <- MCShort
  Parsable <- MCParsable
  Documents <- MCDocuments
  Explained <- MCExplained
  Watched <- MCWatched
  Built <- MCBuilt
  Given <- MCGiven
  Divergent <- MCDivergent
  Loose <- MCLoose
  Upper <- MCUpper
  Classes <- MCClasses
  Mro <- MCMro
  FileKeys <- FieldNames
  Models <- MCModels
  Wanted <- MCWanted
  Converts <- Comparable
  Moved <- ChangedPaths
  Value <- ConvertedAt
  MaxHooks = 1
  MaxPast = 2
  NoClass = NoClass
  NoModel = NoModel
  Unknown = Unknown
INVARIANTS
  SecretsAreCovered
  ModelsFitTheirClass
  HooksHearMoves
  SourcesAreHonoured
  ReadersAnswerTheirOwn
