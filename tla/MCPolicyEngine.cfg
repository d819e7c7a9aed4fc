SPECIFICATION Spec
CONSTANTS
  Principals <- CallerNames
  NoPrincipal = NoPrincipal
  Anonymous <- anonymous
  Tools <- ToolSet
  Policies <- PolicySet
  NoLimit = NoLimit
  Minute = 2
  Hour = 4
  MaxTime = 7
  MaxCalls = 4
INVARIANTS
  TypeOK RatesKept RefusalsEarned GlobMeansWildcards
