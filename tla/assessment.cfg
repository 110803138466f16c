SPECIFICATION Spec
CONSTANTS
  None = None
  s1 = s1
  s2 = s2
  f = f
  finance = finance
  other = other
  Requests = {r1}
  Actors <- MCActors
  Samples <- MCSamples
  Files <- MCFiles
  Paths <- MCPaths
  Home <- MCHome
  FilePath <- MCFilePath
  Materials <- MCMaterials
  Key <- MCKey
  Grants <- MCGrants
  FileGrant <- MCFileGrant
  Banks <- MCBanks
  Assessed = 1
  Scenarios <- MCScenarios
  Finance = finance
  MaxMoves = 1
  MaxRules = 2
INVARIANTS TypeOK ReportedWereReadable OutcomeIsAudited ResultIsJustified
PROPERTIES RuleIsStable
CHECK_DEADLOCK FALSE
