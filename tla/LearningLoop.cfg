SPECIFICATION FairSpec
CONSTANTS
  Hooks <- MCHooks
  Priority <- MCPriority
  Supported <- MCSupported
  Configs <- MCConfigs
  Policies <- MCPolicies
  Starts <- MCStarts
  SourceLengths = {2, 4}
  Advances = {0, 1, 2}
  NoExecution = NoExecution
  Malformed = Malformed
INVARIANTS
  LockStep
  PassMeansComplete
  TraceTellsTheRun
  DisabledForGood
PROPERTIES
  FailFastStops
  RunEnds
