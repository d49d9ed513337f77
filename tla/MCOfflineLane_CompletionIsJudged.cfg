\* The driver calls an offline run complete while a draft has no verdict.
SPECIFICATION LaneSpec
CONSTANTS
  Core = Core
  Extra = Extra
  Legacy = Legacy
  Node <- MCNode
  Deps <- MCDeps
  Disposition <- MCDisposition
  Sealed = {}
  RiskOrder <- MCRiskOrder
  Key = {}
  ConflictKeys <- MCConflictKeys
  TeamSize = 2
  MaxPhaseRetryCycles = 2
  MaxGeneration = 4
  MaxCrashes = 1
  MaxVoids = 2
INVARIANT CompletionIsJudged
CHECK_DEADLOCK FALSE
