\* The offline lane: the retry loops end, within the budget.
SPECIFICATION LaneSpec
CONSTANTS
  Core = Core
  Extra = Extra
  Legacy = Legacy
  Node <- MCNode
  Deps <- MCDeps
  Disposition <- MCDisposition
  Sealed = {}
  RiskOrder <- MCRiskOrder
  Key = {}
  ConflictKeys <- MCConflictKeys
  TeamSize = 2
  MaxPhaseRetryCycles = 2
  MaxGeneration = 4
  MaxCrashes = 1
  MaxVoids = 2
INVARIANTS
  RetryBudget
  WedgedOnlyByLoss
  InHandIsReportable
PROPERTY LaneSettles
CHECK_DEADLOCK FALSE
