\* A node completes on an architecture whose ratification was voided.
SPECIFICATION Spec
CONSTANTS
  Core = Core
  Client = Client
  Legacy = Legacy
  Node <- MCNode
  Deps <- MCDeps
  Disposition <- MCDisposition
  Sealed <- MCSealed
  RiskOrder <- MCRiskOrder
  Key = {}
  ConflictKeys <- MCConflictKeys
  TeamSize = 1
  MaxPhaseRetryCycles = 2
  MaxGeneration = 3
PROPERTY ArchHonoured
CHECK_DEADLOCK FALSE
