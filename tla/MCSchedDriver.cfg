\* The driver's answers and reports beside the granular verbs and the mutex.
SPECIFICATION MutexSpec
CONSTANTS
  Core = Core
  Extra = Extra
  Legacy = Legacy
  Table = Table
  Request = Request
  NoOwner = NoOwner
  Node <- MCNode
  Deps <- MCDeps
  Disposition <- MCDisposition
  Sealed = {}
  RiskOrder <- MCRiskOrder
  Key <- MCKey
  ConflictKeys <- MCConflictKeys
  TeamSize = 1
  Transport = {Request}
  TransportOf <- MCTransportOf
  MaxPhaseRetryCycles = 1
  MaxGeneration = 1
INVARIANTS
  OfferIsAccepted
  WorkFirst
  CompletionAtRest
PROPERTY NoTheft
CHECK_DEADLOCK FALSE
