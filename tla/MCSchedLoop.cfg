\* The reducer and the driver's reports under every order of them: three nodes,
\* three artifacts each.
SPECIFICATION DriveSpec
CONSTANTS
  Core = Core
  Client = Client
  Legacy = Legacy
  Node <- MCNode
  Deps <- MCDeps
  Disposition <- MCDisposition
  Sealed <- MCSealed
  RiskOrder <- MCRiskOrder
  Key = {}
  ConflictKeys <- MCConflictKeys
  TeamSize = 1
  MaxPhaseRetryCycles = 2
  MaxGeneration = 3
INVARIANTS
  TypeOK
  IndegreeCoherent
  ClosureResolved
  GreenEarned
  RegistersMatchStatus
  NeverBuilt
  BooksAreCurrent
PROPERTIES
  ResolvedIsFinal
  ImplementsContract
CHECK_DEADLOCK FALSE
