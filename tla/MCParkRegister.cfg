\* Two runs park and re-enter nodes over one register; any command may die.
SPECIFICATION Spec
CONSTANTS
  Main = Main
  Other = Other
  Shared = Shared
  Own = Own
  NewApi = NewApi
  NoProbe = NoProbe
  NoRow = NoRow
  Idle = Idle
  Run = {Main, Other}
  Node <- MCNode
  Holds <- MCHolds
  Successor = {NewApi}
INVARIANT ParkIsAudited
PROPERTY ParkedReEnters
CHECK_DEADLOCK FALSE
