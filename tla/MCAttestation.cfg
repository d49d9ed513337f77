\* Two runs that share the register and a node: the attestation join, and that
\* an owed gate is raised in the end.
SPECIFICATION Spec
CONSTANTS
  Main = Main
  Other = Other
  Shared = Shared
  Own = Own
  NoRun = NoRun
  Run <- MCRun
  Node <- MCNode
  Holds <- MCHolds
  MaxGeneration = 1
  MaxClock = 3
INVARIANTS
  LastWordCounts
  PassWasAttested
  NoStorm
PROPERTY OwedGateIsRaised
CHECK_DEADLOCK FALSE
