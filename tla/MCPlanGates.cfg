\* Two nodes, two models, two plans, two rows of the register.
SPECIFICATION Spec
CONSTANTS
  odd = odd
  plain = plain
  rap = rap
  cap = cap
  m1 = m1
  m2 = m2
  Node = {odd, plain}
  Shape = {rap, cap}
  Model = {m1, m2}
  None = None
  Overtaken = Overtaken
  Disposition <- MCDisposition
  Gated <- MCGated
  ClassifiedAs <- MCClassifiedAs
  Unsure = {odd, plain}
  Fact <- MCFact
  Fits <- MCFits
  MaxRuns = 2
  MaxRows = 2
SYMMETRY MCSymmetry
INVARIANTS
  PlanFitsState
  RatificationIsReal
  NoDecisionLost
PROPERTIES
  NobodyWaitsInVain
\* With the register full and every gate answered there is nothing left to do.
CHECK_DEADLOCK FALSE
