\* A shape named by a person: two nodes, two models, two plans, two rows of the register.
SPECIFICATION Spec
CONSTANTS
  odd = odd
  plain = plain
  rap = rap
  cap = cap
  m1 = m1
  m2 = m2
  Node = {odd, plain}
  Shape = {rap, cap}
  Model = {m1, m2}
  None = None
  Overtaken = Overtaken
  Disposition <- MCDisposition
  Gated <- MCGated
  ClassifiedAs <- MCClassifiedAs
  Unsure = {odd, plain}
  Fact <- MCFact
  Fits <- MCFits
  MaxRuns = 2
  MaxRows = 2
SYMMETRY MCSymmetry
INVARIANTS
  ShapeSeedsContract
CHECK_DEADLOCK FALSE
