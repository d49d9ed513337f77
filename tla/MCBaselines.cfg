\* Two runs over two shared nodes, every evidence, every crash point.
SPECIFICATION Spec
CONSTANTS
  r1 = r1
  r2 = r2
  s1 = s1
  s2 = s2
  Runs = {r1, r2}
  Sigs = {s1, s2}
  Plan <- MCPlan
  Biting = {s1}
  MaxWarns = 1
  MaxPct = 1
  Unset = Unset
  Corrupt = Corrupt
INVARIANTS
  BackedByBaselines
PROPERTIES
  OnlyTightens
CHECK_DEADLOCK FALSE
