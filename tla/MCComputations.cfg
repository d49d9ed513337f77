\* Everything that is computed without a state, each over all inputs of its size.
SPECIFICATION Spec
INVARIANTS
  VerdictRestsOnEvidence
  DispositionIsGrounded
  ArchitectureFits
  OrderOfTheCodeIsKept
  BatchIsSound
  CyclesAreSettled
  NothingIsPresumed
\* A judged input is the end.
CHECK_DEADLOCK FALSE
