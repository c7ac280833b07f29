SPECIFICATION Spec
CONSTANTS
  canary = canary
  middle = middle
  last = last
  Targets <- MCTargets
  BatchOf <- MCBatchOf
  Required <- MCRequired
  Clis = {p, q}
  MaxCommands = 1
  p = p
  q = q
SYMMETRY MCSymmetry
CHECK_DEADLOCK FALSE
INVARIANTS
  TypeOK
  LaterBatchesWait
  ConvergedIsTruthful
PROPERTIES
  RetriesAreExplicit
  KeepsStages
