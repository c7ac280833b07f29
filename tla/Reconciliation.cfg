SPECIFICATION Spec
CONSTANTS
  c1 = c1
  c2 = c2
  op1 = op1
  op2 = op2
  p = p
  q = q
  Contents = {c1, c2}
  Operations = {op1, op2}
  MaySign <- MCMaySign
  Clis = {p, q}
  MaxClock = 1
  MaxChanges = 1
  MaxInspections = 2
  Skew = 0
  Ahead = 0
  InspectionLife = 0
  ProposalLife = 1
  GateLife = 0
SYMMETRY MCSymmetry
CHECK_DEADLOCK FALSE
INVARIANTS
  TypeOK
  EffectsAnswerDrift
  OneEffectPerAssessment
  ReceiptsAreTrue
PROPERTIES
  LedgerIsHistory
