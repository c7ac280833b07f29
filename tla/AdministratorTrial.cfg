SPECIFICATION Spec
CONSTANTS
  p = p
  file1 = file1
  file2 = file2
  Clis = {p}
  EventFiles <- MCEventFiles
  OutcomeFiles <- MCOutcomeFiles
  Outputs = {file1, file2}
  MaxClock = 1
SYMMETRY PathSymmetry
CHECK_DEADLOCK FALSE
INVARIANTS
  EvidenceCountsEveryEvent
