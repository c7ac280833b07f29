SPECIFICATION Spec
CONSTANTS
  MaxClock = 2
  Ahead = 1
  Skew = 1
  AssessmentLife = 1
  Lives <- MCLives
CHECK_DEADLOCK FALSE
INVARIANTS
  PassedChecksAreFresh
