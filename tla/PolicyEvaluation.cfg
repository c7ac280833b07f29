SPECIFICATION Spec
CONSTANTS
  Expressions <- MCExpressions
  Size <- MCSize
  Policies <- MCPolicies
  Facts <- MCFacts
  AgeFacts <- MCAgeFacts
  AllLimits <- MCLimits
  Sources <- MCSources
  MaxWorse = 2
CHECK_DEADLOCK FALSE
INVARIANTS
  AllowIsCertain
PROPERTIES
  NothingWorseWidens
