SPECIFICATION Spec
CONSTANTS
  s1 = s1
  s2 = s2
  a = a
  b = b
  n1 = n1
  n2 = n2
  x = x
  y = y
  Servers <- MCServers
  RequestIds <- MCRequestIds
  Nonces <- MCNonces
  Bindings <- MCBindings
  Requests <- MCRequests
  Keep = 1
  MaxAttempts = 3
  MaxFaults = 1
SYMMETRY MCSymmetry
CHECK_DEADLOCK FALSE
INVARIANTS
  TypeOK
  AcceptancesAreSerial
  AnswersAreTrue
  AuthorizationIsDecided
  LogKeepsTheNewest
  LogFollowsGenerations
PROPERTY DecidesSerially
