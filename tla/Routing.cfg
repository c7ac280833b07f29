SPECIFICATION Spec
CONSTANTS
  RevisionIds = {"r1", "r2"}
  Policies <- MCPolicies
  SetIds = {"s1"}
  Memberships <- MCMemberships
  BindingIds = {b1, b2}
  Bindings <- MCBindings
  MaxClock = 1
  MaxPrepared = 2
  MaxGeneration = 2
  Lifetimes = {1, 11}
  Clients = {c1}
  Regions = {"eu", "us"}
  Flags = {"encryption", "manifest"}
  Candidates <- MCCandidates
  Eligibles <- MCEligibles
  Configs <- MCConfigs
  Requests <- MCRequests
  MaxTtl = 2
SYMMETRY BindingSymmetry
CHECK_DEADLOCK FALSE
INVARIANTS
  TypeOK
  ActivationsStayTrue
  ContactsObeyEverySource
  SendsUnderTheActivePolicy
