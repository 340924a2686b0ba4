CONSTANTS
  Bodies <- MCBodies
  Policies <- MCPolicies
  Candidates <- MCCandidates
  LogLimit = 2
  MaxGeneration = 3
  NoPolicy = NoPolicy
SPECIFICATION Spec
INVARIANTS
  LaterSatisfiesEarlier
  RequiredKept
  PolicyBinds
CHECK_DEADLOCK FALSE
